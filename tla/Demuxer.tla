------------------------------ MODULE Demuxer ------------------------------
(***************************************************************************)
(* demuxer.go and data.go: NextPacket, NextData and Rewind over the packet *)
(* pool, the program map and the buffer of parsed data.                    *)
(*                                                                         *)
(* The reader is a tape of packets and a position.  A packet record says   *)
(* at which place of the tape it was read (at) and, when it starts a       *)
(* payload unit, what the unit holds (body).  NextData is a loop: a step   *)
(* of the model is one turn of it, so a cancellation of the context may    *)
(* come between any two packets.  Optional values are sequences of length  *)
(* 0 or 1.                                                                 *)
(***************************************************************************)
EXTENDS PacketPool, FiniteSets

CONSTANTS Shapes,          \* the packets a tape is made of, without their place
          MaxTape,         \* bound on the packets of the tape
          MaxRewinds,      \* bound on the calls of Rewind
          Readers,         \* the readers a demuxer may be created on
          ParserOutcomes   \* what the custom packets parser may return

ASSUME BoundsAssumption == MaxTape \in Nat /\ MaxRewinds \in Nat

(* A reader can seek, is a bufio.Reader, or neither; sized is whether the  *)
(* option DemuxerOptPacketSize is used.                                    *)
ASSUME ReadersAssumption ==
  Readers \subseteq [kind : {"seeker", "bufio", "plain"}, sized : BOOLEAN]

(* A tape entry with malformed set is a packet parsePacket refuses. *)
Tagged(s, i) == [pid |-> s.pid, cc |-> s.cc, tei |-> s.tei,
                 hasPayload |-> s.hasPayload, pusi |-> s.pusi, disc |-> s.disc,
                 body |-> s.body, at |-> i]

TapePackets == {Tagged(s, i) : s \in Shapes, i \in 1..MaxTape}

ASSUME TapePacketsAssumption == TapePackets \subseteq Packets

VARIABLES
  reader,      \* r and optPacketSize
  tape,        \* what the reader holds
  pos,         \* how many entries of it have been read
  buffer,      \* packetBuffer: "nil", "ready", or "broken" (packet size 0)
  dataBuffer,  \* dataBuffer
  programMap,  \* the keys of programMap
  ctxDone,     \* the context has been cancelled
  pc,          \* "idle", or the loop NextData is in: "packets" or "dump"
  err,         \* the local err of NextData in its dump loop
  ret,         \* the result of the last call
  delivered,   \* what NextData has returned since the last Rewind
  unseen,      \* tape places read since the last Rewind but not by NextData
  rewinds      \* how often Rewind was called

demuxVars == <<pool, flushed, reader, tape, pos, buffer, dataBuffer, programMap,
               ctxDone, pc, err, ret, delivered, unseen, rewinds>>

-----------------------------------------------------------------------------
(* data.go: from a payload unit to data.                                   *)

PIDPAT == 0
PIDCAT == 1

isPSIPayload_anyPID(pid, pm) == pid = PIDPAT \/ pid >= 16

isPSIPayload(pid, pm) ==
  pid = PIDPAT \/ pid \in pm \/ pid \in 16..20 \/ pid \in 30..31

(* A unit's body: kind "psi" with the sections in order, "pes", or         *)
(* "other"; needs is how many packets hold a section, or the PES, to its   *)
(* declared end.  A section table is named by what toData makes of it:     *)
(* "None" is a known table without data (BAT, DIT, RST, SIT, ST, TDT) and  *)
(* "Stop" the stuffing byte 0xff or an unknown table.                      *)
Programs == [number : Nat, map : Nat]

Sections ==
  [table : {"PAT", "PMT", "NIT", "SDT", "EIT", "TOT", "None", "Stop"},
   needs : Nat, valid : BOOLEAN, programs : SUBSET Programs]

hasCRC32(table) == table \notin {"None", "Stop"}

(* What the section parser finds when bytes of another kind are on a PSI   *)
(* PID: a PES start code reads as a PAT with a wrong checksum.             *)
SectionsOf(body) ==
  CASE body.kind = "psi" -> body.sections
    [] body.kind = "pes" -> <<[table |-> "PAT", needs |-> 1, valid |-> FALSE,
                               programs |-> {}]>>
    [] body.kind = "other" -> <<>>

ASSUME SectionsAssumption ==
  \A s \in Shapes : SectionsOf(s.body) \in Seq(Sections)

ASSUME NeedsAssumption ==
  \A s \in Shapes : s.body.kind = "pes" => s.body.needs \in Nat

ASSUME ParserOutcomesAssumption == \A o \in ParserOutcomes : o.count \in Nat

(* parsePSIData gets to section k of ss with n packets of payload. *)
ParsesSection(ss, n, k) ==
  /\ \A j \in 1..k : ss[j].table # "Stop"
  /\ \A j \in 1..(k - 1) : ss[j].needs <= n

PSIFails(ss, n) ==
  \E k \in DOMAIN ss : /\ ParsesSection(ss, n, k)
                       /\ hasCRC32(ss[k].table)
                       /\ ss[k].needs > n \/ ~ss[k].valid

Datum(p, kind, programs) ==
  [pid |-> p.pid, kind |-> kind, first |-> p.at, programs |-> programs]

(* toData: one datum per parsed section that has data, in order. *)
toData(ss, n, p) ==
  LET kept == {k \in DOMAIN ss : ParsesSection(ss, n, k) /\ ss[k].table # "None"}
      Place(j) == CHOOSE k \in kept : Cardinality({m \in kept : m <= k}) = j
  IN  [j \in 1..Cardinality(kept) |->
         Datum(p, ss[Place(j)].table, ss[Place(j)].programs)]

(* The result of parseData on the unit ps, o being what the custom parser  *)
(* returned: a record of the data and of whether an error was returned.    *)
Parsed(ds) == [ds |-> ds, fails |-> FALSE]
Failed == [ds |-> <<>>, fails |-> TRUE]

parseData(ps, o, pm) ==
  LET p == ps[1]
      ss == SectionsOf(p.body)
      custom == [k \in 1..o.count |-> Datum(p, "Custom", {})]
  IN  IF o.fails THEN Failed
      ELSE IF o.skip \/ p.pid = PIDCAT THEN Parsed(custom)
      ELSE IF isPSIPayload(p.pid, pm)
           THEN IF PSIFails(ss, Len(ps)) THEN Failed
                ELSE Parsed(toData(ss, Len(ps), p))
      ELSE IF p.body.kind # "pes" THEN Parsed(custom)
      ELSE IF Len(ps) < p.body.needs THEN Failed
      ELSE Parsed(custom \o <<Datum(p, "PES", {})>>)

(* The program map after updateData: number 0 announces the NIT's PID. *)
Announced(ds) ==
  UNION {{g.map : g \in {h \in ds[k].programs : h.number > 0}} : k \in DOMAIN ds}

-----------------------------------------------------------------------------
(* packet_buffer.go, as far as NextPacket sees it.  Detecting the packet   *)
(* size takes 193 bytes, so two packets.  A reader that can neither seek   *)
(* nor peek is then moved on to the third packet.  When there are less     *)
(* than two packets the detection fails, and what it read is gone unless   *)
(* it was only peeked.                                                     *)

Detected == reader.sized \/ Len(tape) - pos >= 2

BufferNow == IF buffer # "nil" THEN buffer
             ELSE IF Detected THEN "ready" ELSE "broken"

StartPos ==
  IF buffer # "nil" \/ reader.sized \/ reader.kind = "bufio" THEN pos
  ELSE IF ~Detected THEN Len(tape)
  ELSE IF reader.kind = "seeker" THEN 0
  ELSE pos + 2

(* The outcomes of NextPacket, exclusive of each other. *)
ReadsError == /\ ~ctxDone
              /\ \/ BufferNow = "broken"
                 \/ StartPos < Len(tape) /\ tape[StartPos + 1].malformed
ReadsEnd == ~ctxDone /\ BufferNow = "ready" /\ StartPos = Len(tape)
ReadsPacket == /\ ~ctxDone
               /\ BufferNow = "ready"
               /\ StartPos < Len(tape)
               /\ ~tape[StartPos + 1].malformed

PacketRead == Tagged(tape[StartPos + 1], StartPos + 1)

(* What a call of NextPacket does to the reader; n entries are consumed. *)
Consume_oneTooMany(n) == /\ buffer' = BufferNow
                         /\ pos' = StartPos + n + 1

Consume(n) == /\ buffer' = BufferNow
              /\ pos' = StartPos + n

(* The places NextData has not seen once a call starts reading: detection  *)
(* on a seekable reader goes back to the beginning.                        *)
Unseen == IF StartPos < pos THEN {} ELSE unseen \cup ((pos + 1)..StartPos)

-----------------------------------------------------------------------------

NoParser == [fails |-> FALSE, skip |-> FALSE, count |-> 0]
NoResult == [call |-> "none", d |-> <<>>, err |-> "none"]

DemuxInit ==
  /\ PoolInit
  /\ reader \in Readers
  /\ tape \in UNION {[1..n -> Shapes] : n \in 0..MaxTape}
  /\ pos = 0
  /\ buffer = "nil"
  /\ dataBuffer = <<>>
  /\ programMap = {}
  /\ ctxDone = FALSE
  /\ pc = "idle"
  /\ err = "none"
  /\ ret = NoResult
  /\ delivered = <<>>
  /\ unseen = {}
  /\ rewinds = 0

(* NextPacket called by the client. *)
NextPacket ==
  /\ pc = "idle"
  /\ \/ /\ ctxDone
        /\ ret' = [call |-> "NextPacket", d |-> <<>>, err |-> "ctx"]
        /\ UNCHANGED <<pos, buffer, unseen>>
     \/ /\ ReadsError
        /\ ret' = [call |-> "NextPacket", d |-> <<>>, err |-> "packet"]
        /\ Consume(IF BufferNow = "ready" THEN 1 ELSE 0)
        /\ unseen' = Unseen \cup ((StartPos + 1)..pos')
     \/ /\ ReadsEnd
        /\ ret' = [call |-> "NextPacket", d |-> <<>>, err |-> "noMorePackets"]
        /\ Consume(0)
        /\ unseen' = Unseen
     \/ /\ ReadsPacket
        /\ ret' = [call |-> "NextPacket", d |-> <<>>, err |-> "none"]
        /\ Consume(1)
        /\ unseen' = Unseen \cup ((StartPos + 1)..pos')
  /\ UNCHANGED <<pool, flushed, reader, tape, dataBuffer, programMap, ctxDone,
                 pc, err, delivered, rewinds>>

(* NextData returns d (a sequence of at most one datum) and e. *)
Return(from, d, e) ==
  /\ pc' = "idle"
  /\ ret' = [call |-> from, d |-> d, err |-> e]
  /\ delivered' = delivered \o d

(* NextData answered from dataBuffer. *)
PopData ==
  /\ pc = "idle"
  /\ dataBuffer # <<>>
  /\ dataBuffer' = Tail(dataBuffer)
  /\ Return("NextData", <<Head(dataBuffer)>>, "none")
  /\ UNCHANGED <<pool, flushed, reader, tape, pos, buffer, programMap,
                 ctxDone, err, unseen, rewinds>>

(* NextData enters its packet loop. *)
BeginNextData ==
  /\ pc = "idle"
  /\ dataBuffer = <<>>
  /\ pc' = "packets"
  /\ UNCHANGED <<pool, flushed, reader, tape, pos, buffer, dataBuffer,
                 programMap, ctxDone, err, ret, delivered, unseen, rewinds>>

(* updateData, and the return or the next turn that follows it.  from is   *)
(* the loop it is called in.                                               *)
updateData(from, ds) ==
  /\ programMap' = programMap \cup Announced(ds)
  /\ IF ds = <<>> THEN UNCHANGED <<dataBuffer, pc, ret, delivered>>
     ELSE /\ dataBuffer' = dataBuffer \o Tail(ds)
          /\ Return(from, <<Head(ds)>>, "none")

(* One turn of the packet loop. *)
LoopFails ==
  /\ \/ ctxDone /\ UNCHANGED <<pos, buffer>>
     \/ ReadsError /\ Consume(IF BufferNow = "ready" THEN 1 ELSE 0)
  /\ Return("NextData", <<>>, IF ctxDone THEN "ctx" ELSE "packet")
  /\ unseen' = IF ctxDone THEN unseen ELSE Unseen
  /\ UNCHANGED <<pool, flushed, dataBuffer, programMap, err>>

LoopEnds_withoutDump ==
  /\ ReadsEnd
  /\ Consume(0)
  /\ unseen' = Unseen
  /\ Return("end", <<>>, "noMorePackets")
  /\ UNCHANGED <<pool, flushed, dataBuffer, programMap, err>>

LoopEnds ==
  /\ ReadsEnd
  /\ Consume(0)
  /\ unseen' = Unseen
  /\ pc' = "dump"
  /\ err' = "noMorePackets"
  /\ UNCHANGED <<pool, flushed, dataBuffer, programMap, ret, delivered>>

LoopAdds ==
  /\ ReadsPacket
  /\ Consume(1)
  /\ unseen' = Unseen
  /\ add(PacketRead)
  /\ \/ /\ flushed' = <<>>
        /\ UNCHANGED <<dataBuffer, programMap, pc, ret, delivered>>
     \/ /\ flushed' # <<>>
        /\ \E o \in ParserOutcomes :
             LET r == parseData(flushed', o, programMap)
             IN  IF r.fails
                 THEN /\ Return("NextData", <<>>, "parse")
                      /\ UNCHANGED <<dataBuffer, programMap>>
                 ELSE updateData("NextData", r.ds)
  /\ UNCHANGED err

LoopStep ==
  /\ pc = "packets"
  /\ LoopFails \/ LoopEnds \/ LoopAdds
  /\ UNCHANGED <<reader, tape, ctxDone, rewinds>>

(* One turn of the dump loop: its err is that of the last parseData. *)
DumpStep ==
  /\ pc = "dump"
  /\ dump
  /\ \/ /\ flushed' = <<>>
        /\ Return("end", <<>>, err)
        /\ UNCHANGED <<dataBuffer, programMap, err>>
     \/ /\ flushed' # <<>>
        /\ \E o \in ParserOutcomes :
             LET r == parseData(flushed', o, programMap)
             IN  IF r.fails
                 THEN /\ err' = "parse"
                      /\ UNCHANGED <<dataBuffer, programMap, pc, ret, delivered>>
                 ELSE updateData("end", r.ds) /\ err' = "none"
  /\ UNCHANGED <<reader, tape, pos, buffer, ctxDone, unseen, rewinds>>

(* Rewind drops what is buffered even when seeking fails or the reader     *)
(* cannot seek; the program map stays.                                     *)
RewindBuffers_keepsPool ==
  /\ dataBuffer' = <<>>
  /\ buffer' = "nil"
  /\ flushed' = <<>>
  /\ UNCHANGED pool

RewindBuffers ==
  /\ dataBuffer' = <<>>
  /\ buffer' = "nil"
  /\ pool' = [pid \in PIDs |-> <<>>]
  /\ flushed' = <<>>

Rewind ==
  /\ pc = "idle"
  /\ rewinds < MaxRewinds
  /\ rewinds' = rewinds + 1
  /\ RewindBuffers
  /\ \/ /\ pos' = IF reader.kind = "seeker" THEN 0 ELSE pos
        /\ ret' = [call |-> "Rewind", d |-> <<>>, err |-> "none"]
     \/ /\ reader.kind = "seeker"
        /\ pos' = pos
        /\ ret' = [call |-> "Rewind", d |-> <<>>, err |-> "seek"]
  /\ delivered' = <<>>
  /\ unseen' = 1..pos'
  /\ UNCHANGED <<reader, tape, programMap, ctxDone, pc, err>>

(* The context is cancelled by another goroutine, at any time. *)
Cancel ==
  /\ ~ctxDone
  /\ ctxDone' = TRUE
  /\ UNCHANGED <<pool, flushed, reader, tape, pos, buffer, dataBuffer,
                 programMap, pc, err, ret, delivered, unseen, rewinds>>

DemuxNext == \/ NextPacket \/ PopData \/ BeginNextData \/ LoopStep
             \/ DumpStep \/ Rewind \/ Cancel

DemuxSpec == DemuxInit /\ [][DemuxNext]_demuxVars

(* A call that has begun is carried on, and the client goes on asking.     *)
DemuxFairSpec == /\ DemuxSpec
                 /\ WF_demuxVars(LoopStep)
                 /\ WF_demuxVars(DumpStep)
                 /\ WF_demuxVars(PopData)
                 /\ WF_demuxVars(BeginNextData)

-----------------------------------------------------------------------------

DataKinds == {"PAT", "PMT", "NIT", "SDT", "EIT", "TOT", "PES", "Custom"}

(* The demuxer's state has its types. *)
DemuxTypeOK ==
  /\ PoolTypeOK
  /\ pos \in 0..Len(tape)
  /\ buffer \in {"nil", "ready", "broken"}
  /\ \A k \in DOMAIN dataBuffer : dataBuffer[k].kind \in DataKinds
  /\ programMap \subseteq Nat
  /\ pc \in {"idle", "packets", "dump"}
  /\ err \in {"none", "noMorePackets", "parse"}
  /\ unseen \subseteq 1..Len(tape)

(* Nothing read before a Rewind, and nothing the client took out itself    *)
(* with NextPacket, is left in the pool or in the data buffer: what        *)
(* NextData will return was read by NextData since the last Rewind.        *)
NothingStale ==
  LET Fresh(i) == i <= pos /\ i \notin unseen
  IN  /\ \A pid \in PIDs : \A k \in DOMAIN pool[pid] : Fresh(pool[pid][k].at)
      /\ \A k \in DOMAIN dataBuffer : Fresh(dataBuffer[k].first)

(* ErrNoMorePackets from NextData is final: it is only returned when the   *)
(* pool and the data buffer have been handed out (NextData's dump loop).   *)
EndIsFinal ==
  ret.call = "end" /\ ret.err = "noMorePackets" =>
    Occupied = {} /\ dataBuffer = <<>>

(* Data of one PID comes out in stream order, and no PES comes out twice,  *)
(* whether it was completed in the packet loop or dumped at the end.       *)
InStreamOrder ==
  \A k \in DOMAIN delivered : \A j \in 1..(k - 1) :
    delivered[j].pid = delivered[k].pid =>
      /\ delivered[j].first <= delivered[k].first
      /\ delivered[j].kind = "PES" => delivered[j].first < delivered[k].first

(* A PMT on a PID that is not reserved is recognised only after a PAT      *)
(* that announces its PID as a program's (isPSIPayload, updateData).       *)
PMTAfterPAT ==
  \A k \in DOMAIN delivered :
    /\ rewinds = 0
    /\ delivered[k].kind = "PMT"
    /\ delivered[k].pid > 31
    => \E j \in 1..(k - 1) : \E g \in delivered[j].programs :
         g.number > 0 /\ g.map = delivered[k].pid

(* Places of the tape that carry payload of the PID at i. *)
Carries(i, pid) == /\ ~tape[i].malformed
                   /\ ~tape[i].tei
                   /\ tape[i].hasPayload
                   /\ tape[i].pid = pid

Later(i) == {j \in (i + 1)..Len(tape) : Carries(j, tape[i].pid)}

NextStart(i) ==
  LET starts == {j \in Later(i) : tape[j].pusi}
  IN  IF starts = {} THEN Len(tape) + 1
      ELSE CHOOSE j \in starts : \A k \in starts : j <= k

(* The packets of the unit that starts at i, and the next start of its PID. *)
Run(i) == {i} \cup {j \in Later(i) : j <= NextStart(i)}

(* The unit is whole on the tape: nothing is missing or flagged up to and  *)
(* including the next start of its PID.                                    *)
Unbroken(i) ==
  /\ Carries(i, tape[i].pid) /\ tape[i].pusi
  /\ \A j \in Run(i) \ {i} :
       LET before == CHOOSE k \in Run(i) : k < j /\ \A m \in Run(i) : m < j => m <= k
       IN  ~tape[j].disc /\ tape[j].cc = NextCC(tape[before].cc)
  /\ \A j \in i..Len(tape) :       \* nor a packet without payload in between
       /\ j < NextStart(i) /\ ~tape[j].malformed /\ ~tape[j].tei
       /\ tape[j].pid = tape[i].pid
       => tape[j].hasPayload
  /\ Cardinality(Run(i) \ {NextStart(i)}) >= tape[i].body.needs

(* It also reached NextData whole. *)
ArrivesWhole(i) == Unbroken(i) /\ Run(i) \cap unseen = {}

(* When NextData has returned ErrNoMorePackets, every PES that arrived     *)
(* whole on a PID that is no PSI PID has been returned, the ones that were *)
(* still in the pool at the end of the stream included.                    *)
PESComplete ==
  ret.call = "end" /\ ret.err = "noMorePackets" =>
    \A i \in DOMAIN tape :
      /\ ArrivesWhole(i)
      /\ tape[i].body.kind = "pes"
      /\ tape[i].pid # PIDCAT /\ ~isPSIPayload(tape[i].pid, programMap)
      => \E k \in DOMAIN delivered :
           delivered[k].first = i /\ delivered[k].kind = "PES"

(* A client that keeps calling NextData gets to the end of the stream over *)
(* and over, whatever the stream holds and whatever it calls in between,   *)
(* unless it cancels the context or the packet size cannot be detected.    *)
EndIsReached ==
  \/ []<>(ret.call = "end" /\ ret.err = "noMorePackets")
  \/ <>(ctxDone \/ buffer = "broken")

(* demuxer_test.go:82 "No more packets", and demuxer.go:123 "We need to     *)
(* silence this error": once the stream has ended a call of NextData that  *)
(* returns no data returns ErrNoMorePackets.                               *)
EndReported == ret.call = "end" => ret.d # <<>> \/ ret.err = "noMorePackets"

=============================================================================
