------------------------- MODULE DemuxerDataProofs -------------------------
(***************************************************************************)
(* What NextData returns, for every tape, reader, set of packets and       *)
(* custom parser, told as one history: what it has returned since the last *)
(* Rewind, followed by what it holds ready in dataBuffer.  Each step of    *)
(* the demuxer leaves the history as it is, forgets it, or appends the     *)
(* data of one payload unit to it.                                         *)
(***************************************************************************)
EXTENDS DemuxerProofs

(* How long each prover may take over a leaf. *)
USE SMTT(30), ZenonT(30)

Data == [pid : PIDs, kind : DataKinds, first : Nat, programs : SUBSET Programs]

History == delivered \o dataBuffer

DataTypes ==
  /\ delivered \in Seq(Data)
  /\ dataBuffer \in Seq(Data)
  /\ programMap \subseteq Nat
  /\ pc \in {"idle", "packets", "dump"}
  /\ err \in {"none", "noMorePackets", "parse"}
  /\ rewinds \in Nat

(* A unit whose first packet is p: all its data is of its PID and its      *)
(* place, and a PES is the last of it.                                     *)
UnitData(p, pm, ds) ==
  /\ ds \in Seq(Data)
  /\ \A k \in 1..Len(ds) : /\ ds[k].pid = p.pid
                           /\ ds[k].first = p.at
                           /\ ds[k].kind = "PES" => k = Len(ds)
                           /\ ds[k].kind = "PMT" => isPSIPayload(p.pid, pm)

(* What a loop of NextData does with the unit the pool returned. *)
TakesUnit ==
  \/ flushed' = <<>> /\ History' = History /\ UNCHANGED programMap
  \/ /\ flushed' # <<>>
     /\ \E o \in ParserOutcomes :
          LET r == parseData(flushed', o, programMap)
          IN  IF r.fails THEN History' = History /\ UNCHANGED programMap
              ELSE /\ History' = History \o r.ds
                   /\ programMap' = programMap \cup Announced(r.ds)

-----------------------------------------------------------------------------
(* parseData.                                                              *)

(* toData makes one datum of each section it keeps, and none is a PES. *)
TableData(p, ds) ==
  /\ ds \in Seq(Data)
  /\ \A k \in 1..Len(ds) : /\ ds[k].pid = p.pid
                           /\ ds[k].first = p.at
                           /\ ds[k].kind # "PES"

(* toData returns table data that name the unit's first packet. *)
LEMMA ToDataIsData ==
  ASSUME NEW s \in Shapes, NEW n, NEW p, p.pid \in PIDs, p.at \in Nat,
         NEW ds, ds = toData(SectionsOf(s.body), n, p)
  PROVE  TableData(p, ds)
<1> DEFINE ss == SectionsOf(s.body)
           kept == {k \in DOMAIN ss : ParsesSection(ss, n, k) /\ ss[k].table # "None"}
           Place(j) == CHOOSE k \in kept : Cardinality({m \in kept : m <= k}) = j
           N == Cardinality(kept)
           D(j) == Datum(p, ss[Place(j)].table, ss[Place(j)].programs)
<1>1. /\ ss \in Seq(Sections) /\ Len(ss) \in Nat /\ DOMAIN ss = 1..Len(ss)
      /\ \A k \in 1..Len(ss) : ss[k] \in Sections
  BY SectionsAssumption
<1>2. kept \in SUBSET Nat /\ IsFiniteSet(kept)
  <2>1. kept \in SUBSET (1..Len(ss)) /\ 1..Len(ss) \in SUBSET Nat
    BY <1>1
  <2>2. IsFiniteSet(1..Len(ss))
    BY <1>1, FS_Interval, 1 \in Int, Len(ss) \in Int
  <2> HIDE DEF kept, ss
  <2> QED
    BY <2>1, <2>2, FS_Subset, ZenonT(60)
<1>3. \A k \in kept : /\ ss[k].table \in DataKinds \ {"PES"}
                      /\ ss[k].programs \in SUBSET Programs
  <2> SUFFICES ASSUME NEW k \in kept
               PROVE  /\ ss[k].table \in DataKinds \ {"PES"}
                      /\ ss[k].programs \in SUBSET Programs
    OBVIOUS
  <2>1. k \in 1..Len(ss) /\ ss[k] \in Sections
    BY <1>1
  <2>2. ss[k].table # "None" /\ ss[k].table # "Stop"
    BY <2>1 DEF ParsesSection
  <2> QED
    BY <2>1, <2>2 DEF Sections, DataKinds
<1> HIDE DEF kept
<1>4. N \in Nat /\ \A j \in 1..N : Place(j) \in kept
  BY <1>2, RankOnto, ZenonT(60) DEF Rank
<1>5. ds = [j \in 1..N |-> D(j)]
  BY DEF toData, kept
<1> HIDE DEF N, Place, ss
<1>6. \A j \in 1..N : /\ D(j) \in Data
                      /\ D(j).pid = p.pid /\ D(j).first = p.at
                      /\ D(j).kind # "PES"
  <2> SUFFICES ASSUME NEW j \in 1..N
               PROVE  /\ D(j) \in Data
                      /\ D(j).pid = p.pid /\ D(j).first = p.at
                      /\ D(j).kind # "PES"
    OBVIOUS
  <2>1. /\ ss[Place(j)].table \in DataKinds \ {"PES"}
        /\ ss[Place(j)].programs \in SUBSET Programs
    BY <1>3, <1>4
  <2> QED
    BY <2>1 DEF Datum, Data
<1> HIDE DEF D
<1>7. ds \in Seq(Data) /\ Len(ds) = N /\ \A j \in 1..N : ds[j] = D(j)
  BY <1>4, <1>5, <1>6
<1> QED
  BY <1>6, <1>7 DEF TableData

(* What parseData returns is data of the unit. *)
LEMMA ParseIsUnitData ==
  ASSUME NEW P \in SUBSET Nat, PacketsAt(P) \in SUBSET Packets,
         NEW ps \in Seq(PacketsAt(P)), ps # <<>>,
         NEW o \in ParserOutcomes, NEW pm, ~parseData(ps, o, pm).fails
  PROVE  UnitData(ps[1], pm, parseData(ps, o, pm).ds)
<1> DEFINE p == ps[1]
           ss == SectionsOf(p.body)
           custom == [k \in 1..o.count |-> Datum(p, "Custom", {})]
           pes == Datum(p, "PES", {})
           r == parseData(ps, o, pm)
<1>1. p \in PacketsAt(P)
  OBVIOUS
<1>2. PICK s \in Shapes : p.body = s.body /\ p.at \in P
  BY <1>1 DEF PacketsAt, Tagged
<1>3. p.pid \in PIDs /\ p.at \in Nat /\ o.count \in Nat
  BY <1>1, <1>2, PacketsAssumption, ParserOutcomesAssumption, ZenonT(60)
<1>4. pes \in Data /\ pes.pid = p.pid /\ pes.first = p.at /\ pes.kind = "PES"
  BY <1>3 DEF Datum, Data, DataKinds
<1>5. /\ custom \in Seq(Data) /\ Len(custom) = o.count
      /\ \A k \in 1..o.count : /\ custom[k].pid = p.pid /\ custom[k].first = p.at
                               /\ custom[k].kind = "Custom"
  <2> DEFINE c == Datum(p, "Custom", {})
  <2>1. c \in Data /\ c.pid = p.pid /\ c.first = p.at /\ c.kind = "Custom"
    BY <1>3 DEF Datum, Data, DataKinds
  <2> HIDE DEF c
  <2>2. custom = [k \in 1..o.count |-> c]
    BY DEF c
  <2> HIDE DEF custom
  <2> QED
    BY <1>3, <2>1, <2>2, SMTT(60)
<1>6. UnitData(p, pm, custom)
  BY <1>5, ZenonT(60) DEF UnitData
<1>7. UnitData(p, pm, custom \o <<pes>>)
  <2> HIDE DEF custom, pes
  <2>1. /\ custom \o <<pes>> \in Seq(Data)
        /\ Len(custom \o <<pes>>) = o.count + 1
        /\ \A k \in 1..(o.count + 1) :
             (custom \o <<pes>>)[k] = IF k <= o.count THEN custom[k] ELSE pes
    BY <1>3, <1>4, <1>5
  <2> QED
    BY <1>3, <1>4, <1>5, <2>1 DEF UnitData
<1>8. isPSIPayload(p.pid, pm) => UnitData(p, pm, toData(ss, Len(ps), p))
  <2> DEFINE td == toData(ss, Len(ps), p)
  <2>1. td = toData(SectionsOf(s.body), Len(ps), p)
    BY <1>2
  <2> HIDE DEF td, p
  <2>2. TableData(p, td)
    BY <1>3, <2>1, ToDataIsData, ZenonT(60)
  <2> QED
    BY <2>2 DEF TableData, UnitData, td
<1>9. \/ r.ds = custom
      \/ isPSIPayload(p.pid, pm) /\ r.ds = toData(ss, Len(ps), p)
      \/ r.ds = custom \o <<pes>>
  BY ZenonT(60) DEF parseData, Parsed, Failed
<1> QED
  BY <1>6, <1>7, <1>8, <1>9, ZenonT(60)

-----------------------------------------------------------------------------
(* What a step does to the history.                                        *)

(* Nothing that the invariants are about. *)
Idles == /\ UNCHANGED <<pool, tape, pos, buffer, unseen, programMap, rewinds>>
         /\ History' = History

(* A read that does not reach the pool: the client's, or a failed one. *)
Skips == /\ UNCHANGED <<pool, tape, programMap, rewinds>>
         /\ History' = History
         /\ buffer' = BufferNow
         /\ Unseen \subseteq unseen'
         /\ \/ pos' = StartPos
            \/ /\ pos' = StartPos + 1
               /\ pos' \in unseen' \/ tape[pos'].malformed

(* A packet is read and added to the pool. *)
Adds == /\ UNCHANGED <<tape, rewinds>>
        /\ ReadsPacket
        /\ buffer' = BufferNow
        /\ pos' = StartPos + 1
        /\ unseen' = Unseen
        /\ add(PacketRead)
        /\ flushed' \in Seq(PacketsAt(FreshPlaces'))
        /\ TakesUnit

(* The next unit of the pool is dumped, at the end of the tape. *)
Dumps == /\ UNCHANGED <<tape, pos, buffer, unseen, rewinds>>
         /\ pos = Len(tape)
         /\ buffer = "ready"
         /\ dump
         /\ TakesUnit

Restarts == /\ UNCHANGED <<tape, programMap>>
            /\ rewinds' = rewinds + 1
            /\ pool' = [pid \in PIDs |-> <<>>]
            /\ buffer' = "nil"
            /\ unseen' = 1..pos'
            /\ History' = <<>>

(* The packets at fresh places are packets. *)
LEMMA FreshArePackets ==
  ASSUME ReaderInv
  PROVE  FreshPlaces \in SUBSET Nat /\ PacketsAt(FreshPlaces) \in SUBSET Packets
<1>1. FreshPlaces \subseteq 1..MaxTape
  BY BoundsAssumption DEF FreshPlaces, ReaderInv
<1>2. FreshPlaces \in SUBSET Nat
  BY <1>1, BoundsAssumption
<1> QED
  BY <1>1, <1>2, TapePacketsAssumption DEF PacketsAt, TapePackets

(* What the two loops have in common. *)
LoopTakes(from) ==
  LET Nothing == /\ UNCHANGED <<dataBuffer, programMap, delivered>>
                 /\ pc' \in {pc, "idle"}
  IN  \/ flushed' = <<>> /\ Nothing
      \/ /\ flushed' # <<>>
         /\ \E o \in ParserOutcomes :
              LET r == parseData(flushed', o, programMap)
              IN  IF r.fails THEN Nothing ELSE updateData(from, r.ds)

(* Every step is one of the five. *)
LEMMA HistorySteps ==
  ASSUME DemuxInv, DataTypes, [DemuxNext]_demuxVars
  PROVE  (Idles \/ Skips \/ Adds \/ Dumps \/ Restarts) /\ DataTypes'
(* updateData in a loop of NextData appends to the history. *)
<1>UpdateAppends. ASSUME DataTypes, dataBuffer = <<>>, NEW from, NEW ds \in Seq(Data),
                         updateData(from, ds)
                  PROVE  /\ delivered' \in Seq(Data)
                         /\ dataBuffer' \in Seq(Data)
                         /\ History' = History \o ds
                         /\ programMap' = programMap \cup Announced(ds)
                         /\ pc' \in {pc, "idle"}
  <2> USE <1>UpdateAppends
  <2>1. delivered \in Seq(Data) /\ History = delivered
    BY DEF DataTypes, History
  <2>2. CASE ds = <<>>
    <3>1. /\ UNCHANGED <<dataBuffer, pc, delivered>>
          /\ programMap' = programMap \cup Announced(ds)
      BY <2>2 DEF updateData
    <3>2. History' = History /\ History \o ds = History
      BY <2>1, <2>2, <3>1 DEF History
    <3> QED
      BY <2>1, <3>1, <3>2 DEF DataTypes
  <2>3. CASE ds # <<>>
    <3> DEFINE h == Head(ds)
               t == Tail(ds)
    <3>1. h \in Data /\ t \in Seq(Data) /\ ds = <<h>> \o t
      BY <2>3
    <3>2. /\ dataBuffer' = <<>> \o t
          /\ delivered' = delivered \o <<h>>
          /\ pc' = "idle"
          /\ programMap' = programMap \cup Announced(ds)
      BY <2>3 DEF updateData, Return
    <3> HIDE DEF h, t
    <3>3. dataBuffer' = t /\ <<h>> \in Seq(Data)
      BY <3>1, <3>2
    <3>4. delivered' \in Seq(Data)
      BY <2>1, <3>2, <3>3
    <3>5. (delivered \o <<h>>) \o t = delivered \o (<<h>> \o t)
      BY <2>1, <3>1, <3>3
    <3>6. History' = History \o ds
      BY <2>1, <3>1, <3>2, <3>3, <3>5 DEF History
    <3> QED
      BY <3>1, <3>2, <3>3, <3>4, <3>6
  <2> QED
    BY <2>2, <2>3
(* What updateData announces are PIDs. *)
<1>AnnouncedArePIDs. ASSUME NEW ds \in Seq(Data)
                     PROVE  Announced(ds) \subseteq Nat
  <2> USE <1>AnnouncedArePIDs
  <2> SUFFICES ASSUME NEW x \in Announced(ds) PROVE x \in Nat
    OBVIOUS
  <2>1. PICK k \in DOMAIN ds : \E g \in ds[k].programs : x = g.map
    BY DEF Announced
  <2>2. ds[k] \in Data
    BY <2>1
  <2> QED
    BY <2>1, <2>2 DEF Data, Programs
(* A unit that add flushes in NextData's loop is appended to the history. *)
<1>LoopTakesUnit. ASSUME DataTypes, dataBuffer = <<>>, NEW from, LoopTakes(from),
                         NEW P \in SUBSET Nat, PacketsAt(P) \in SUBSET Packets,
                         flushed' \in Seq(PacketsAt(P))
                  PROVE  /\ TakesUnit
                         /\ delivered' \in Seq(Data)
                         /\ dataBuffer' \in Seq(Data)
                         /\ programMap' \subseteq Nat
                         /\ pc' \in {pc, "idle"}
  <2> USE <1>LoopTakesUnit
  <2>1. ASSUME UNCHANGED <<dataBuffer, programMap, delivered>>
        PROVE  /\ History' = History
               /\ delivered' \in Seq(Data)
               /\ dataBuffer' \in Seq(Data)
               /\ programMap' \subseteq Nat
    BY <2>1 DEF DataTypes, History
  <2>2. CASE flushed' = <<>>
    BY <2>1, <2>2 DEF LoopTakes, TakesUnit
  <2>3. CASE flushed' # <<>>
    <3>1. PICK o \in ParserOutcomes :
            LET r == parseData(flushed', o, programMap)
            IN  IF r.fails
                THEN /\ UNCHANGED <<dataBuffer, programMap, delivered>>
                     /\ pc' \in {pc, "idle"}
                ELSE updateData(from, r.ds)
      BY <2>3 DEF LoopTakes
    <3> DEFINE r == parseData(flushed', o, programMap)
               ds == r.ds
    <3>2. CASE r.fails
      BY <2>1, <2>3, <3>1, <3>2, Zenon DEF TakesUnit
    <3>3. CASE ~r.fails
      <4>1. ds \in Seq(Data)
        BY <2>3, <3>3, ParseIsUnitData DEF UnitData
      <4>2. updateData(from, ds)
        BY <3>1, <3>3
      <4> HIDE DEF ds
      <4>3. /\ delivered' \in Seq(Data)
            /\ dataBuffer' \in Seq(Data)
            /\ History' = History \o ds
            /\ programMap' = programMap \cup Announced(ds)
            /\ pc' \in {pc, "idle"}
        BY <4>1, <4>2, <1>UpdateAppends
      <4>4. programMap' \subseteq Nat
        BY <4>1, <4>3, <1>AnnouncedArePIDs, ZenonT(60) DEF DataTypes
      <4>5. TakesUnit
        BY <2>3, <3>3, <4>3, Zenon DEF TakesUnit, ds
      <4> QED
        BY <4>3, <4>4, <4>5
    <3> QED
      BY <3>2, <3>3
  <2> QED
    BY <2>2, <2>3
(* The steps of the packet loop that add a packet. *)
<1>LoopAddsIsAdds. ASSUME DemuxInv, DataTypes, LoopStep, LoopAdds
                   PROVE  Adds /\ DataTypes'
  <2> USE <1>LoopAddsIsAdds
  <2>1. /\ UNCHANGED <<tape, rewinds, err>>
        /\ ReadsPacket
        /\ buffer' = BufferNow
        /\ pos' = StartPos + 1
        /\ unseen' = Unseen
        /\ add(PacketRead)
        /\ dataBuffer = <<>>
        /\ pc = "packets"
    BY DEF LoopStep, LoopAdds, Consume, DemuxInv, LoopInv
  <2>2. /\ ReaderInv'
        /\ flushed' \in Seq(PacketsAt(FreshPlaces'))
        /\ PacketsAt(FreshPlaces') \in SUBSET Packets
    BY LoopAddsFresh
  <2>3. FreshPlaces' \in SUBSET Nat
    BY <2>2 DEF FreshPlaces, ReaderInv
  <2>4. LoopTakes("NextData")
    <3>1. delivered \o <<>> = delivered
      BY DEF DataTypes
    <3>2. CASE flushed' = <<>>
      <4>1. UNCHANGED <<dataBuffer, programMap, pc, delivered>>
        BY <3>2 DEF LoopAdds
      <4> QED
        BY <3>2, <4>1 DEF LoopTakes
    <3>3. CASE flushed' # <<>>
      <4>1. PICK o \in ParserOutcomes :
              LET r == parseData(flushed', o, programMap)
              IN  IF r.fails
                  THEN /\ Return("NextData", <<>>, "parse")
                       /\ UNCHANGED <<dataBuffer, programMap>>
                  ELSE updateData("NextData", r.ds)
        BY <3>3 DEF LoopAdds
      <4> DEFINE r == parseData(flushed', o, programMap)
      <4>2. CASE r.fails
        <5>1. UNCHANGED <<dataBuffer, programMap, delivered>> /\ pc' = "idle"
          BY <3>1, <4>1, <4>2 DEF Return
        <5> QED
          BY <3>3, <4>2, <5>1, Zenon DEF LoopTakes
      <4>3. CASE ~r.fails
        BY <3>3, <4>1, <4>3, Zenon DEF LoopTakes
      <4> QED
        BY <4>2, <4>3
    <3> QED
      BY <3>2, <3>3
  <2>5. /\ TakesUnit
        /\ delivered' \in Seq(Data)
        /\ dataBuffer' \in Seq(Data)
        /\ programMap' \subseteq Nat
        /\ pc' \in {pc, "idle"}
    <3> DEFINE P == FreshPlaces'
    <3>1. P \in SUBSET Nat /\ PacketsAt(P) \in SUBSET Packets
          /\ flushed' \in Seq(PacketsAt(P))
      BY <2>2, <2>3
    <3> HIDE DEF P
    <3> QED
      BY <2>1, <2>4, <3>1, <1>LoopTakesUnit
  <2> QED
    BY <2>1, <2>2, <2>5 DEF Adds, DataTypes
(* The steps of the dump loop. *)
<1>DumpStepIsDumps. ASSUME DemuxInv, DataTypes, DumpStep
                    PROVE  Dumps /\ DataTypes'
  <2> USE <1>DumpStepIsDumps
  <2>1. /\ UNCHANGED <<tape, pos, buffer, unseen, rewinds>>
        /\ pos = Len(tape)
        /\ buffer = "ready"
        /\ dump
        /\ dataBuffer = <<>>
        /\ pc = "dump"
    BY DEF DumpStep, DemuxInv, LoopInv
  <2>2. FreshPlaces \in SUBSET Nat /\ PacketsAt(FreshPlaces) \in SUBSET Packets
    BY FreshArePackets DEF DemuxInv
  <2>3. flushed' \in Seq(PacketsAt(FreshPlaces))
    <3>1. <<>> \in Seq(PacketsAt(FreshPlaces))
      OBVIOUS
    <3> QED
      BY <2>1, <3>1, ZenonT(60) DEF dump, DemuxInv, FreshInv, IsFirstOccupied, Occupied
  <2>4. LoopTakes("end") /\ err' \in {err, "none", "parse"}
    <3>1. delivered \o <<>> = delivered
      BY DEF DataTypes
    <3>2. CASE flushed' = <<>>
      <4>1. UNCHANGED <<dataBuffer, programMap, delivered, err>> /\ pc' = "idle"
        BY <3>1, <3>2 DEF DumpStep, Return
      <4> QED
        BY <3>2, <4>1 DEF LoopTakes
    <3>3. CASE flushed' # <<>>
      <4>1. PICK o \in ParserOutcomes :
              LET r == parseData(flushed', o, programMap)
              IN  IF r.fails
                  THEN /\ err' = "parse"
                       /\ UNCHANGED <<dataBuffer, programMap, pc, ret, delivered>>
                  ELSE updateData("end", r.ds) /\ err' = "none"
        BY <3>3 DEF DumpStep
      <4> DEFINE r == parseData(flushed', o, programMap)
      <4>2. CASE r.fails
        <5>1. UNCHANGED <<dataBuffer, programMap, delivered, pc>> /\ err' = "parse"
          BY <4>1, <4>2
        <5> QED
          BY <3>3, <4>2, <5>1, Zenon DEF LoopTakes
      <4>3. CASE ~r.fails
        BY <3>3, <4>1, <4>3, Zenon DEF LoopTakes
      <4> QED
        BY <4>2, <4>3
    <3> QED
      BY <3>2, <3>3
  <2>5. /\ TakesUnit
        /\ delivered' \in Seq(Data)
        /\ dataBuffer' \in Seq(Data)
        /\ programMap' \subseteq Nat
        /\ pc' \in {pc, "idle"}
    BY <2>1, <2>2, <2>3, <2>4, <1>LoopTakesUnit
  <2> QED
    BY <2>1, <2>4, <2>5 DEF Dumps, DataTypes
(* The other calls of NextPacket. *)
<1>NextPacketSkips. ASSUME DemuxInv, DataTypes, NextPacket
                    PROVE  (Idles \/ Skips) /\ DataTypes'
  <2> USE <1>NextPacketSkips
  <2>1. /\ UNCHANGED <<pool, tape, dataBuffer, programMap, pc, err, delivered, rewinds>>
        /\ History' = History
        /\ DataTypes'
    BY DEF NextPacket, History, DataTypes
  <2>2. StartPos \in Nat
    BY ReadFacts DEF DemuxInv, ReaderInv
  <2>3. ASSUME NEW n \in {0, 1}, Consume(n),
               unseen' = Unseen \cup ((StartPos + 1)..pos')
        PROVE  Skips
    <3>1. buffer' = BufferNow /\ pos' = StartPos + n
      BY <2>3 DEF Consume
    <3>2. n = 1 => pos' \in unseen'
      BY <2>2, <2>3, <3>1
    <3> QED
      BY <2>1, <2>2, <2>3, <3>1, <3>2 DEF Skips
  <2>4. CASE UNCHANGED <<pos, buffer, unseen>>
    BY <2>1, <2>4 DEF Idles
  <2>5. CASE Consume(IF BufferNow = "ready" THEN 1 ELSE 0)
             /\ unseen' = Unseen \cup ((StartPos + 1)..pos')
    BY <2>1, <2>3, <2>5
  <2>6. CASE Consume(0) /\ unseen' = Unseen
    BY <2>1, <2>2, <2>6 DEF Consume, Skips
  <2>7. CASE Consume(1) /\ unseen' = Unseen \cup ((StartPos + 1)..pos')
    BY <2>1, <2>3, <2>7
  <2> QED
    BY <2>1, <2>4, <2>5, <2>6, <2>7 DEF NextPacket
(* The turns of the packet loop without a packet. *)
<1>LoopSkips. ASSUME DemuxInv, DataTypes, LoopStep, LoopFails \/ LoopEnds
              PROVE  (Idles \/ Skips) /\ DataTypes'
  <2> USE <1>LoopSkips
  <2>1. UNCHANGED <<pool, tape, dataBuffer, programMap, rewinds>>
    BY DEF LoopStep, LoopFails, LoopEnds
  <2>2. StartPos \in Nat /\ delivered \o <<>> = delivered
    BY ReadFacts DEF DemuxInv, ReaderInv, DataTypes
  <2>3. CASE LoopFails
    <3>1. UNCHANGED <<delivered, err>> /\ pc' = "idle"
      BY <2>2, <2>3 DEF LoopFails, Return
    <3>2. History' = History /\ DataTypes'
      BY <2>1, <3>1 DEF History, DataTypes
    <3>3. CASE ctxDone
      <4>1. UNCHANGED <<pos, buffer, unseen>>
        BY <2>3, <3>3 DEF LoopFails, ReadsError
      <4> QED
        BY <2>1, <3>2, <4>1 DEF Idles
    <3>4. CASE ~ctxDone
      <4>1. /\ ReadsError
            /\ Consume(IF BufferNow = "ready" THEN 1 ELSE 0)
            /\ unseen' = Unseen
        BY <2>3, <3>4 DEF LoopFails
      <4>2. CASE BufferNow = "ready"
        BY <2>1, <3>2, <4>1, <4>2 DEF Skips, ReadsError, Consume
      <4>3. CASE BufferNow # "ready"
        BY <2>1, <2>2, <3>2, <4>1, <4>3 DEF Skips, Consume
      <4> QED
        BY <3>2, <4>2, <4>3
    <3> QED
      BY <3>3, <3>4
  <2>4. CASE LoopEnds
    <3>1. /\ UNCHANGED delivered
          /\ pc' = "dump"
          /\ err' = "noMorePackets"
          /\ unseen' = Unseen
          /\ Consume(0)
      BY <2>4 DEF LoopEnds
    <3> QED
      BY <2>1, <2>2, <3>1 DEF Skips, Consume, History, DataTypes
  <2> QED
    BY <2>3, <2>4
(* What NextData returns from its buffer stays in the history. *)
<1>PopDataIdles. ASSUME DataTypes, PopData
                 PROVE  Idles /\ DataTypes'
  <2> USE <1>PopDataIdles
  <2> DEFINE h == Head(dataBuffer)
             t == Tail(dataBuffer)
  <2>1. /\ UNCHANGED <<pool, tape, pos, buffer, unseen, programMap, err, rewinds>>
        /\ dataBuffer # <<>>
        /\ dataBuffer' = t
        /\ delivered' = delivered \o <<h>>
        /\ pc' = "idle"
    BY DEF PopData, Return
  <2>2. h \in Data /\ t \in Seq(Data) /\ dataBuffer = <<h>> \o t
    BY <2>1 DEF DataTypes
  <2> HIDE DEF h, t
  <2>3. <<h>> \in Seq(Data) /\ delivered \in Seq(Data)
    BY <2>2 DEF DataTypes
  <2>4. (delivered \o <<h>>) \o t = delivered \o (<<h>> \o t)
    BY <2>2, <2>3
  <2>5. History' = History
    BY <2>1, <2>2, <2>4 DEF History
  <2>6. delivered' \in Seq(Data)
    BY <2>1, <2>3
  <2> QED
    BY <2>1, <2>2, <2>5, <2>6 DEF Idles, DataTypes
<1>1. CASE NextPacket
  BY <1>1, <1>NextPacketSkips
<1>2. CASE PopData
  BY <1>2, <1>PopDataIdles
<1>3. CASE BeginNextData
  BY <1>3 DEF BeginNextData, Idles, History, DataTypes
<1>4. CASE LoopStep
  BY <1>4, <1>LoopSkips, <1>LoopAddsIsAdds DEF LoopStep
<1>5. CASE DumpStep
  BY <1>5, <1>DumpStepIsDumps
<1>6. CASE Rewind
  <2>1. /\ UNCHANGED <<tape, programMap, pc, err>>
        /\ rewinds' = rewinds + 1
        /\ pool' = [pid \in PIDs |-> <<>>]
        /\ buffer' = "nil"
        /\ unseen' = 1..pos'
        /\ delivered' = <<>>
        /\ dataBuffer' = <<>>
    BY <1>6 DEF Rewind, RewindBuffers
  <2>2. <<>> \in Seq(Data) /\ <<>> \o <<>> = <<>>
    OBVIOUS
  <2> QED
    BY <2>1, <2>2 DEF Restarts, History, DataTypes
<1>7. CASE Cancel
  BY <1>7 DEF Cancel, Idles, History, DataTypes
<1>8. CASE UNCHANGED demuxVars
  BY <1>8 DEF demuxVars, Idles, History, DataTypes
<1> QED
  BY <1>1, <1>2, <1>3, <1>4, <1>5, <1>6, <1>7, <1>8 DEF DemuxNext

(* The state before the first call. *)
LEMMA HistoryInit ==
  ASSUME DemuxInit
  PROVE  /\ DataTypes
         /\ History = <<>>
         /\ pool = [pid \in PIDs |-> <<>>]
         /\ programMap = {}
         /\ pos = 0
         /\ unseen = {}
         /\ buffer = "nil"
<1>1. <<>> \in Seq(Data) /\ <<>> \o <<>> = <<>>
  OBVIOUS
<1> QED
  BY <1>1 DEF DemuxInit, PoolInit, DataTypes, History

(* The types of the data hold in every behaviour. *)
LEMMA HistoryInvariant == DemuxSpec => [](DemuxInv /\ DataTypes)
<1>1. DemuxInit => DataTypes
  BY HistoryInit
<1>2. DemuxInv /\ DataTypes /\ [DemuxNext]_demuxVars => DataTypes'
  BY HistorySteps
<1> QED
  BY <1>1, <1>2, DemuxInvInductive, PTL DEF DemuxSpec

(* The demuxer's state keeps its types, and the data it returns has the    *)
(* kinds data.go makes, whatever the stream and the custom parser.         *)
THEOREM DemuxTypeCorrect == DemuxSpec => []DemuxTypeOK
<1>1. DemuxInv /\ DataTypes => DemuxTypeOK
  <2> SUFFICES ASSUME DemuxInv, DataTypes PROVE DemuxTypeOK
    OBVIOUS
  <2>1. PoolTypeOK /\ pos \in 0..Len(tape) /\ buffer \in {"nil", "ready", "broken"}
    BY DEF DemuxInv, PoolInv, ReaderInv
  <2>2. \A k \in DOMAIN dataBuffer : dataBuffer[k].kind \in DataKinds
    <3>1. \A d \in Data : d.kind \in DataKinds
      BY DEF Data
    <3>2. \A k \in DOMAIN dataBuffer : dataBuffer[k] \in Data
      BY DEF DataTypes
    <3> QED
      BY <3>1, <3>2
  <2>3. unseen \subseteq 1..Len(tape)
    BY DEF DemuxInv, ReaderInv
  <2> QED
    BY <2>1, <2>2, <2>3 DEF DemuxTypeOK, DataTypes
<1> QED
  BY <1>1, HistoryInvariant, PTL

-----------------------------------------------------------------------------
(* The unit that is taken.                                                 *)

(* The unit of a PID is taken from the pool, at place f. *)
Takes(pid, f) ==
  /\ pid \in PIDs
  /\ f \in Nat
  /\ pool[pid] # <<>>
  /\ flushed' = pool[pid]
  /\ flushed'[1].pid = pid
  /\ flushed'[1].at = f
  /\ f <= pos

(* A unit that is taken is all the pool has for a PID. *)
LEMMA UnitTaken ==
  ASSUME DemuxInv, NEW pid \in PIDs, pool[pid] # <<>>, flushed' = pool[pid]
  PROVE  Takes(pid, flushed'[1].at)
<1>1. pool[pid] \in Seq(PacketsAt(FreshPlaces)) /\ 1 \in 1..Len(pool[pid])
  BY DEF DemuxInv, FreshInv
<1>2. pool[pid][1] \in PacketsAt(FreshPlaces)
  BY <1>1
<1>3. pool[pid][1].at \in FreshPlaces
  BY <1>2 DEF PacketsAt, Tagged
<1>4. pool[pid][1].pid = pid
  BY <1>1 DEF DemuxInv, PoolInv, PoolHoldsUnits, IsUnit
<1>5. \A x \in FreshPlaces : x \in Nat /\ x <= pos
  BY DEF FreshPlaces, DemuxInv, ReaderInv
<1> QED
  BY <1>3, <1>4, <1>5 DEF Takes

(* In a step that adds a packet: where it comes to lie. *)
AddsPacket(p) ==
  /\ p \in Packets
  /\ p.pid \in PIDs
  /\ p.at = pos'
  /\ p = Tagged(tape[pos'], pos')
  /\ pos' \in 1..Len(tape)
  /\ buffer # "nil" => pos' = pos + 1 /\ unseen' = unseen
  /\ \A pid \in PIDs : pid # p.pid => pool'[pid] = pool[pid]
  /\ pool'[p.pid] = AddStored(pool[p.pid], p)
  /\ flushed' = AddFlushed(pool[p.pid], p)
  /\ flushed' # <<>> => Takes(p.pid, flushed'[1].at) /\ pool'[p.pid] = <<p>>
  /\ \A pid \in PIDs : \A m \in 1..Len(pool'[pid]) :
       \/ pid = p.pid /\ pool'[pid][m] = p
       \/ m \in 1..Len(pool[pid]) /\ pool'[pid][m] = pool[pid][m]

(* What a step that adds a packet says of its places and its PID. *)
LEMMA AddsFacts ==
  ASSUME DemuxInv, DemuxInv', Adds
  PROVE  AddsPacket(PacketRead)
(* What add stores was there before, or is the packet; what it returns is  *)
(* all it had for the PID, and then only the packet is left.               *)
<1>AddElements. ASSUME NEW ps \in Seq(Packets), NEW p \in Packets
                PROVE  /\ \A m \in 1..Len(AddStored(ps, p)) :
                            \/ AddStored(ps, p)[m] = p
                            \/ m \in 1..Len(ps) /\ AddStored(ps, p)[m] = ps[m]
                       /\ AddFlushed(ps, p) # <<>> =>
                            AddFlushed(ps, p) = ps /\ AddStored(ps, p) = <<p>>
  <2> USE <1>AddElements
  <2>1. CASE Ignores(ps, p)
    BY <2>1 DEF Ignores
  <2>2. CASE Empties(ps, p)
    BY <2>2 DEF Empties
  <2>3. CASE Extends(ps, p)
    <3>1. /\ Len(Append(ps, p)) = Len(ps) + 1
          /\ \A m \in 1..Len(ps) : Append(ps, p)[m] = ps[m]
          /\ Append(ps, p)[Len(ps) + 1] = p
          /\ Len(ps) \in Nat
      OBVIOUS
    <3> QED
      BY <2>3, <3>1 DEF Extends
  <2>4. CASE Starts(ps, p)
    BY <2>4 DEF Starts, Kept
  <2> QED
    BY <2>1, <2>2, <2>3, <2>4, AddCases
<1> DEFINE p == PacketRead
<1>1. /\ StartPos \in 0..Len(tape)
      /\ StartPos < Len(tape)
      /\ pos' = StartPos + 1
      /\ Len(tape) \in Nat
      /\ buffer # "nil" => StartPos = pos /\ Unseen = unseen
      /\ pos \in Nat
  BY ReadFacts DEF DemuxInv, ReaderInv, Adds, ReadsPacket
<1>2. pos' \in 1..Len(tape) /\ p = Tagged(tape[pos'], pos') /\ p.at = pos'
  <2>1. pos' \in 1..Len(tape) /\ p = Tagged(tape[pos'], pos')
    BY <1>1 DEF PacketRead
  <2> HIDE DEF p
  <2> QED
    BY <2>1 DEF Tagged
<1>3. p \in Packets /\ p.pid \in PIDs
  <2>1. pos' \in 1..MaxTape /\ tape[pos'] \in Shapes
    BY <1>1, <1>2, BoundsAssumption DEF DemuxInv, ReaderInv
  <2>2. p \in TapePackets
    BY <1>2, <2>1 DEF TapePackets
  <2> QED
    BY <2>2, TapePacketsAssumption, PacketsAssumption
<1> HIDE DEF p
<1>4. /\ pool \in [PIDs -> Seq(Packets)]
      /\ flushed' = AddFlushed(pool[p.pid], p)
      /\ pool' = [pool EXCEPT ![p.pid] = AddStored(pool[p.pid], p)]
  BY <1>3 DEF DemuxInv, PoolInv, PoolTypeOK, Adds, add, p
<1>5. /\ pool'[p.pid] = AddStored(pool[p.pid], p)
      /\ \A pid \in PIDs : pid # p.pid => pool'[pid] = pool[pid]
      /\ pool[p.pid] \in Seq(Packets)
  BY <1>3, <1>4
<1>6. /\ \A m \in 1..Len(pool'[p.pid]) :
           \/ pool'[p.pid][m] = p
           \/ m \in 1..Len(pool[p.pid]) /\ pool'[p.pid][m] = pool[p.pid][m]
      /\ flushed' # <<>> => flushed' = pool[p.pid] /\ pool'[p.pid] = <<p>>
  BY <1>3, <1>4, <1>5, <1>AddElements
<1>7. flushed' # <<>> => Takes(p.pid, flushed'[1].at)
  BY <1>3, <1>6, UnitTaken
<1>8. buffer # "nil" => pos' = pos + 1 /\ unseen' = unseen
  BY <1>1 DEF Adds
<1>9. \A pid \in PIDs : \A m \in 1..Len(pool'[pid]) :
        \/ pid = p.pid /\ pool'[pid][m] = p
        \/ m \in 1..Len(pool[pid]) /\ pool'[pid][m] = pool[pid][m]
  BY <1>5, <1>6
<1>10. AddsPacket(p)
  BY <1>2, <1>3, <1>4, <1>5, <1>6, <1>7, <1>8, <1>9, ZenonT(60) DEF AddsPacket
<1> QED
  BY <1>10 DEF p

(* In a dump: likewise. *)
LEMMA DumpsFacts ==
  ASSUME DemuxInv, Dumps
  PROVE  \/ flushed' = <<>> /\ UNCHANGED pool
         \/ /\ flushed' # <<>>
            /\ Takes(flushed'[1].pid, flushed'[1].at)
            /\ pool' = [pool EXCEPT ![flushed'[1].pid] = <<>>]
<1>1. CASE flushed' = <<>> /\ UNCHANGED pool
  BY <1>1
<1>2. ASSUME NEW pid \in PIDs, IsFirstOccupied(pid), flushed' = pool[pid],
             pool' = [pool EXCEPT ![pid] = <<>>]
      PROVE  /\ flushed' # <<>>
             /\ Takes(flushed'[1].pid, flushed'[1].at)
             /\ pool' = [pool EXCEPT ![flushed'[1].pid] = <<>>]
  <2>1. pool[pid] # <<>>
    BY <1>2 DEF IsFirstOccupied, Occupied
  <2>2. Takes(pid, flushed'[1].at)
    BY <1>2, <2>1, UnitTaken
  <2>3. flushed'[1].pid = pid
    BY <2>2 DEF Takes
  <2> QED
    BY <1>2, <2>1, <2>2, <2>3
<1> QED
  BY <1>1, <1>2 DEF Dumps, dump

(* The data of the unit of pid at place f is appended to the history. *)
Appends(pid, f, ds) ==
  /\ Takes(pid, f)
  /\ ds \in Seq(Data)
  /\ \A k \in 1..Len(ds) : /\ ds[k].pid = pid
                           /\ ds[k].first = f
                           /\ ds[k].kind = "PES" => k = Len(ds)
                           /\ ds[k].kind = "PMT" => isPSIPayload(pid, programMap)
  /\ History' = History \o ds
  /\ programMap' = programMap \cup Announced(ds)

(* Taking a unit appends its data to the history. *)
LEMMA TakenAppends ==
  ASSUME DemuxInv, DataTypes, TakesUnit, flushed' # <<>>,
         NEW pid, NEW f, Takes(pid, f)
  PROVE  \/ History' = History /\ UNCHANGED programMap
         \/ \E ds : Appends(pid, f, ds)
<1>1. FreshPlaces \in SUBSET Nat /\ PacketsAt(FreshPlaces) \in SUBSET Packets
  BY FreshArePackets DEF DemuxInv
<1>2. flushed' \in Seq(PacketsAt(FreshPlaces))
  BY DEF Takes, DemuxInv, FreshInv
<1>3. PICK o \in ParserOutcomes :
        LET r == parseData(flushed', o, programMap)
        IN  IF r.fails THEN History' = History /\ UNCHANGED programMap
            ELSE /\ History' = History \o r.ds
                 /\ programMap' = programMap \cup Announced(r.ds)
  BY DEF TakesUnit
<1> DEFINE r == parseData(flushed', o, programMap)
<1>4. CASE r.fails
  BY <1>3, <1>4
<1>5. CASE ~r.fails
  <2>1. UnitData(flushed'[1], programMap, r.ds)
    BY <1>1, <1>2, <1>5, ParseIsUnitData
  <2>2. /\ History' = History \o r.ds
        /\ programMap' = programMap \cup Announced(r.ds)
    BY <1>3, <1>5
  <2> HIDE DEF r
  <2>3. Appends(pid, f, r.ds)
    BY <2>1, <2>2, ZenonT(60) DEF UnitData, Takes, Appends
  <2> QED
    BY <2>3
<1> QED
  BY <1>4, <1>5


(* The elements of two sequences, one after the other. *)
LEMMA ConcatElements ==
  ASSUME NEW S, NEW h \in Seq(S), NEW ds \in Seq(S)
  PROVE  /\ h \o ds \in Seq(S)
         /\ Len(h) \in Nat /\ Len(ds) \in Nat
         /\ Len(h \o ds) = Len(h) + Len(ds)
         /\ \A k \in 1..Len(h) : (h \o ds)[k] = h[k]
         /\ \A k \in (Len(h) + 1)..(Len(h) + Len(ds)) :
              k - Len(h) \in 1..Len(ds) /\ (h \o ds)[k] = ds[k - Len(h)]
OBVIOUS

(* The history is a sequence of data. *)
LEMMA HistoryIsData ==
  ASSUME DataTypes
  PROVE  History \in Seq(Data) /\ Len(History) \in Nat
BY DEF DataTypes, History

=============================================================================
