------------------------------- MODULE Muxer -------------------------------
(***************************************************************************)
(* muxer.go: the elementary streams, the cached PAT and PMT packets with   *)
(* their versions, the retransmission of the tables, and the continuity    *)
(* counters.  How WriteData cuts a PES into packets is PESPacketizer; here *)
(* a call writes some number of packets, and the writer may fail at any of *)
(* its writes; adaptation fields leave room for the PES header.  An        *)
(* optional value is a sequence of length 0 or 1.                          *)
(***************************************************************************)
EXTENDS WrappingCounter, Sequences, Functions

CONSTANTS
  PIDs,         \* the elementary PIDs in use, those that are generated included
  ExplicitPIDs, \* the ones streams are added with by the client
  VersionMod,   \* number of table versions, 32 in the code
  Period,       \* tablesRetransmitPeriod, 40 by default
  PMTRoom,      \* elementary streams a PMT of one packet has room for
  MaxStreams,   \* bound on the elementary streams
  MaxPackets,   \* bound on the packets of one call of WriteData
  MaxCounter,   \* bound on tablesRetransmitCounter
  AutoPIDs      \* streams may be added without a PID

ASSUME PIDsAssumption == PIDs \subseteq Nat /\ ExplicitPIDs \subseteq PIDs
ASSUME VersionModAssumption == VersionMod \in Nat \ {0, 1}
ASSUME MuxBoundsAssumption ==
  /\ Period \in Nat \ {0}
  /\ {PMTRoom, MaxStreams, MaxPackets, MaxCounter} \subseteq Nat
  /\ AutoPIDs \in BOOLEAN

VARIABLES
  streams,       \* the ElementaryPIDs of pmt.ElementaryStreams
  contexts,      \* esContexts: the next continuity counter of each PID
  nextPID,
  pcrPID,        \* pmt.PCRPID
  patCache,      \* patBytes, when it is a whole packet
  pmtCache,      \* pmtBytes, when it is a whole packet
  patVersion,
  pmtVersion,
  counter,       \* tablesRetransmitCounter
  emitted,       \* the PMT last written out
  generated,     \* PMTs generated since, the last one written included
  sinceTables,   \* calls that wrote data since the tables were
  lastCC         \* per PID, the counter last written out

cacheVars == <<patCache, pmtCache, patVersion, pmtVersion>>
tableVars == <<cacheVars, emitted, generated>>
streamVars == <<streams, nextPID, pcrPID>>
muxVars == <<streamVars, tableVars, contexts, counter, sinceTables, lastCC>>

Unknown == CCMod

-----------------------------------------------------------------------------

MuxInit ==
  /\ streams = <<>>
  /\ contexts = [pid \in {} |-> 0]
  /\ nextPID = 0
  /\ pcrPID = 0
  /\ patCache = <<>> /\ pmtCache = <<>>
  /\ patVersion = 0 /\ pmtVersion = 0
  /\ counter = Period
  /\ emitted = <<>> /\ generated = 0
  /\ sinceTables = 0
  /\ lastCC = [pid \in PIDs |-> Unknown]

(* The stream is appended to the PMT with a fresh context. *)
AddStream(pid) ==
  /\ Len(streams) < MaxStreams
  /\ streams' = Append(streams, pid)
  /\ contexts' = [p \in DOMAIN contexts \cup {pid} |->
                    IF p = pid THEN 0 ELSE contexts[p]]
  /\ pmtCache' = <<>>
  /\ UNCHANGED <<pcrPID, patCache, patVersion, pmtVersion, counter, emitted,
                 generated, sinceTables, lastCC>>

(* ErrPIDAlreadyExists changes nothing. *)
AddElementaryStream_unchecked(pid) ==
  pid # 0 /\ AddStream(pid) /\ UNCHANGED nextPID

AddElementaryStream(pid) ==
  /\ pid # 0 /\ pid \notin Range(streams)
  /\ AddStream(pid)
  /\ UNCHANGED nextPID

AddAutoPID == /\ AutoPIDs
              /\ nextPID \in PIDs
              /\ AddStream(nextPID)
              /\ nextPID' = nextPID + 1

(* The first stream with this PID goes; ErrPIDNotFound changes nothing. *)
RemoveElementaryStream_keepsCache(pid) ==
  \E i \in DOMAIN streams :
    /\ streams[i] = pid /\ \A j \in 1..(i - 1) : streams[j] # pid
    /\ streams' = SubSeq(streams, 1, i - 1) \o SubSeq(streams, i + 1, Len(streams))
    /\ contexts' = [p \in DOMAIN contexts \ {pid} |-> contexts[p]]
    /\ lastCC' = [lastCC EXCEPT ![pid] = Unknown]
    /\ UNCHANGED <<nextPID, pcrPID, tableVars, counter, sinceTables>>

RemoveElementaryStream(pid) ==
  \E i \in DOMAIN streams :
    /\ streams[i] = pid /\ \A j \in 1..(i - 1) : streams[j] # pid
    /\ streams' = SubSeq(streams, 1, i - 1) \o SubSeq(streams, i + 1, Len(streams))
    /\ contexts' = [p \in DOMAIN contexts \ {pid} |-> contexts[p]]
    /\ pmtCache' = <<>>
    /\ lastCC' = [lastCC EXCEPT ![pid] = Unknown]
    /\ UNCHANGED <<nextPID, pcrPID, patCache, patVersion, pmtVersion, counter,
                   emitted, generated, sinceTables>>

SetPCRPID(pid) ==
  /\ pcrPID' = pid
  /\ UNCHANGED <<streams, nextPID, tableVars, contexts, counter, sinceTables, lastCC>>

-----------------------------------------------------------------------------
(* WriteTables.  The PAT is generated once; the PMT when its cache is      *)
(* empty.  A PMT that does not fit in a packet takes a version all the     *)
(* same and leaves the cache without a whole packet.                       *)

NeedsPMT == pmtCache = <<>>
PCRPIDValid == pcrPID \in Range(streams)
PMTFits == Len(streams) <= PMTRoom
PMTReady == ~NeedsPMT \/ (PCRPIDValid /\ PMTFits)

PATVersionAfter == IF patCache = <<>> THEN Wrapped(patVersion, VersionMod) ELSE patVersion
PATAfter == IF patCache = <<>> THEN <<[version |-> patVersion]>> ELSE patCache

PMTVersionAfter_unchanged == pmtVersion

PMTVersionAfter ==
  IF NeedsPMT /\ PCRPIDValid THEN Wrapped(pmtVersion, VersionMod) ELSE pmtVersion

generatePMT == [version |-> pmtVersion, streams |-> streams, pcr |-> pcrPID]

PMTAfter == IF NeedsPMT /\ PMTReady THEN <<generatePMT>> ELSE pmtCache

GenerateTables ==
  /\ patVersion' = PATVersionAfter
  /\ patCache' = PATAfter
  /\ pmtVersion' = PMTVersionAfter
  /\ pmtCache' = PMTAfter

Generations == IF NeedsPMT /\ PCRPIDValid THEN generated + 1 ELSE generated

(* An error: the PMT cannot be made, or one of the two writes fails. *)
TablesFail == /\ GenerateTables
              /\ generated' = Generations
              /\ UNCHANGED emitted

TablesOut ==
  /\ PMTReady
  /\ GenerateTables
  /\ emitted' = PMTAfter
  /\ generated' = 0

(* WriteTables called by the client: the counter is left alone. *)
WriteTables ==
  /\ \/ TablesOut /\ sinceTables' = 0
     \/ TablesFail /\ UNCHANGED sinceTables
  /\ UNCHANGED <<streamVars, contexts, counter, lastCC>>

-----------------------------------------------------------------------------

(* retransmitTables decides. *)
TablesDue_late(pid, random) == (random /\ pid = pcrPID) \/ counter + 1 > Period

TablesDue(pid, random) == (random /\ pid = pcrPID) \/ counter + 1 >= Period

(* n packets of pid are written, and one more is tried when fails is set.  *)
Advanced(c, k) == (c + k) % CCMod

WritePackets_sharedCounter(pid, n, fails) ==
  /\ contexts' = [p \in DOMAIN contexts |-> Advanced(contexts[p], IF fails THEN n + 1 ELSE n)]
  /\ lastCC' = IF fails THEN [lastCC EXCEPT ![pid] = Unknown]
               ELSE IF n = 0 THEN lastCC
               ELSE [lastCC EXCEPT ![pid] = Advanced(contexts[pid], n - 1)]

WritePackets(pid, n, fails) ==
  /\ contexts' = [contexts EXCEPT ![pid] = Advanced(@, IF fails THEN n + 1 ELSE n)]
  /\ lastCC' = IF fails THEN [lastCC EXCEPT ![pid] = Unknown]
               ELSE IF n = 0 THEN lastCC
               ELSE [lastCC EXCEPT ![pid] = Advanced(contexts[pid], n - 1)]

(* ErrPIDNotFound changes nothing.  random is the random access indicator. *)
WriteData(pid, random, n, fails) ==
  /\ pid \in DOMAIN contexts
  /\ counter < MaxCounter
  /\ \/ /\ ~TablesDue(pid, random)
        /\ counter' = counter + 1
        /\ sinceTables' = sinceTables + 1
        /\ WritePackets(pid, n, fails)
        /\ UNCHANGED tableVars
     \/ /\ TablesDue(pid, random)
        /\ TablesOut
        /\ counter' = 0
        /\ sinceTables' = 0
        /\ WritePackets(pid, n, fails)
     \/ /\ TablesDue(pid, random)
        /\ TablesFail
        /\ counter' = counter + 1
        /\ UNCHANGED <<contexts, sinceTables, lastCC>>
  /\ UNCHANGED streamVars

MuxNext ==
  \/ \E pid \in ExplicitPIDs : AddElementaryStream(pid)
  \/ \E pid \in PIDs : RemoveElementaryStream(pid) \/ SetPCRPID(pid)
  \/ AddAutoPID
  \/ WriteTables
  \/ \E pid \in PIDs, random \in BOOLEAN, n \in 0..MaxPackets, fails \in BOOLEAN :
       WriteData(pid, random, n, fails)

MuxSpec == MuxInit /\ [][MuxNext]_muxVars

-----------------------------------------------------------------------------

(* The muxer's state has its types. *)
MuxTypeOK ==
  /\ streams \in Seq(PIDs)
  /\ DOMAIN contexts \subseteq PIDs
  /\ \A pid \in DOMAIN contexts : contexts[pid] \in 0..(CCMod - 1)
  /\ nextPID \in Nat /\ pcrPID \in Nat
  /\ patVersion \in 0..(VersionMod - 1) /\ pmtVersion \in 0..(VersionMod - 1)
  /\ counter \in Nat
  /\ lastCC \in [PIDs -> 0..CCMod]

(* retransmitTables: no data leaves the muxer before a PAT and a PMT have, *)
(* and never are there Period calls of WriteData that write data without   *)
(* the tables having been written, whatever fails in between.              *)
TablesKeepComing ==
  /\ sinceTables < Period
  /\ (\E pid \in PIDs : lastCC[pid] # Unknown) => emitted # <<>>

(* A PMT that is kept for the next retransmission lists the streams that   *)
(* exist: AddElementaryStream and RemoveElementaryStream invalidate it.    *)
PMTListsStreams == pmtCache # <<>> => pmtCache[1].streams = streams

(* data_psi.go:84: when the PMT that is written out is another one than    *)
(* before, its version is another one, unless the version counter has gone *)
(* all the way round in between.                                           *)
VersionTracksPMT ==
  [][emitted # <<>> /\ emitted' # emitted /\ Generations < VersionMod
     => emitted'[1].version # emitted[1].version]_muxVars

(* Every stream's packets are numbered consecutively whatever is done to   *)
(* other streams and to the tables in between: the next counter of a PID   *)
(* follows the one last written on it.                                     *)
StreamsNumbered ==
  \A pid \in DOMAIN contexts :
    lastCC[pid] # Unknown => contexts[pid] = (lastCC[pid] + 1) % CCMod

(* The streams of the PMT have distinct PIDs, and are those WriteData      *)
(* accepts data for, as long as no generated PID is one a client chose:    *)
(* AddElementaryStream does not compare generated PIDs with those in use.  *)
StreamsHaveContexts ==
  /\ DOMAIN contexts = Range(streams)
  /\ \A i, j \in DOMAIN streams : streams[i] = streams[j] => i = j

(* muxer.go:144 "SetPCRPID marks pid as one to look PCRs in": the PMT kept *)
(* for the next retransmission names it.                                   *)
PMTNamesPCRPID == pmtCache # <<>> => pmtCache[1].pcr = pcrPID

=============================================================================
