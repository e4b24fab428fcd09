------------------------- MODULE DemuxerOrderProofs -------------------------
(***************************************************************************)
(* What a client of NextData can rely on, for every tape, reader, set of   *)
(* packets and custom parser: data of a PID comes in stream order, and a   *)
(* PMT only after a PAT that announces it.                                 *)
(***************************************************************************)
EXTENDS DemuxerDataProofs

(* How long each prover may take over a leaf. *)
USE SMTT(30), ZenonT(30)

(* The invariants.                                                         *)

(* In the history data of one PID is in stream order, and what the pool    *)
(* holds for a PID comes after all of its data in the history.             *)
InOrder(h) ==
  \A k \in 1..Len(h) : \A j \in 1..(k - 1) :
    h[j].pid = h[k].pid => /\ h[j].first <= h[k].first
                           /\ h[j].kind = "PES" => h[j].first < h[k].first

OrderInv ==
  /\ InOrder(History)
  /\ \A k \in 1..Len(History) : History[k].first <= pos
  /\ \A pid \in PIDs : \A m \in 1..Len(pool[pid]), k \in 1..Len(History) :
       History[k].pid = pid => History[k].first < pool[pid][m].at
  /\ buffer = "nil" => History = <<>>

(* As long as there was no Rewind, which keeps the program map, every PID  *)
(* in it is announced in the history, and before any PMT on it.            *)
Announces(datum, pid) == \E g \in datum.programs : g.number > 0 /\ g.map = pid

AnnouncedInv ==
  rewinds = 0 =>
    /\ \A pid \in programMap :
         \E j \in 1..Len(History) : Announces(History[j], pid)
    /\ \A k \in 1..Len(History) :
         History[k].kind = "PMT" /\ History[k].pid > 31 =>
           \E j \in 1..(k - 1) : Announces(History[j], History[k].pid)

(* Data of one PID comes out of NextData in stream order, and no PES comes *)
(* out twice, whatever the stream, the parser and the calls in between     *)
(* (demuxer.go NextData, packet_pool.go add and dump).                     *)
THEOREM AlwaysInStreamOrder == DemuxSpec => []InStreamOrder
(* The fields of data have their types. *)
<1>DatumFields. ASSUME NEW h \in Seq(Data), NEW k \in 1..Len(h)
                PROVE  h[k].first \in Nat /\ h[k].pid \in PIDs /\ h[k].pid \in Nat
  <2> USE <1>DatumFields
  <2>1. h[k] \in Data
    OBVIOUS
  <2> QED
    BY <2>1, PIDsAssumption, ZenonT(60) DEF Data
(* The data of a unit, after all data of its PID from places before it. *)
<1>OrderAppends. ASSUME NEW h \in Seq(Data), NEW ds \in Seq(Data), NEW pid, NEW f \in Nat,
                        InOrder(h),
                        \A k \in 1..Len(ds) : /\ ds[k].pid = pid
                                              /\ ds[k].first = f
                                              /\ ds[k].kind = "PES" => k = Len(ds),
                        \A k \in 1..Len(h) : h[k].pid = pid => h[k].first < f
                 PROVE  InOrder(h \o ds)
  <2> USE <1>OrderAppends
  <2> DEFINE g == h \o ds
  <2>1. /\ Len(h) \in Nat /\ Len(ds) \in Nat
        /\ Len(g) = Len(h) + Len(ds)
        /\ \A k \in 1..Len(h) : g[k] = h[k]
        /\ \A k \in (Len(h) + 1)..(Len(h) + Len(ds)) :
             k - Len(h) \in 1..Len(ds) /\ g[k] = ds[k - Len(h)]
    BY ConcatElements, ZenonT(60)
  <2> HIDE DEF g
  <2>2. SUFFICES ASSUME NEW k \in 1..Len(g), NEW j \in 1..(k - 1),
                        g[j].pid = g[k].pid
                 PROVE  /\ g[j].first <= g[k].first
                        /\ g[j].kind = "PES" => g[j].first < g[k].first
    BY ZenonT(60) DEF InOrder, g
  <2>3. CASE k <= Len(h)
    <3>1. k \in 1..Len(h) /\ j \in 1..Len(h) /\ g[k] = h[k] /\ g[j] = h[j]
      BY <2>1, <2>2, <2>3
    <3> QED
      BY <2>2, <3>1 DEF InOrder
  <2>4. CASE k > Len(h) /\ j <= Len(h)
    <3>1. k - Len(h) \in 1..Len(ds) /\ g[k] = ds[k - Len(h)]
      BY <2>1, <2>2, <2>4
    <3>2. j \in 1..Len(h) /\ g[j] = h[j]
      BY <2>1, <2>2, <2>4
    <3>3. g[k].pid = pid /\ g[k].first = f
      BY <3>1
    <3>4. h[j].first \in Nat
      BY <3>2, <1>DatumFields
    <3>5. h[j].first < f
      BY <2>2, <3>2, <3>3
    <3> QED
      BY <3>2, <3>3, <3>4, <3>5
  <2>5. CASE k > Len(h) /\ j > Len(h)
    <3> DEFINE k1 == k - Len(h)
               j1 == j - Len(h)
    <3>1. k1 \in 1..Len(ds) /\ g[k] = ds[k1]
      BY <2>1, <2>2, <2>5
    <3>2. j1 \in 1..Len(ds) /\ g[j] = ds[j1] /\ j1 # Len(ds)
      BY <2>1, <2>2, <2>5
    <3> HIDE DEF k1, j1
    <3>3. g[k].first = f /\ g[j].first = f /\ g[j].kind # "PES"
      BY <3>1, <3>2
    <3> QED
      BY <3>3
  <2>6. k <= Len(h) \/ (k > Len(h) /\ j <= Len(h)) \/ (k > Len(h) /\ j > Len(h))
    BY <2>1
  <2> QED
    BY <2>3, <2>4, <2>5, <2>6, ZenonT(60)
(* A step that appends nothing, and reads one packet at most. *)
<1>OrderKept. ASSUME DemuxInv, DemuxInv', DataTypes, OrderInv, History' = History,
                     buffer = "nil" \/ pos <= pos', buffer' # "nil" \/ buffer' = buffer,
                     \A pid \in PIDs : \A m \in 1..Len(pool'[pid]) :
                       \/ buffer # "nil" => pool'[pid][m].at = pos' /\ pos' > pos
                       \/ m \in 1..Len(pool[pid]) /\ pool'[pid][m] = pool[pid][m]
              PROVE  OrderInv'
  <2> USE <1>OrderKept
  <2>1. pos \in Nat /\ pos' \in Nat
    BY DEF DemuxInv, ReaderInv
  <2>2. History \in Seq(Data) /\ \A k \in 1..Len(History) : History[k].first \in Nat
    BY HistoryIsData, <1>DatumFields
  <2>3. CASE buffer = "nil"
    <3>1. History = <<>> /\ Len(History) = 0
      BY <2>3 DEF OrderInv
    <3> QED
      BY <3>1 DEF OrderInv, InOrder
  <2>4. CASE buffer # "nil"
    <3>1. InOrder(History')
      BY DEF OrderInv
    <3>2. \A k \in 1..Len(History') : History'[k].first <= pos'
      BY <2>1, <2>2, <2>4 DEF OrderInv
    <3>3. ASSUME NEW pid \in PIDs, NEW m \in 1..Len(pool'[pid]),
                 NEW k \in 1..Len(History'), History'[k].pid = pid
          PROVE  History'[k].first < pool'[pid][m].at
      <4>1. CASE pool'[pid][m].at = pos' /\ pos' > pos
        <5>1. History[k].first <= pos
          BY DEF OrderInv
        <5> QED
          BY <2>1, <2>2, <4>1, <5>1
      <4>2. CASE m \in 1..Len(pool[pid]) /\ pool'[pid][m] = pool[pid][m]
        BY <3>3, <4>2 DEF OrderInv
      <4> QED
        BY <2>4, <4>1, <4>2
    <3>4. buffer' # "nil"
      BY <2>4
    <3> QED
      BY <3>1, <3>2, <3>3, <3>4 DEF OrderInv
  <2> QED
    BY <2>3, <2>4
(* A step that appends the data of a unit and leaves at most the packet    *)
(* just read of its PID.                                                   *)
<1>OrderAppended. ASSUME DemuxInv, DemuxInv', DataTypes, OrderInv,
                         NEW pid, NEW f, NEW ds, Appends(pid, f, ds),
                         buffer' # "nil", pos <= pos',
                         \A m \in 1..Len(pool'[pid]) :
                            pool'[pid][m].at = pos' /\ pos < pos',
                         \A x \in PIDs : x # pid => pool'[x] = pool[x]
                  PROVE  OrderInv'
  <2> USE <1>OrderAppended
  <2> DEFINE h == History
             g == h \o ds
  <2>1. pos \in Nat /\ pos' \in Nat /\ pid \in PIDs /\ f \in Nat /\ f <= pos
    BY DEF DemuxInv, ReaderInv, Appends, Takes
  <2>2. h \in Seq(Data) /\ ds \in Seq(Data)
    BY HistoryIsData DEF Appends
  <2>3. \A k \in 1..Len(h) : h[k].first \in Nat /\ h[k].first <= pos
    BY <2>2, <1>DatumFields DEF OrderInv
  <2>4. \A k \in 1..Len(h) : h[k].pid = pid => h[k].first < f
    <3>1. 1 \in 1..Len(pool[pid]) /\ pool[pid][1].at = f
      BY <2>1 DEF Appends, Takes, DemuxInv, PoolInv, PoolTypeOK
    <3> QED
      BY <2>1, <3>1 DEF OrderInv
  <2>5. /\ \A k \in 1..Len(ds) : /\ ds[k].pid = pid
                                 /\ ds[k].first = f
                                 /\ ds[k].kind = "PES" => k = Len(ds)
        /\ History' = g
        /\ InOrder(h)
    BY DEF Appends, OrderInv
  <2>6. /\ Len(h) \in Nat /\ Len(ds) \in Nat
        /\ Len(g) = Len(h) + Len(ds)
        /\ \A k \in 1..Len(h) : g[k] = h[k]
        /\ \A k \in (Len(h) + 1)..(Len(h) + Len(ds)) :
             k - Len(h) \in 1..Len(ds) /\ g[k] = ds[k - Len(h)]
    BY <2>2, ConcatElements
  <2> HIDE DEF h
  <2>7. InOrder(g)
    BY <2>1, <2>2, <2>4, <2>5, <1>OrderAppends, ZenonT(60)
  <2> HIDE DEF g
  <2>8. \A k \in 1..Len(g) : \/ k \in 1..Len(h) /\ g[k] = h[k]
                             \/ g[k].pid = pid /\ g[k].first = f
    <3> SUFFICES ASSUME NEW k \in 1..Len(g), ~(k \in 1..Len(h))
                 PROVE  g[k].pid = pid /\ g[k].first = f
      BY <2>6
    <3>1. k - Len(h) \in 1..Len(ds) /\ g[k] = ds[k - Len(h)]
      BY <2>6
    <3> QED
      BY <2>5, <3>1
  <2>9. \A k \in 1..Len(g) : g[k].first <= pos'
    BY <2>1, <2>3, <2>8
  <2>10. ASSUME NEW x \in PIDs, NEW m \in 1..Len(pool'[x]), NEW k \in 1..Len(g),
                g[k].pid = x
         PROVE  g[k].first < pool'[x][m].at
    <3>1. CASE x = pid
      <4>1. g[k].first \in Nat /\ g[k].first <= pos
        BY <2>1, <2>3, <2>8
      <4> QED
        BY <2>1, <3>1, <4>1
    <3>2. CASE x # pid
      <4>1. k \in 1..Len(h) /\ g[k] = h[k] /\ pool'[x] = pool[x]
        BY <2>8, <2>10, <3>2
      <4> QED
        BY <2>10, <4>1 DEF OrderInv, h
    <3> QED
      BY <3>1, <3>2
  <2> QED
    BY <2>5, <2>7, <2>9, <2>10 DEF OrderInv
(* Every step keeps the order. *)
<1>OrderStep. ASSUME DemuxInv, DemuxInv', DataTypes, OrderInv,
                     Idles \/ Skips \/ Adds \/ Dumps \/ Restarts
              PROVE  OrderInv'
  <2> USE <1>OrderStep
  <2>1. pos \in Nat /\ pos' \in Nat
    BY DEF DemuxInv, ReaderInv
  <2>2. CASE Idles
    BY <2>1, <2>2, <1>OrderKept DEF Idles
  <2>3. CASE Skips
    <3>1. /\ buffer # "nil" => StartPos = pos
          /\ buffer' # "nil"
          /\ StartPos \in Nat
      BY <2>3, ReadFacts DEF DemuxInv, ReaderInv, Skips
    <3>2. buffer = "nil" \/ pos <= pos'
      BY <2>1, <2>3, <3>1 DEF Skips
    <3> QED
      BY <2>3, <3>1, <3>2, <1>OrderKept DEF Skips
  <2>4. CASE Adds
    <3> DEFINE p == PacketRead
    <3>1. AddsPacket(p) /\ buffer' # "nil" /\ TakesUnit
      BY <2>4, AddsFacts, ReadFacts DEF DemuxInv, Adds
    <3> HIDE DEF p
    <3>2. buffer # "nil" => pos' = pos + 1
      BY <3>1, ZenonT(60) DEF AddsPacket
    <3>3. ASSUME History' = History PROVE OrderInv'
      <4>1. \A pid \in PIDs : \A m \in 1..Len(pool'[pid]) :
              \/ buffer # "nil" => pool'[pid][m].at = pos' /\ pos' > pos
              \/ m \in 1..Len(pool[pid]) /\ pool'[pid][m] = pool[pid][m]
        BY <2>1, <3>1, <3>2 DEF AddsPacket
      <4>2. buffer = "nil" \/ pos <= pos'
        BY <2>1, <3>2
      <4> QED
        BY <3>1, <3>3, <4>1, <4>2, <1>OrderKept
    <3>4. CASE flushed' = <<>>
      BY <3>1, <3>3, <3>4 DEF TakesUnit
    <3>5. ASSUME flushed' # <<>>, NEW ds, Appends(p.pid, flushed'[1].at, ds)
          PROVE  OrderInv'
      <4>1. pool'[p.pid] = <<p>> /\ p.at = pos' /\ p.pid \in PIDs
        BY <3>1, <3>5, ZenonT(60) DEF AddsPacket
      <4>2. buffer # "nil"
        <5>1. pool[p.pid] # <<>>
          BY <3>5 DEF Appends, Takes
        <5> QED
          BY <4>1, <5>1 DEF DemuxInv, FreshInv
      <4>3. /\ pos <= pos'
            /\ \A m \in 1..Len(pool'[p.pid]) : pool'[p.pid][m].at = pos' /\ pos < pos'
        BY <2>1, <3>2, <4>1, <4>2
      <4>4. \A x \in PIDs : x # p.pid => pool'[x] = pool[x]
        BY <3>1, ZenonT(60) DEF AddsPacket
      <4> QED
        BY <3>1, <3>5, <4>3, <4>4, <1>OrderAppended, ZenonT(60)
    <3> QED
      BY <3>1, <3>3, <3>4, <3>5, TakenAppends, ZenonT(60) DEF AddsPacket
  <2>5. CASE Dumps
    <3>1. TakesUnit /\ pos' = pos /\ buffer' = buffer /\ buffer' # "nil"
      BY <2>5 DEF Dumps
    <3>2. CASE flushed' = <<>> /\ UNCHANGED pool
      BY <2>1, <3>1, <3>2, <1>OrderKept DEF TakesUnit
    <3>3. CASE /\ flushed' # <<>>
               /\ Takes(flushed'[1].pid, flushed'[1].at)
               /\ pool' = [pool EXCEPT ![flushed'[1].pid] = <<>>]
      <4> DEFINE pid == flushed'[1].pid
      <4>1. /\ pid \in PIDs
            /\ pool'[pid] = <<>>
            /\ \A x \in PIDs : x # pid => pool'[x] = pool[x]
        BY <3>3 DEF Takes, DemuxInv, PoolInv, PoolTypeOK
      <4> HIDE DEF pid
      <4>2. ASSUME History' = History PROVE OrderInv'
        <5>1. \A x \in PIDs : \A m \in 1..Len(pool'[x]) :
                m \in 1..Len(pool[x]) /\ pool'[x][m] = pool[x][m]
          BY <4>1
        <5> QED
          BY <2>1, <3>1, <4>2, <5>1, <1>OrderKept
      <4>3. ASSUME NEW ds, Appends(pid, flushed'[1].at, ds) PROVE OrderInv'
        <5>1. \A m \in 1..Len(pool'[pid]) : pool'[pid][m].at = pos' /\ pos < pos'
          BY <4>1
        <5> QED
          BY <2>1, <3>1, <4>1, <4>3, <5>1, <1>OrderAppended
      <4> QED
        BY <3>1, <3>3, <4>2, <4>3, TakenAppends DEF pid
    <3> QED
      BY <2>5, <3>2, <3>3, DumpsFacts
  <2>6. CASE Restarts
    <3>1. Len(<<>>) = 0 /\ History' = <<>> /\ pool' = [pid \in PIDs |-> <<>>]
      BY <2>6 DEF Restarts
    <3> QED
      BY <3>1 DEF OrderInv, InOrder
  <2> QED
    BY <2>2, <2>3, <2>4, <2>5, <2>6
(* The invariant behind InStreamOrder holds in every behaviour. *)
<1>OrderInvariant. DemuxSpec => []OrderInv
  <2>1. DemuxInit => OrderInv
    <3> SUFFICES ASSUME DemuxInit PROVE OrderInv
      OBVIOUS
    <3>1. History = <<>> /\ Len(<<>>) = 0 /\ pool = [pid \in PIDs |-> <<>>]
      BY HistoryInit
    <3> QED
      BY <3>1 DEF OrderInv, InOrder
  <2>2. DemuxInv /\ DataTypes /\ OrderInv /\ DemuxInv' /\ [DemuxNext]_demuxVars
          => OrderInv'
    BY HistorySteps, <1>OrderStep
  <2> QED
    BY <2>1, <2>2, HistoryInvariant, PTL DEF DemuxSpec
<1>1. DataTypes /\ OrderInv => InStreamOrder
  <2> SUFFICES ASSUME DataTypes, OrderInv PROVE InStreamOrder
    OBVIOUS
  <2>1. /\ Len(delivered) \in Nat
        /\ DOMAIN delivered = 1..Len(delivered)
        /\ \A k \in 1..Len(delivered) : k \in 1..Len(History) /\ History[k] = delivered[k]
    BY DEF DataTypes, History
  <2>2. \A k \in 1..Len(delivered) : \A j \in 1..(k - 1) : j \in 1..Len(delivered)
    BY <2>1
  <2>3. InOrder(History)
    BY DEF OrderInv
  <2> QED
    BY <2>1, <2>2, <2>3 DEF InStreamOrder, InOrder
<1> QED
  BY <1>1, HistoryInvariant, <1>OrderInvariant, PTL

-----------------------------------------------------------------------------
(* Announcements.                                                          *)

(* As long as the demuxer was not rewound, a PMT on a PID that is not      *)
(* reserved is returned only after a PAT that announces the PID, for every *)
(* stream (data.go isPSIPayload, demuxer.go updateData).                   *)
THEOREM PMTAlwaysAfterPAT == DemuxSpec => []PMTAfterPAT
(* The data of a unit, whose PMTs are on a PID of the program map. *)
<1>AnnouncedAppended. ASSUME DataTypes, DataTypes', AnnouncedInv, rewinds' = rewinds,
                             NEW pid, NEW f, NEW ds, Appends(pid, f, ds)
                      PROVE  AnnouncedInv'
  <2> USE <1>AnnouncedAppended
  <2> SUFFICES ASSUME rewinds = 0
               PROVE  /\ \A x \in programMap' :
                           \E j \in 1..Len(History') : Announces(History'[j], x)
                      /\ \A k \in 1..Len(History') :
                           History'[k].kind = "PMT" /\ History'[k].pid > 31 =>
                             \E j \in 1..(k - 1) : Announces(History'[j], History'[k].pid)
    BY ZenonT(60) DEF AnnouncedInv
  <2> DEFINE h == History
             g == History'
  <2>1. /\ h \in Seq(Data) /\ ds \in Seq(Data) /\ g = h \o ds
        /\ programMap' = programMap \cup Announced(ds)
        /\ pid \in Nat
    BY HistoryIsData, PIDsAssumption DEF Appends, Takes
  <2>2. /\ Len(h) \in Nat /\ Len(ds) \in Nat
        /\ Len(g) = Len(h) + Len(ds)
        /\ \A k \in 1..Len(h) : g[k] = h[k]
        /\ \A k \in (Len(h) + 1)..(Len(h) + Len(ds)) :
             k - Len(h) \in 1..Len(ds) /\ g[k] = ds[k - Len(h)]
    BY <2>1, ConcatElements
  <2>3. \A x \in programMap : \E j \in 1..Len(h) : Announces(h[j], x)
    BY DEF AnnouncedInv
  <2>4. \A k \in 1..Len(h) : h[k].kind = "PMT" /\ h[k].pid > 31 =>
          \E j \in 1..(k - 1) : Announces(h[j], h[k].pid)
    BY DEF AnnouncedInv
  <2>5. \A k \in 1..Len(ds) : /\ ds[k].pid = pid
                              /\ ds[k].kind = "PMT" => isPSIPayload(pid, programMap)
    BY DEF Appends
  <2> HIDE DEF h, g
  <2>6. ASSUME NEW x \in programMap' PROVE \E j \in 1..Len(g) : Announces(g[j], x)
    <3>1. CASE x \in programMap
      <4>1. PICK j \in 1..Len(h) : Announces(h[j], x)
        BY <2>3, <3>1
      <4>2. j \in 1..Len(g) /\ g[j] = h[j]
        BY <2>2
      <4> QED
        BY <4>1, <4>2
    <3>2. CASE x \in Announced(ds)
      <4>1. PICK k \in DOMAIN ds : \E y \in ds[k].programs : y.number > 0 /\ y.map = x
        BY <3>2 DEF Announced
      <4>2. k \in 1..Len(ds) /\ Announces(ds[k], x)
        BY <2>1, <4>1 DEF Announces
      <4> DEFINE j == Len(h) + k
      <4>3. j \in 1..Len(g) /\ j \in (Len(h) + 1)..(Len(h) + Len(ds)) /\ j - Len(h) = k
        BY <2>2, <4>2
      <4> HIDE DEF j
      <4>4. g[j] = ds[k]
        BY <2>2, <4>3
      <4> QED
        BY <4>2, <4>3, <4>4
    <3> QED
      BY <2>1, <3>1, <3>2
  <2>7. ASSUME NEW k \in 1..Len(g), g[k].kind = "PMT", g[k].pid > 31
        PROVE  \E j \in 1..(k - 1) : Announces(g[j], g[k].pid)
    <3>1. CASE k \in 1..Len(h)
      <4>1. g[k] = h[k]
        BY <2>2, <3>1
      <4>2. PICK j \in 1..(k - 1) : Announces(h[j], h[k].pid)
        BY <2>4, <2>7, <3>1, <4>1
      <4>3. g[j] = h[j]
        BY <2>2, <3>1
      <4> QED
        BY <4>1, <4>2, <4>3
    <3>2. CASE ~(k \in 1..Len(h))
      <4>1. k - Len(h) \in 1..Len(ds) /\ g[k] = ds[k - Len(h)]
        BY <2>2, <3>2
      <4>2. g[k].pid = pid /\ isPSIPayload(pid, programMap)
        BY <2>5, <2>7, <4>1
      <4>3. pid \in programMap
        BY <2>1, <2>7, <4>2 DEF isPSIPayload, PIDPAT
      <4>4. PICK j \in 1..Len(h) : Announces(h[j], pid)
        BY <2>3, <4>3
      <4>5. j \in 1..(k - 1) /\ g[j] = h[j]
        BY <2>2, <3>2
      <4> QED
        BY <4>2, <4>4, <4>5
    <3> QED
      BY <3>1, <3>2
  <2> QED
    BY <2>6, <2>7 DEF g
(* Every step keeps the announcements. *)
<1>AnnouncedStep. ASSUME DemuxInv, DemuxInv', DataTypes, DataTypes', AnnouncedInv,
                         Idles \/ Skips \/ Adds \/ Dumps \/ Restarts
                  PROVE  AnnouncedInv'
  <2> USE <1>AnnouncedStep
  <2>1. ASSUME UNCHANGED <<programMap, rewinds>>, History' = History
        PROVE  AnnouncedInv'
    BY <2>1 DEF AnnouncedInv
  <2>2. CASE Idles \/ Skips
    BY <2>1, <2>2 DEF Idles, Skips
  <2>3. CASE Adds \/ Dumps
    <3>1. TakesUnit /\ rewinds' = rewinds
      BY <2>3 DEF Adds, Dumps
    <3>2. CASE flushed' = <<>>
      BY <2>1, <3>1, <3>2 DEF TakesUnit
    <3>3. CASE flushed' # <<>>
      <4>1. \E pid, f : Takes(pid, f)
        BY <2>3, <3>3, AddsFacts, DumpsFacts DEF AddsPacket
      <4> QED
        BY <2>1, <3>1, <3>3, <4>1, TakenAppends, <1>AnnouncedAppended
    <3> QED
      BY <3>2, <3>3
  <2>4. CASE Restarts
    <3>1. rewinds' # 0
      BY <2>4 DEF Restarts, DataTypes
    <3> QED
      BY <3>1 DEF AnnouncedInv
  <2> QED
    BY <2>2, <2>3, <2>4
<1>1. DemuxInit => AnnouncedInv
  <2> SUFFICES ASSUME DemuxInit PROVE AnnouncedInv
    OBVIOUS
  <2>1. History = <<>> /\ Len(<<>>) = 0 /\ programMap = {}
    BY HistoryInit
  <2> QED
    BY <2>1 DEF AnnouncedInv
<1>2. /\ DemuxInv /\ DataTypes /\ AnnouncedInv /\ DemuxInv' /\ DataTypes'
      /\ [DemuxNext]_demuxVars
      => AnnouncedInv'
  BY HistorySteps, <1>AnnouncedStep
<1>3. DataTypes /\ AnnouncedInv => PMTAfterPAT
  <2> SUFFICES ASSUME DataTypes, AnnouncedInv, rewinds = 0,
                      NEW k \in DOMAIN delivered,
                      delivered[k].kind = "PMT", delivered[k].pid > 31
               PROVE  \E j \in 1..(k - 1) : \E g \in delivered[j].programs :
                        g.number > 0 /\ g.map = delivered[k].pid
    BY DEF PMTAfterPAT
  <2>1. /\ Len(delivered) \in Nat
        /\ DOMAIN delivered = 1..Len(delivered)
        /\ \A m \in 1..Len(delivered) : m \in 1..Len(History) /\ History[m] = delivered[m]
    BY DEF DataTypes, History
  <2>2. PICK j \in 1..(k - 1) : Announces(History[j], History[k].pid)
    BY <2>1 DEF AnnouncedInv
  <2>3. j \in 1..Len(delivered)
    BY <2>1
  <2> QED
    BY <2>1, <2>2, <2>3, ZenonT(60) DEF Announces
<1> QED
  BY <1>1, <1>2, <1>3, HistoryInvariant, PTL DEF DemuxSpec

=============================================================================
