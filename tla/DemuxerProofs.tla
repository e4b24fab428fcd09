--------------------------- MODULE DemuxerProofs ---------------------------
(***************************************************************************)
(* For every tape, reader, set of packets and custom parser: NextData      *)
(* never holds anything from before a Rewind or from a NextPacket, and     *)
(* when it reports the end of the stream nothing is left to be returned.   *)
(***************************************************************************)
EXTENDS Demuxer, PacketPoolProofs, FiniteSetTheorems

(* How long each prover may take over a leaf. *)
USE SMTT(30), ZenonT(30)

(* Finite sets of numbers, such as the places of sections in a unit and of *)
(* packets on the tape, in increasing order.                               *)

(* The place of k in the order of K. *)
Rank(K, k) == Cardinality({m \in K : m <= k})

(* The elements of a finite set are counted by their ranks, in order. *)
LEMMA RankOnto ==
  ASSUME NEW K \in SUBSET Nat, IsFiniteSet(K)
  PROVE  /\ Cardinality(K) \in Nat
         /\ \A k \in K : Rank(K, k) \in 1..Cardinality(K)
         /\ \A k, j \in K : k < j => Rank(K, k) < Rank(K, j)
         /\ \A n \in 1..Cardinality(K) : \E k \in K : Rank(K, k) = n
<1> DEFINE Below(k) == {m \in K : m <= k}
           N == Cardinality(K)
           r == [k \in K |-> Cardinality(Below(k))]
<1>1. /\ N \in Nat
      /\ \A k \in K : /\ IsFiniteSet(Below(k)) /\ Cardinality(Below(k)) \in Nat
                      /\ Cardinality(Below(k)) <= N
  BY FS_Subset, FS_CardinalityType, \A k \in K : Below(k) \in SUBSET K
<1>2. \A k \in K : Cardinality(Below(k)) # 0
  <2> SUFFICES ASSUME NEW k \in K, Cardinality(Below(k)) = 0 PROVE FALSE
    OBVIOUS
  <2>1. Below(k) = {}
    BY <1>1, FS_EmptySet
  <2>2. k \in Below(k)
    OBVIOUS
  <2> QED
    BY <2>1, <2>2
<1>3. \A k, j \in K : k < j => Cardinality(Below(k)) < Cardinality(Below(j))
  <2> SUFFICES ASSUME NEW k \in K, NEW j \in K, k < j
               PROVE  Cardinality(Below(k)) < Cardinality(Below(j))
    OBVIOUS
  <2>1. Below(k) \in SUBSET Below(j) /\ j \in Below(j) /\ j \notin Below(k)
    <3>1. k \in Nat /\ j \in Nat /\ \A m \in K : m \in Nat
      OBVIOUS
    <3>2. \A m \in K : m <= k => m <= j
      BY <3>1
    <3>3. j <= j /\ ~(j <= k)
      BY <3>1
    <3> QED BY <3>2, <3>3, Zenon
  <2>2. /\ Cardinality(Below(k)) <= Cardinality(Below(j))
        /\ Cardinality(Below(j)) # Cardinality(Below(k))
    <3> HIDE DEF Below
    <3> QED BY <1>1, <2>1, FS_Subset
  <2> QED
    BY <1>1, <2>2
<1>4. r \in Injection(K, 1..N)
  <2>1. r \in [K -> 1..N]
    BY <1>1, <1>2
  <2>2. \A k, j \in K : r[k] = r[j] => k = j
    <3> SUFFICES ASSUME NEW k \in K, NEW j \in K, r[k] = r[j], k # j PROVE FALSE
      OBVIOUS
    <3>1. k < j \/ j < k
      OBVIOUS
    <3>2. r[k] \in Nat /\ r[j] \in Nat
      BY <1>1
    <3>3. r[k] < r[j] \/ r[j] < r[k]
      BY <1>3, <3>1
    <3> QED BY <3>2, <3>3
  <2> HIDE DEF r
  <2> QED
    BY <2>1, <2>2 DEF Injection, IsInjective
<1>5. r \in Surjection(K, 1..N)
  <2>1. IsFiniteSet(1..N) /\ Cardinality(1..N) = N
    BY <1>1, FS_Interval, 1 \in Int, N \in Int
  <2> HIDE DEF r, N
  <2> QED
    BY <1>4, <2>1, FS_Injection DEF N
<1>6. \A n \in 1..N : \E k \in K : r[k] = n
  <2> HIDE DEF r, N
  <2> QED BY <1>5 DEF Surjection
<1> QED
  BY <1>1, <1>2, <1>3, <1>6 DEF Rank

(* A finite set of numbers has a least element. *)
LEMMA FiniteMin ==
  ASSUME NEW K \in SUBSET Nat, IsFiniteSet(K), K # {}
  PROVE  \E k \in K : \A j \in K : k <= j
<1>1. Cardinality(K) \in Nat \ {0}
  BY FS_CardinalityType, FS_EmptySet
<1>2. 1 \in 1..Cardinality(K)
  BY <1>1
<1>3. PICK k \in K : Rank(K, k) = 1
  BY <1>2, RankOnto
<1>4. ASSUME NEW j \in K, j < k PROVE FALSE
  <2>1. Rank(K, j) < Rank(K, k) /\ Rank(K, j) \in 1..Cardinality(K)
    BY <1>4, RankOnto
  <2> QED BY <1>1, <1>3, <2>1
<1> QED
  BY <1>4

-----------------------------------------------------------------------------

(* The places of the tape NextData has read since the last Rewind, and     *)
(* the packets there.                                                      *)
FreshPlaces == (1..pos) \ unseen

PacketsAt(P) == {Tagged(s, i) : s \in Shapes, i \in P}

(* ds is a sequence of data of units that start at places in P. *)
DataFrom(P, ds) == /\ ds \in Seq({ds[k] : k \in DOMAIN ds})
                   /\ \A k \in DOMAIN ds : ds[k].first \in P

(* The reader's part of the inductive invariant. *)
ReaderInv ==
  /\ reader \in Readers
  /\ tape \in Seq(Shapes)
  /\ Len(tape) <= MaxTape
  /\ pos \in 0..Len(tape)
  /\ unseen \subseteq 1..pos
  /\ buffer \in {"nil", "ready", "broken"}

(* What is buffered is fresh, and a demuxer without a packet buffer has    *)
(* buffered nothing.                                                       *)
FreshInv ==
  /\ pool \in [PIDs -> Seq(PacketsAt(FreshPlaces))]
  /\ DataFrom(FreshPlaces, dataBuffer)
  /\ buffer = "nil" => pool = [pid \in PIDs |-> <<>>] /\ dataBuffer = <<>>

(* The loops of NextData run with an empty data buffer, and the dump loop  *)
(* runs at the end of the stream.                                          *)
LoopInv ==
  /\ pc # "idle" => dataBuffer = <<>>
  /\ pc = "dump" \/ ret.call = "end" => buffer = "ready" /\ pos = Len(tape)

DemuxInv == PoolInv /\ ReaderInv /\ FreshInv /\ LoopInv /\ EndIsFinal

-----------------------------------------------------------------------------

(* The empty sequence, the rest of a sequence, and a larger set of places. *)
LEMMA DataFromEmpty == \A P : DataFrom(P, <<>>)
BY DEF DataFrom

(* Data from some places are data from any larger set of places. *)
LEMMA DataFromMore ==
  ASSUME NEW P, NEW Q, NEW ds, DataFrom(P, ds), P \subseteq Q
  PROVE  DataFrom(Q, ds)
BY DEF DataFrom

-----------------------------------------------------------------------------

(* Where a read starts (packet_buffer.go, NextPacket). *)
LEMMA ReadFacts ==
  ASSUME ReaderInv
  PROVE  /\ StartPos \in 0..Len(tape)
         /\ Unseen \subseteq 1..StartPos
         /\ BufferNow \in {"ready", "broken"}
         /\ buffer # "nil" => /\ StartPos = pos
                              /\ Unseen = unseen
                              /\ BufferNow = buffer
<1>1. Len(tape) \in Nat /\ pos \in 0..Len(tape) /\ unseen \subseteq 1..pos
  BY DEF ReaderInv
<1>2. StartPos \in 0..Len(tape)
  BY <1>1 DEF StartPos, Detected
<1>3. Unseen \subseteq 1..StartPos
  <2>1. CASE StartPos < pos
    BY <2>1 DEF Unseen
  <2>2. CASE ~(StartPos < pos)
    <3>1. unseen \subseteq 1..StartPos /\ (pos + 1)..StartPos \subseteq 1..StartPos
      BY <1>1, <1>2, <2>2
    <3> QED
      BY <2>2, <3>1, ZenonT(60) DEF Unseen
  <2> QED
    BY <2>1, <2>2
<1>4. BufferNow \in {"ready", "broken"}
  BY DEF ReaderInv, BufferNow
<1>5. ASSUME buffer # "nil"
      PROVE  StartPos = pos /\ Unseen = unseen /\ BufferNow = buffer
  <2>1. StartPos = pos /\ BufferNow = buffer
    BY <1>5 DEF StartPos, BufferNow
  <2>2. (pos + 1)..pos = {}
    BY <1>1
  <2> QED
    BY <1>1, <2>1, <2>2 DEF Unseen
<1> QED
  BY <1>2, <1>3, <1>4, <1>5

(* What is buffered stays fresh when a packet is read. *)
LEMMA ReadKeepsFresh ==
  ASSUME ReaderInv, FreshInv, UNCHANGED <<reader, tape>>,
         buffer' = BufferNow,
         pos' \in StartPos..Len(tape),
         unseen' \subseteq Unseen \cup ((StartPos + 1)..pos')
  PROVE  /\ ReaderInv'
         /\ buffer' # "nil"
         /\ pool \in [PIDs -> Seq(PacketsAt(FreshPlaces'))]
         /\ DataFrom(FreshPlaces', dataBuffer)
<1>1. /\ StartPos \in 0..Len(tape)
      /\ Unseen \subseteq 1..StartPos
      /\ buffer' \in {"ready", "broken"}
      /\ Len(tape) \in Nat
  BY ReadFacts DEF ReaderInv
<1>2. ReaderInv'
  BY <1>1 DEF ReaderInv
<1>3. CASE buffer = "nil"
  <2>1. pool = [pid \in PIDs |-> <<>>] /\ dataBuffer = <<>>
    BY <1>3 DEF FreshInv
  <2> QED
    BY <1>1, <1>2, <2>1, DataFromEmpty
<1>4. CASE buffer # "nil"
  <2>1. StartPos = pos /\ Unseen = unseen
    BY <1>4, ReadFacts
  <2>2. FreshPlaces \subseteq FreshPlaces'
    BY <1>1, <2>1 DEF FreshPlaces, ReaderInv
  <2>3. PacketsAt(FreshPlaces) \subseteq PacketsAt(FreshPlaces')
    BY <2>2 DEF PacketsAt
  <2>4. pool \in [PIDs -> Seq(PacketsAt(FreshPlaces'))]
    BY <2>3 DEF FreshInv
  <2> QED
    BY <1>1, <1>2, <2>2, <2>4, DataFromMore DEF FreshInv
<1> QED
  BY <1>3, <1>4

(* What NextPacket returns to NextData is fresh. *)
LEMMA ReadIsFresh ==
  ASSUME ReaderInv, ReadsPacket, pos' = StartPos + 1, unseen' = Unseen
  PROVE  PacketRead \in PacketsAt(FreshPlaces')
<1>1. /\ StartPos \in 0..Len(tape)
      /\ Unseen \subseteq 1..StartPos
      /\ StartPos < Len(tape)
  BY ReadFacts DEF ReadsPacket
<1>2. StartPos + 1 \in FreshPlaces'
  BY <1>1 DEF FreshPlaces
<1>3. tape[StartPos + 1] \in Shapes
  BY <1>1 DEF ReaderInv
<1> QED
  BY <1>2, <1>3 DEF PacketRead, PacketsAt

-----------------------------------------------------------------------------
(* Every action keeps the invariant.                                       *)

(* A turn that adds a packet to the pool: what is buffered and what is     *)
(* handed over to the parser is fresh.                                     *)
LEMMA LoopAddsFresh ==
  ASSUME DemuxInv, LoopStep, LoopAdds
  PROVE  /\ ReaderInv'
         /\ buffer' # "nil"
         /\ PacketRead \in PacketsAt(FreshPlaces')
         /\ PacketsAt(FreshPlaces') \in SUBSET Packets
         /\ pool' \in [PIDs -> Seq(PacketsAt(FreshPlaces'))]
         /\ flushed' \in Seq(PacketsAt(FreshPlaces'))
<1> DEFINE P == FreshPlaces'
           p == PacketRead
<1>1. /\ UNCHANGED <<reader, tape>>
      /\ ReadsPacket
      /\ buffer' = BufferNow
      /\ pos' = StartPos + 1
      /\ unseen' = Unseen
      /\ add(p)
  BY DEF LoopStep, LoopAdds, Consume
<1>2. pos' \in StartPos..Len(tape)
  BY <1>1, ReadFacts DEF ReadsPacket, DemuxInv, ReaderInv
<1>3. /\ ReaderInv'
      /\ buffer' # "nil"
      /\ pool \in [PIDs -> Seq(PacketsAt(P))]
  BY <1>1, <1>2, ReadKeepsFresh DEF DemuxInv
<1>4. p \in PacketsAt(P) /\ PacketsAt(P) \in SUBSET Packets
  <2>1. PacketsAt(FreshPlaces') \in SUBSET Packets
    <3>1. FreshPlaces' \subseteq 1..MaxTape
      BY <1>3, BoundsAssumption DEF FreshPlaces, ReaderInv
    <3> QED
      BY <3>1, TapePacketsAssumption DEF PacketsAt, TapePackets
  <2> QED
    BY <1>1, <2>1, ReadIsFresh DEF DemuxInv
<1>5. p.pid \in PIDs
  BY <1>4, PacketsAssumption
<1> HIDE DEF P, p
<1>6. /\ pool' \in [PIDs -> Seq(PacketsAt(P))]
      /\ flushed' \in Seq(PacketsAt(P))
  <2>1. pool[p.pid] \in Seq(PacketsAt(P))
    BY <1>3, <1>5
  <2>2. /\ AddStored(pool[p.pid], p) \in Seq(PacketsAt(P))
        /\ AddFlushed(pool[p.pid], p) \in Seq(PacketsAt(P))
    BY <2>1, <1>4, AddTypes
  <2> QED
    BY <1>1, <1>3, <1>5, <2>2 DEF add
<1> QED
  BY <1>3, <1>4, <1>6 DEF P, p

(* The invariant holds at first and after every step. *)
LEMMA DemuxInvInductive == DemuxSpec => []DemuxInv
(* A sequence over a set of data that start in P. *)
<1>DataFromSet. ASSUME NEW P, NEW S, NEW ds \in Seq(S), \A d \in S : d.first \in P
                PROVE  DataFrom(P, ds)
  <2> USE <1>DataFromSet
  <2>1. ds \in [1..Len(ds) -> S] /\ Len(ds) \in Nat
    OBVIOUS
  <2>2. ds \in [1..Len(ds) -> {ds[k] : k \in DOMAIN ds}]
    BY <2>1
  <2> QED
    BY <2>1, <2>2 DEF DataFrom
(* Returning the first datum keeps the places of the others. *)
<1>DataFromTail. ASSUME NEW P, NEW ds, DataFrom(P, ds), ds # <<>>
                 PROVE  DataFrom(P, Tail(ds))
  <2> USE <1>DataFromTail
  <2> DEFINE S == {ds[k] : k \in DOMAIN ds}
  <2>1. ds \in Seq(S) /\ \A d \in S : d.first \in P
    BY DEF DataFrom
  <2>2. Tail(ds) \in Seq(S)
    BY <2>1
  <2> HIDE DEF S
  <2> QED
    BY <2>1, <2>2, <1>DataFromSet, ZenonT(60)
(* toData makes its data from the unit's first packet. *)
<1>ToDataGives. ASSUME NEW P, NEW p, p.at \in P, NEW s \in Shapes, NEW n
                PROVE  DataFrom(P, toData(SectionsOf(s.body), n, p))
  <2> USE <1>ToDataGives
  <2> DEFINE ss == SectionsOf(s.body)
             kept == {k \in DOMAIN ss : ParsesSection(ss, n, k) /\ ss[k].table # "None"}
             Place(j) == CHOOSE k \in kept : Cardinality({m \in kept : m <= k}) = j
             D(j) == Datum(p, ss[Place(j)].table, ss[Place(j)].programs)
             N == Cardinality(kept)
             S == {D(j) : j \in 1..N}
  <2>1. N \in Nat
    <3>1. ss \in Seq(Sections)
      BY SectionsAssumption
    <3>2. IsFiniteSet(DOMAIN ss)
      BY <3>1, FS_Interval, 1 \in Int, Len(ss) \in Int
    <3> QED
      BY <3>2, FS_Subset, FS_CardinalityType, kept \in SUBSET DOMAIN ss
  <2>2. toData(ss, n, p) = [j \in 1..N |-> D(j)]
    BY DEF toData
  <2> HIDE DEF N, Place
  <2>3. \A j \in 1..N : D(j).first \in P
    BY DEF Datum
  <2> HIDE DEF D
  <2>4. [j \in 1..N |-> D(j)] \in Seq(S)
    BY <2>1
  <2>5. \A d \in S : d.first \in P
    BY <2>3
  <2> HIDE DEF S
  <2> QED
    BY <2>2, <2>4, <2>5, <1>DataFromSet
(* So does parseData. *)
<1>ParseGives. ASSUME NEW P, NEW ps \in Seq(PacketsAt(P)), ps # <<>>,
                      NEW o \in ParserOutcomes, NEW pm, ~parseData(ps, o, pm).fails
               PROVE  DataFrom(P, parseData(ps, o, pm).ds)
  <2> USE <1>ParseGives
  <2> DEFINE p == ps[1]
             ss == SectionsOf(p.body)
             S == {Datum(p, "Custom", {}), Datum(p, "PES", {})}
             custom == [k \in 1..o.count |-> Datum(p, "Custom", {})]
             r == parseData(ps, o, pm)
  <2>1. p \in PacketsAt(P)
    OBVIOUS
  <2>2. PICK s \in Shapes : p.body = s.body /\ p.at \in P
    BY <2>1 DEF PacketsAt, Tagged
  <2>3. \A d \in S : d.first \in P
    BY <2>2 DEF Datum
  <2>4. custom \in Seq(S) /\ custom \o <<Datum(p, "PES", {})>> \in Seq(S)
    <3>1. custom \in Seq(S)
      BY ParserOutcomesAssumption
    <3>2. <<Datum(p, "PES", {})>> \in Seq(S)
      OBVIOUS
    <3> QED
      BY <3>1, <3>2
  <2>5. DataFrom(P, custom) /\ DataFrom(P, custom \o <<Datum(p, "PES", {})>>)
    <3> HIDE DEF S, custom
    <3> QED
      BY <2>3, <2>4, <1>DataFromSet, ZenonT(60)
  <2>6. DataFrom(P, toData(ss, Len(ps), p))
    BY <2>2, <1>ToDataGives, ZenonT(60)
  <2>7. \/ r.ds = custom
        \/ r.ds = toData(ss, Len(ps), p)
        \/ r.ds = custom \o <<Datum(p, "PES", {})>>
    BY ZenonT(60) DEF parseData, Parsed, Failed
  <2> QED
    BY <2>5, <2>6, <2>7, ZenonT(60)
(* updateData in a loop of NextData: the rest of the data is kept. *)
<1>UpdateKeeps. ASSUME NEW P, NEW from, NEW ds, DataFrom(P, ds), dataBuffer = <<>>,
                       updateData(from, ds)
                PROVE  /\ DataFrom(P, dataBuffer')
                       /\ \/ dataBuffer' = <<>> /\ UNCHANGED <<pc, ret>>
                          \/ pc' = "idle" /\ ret'.call = from /\ ret'.err = "none"
  <2> USE <1>UpdateKeeps
  <2>1. CASE ds = <<>>
    BY <2>1, DataFromEmpty DEF updateData
  <2>2. CASE ds # <<>>
    <3>1. DataFrom(P, Tail(ds))
      BY <2>2, <1>DataFromTail
    <3>2. <<>> \o Tail(ds) = Tail(ds)
      BY <3>1 DEF DataFrom
    <3>3. /\ dataBuffer' = <<>> \o Tail(ds)
          /\ pc' = "idle"
          /\ ret' = [call |-> from, d |-> <<Head(ds)>>, err |-> "none"]
      BY <2>2 DEF updateData, Return
    <3>4. ret'.call = from /\ ret'.err = "none"
      BY <3>3
    <3> QED
      BY <3>1, <3>2, <3>3, <3>4
  <2> QED
    BY <2>1, <2>2
(* NextPacket, called by the client: the places it reads become unseen. *)
<1>NextPacketKeeps. ASSUME DemuxInv, NextPacket
                    PROVE  DemuxInv'
  <2> USE <1>NextPacketKeeps
  <2>1. /\ UNCHANGED <<pool, flushed, reader, tape, dataBuffer, pc>>
        /\ pc = "idle"
        /\ ret'.call = "NextPacket"
    BY DEF NextPacket
  <2>2. PoolInv'
    BY <2>1 DEF DemuxInv, PoolInv, PoolTypeOK, PoolHoldsUnits, FlushesUnits
  <2>3. LoopInv' /\ EndIsFinal'
    BY <2>1 DEF LoopInv, EndIsFinal
  <2>4. CASE UNCHANGED <<pos, buffer, unseen>>
    BY <2>1, <2>2, <2>3, <2>4, ZenonT(60)
    DEF DemuxInv, ReaderInv, FreshInv, FreshPlaces
  <2>5. ASSUME NEW n \in {0, 1}, Consume(n), n = 1 => StartPos < Len(tape),
               unseen' \subseteq Unseen \cup ((StartPos + 1)..pos')
        PROVE  DemuxInv'
    <3>1. buffer' = BufferNow /\ pos' = StartPos + n
      BY <2>5 DEF Consume
    <3>2. pos' \in StartPos..Len(tape)
      BY <2>5, <3>1, ReadFacts DEF DemuxInv, ReaderInv
    <3>3. /\ ReaderInv'
          /\ buffer' # "nil"
          /\ pool \in [PIDs -> Seq(PacketsAt(FreshPlaces'))]
          /\ DataFrom(FreshPlaces', dataBuffer)
      BY <2>1, <2>5, <3>1, <3>2, ReadKeepsFresh DEF DemuxInv
    <3>4. FreshInv'
      BY <2>1, <3>3 DEF FreshInv
    <3> QED
      BY <2>2, <2>3, <3>3, <3>4 DEF DemuxInv
  <2>6. CASE ReadsError /\ Consume(IF BufferNow = "ready" THEN 1 ELSE 0)
             /\ unseen' = Unseen \cup ((StartPos + 1)..pos')
    BY <2>5, <2>6 DEF ReadsError
  <2>7. CASE ReadsEnd /\ Consume(0) /\ unseen' = Unseen
    BY <2>5, <2>7
  <2>8. CASE ReadsPacket /\ Consume(1)
             /\ unseen' = Unseen \cup ((StartPos + 1)..pos')
    BY <2>5, <2>8 DEF ReadsPacket
  <2> QED
    BY <2>4, <2>6, <2>7, <2>8 DEF NextPacket
(* NextData answered from the data buffer. *)
<1>PopDataKeeps. ASSUME DemuxInv, PopData
                 PROVE  DemuxInv'
  <2> USE <1>PopDataKeeps
  <2>1. /\ UNCHANGED <<pool, flushed, reader, tape, pos, buffer, unseen>>
        /\ dataBuffer # <<>>
        /\ dataBuffer' = Tail(dataBuffer)
        /\ pc' = "idle"
        /\ ret' = [call |-> "NextData", d |-> <<Head(dataBuffer)>>, err |-> "none"]
    BY DEF PopData, Return
  <2>2. PoolInv' /\ ReaderInv'
    BY <2>1
    DEF DemuxInv, PoolInv, PoolTypeOK, PoolHoldsUnits, FlushesUnits, ReaderInv
  <2>3. ret'.call = "NextData"
    BY <2>1
  <2>4. LoopInv' /\ EndIsFinal'
    BY <2>1, <2>3 DEF LoopInv, EndIsFinal
  <2>5. DataFrom(FreshPlaces, dataBuffer')
    BY <2>1, <1>DataFromTail DEF DemuxInv, FreshInv
  <2>6. FreshInv'
    BY <2>1, <2>5, ZenonT(60) DEF DemuxInv, FreshInv, FreshPlaces
  <2> QED
    BY <2>2, <2>4, <2>6 DEF DemuxInv
(* NextData enters its loop. *)
<1>BeginKeeps. ASSUME DemuxInv, BeginNextData
               PROVE  DemuxInv'
  BY <1>BeginKeeps, ZenonT(60) DEF BeginNextData, DemuxInv, PoolInv, PoolTypeOK,
         PoolHoldsUnits, FlushesUnits, ReaderInv, FreshInv, FreshPlaces, LoopInv, EndIsFinal,
         Occupied
(* The context is cancelled. *)
<1>CancelKeeps. ASSUME DemuxInv, Cancel
                PROVE  DemuxInv'
  BY <1>CancelKeeps, ZenonT(60) DEF Cancel, DemuxInv, PoolInv, PoolTypeOK, PoolHoldsUnits,
         FlushesUnits, ReaderInv, FreshInv, FreshPlaces, LoopInv, EndIsFinal,
         Occupied
(* Rewind leaves nothing buffered. *)
<1>RewindKeeps. ASSUME DemuxInv, Rewind
                PROVE  DemuxInv'
  <2> USE <1>RewindKeeps
  <2>1. /\ UNCHANGED <<reader, tape, pc>>
        /\ pc = "idle"
        /\ dataBuffer' = <<>>
        /\ buffer' = "nil"
        /\ pool' = [pid \in PIDs |-> <<>>]
        /\ flushed' = <<>>
        /\ ret'.call = "Rewind"
        /\ pos' \in {0, pos}
        /\ unseen' = 1..pos'
    BY DEF Rewind, RewindBuffers
  <2>2. PoolInv'
    BY <2>1 DEF PoolInv, PoolTypeOK, PoolHoldsUnits, FlushesUnits
  <2>3. ReaderInv'
    BY <2>1 DEF DemuxInv, ReaderInv
  <2>4. FreshInv'
    BY <2>1, DataFromEmpty DEF FreshInv
  <2>5. LoopInv' /\ EndIsFinal'
    BY <2>1 DEF LoopInv, EndIsFinal
  <2> QED
    BY <2>2, <2>3, <2>4, <2>5 DEF DemuxInv
(* A turn of the packet loop that reads no packet. *)
<1>LoopWithoutPacketKeeps. ASSUME DemuxInv, LoopStep, LoopFails \/ LoopEnds
                           PROVE  DemuxInv'
  <2> USE <1>LoopWithoutPacketKeeps
  <2>1. /\ UNCHANGED <<pool, flushed, reader, tape, dataBuffer>>
        /\ pc = "packets"
    BY DEF LoopStep, LoopFails, LoopEnds
  <2>2. PoolInv' /\ dataBuffer' = <<>>
    BY <2>1
    DEF DemuxInv, LoopInv, PoolInv, PoolTypeOK, PoolHoldsUnits, FlushesUnits
  <2>3. ASSUME NEW n \in {0, 1}, Consume(n), n = 1 => StartPos < Len(tape),
               unseen' = Unseen
        PROVE  ReaderInv' /\ FreshInv'
    <3>1. buffer' = BufferNow /\ pos' = StartPos + n
      BY <2>3 DEF Consume
    <3>2. pos' \in StartPos..Len(tape)
      BY <2>3, <3>1, ReadFacts DEF DemuxInv, ReaderInv
    <3>3. /\ ReaderInv'
          /\ buffer' # "nil"
          /\ pool \in [PIDs -> Seq(PacketsAt(FreshPlaces'))]
          /\ DataFrom(FreshPlaces', dataBuffer)
      BY <2>1, <2>3, <3>1, <3>2, ReadKeepsFresh DEF DemuxInv
    <3> QED
      BY <2>1, <3>3 DEF FreshInv
  <2>4. CASE LoopFails
    <3>1. pc' = "idle" /\ ret'.call = "NextData"
      BY <2>4 DEF LoopFails, Return
    <3>2. LoopInv' /\ EndIsFinal'
      BY <3>1 DEF LoopInv, EndIsFinal
    <3>3. CASE ctxDone
      <4>1. UNCHANGED <<pos, buffer, unseen>>
        BY <2>4, <3>3 DEF LoopFails, ReadsError
      <4> QED
        BY <2>1, <2>2, <3>2, <4>1, ZenonT(60)
        DEF DemuxInv, ReaderInv, FreshInv, FreshPlaces
    <3>4. CASE ~ctxDone
      <4>1. /\ ReadsError
            /\ Consume(IF BufferNow = "ready" THEN 1 ELSE 0)
            /\ unseen' = Unseen
        BY <2>4, <3>4 DEF LoopFails
      <4>2. ReaderInv' /\ FreshInv'
        BY <2>3, <4>1 DEF ReadsError
      <4> QED
        BY <2>2, <3>2, <4>2 DEF DemuxInv
    <3> QED
      BY <3>3, <3>4
  <2>5. CASE LoopEnds
    <3>1. ReaderInv' /\ FreshInv'
      BY <2>3, <2>5 DEF LoopEnds
    <3>2. /\ buffer' = "ready"
          /\ pos' = Len(tape)
          /\ UNCHANGED ret
      BY <2>5, ReadFacts DEF LoopEnds, ReadsEnd, Consume, DemuxInv, ReaderInv
    <3>3. LoopInv' /\ EndIsFinal'
      BY <2>1, <2>2, <3>2 DEF DemuxInv, LoopInv, EndIsFinal, Occupied
    <3> QED
      BY <2>2, <3>1, <3>3 DEF DemuxInv
  <2> QED
    BY <2>4, <2>5
(* Such a turn keeps the invariant, whatever the unit it completes holds. *)
<1>LoopAddsKeeps. ASSUME DemuxInv, LoopStep, LoopAdds
                  PROVE  DemuxInv'
  <2> USE <1>LoopAddsKeeps
  <2> DEFINE P == FreshPlaces'
  <2>1. /\ pc = "packets"
        /\ dataBuffer = <<>>
        /\ ReadsPacket
        /\ add(PacketRead)
        /\ UNCHANGED tape
    BY DEF LoopStep, LoopAdds, DemuxInv, LoopInv
  <2>2. /\ ReaderInv'
        /\ buffer' # "nil"
        /\ PacketRead \in PacketsAt(P)
        /\ PacketsAt(P) \in SUBSET Packets
        /\ pool' \in [PIDs -> Seq(PacketsAt(P))]
        /\ flushed' \in Seq(PacketsAt(P))
    BY LoopAddsFresh
  <2> HIDE DEF P
  <2>3. PoolInv'
    BY <2>1, <2>2, AddPreservesInv DEF DemuxInv
  <2> DEFINE Goal == /\ DataFrom(P, dataBuffer')
                     /\ \/ dataBuffer' = <<>> /\ UNCHANGED <<pc, ret>>
                        \/ pc' = "idle" /\ ret'.call = "NextData"
  <2>4. Goal
    <3>1. CASE UNCHANGED <<dataBuffer, pc, ret>>
      BY <2>1, <3>1, DataFromEmpty
    <3>2. CASE Return("NextData", <<>>, "parse") /\ UNCHANGED dataBuffer
      BY <2>1, <3>2, DataFromEmpty DEF Return
    <3>3. ASSUME NEW o \in ParserOutcomes, flushed' # <<>>,
                 ~parseData(flushed', o, programMap).fails,
                 updateData("NextData", parseData(flushed', o, programMap).ds)
          PROVE  Goal
      <4>1. DataFrom(P, parseData(flushed', o, programMap).ds)
        BY <2>2, <3>3, <1>ParseGives
      <4> QED
        BY <2>1, <3>3, <4>1, <1>UpdateKeeps
    <3> HIDE DEF Goal
    <3> QED
      BY <3>1, <3>2, <3>3 DEF LoopAdds
  <2>5. FreshInv'
    BY <2>2, <2>4 DEF FreshInv, P
  <2>6. ret.call # "end"
    BY <2>1, ReadFacts DEF DemuxInv, LoopInv, ReadsPacket, ReaderInv
  <2>7. LoopInv' /\ EndIsFinal'
    BY <2>1, <2>4, <2>6 DEF LoopInv, EndIsFinal
  <2> QED
    BY <2>2, <2>3, <2>5, <2>7 DEF DemuxInv
(* A turn of the packet loop. *)
<1>LoopStepKeeps. ASSUME DemuxInv, LoopStep
                  PROVE  DemuxInv'
  BY <1>LoopStepKeeps, <1>LoopWithoutPacketKeeps, <1>LoopAddsKeeps DEF LoopStep
(* A turn of the dump loop. *)
<1>DumpStepKeeps. ASSUME DemuxInv, DumpStep
                  PROVE  DemuxInv'
  <2> USE <1>DumpStepKeeps
  <2> DEFINE P == FreshPlaces
  <2>1. /\ UNCHANGED <<reader, tape, pos, buffer, unseen>>
        /\ dataBuffer = <<>>
        /\ buffer = "ready"
        /\ pos = Len(tape)
        /\ dump
    BY DEF DumpStep, DemuxInv, LoopInv
  <2>2. PoolInv' /\ ReaderInv'
    BY <2>1, DumpPreservesInv DEF DemuxInv, ReaderInv
  <2>3. /\ pool' \in [PIDs -> Seq(PacketsAt(P))]
        /\ flushed' \in Seq(PacketsAt(P))
        /\ flushed' = <<>> => Occupied = {} /\ UNCHANGED pool
        /\ flushed' # <<>> => Occupied # {}
    <3>1. <<>> \in Seq(PacketsAt(P))
      OBVIOUS
    <3> QED
      BY <2>1, <3>1, ZenonT(60) DEF dump, DemuxInv, FreshInv, IsFirstOccupied, Occupied
  <2>4. CASE flushed' = <<>>
    <3>1. /\ dataBuffer' = <<>>
          /\ pc' = "idle"
      BY <2>1, <2>4 DEF DumpStep, Return
    <3>2. Occupied' = {}
      BY <2>3, <2>4 DEF Occupied
    <3>3. FreshInv' /\ LoopInv' /\ EndIsFinal'
      BY <2>1, <2>3, <3>1, <3>2, DataFromEmpty, ZenonT(60)
      DEF FreshInv, FreshPlaces, LoopInv, EndIsFinal
    <3> QED
      BY <2>2, <3>3 DEF DemuxInv
  <2>5. CASE flushed' # <<>>
    <3> DEFINE Goal == /\ DataFrom(P, dataBuffer')
                       /\ \/ dataBuffer' = <<>> /\ UNCHANGED <<pc, ret>>
                          \/ pc' = "idle" /\ ret'.call = "end" /\ ret'.err = "none"
    <3>1. Goal
      <4>1. CASE UNCHANGED <<dataBuffer, pc, ret>>
        BY <2>1, <4>1, DataFromEmpty
      <4>2. ASSUME NEW o \in ParserOutcomes,
                   ~parseData(flushed', o, programMap).fails,
                   updateData("end", parseData(flushed', o, programMap).ds)
            PROVE  Goal
        <5>1. DataFrom(P, parseData(flushed', o, programMap).ds)
          BY <2>3, <2>5, <4>2, <1>ParseGives
        <5> QED
          BY <2>1, <4>2, <5>1, <1>UpdateKeeps
      <4> HIDE DEF Goal
      <4> QED
        BY <2>5, <4>1, <4>2 DEF DumpStep
    <3>2. FreshInv'
      BY <2>1, <2>3, <3>1, ZenonT(60) DEF FreshInv, FreshPlaces
    <3>3. ~(ret.call = "end" /\ ret.err = "noMorePackets")
      BY <2>3, <2>5 DEF DemuxInv, EndIsFinal
    <3>4. LoopInv' /\ EndIsFinal'
      BY <2>1, <3>1, <3>3 DEF LoopInv, EndIsFinal
    <3> QED
      BY <2>2, <3>2, <3>4 DEF DemuxInv
  <2> QED
    BY <2>4, <2>5
<1>1. DemuxInit => DemuxInv
  <2> SUFFICES ASSUME DemuxInit PROVE DemuxInv
    OBVIOUS
  <2>1. PoolInv
    BY
    DEF DemuxInit, PoolInit, PoolInv, PoolTypeOK, PoolHoldsUnits, FlushesUnits
  <2>2. ReaderInv
    <3>1. PICK n \in 0..MaxTape : tape \in [1..n -> Shapes]
      BY DEF DemuxInit
    <3>2. tape \in Seq(Shapes) /\ Len(tape) = n
      BY <3>1, BoundsAssumption
    <3> QED
      BY <3>2, BoundsAssumption DEF DemuxInit, ReaderInv
  <2>3. FreshInv
    BY DataFromEmpty DEF DemuxInit, PoolInit, FreshInv
  <2>4. LoopInv /\ EndIsFinal
    BY DEF DemuxInit, NoResult, LoopInv, EndIsFinal
  <2> QED
    BY <2>1, <2>2, <2>3, <2>4 DEF DemuxInv
<1>2. DemuxInv /\ [DemuxNext]_demuxVars => DemuxInv'
  <2> SUFFICES ASSUME DemuxInv, [DemuxNext]_demuxVars
               PROVE  DemuxInv'
    OBVIOUS
  <2>1. CASE DemuxNext
    BY <2>1, <1>NextPacketKeeps, <1>PopDataKeeps, <1>BeginKeeps, <1>LoopStepKeeps,
       <1>DumpStepKeeps, <1>RewindKeeps, <1>CancelKeeps DEF DemuxNext
  <2>2. CASE UNCHANGED demuxVars
    BY <2>2, ZenonT(60)
    DEF demuxVars, DemuxInv, PoolInv, PoolTypeOK, PoolHoldsUnits, FlushesUnits,
        ReaderInv, FreshInv, FreshPlaces, LoopInv, EndIsFinal, Occupied
  <2> QED
    BY <2>1, <2>2
<1> QED
  BY <1>1, <1>2, PTL DEF DemuxSpec

(* Whatever the tape, the reader, the parser and the calls: nothing from   *)
(* before a Rewind, and nothing the client took with NextPacket, is left   *)
(* to be returned by NextData (demuxer.go Rewind, NextPacket, NextData).   *)
THEOREM NeverStale == DemuxSpec => []NothingStale
<1>1. DemuxInv => NothingStale
  <2> SUFFICES ASSUME DemuxInv PROVE NothingStale
    OBVIOUS
  <2>1. \A i \in FreshPlaces : i <= pos /\ i \notin unseen
    BY DEF FreshPlaces, DemuxInv, ReaderInv
  <2>2. ASSUME NEW pid \in PIDs, NEW k \in DOMAIN pool[pid]
        PROVE  pool[pid][k].at \in FreshPlaces
    <3>1. pool[pid][k] \in PacketsAt(FreshPlaces)
      BY DEF DemuxInv, FreshInv
    <3> QED
      BY <3>1 DEF PacketsAt, Tagged
  <2>3. \A k \in DOMAIN dataBuffer : dataBuffer[k].first \in FreshPlaces
    BY DEF DemuxInv, FreshInv, DataFrom
  <2> QED
    BY <2>1, <2>2, <2>3 DEF NothingStale
<1> QED
  BY <1>1, DemuxInvInductive, PTL

(* ErrNoMorePackets from NextData's dump loop is final: the pool and the   *)
(* data buffer are then empty.                                             *)
THEOREM EndAlwaysFinal == DemuxSpec => []EndIsFinal
BY DemuxInvInductive, PTL DEF DemuxInv

(* Inside the demuxer too, all the pool holds and hands over are runs of   *)
(* consecutive packets of one unit.                                        *)
THEOREM DemuxerHoldsUnits == DemuxSpec => [](PoolHoldsUnits /\ FlushesUnits)
BY DemuxInvInductive, PTL DEF DemuxInv, PoolInv

=============================================================================
