-------------------------- MODULE PacketPoolProofs --------------------------
(***************************************************************************)
(* For every set of PIDs, packets and counter values: what the pool holds  *)
(* and returns is always a run of consecutive packets of one payload unit. *)
(***************************************************************************)
EXTENDS PacketPool, TLAPS

(* How long each prover may take over a leaf. *)
USE SMTT(30), ZenonT(30)

(* Continuity counters: numbers modulo m.                                  *)

(* Division with remainder, and its uniqueness. *)
LEMMA DivMod ==
  ASSUME NEW m \in Nat \ {0}, NEW x \in Nat
  PROVE  x % m \in 0..(m - 1) /\ x \div m \in Nat /\ x = m * (x \div m) + (x % m)
OBVIOUS

(* A product with a positive number is at least the other factor. *)
LEMMA MultipleAtLeast ==
  ASSUME NEW m \in Nat \ {0}, NEW d \in Int, d >= 1
  PROVE  m * d >= m
OBVIOUS

(* Quotient and remainder are unique. *)
LEMMA RemainderUnique ==
  ASSUME NEW m \in Nat \ {0}, NEW a \in Int, NEW b \in Int,
         NEW r \in 0..(m - 1), NEW t \in 0..(m - 1), m * a + r = m * b + t
  PROVE  r = t
<1>1. m * (a - b) = t - r /\ m * (b - a) = r - t
  OBVIOUS
<1>2. CASE a - b >= 1
  <2>1. m * (a - b) >= m
    BY <1>2, MultipleAtLeast
  <2> QED
    BY <1>1, <2>1
<1>3. CASE b - a >= 1
  <2>1. m * (b - a) >= m
    BY <1>3, MultipleAtLeast
  <2> QED
    BY <1>1, <2>1
<1>4. CASE a = b
  BY <1>1, <1>4
<1> QED
  BY <1>2, <1>3, <1>4

(* A counter modulo m goes up by one or back to 0. *)
LEMMA NextRemainder ==
  ASSUME NEW m \in Nat \ {0}, NEW x \in Nat
  PROVE  (x + 1) % m = IF (x % m) + 1 = m THEN 0 ELSE (x % m) + 1
<1> DEFINE q == x \div m
           r == x % m
           y == x + 1
           q1 == y \div m
           r1 == y % m
<1>1. r \in 0..(m - 1) /\ q \in Nat /\ x = m * q + r
  BY DivMod, ZenonT(60)
<1>2. y \in Nat /\ y = x + 1
  OBVIOUS
<1> HIDE DEF y
<1>3. r1 \in 0..(m - 1) /\ q1 \in Nat /\ y = m * q1 + r1
  BY <1>2, DivMod, ZenonT(60)
<1> HIDE DEF q, r, q1, r1
<1>4. CASE r + 1 = m
  <2>1. m * q1 + r1 = m * (q + 1) + 0
    BY <1>1, <1>2, <1>3, <1>4
  <2>2. r1 = 0
    BY <2>1, <1>1, <1>3, RemainderUnique, q + 1 \in Int, 0 \in 0..(m - 1)
  <2> QED
    BY <1>4, <2>2 DEF r, r1, y
<1>5. CASE r + 1 # m
  <2>1. m * q1 + r1 = m * q + (r + 1)
    BY <1>1, <1>2, <1>3
  <2>2. r + 1 \in 0..(m - 1)
    BY <1>1, <1>5
  <2>3. r1 = r + 1
    BY <2>1, <2>2, <1>1, <1>3, RemainderUnique
  <2> QED
    BY <1>5, <2>3 DEF r, r1, y
<1> QED
  BY <1>4, <1>5

(* Between 1 and m - 1 steps lead to another value. *)
LEMMA StepsDiffer ==
  ASSUME NEW m \in Nat \ {0, 1}, NEW a \in Nat, NEW k \in 1..(m - 1)
  PROVE  (a + k) % m # a % m
<1> DEFINE y == a + k
           q == y \div m
           p == a \div m
           r == a % m
<1>1. y \in Nat /\ y = a + k
  OBVIOUS
<1>2. r \in 0..(m - 1) /\ p \in Nat /\ a = m * p + r
  BY DivMod
<1>3. SUFFICES ASSUME y % m = r PROVE FALSE
  OBVIOUS
<1> HIDE DEF y
<1>4. q \in Nat /\ y = m * q + (y % m)
  BY <1>1, DivMod, ZenonT(60)
<1> HIDE DEF q, p, r
<1>5. m * q + 0 = m * p + k
  BY <1>1, <1>2, <1>3, <1>4
<1>6. 0 = k
  BY <1>2, <1>4, <1>5, RemainderUnique, m \in Nat \ {0}, 0 \in 0..(m - 1),
     k \in 0..(m - 1), p \in Int, q \in Int, ZenonT(60)
<1> QED
  BY <1>6

(* Numbers less than m apart are equal when their remainders are. *)
LEMMA SameRemainder ==
  ASSUME NEW m \in Nat \ {0, 1}, NEW a \in Nat, NEW b \in a..(a + m - 1),
         a % m = b % m
  PROVE  a = b
<1>1. CASE b # a
  <2>1. b - a \in 1..(m - 1) /\ a + (b - a) = b
    BY <1>1
  <2> QED
    BY <2>1, StepsDiffer, ZenonT(60)
<1> QED
  BY <1>1

(* The remainder of the next number, from that of a number. *)
LEMMA RemainderOfNext ==
  ASSUME NEW m \in Nat \ {0, 1}, NEW x \in Nat
  PROVE  ((x % m) + 1) % m = (x + 1) % m
<1> DEFINE r == x % m
<1>1. r \in 0..(m - 1)
  BY DivMod
<1>2. (x + 1) % m = IF r + 1 = m THEN 0 ELSE r + 1
  BY NextRemainder, ZenonT(60)
<1> HIDE DEF r
<1>3. r % m = r /\ r \in Nat
  BY <1>1
<1>4. (r + 1) % m = IF r + 1 = m THEN 0 ELSE r + 1
  <2>1. (r + 1) % m = IF (r % m) + 1 = m THEN 0 ELSE (r % m) + 1
    BY <1>3, NextRemainder, m \in Nat \ {0}, ZenonT(60)
  <2> QED
    BY <1>3, <2>1
<1> QED
  BY <1>2, <1>4 DEF r

-----------------------------------------------------------------------------
(* The pool.                                                               *)

(* Taking the last element off a sequence it was appended to. *)
LEMMA FrontOfAppend ==
  ASSUME NEW S, NEW s \in Seq(S), NEW e \in S
  PROVE  /\ Append(s, e) \in Seq(S)
         /\ Append(s, e) # <<>>
         /\ Len(Append(s, e)) = Len(s) + 1
         /\ SubSeq(Append(s, e), 1, Len(Append(s, e)) - 1) = s
<1>1. /\ Append(s, e) \in Seq(S)
      /\ Append(s, e) # <<>>
      /\ Len(Append(s, e)) = Len(s) + 1
      /\ Len(s) \in Nat
      /\ \A i \in 1..Len(s) : Append(s, e)[i] = s[i]
  OBVIOUS
<1> DEFINE f == SubSeq(Append(s, e), 1, Len(s))
<1>2. \A i \in 1..Len(s) : Append(s, e)[i] \in S
  BY <1>1
<1>3. /\ f \in Seq(S)
      /\ Len(f) = IF 1 <= Len(s) THEN Len(s) - 1 + 1 ELSE 0
      /\ \A i \in 1..(Len(s) - 1 + 1) : f[i] = Append(s, e)[1 + i - 1]
  BY <1>1, <1>2, Len(s) \in Int, 1 \in Int
<1>4. Len(f) = Len(s) /\ \A i \in 1..Len(f) : f[i] = s[i]
  BY <1>1, <1>3
<1>5. f = s
  BY <1>3, <1>4
<1> QED
  BY <1>1, <1>5

(* The four things add can do with a packet (packet_pool.go:23-70).        *)
Ignores(ps, p) == /\ ThrownAway(ps, p)
                  /\ AddStored(ps, p) = ps
                  /\ AddFlushed(ps, p) = <<>>

Empties(ps, p) == /\ ~p.pusi /\ Kept(ps, p) = <<>>
                  /\ AddStored(ps, p) = <<>>
                  /\ AddFlushed(ps, p) = <<>>

Extends(ps, p) == /\ ~p.pusi /\ ~p.disc
                  /\ ps # <<>>
                  /\ p.cc = NextCC(LastOf(ps).cc)
                  /\ AddStored(ps, p) = Append(ps, p)
                  /\ AddFlushed(ps, p) = <<>>

Starts(ps, p) == /\ p.pusi
                 /\ AddStored(ps, p) = <<p>>
                 /\ AddFlushed(ps, p) = Kept(ps, p)

(* add does one of four things: it throws the packet away, leaves the      *)
(* buffer empty, extends the unit, or starts one and returns the last.     *)
LEMMA AddCases ==
  ASSUME NEW ps \in Seq(Packets), NEW p \in Packets
  PROVE  \/ Ignores(ps, p)
         \/ /\ p.hasPayload /\ ~p.tei
            /\ Empties(ps, p) \/ Extends(ps, p) \/ Starts(ps, p)
<1> DEFINE k == Kept(ps, p)
<1>1. CASE ThrownAway(ps, p)
  BY <1>1 DEF Ignores, AddStored, AddFlushed
<1>2. CASE ~ThrownAway(ps, p)
  <2>1. p.hasPayload /\ ~p.tei
    BY <1>2, PacketsAssumption DEF ThrownAway
  <2>2. k \in Seq(Packets) /\ k \in {ps, <<>>}
    BY DEF Kept
  <2>3. /\ Append(k, p) \in Seq(Packets)
        /\ Append(k, p) # <<>>
        /\ Len(Append(k, p)) = Len(k) + 1
        /\ SubSeq(Append(k, p), 1, Len(Append(k, p)) - 1) = k
    BY <2>2, FrontOfAppend
  <2>4. Len(k) \in Nat /\ (k # <<>> <=> Len(k) > 0)
    BY <2>2
  <2>5. CASE p.pusi
    <3>1. Appended(ps, p) = Append(k, p)
      BY <2>5 DEF Appended
    <3>2. CASE k # <<>>
      <4>1. Completes(ps, p)
        BY <2>5, <3>1, <3>2, <2>3, <2>4 DEF Completes
      <4> QED
        BY <1>2, <2>1, <2>5, <3>1, <4>1, <2>3
        DEF Starts, AddStored, AddFlushed
    <3>3. CASE k = <<>>
      <4>1. ~Completes(ps, p)
        BY <3>1, <3>3, <2>3, <2>4 DEF Completes
      <4>2. Append(k, p) = <<p>>
        BY <3>3
      <4> QED
        BY <1>2, <2>1, <2>5, <3>1, <3>3, <4>1, <4>2
        DEF Starts, AddStored, AddFlushed
    <3> QED
      BY <3>2, <3>3
  <2>6. CASE ~p.pusi
    <3>1. ~Completes(ps, p)
      BY <2>6 DEF Completes
    <3>2. CASE k = <<>>
      BY <1>2, <2>1, <2>6, <3>1, <3>2
      DEF Empties, AddStored, AddFlushed, Appended
    <3>3. CASE k # <<>>
      <4>1. k = ps /\ ps # <<>> /\ ~hasDiscontinuity(ps, p)
        BY <3>3 DEF Kept
      <4>2. ~p.disc /\ p.cc = NextCC(LastOf(ps).cc)
        BY <4>1, <2>1 DEF hasDiscontinuity
      <4> QED
        BY <1>2, <2>1, <2>6, <3>1, <3>3, <4>1, <4>2
        DEF Extends, AddStored, AddFlushed, Appended
    <3> QED
      BY <3>2, <3>3
  <2> QED
    BY <2>5, <2>6, PacketsAssumption
<1> QED
  BY <1>1, <1>2

(* What add stores and returns is made of the packets it had and was given. *)
LEMMA AddTypes ==
  ASSUME NEW F \in SUBSET Packets, NEW ps \in Seq(F), NEW p \in F
  PROVE  AddStored(ps, p) \in Seq(F) /\ AddFlushed(ps, p) \in Seq(F)
<1>1. <<>> \in Seq(F) /\ <<p>> \in Seq(F)
  OBVIOUS
<1>2. Append(ps, p) \in Seq(F)
  OBVIOUS
<1>3. Kept(ps, p) \in Seq(F)
  BY <1>1 DEF Kept
<1>4. CASE Ignores(ps, p)
  BY <1>1, <1>4 DEF Ignores
<1>5. CASE Empties(ps, p)
  BY <1>1, <1>5 DEF Empties
<1>6. CASE Extends(ps, p)
  BY <1>1, <1>2, <1>6 DEF Extends
<1>7. CASE Starts(ps, p)
  BY <1>1, <1>3, <1>7 DEF Starts
<1>8. ps \in Seq(Packets) /\ p \in Packets
  OBVIOUS
<1> QED
  BY <1>4, <1>5, <1>6, <1>7, <1>8, AddCases

(* A packet with the start indicator is a unit of its own. *)
LEMMA SingletonIsUnit ==
  ASSUME NEW p \in Packets, p.pusi, p.hasPayload, ~p.tei
  PROVE  IsUnit(p.pid, <<p>>)
<1>1. <<p>> \in Seq(Packets) /\ Len(<<p>>) = 1 /\ <<p>>[1] = p
  OBVIOUS
<1> QED
  BY <1>1 DEF IsUnit

(* The next packet in sequence, without a start indicator, extends a unit. *)
LEMMA AppendIsUnit ==
  ASSUME NEW ps \in Seq(Packets), NEW p \in Packets,
         ps # <<>>, IsUnit(p.pid, ps),
         p.hasPayload, ~p.tei, ~p.pusi, ~p.disc,
         p.cc = NextCC(LastOf(ps).cc)
  PROVE  IsUnit(p.pid, Append(ps, p))
<1> DEFINE q == Append(ps, p)
<1>1. /\ Len(q) = Len(ps) + 1
      /\ \A k \in 1..Len(ps) : q[k] = ps[k]
      /\ q[Len(ps) + 1] = p
  OBVIOUS
<1>2. Len(ps) \in Nat \ {0}
  OBVIOUS
<1> HIDE DEF q
<1>3. q[1].pusi
  BY <1>1, <1>2 DEF IsUnit
<1>4. ASSUME NEW k \in 1..Len(q)
      PROVE  q[k].pid = p.pid /\ q[k].hasPayload /\ ~q[k].tei
  <2>1. CASE k = Len(ps) + 1
    BY <1>1, <2>1
  <2>2. CASE k \in 1..Len(ps)
    BY <1>1, <2>2 DEF IsUnit
  <2> QED
    BY <1>1, <1>2, <2>1, <2>2
<1>5. ASSUME NEW k \in 2..Len(q)
      PROVE  ~q[k].pusi /\ ~q[k].disc /\ q[k].cc = NextCC(q[k - 1].cc)
  <2>1. CASE k = Len(ps) + 1
    <3>1. q[k - 1] = LastOf(ps)
      BY <1>1, <1>2, <2>1 DEF LastOf
    <3> QED
      BY <1>1, <2>1, <3>1
  <2>2. CASE k \in 2..Len(ps)
    <3>1. q[k] = ps[k] /\ q[k - 1] = ps[k - 1]
      BY <1>1, <1>2, <2>2
    <3> QED
      BY <2>2, <3>1 DEF IsUnit
  <2> QED
    BY <1>1, <1>2, <2>1, <2>2
<1> QED
  BY <1>3, <1>4, <1>5 DEF IsUnit, q

(* add keeps a buffer that holds a unit, or nothing, that way, and what it *)
(* returns is the unit it held.                                            *)
Fine(pid, ps) == ps # <<>> => IsUnit(pid, ps)

(* add keeps units, and what it flushes is one. *)
LEMMA AddKeepsUnits ==
  ASSUME NEW ps \in Seq(Packets), NEW p \in Packets, Fine(p.pid, ps)
  PROVE  /\ Fine(p.pid, AddStored(ps, p))
         /\ Fine(p.pid, AddFlushed(ps, p))
<1>1. CASE Ignores(ps, p)
  BY <1>1 DEF Ignores, Fine
<1>2. CASE Empties(ps, p)
  BY <1>2 DEF Empties, Fine
<1>3. CASE Extends(ps, p) /\ p.hasPayload /\ ~p.tei
  BY <1>3, AppendIsUnit DEF Extends, Fine
<1>4. CASE Starts(ps, p) /\ p.hasPayload /\ ~p.tei
  BY <1>4, SingletonIsUnit DEF Starts, Fine, Kept
<1> QED
  BY <1>1, <1>2, <1>3, <1>4, AddCases

-----------------------------------------------------------------------------

(* The inductive invariant: its three parts are needed together, since a   *)
(* dump returns what was buffered.                                         *)
PoolInv == PoolTypeOK /\ PoolHoldsUnits /\ FlushesUnits

(* A call of add keeps the invariant. *)
LEMMA AddPreservesInv ==
  ASSUME PoolInv, NEW p \in Packets, add(p)
  PROVE  PoolInv'
<1> DEFINE ps == pool[p.pid]
<1>1. p.pid \in PIDs
  BY PacketsAssumption
<1>2. ps \in Seq(Packets) /\ Fine(p.pid, ps)
  BY <1>1 DEF PoolInv, PoolTypeOK, PoolHoldsUnits, Fine
<1>3. /\ AddStored(ps, p) \in Seq(Packets)
      /\ AddFlushed(ps, p) \in Seq(Packets)
  BY <1>2, AddTypes, Packets \in SUBSET Packets, ZenonT(60)
<1>4. Fine(p.pid, AddStored(ps, p)) /\ Fine(p.pid, AddFlushed(ps, p))
  BY <1>2, AddKeepsUnits
<1>5. /\ flushed' = AddFlushed(ps, p)
      /\ pool' = [pool EXCEPT ![p.pid] = AddStored(ps, p)]
  BY DEF add
<1> HIDE DEF ps
<1>6. PoolTypeOK'
  BY <1>1, <1>3, <1>5 DEF PoolInv, PoolTypeOK
<1>7. PoolHoldsUnits'
  <2> SUFFICES ASSUME NEW pid \in PIDs, pool'[pid] # <<>>
               PROVE  IsUnit(pid, pool'[pid])
    BY DEF PoolHoldsUnits
  <2>1. CASE pid = p.pid
    BY <2>1, <1>1, <1>4, <1>5 DEF PoolInv, PoolTypeOK, Fine
  <2>2. CASE pid # p.pid
    BY <2>2, <1>5 DEF PoolInv, PoolTypeOK, PoolHoldsUnits
  <2> QED
    BY <2>1, <2>2
<1>8. FlushesUnits'
  <2> SUFFICES ASSUME flushed' # <<>>
               PROVE  IsUnit(flushed'[1].pid, flushed')
    BY DEF FlushesUnits
  <2>1. IsUnit(p.pid, flushed')
    BY <1>4, <1>5 DEF Fine
  <2>2. Len(flushed') \in Nat \ {0}
    BY <1>3, <1>5
  <2>3. flushed'[1].pid = p.pid
    BY <2>1, <2>2 DEF IsUnit
  <2> QED
    BY <2>1, <2>3
<1> QED
  BY <1>6, <1>7, <1>8 DEF PoolInv

(* A call of dump keeps the invariant. *)
LEMMA DumpPreservesInv ==
  ASSUME PoolInv, dump
  PROVE  PoolInv'
<1>1. CASE flushed' = <<>> /\ UNCHANGED pool
  BY <1>1 DEF PoolInv, PoolTypeOK, PoolHoldsUnits, FlushesUnits
<1>2. ASSUME NEW pid \in PIDs, IsFirstOccupied(pid), flushed' = pool[pid],
             pool' = [pool EXCEPT ![pid] = <<>>]
      PROVE  PoolInv'
  <2>1. PoolTypeOK'
    BY <1>2 DEF PoolInv, PoolTypeOK
  <2>2. PoolHoldsUnits'
    BY <1>2 DEF PoolInv, PoolTypeOK, PoolHoldsUnits
  <2>3. flushed' # <<>> /\ IsUnit(pid, flushed')
    BY <1>2 DEF PoolInv, PoolHoldsUnits, IsFirstOccupied, Occupied
  <2>4. Len(flushed') \in Nat \ {0}
    BY <2>1, <2>3 DEF PoolTypeOK
  <2>5. flushed'[1].pid = pid
    BY <2>3, <2>4 DEF IsUnit
  <2>6. FlushesUnits'
    BY <2>3, <2>5 DEF FlushesUnits
  <2> QED
    BY <2>1, <2>2, <2>6 DEF PoolInv
<1> QED
  BY <1>1, <1>2 DEF dump

(* The invariant holds at first and after every call. *)
LEMMA PoolInvInductive == PoolSpec => []PoolInv
<1>1. PoolInit => PoolInv
  BY
  DEF PoolInit, PoolInv, PoolTypeOK, PoolHoldsUnits, FlushesUnits
<1>2. PoolInv /\ [PoolNext]_poolVars => PoolInv'
  <2> SUFFICES ASSUME PoolInv, [PoolNext]_poolVars
               PROVE  PoolInv'
    OBVIOUS
  <2>1. ASSUME NEW p \in Packets, add(p) PROVE PoolInv'
    BY <2>1, AddPreservesInv
  <2>2. CASE dump
    BY <2>2, DumpPreservesInv
  <2>3. CASE UNCHANGED poolVars
    BY <2>3
    DEF poolVars, PoolInv, PoolTypeOK, PoolHoldsUnits, FlushesUnits
  <2> QED
    BY <2>1, <2>2, <2>3 DEF PoolNext
<1> QED
  BY <1>1, <1>2, PTL DEF PoolSpec

(* The pool keeps its type, whatever packets add is given. *)
THEOREM PoolTypeCorrect == PoolSpec => []PoolTypeOK
BY PoolInvInductive, PTL DEF PoolInv

(* What is buffered for a PID is always a run of consecutive packets of    *)
(* one payload unit (packet_pool.go add).                                  *)
THEOREM PoolHoldsOnlyUnits == PoolSpec => []PoolHoldsUnits
BY PoolInvInductive, PTL DEF PoolInv

(* What add and dump return to NextData is always such a run, on one PID.  *)
THEOREM PoolFlushesOnlyUnits == PoolSpec => []FlushesUnits
BY PoolInvInductive, PTL DEF PoolInv

=============================================================================
