---------------------------- MODULE MuxerProofs ----------------------------
(***************************************************************************)
(* For every number of streams, counter values and versions, every period  *)
(* and every pattern of failing writes: the muxer's tables keep coming,    *)
(* list the streams and change their version, and every stream is numbered *)
(* without a gap.                                                          *)
(***************************************************************************)
EXTENDS Muxer, PESPacketizer, TLAPS

(* How long each prover may take over a leaf. *)
USE SMTT(30), ZenonT(30)

(* Counters.                                                               *)

(* Division with remainder. *)
LEMMA Divided ==
  ASSUME NEW m \in Nat \ {0}, NEW x \in Nat
  PROVE  x % m \in 0..(m - 1) /\ x \div m \in Nat /\ x = m * (x \div m) + (x % m)
OBVIOUS

(* A number of which m is taken at most once. *)
LEMMA WrappedOnce ==
  ASSUME NEW m \in Nat \ {0}, NEW x \in 0..(2 * m - 1)
  PROVE  x % m = IF x < m THEN x ELSE x - m
OBVIOUS

(* What is left below m after taking multiples of m is the remainder. *)
LEMMA RemainderIs ==
  ASSUME NEW m \in Nat \ {0}, NEW q \in Nat, NEW r \in 0..(m - 1),
         NEW x \in Nat, x = m * q + r
  PROVE  x % m = r
<1>1. PICK p \in Nat, t \in 0..(m - 1) : x = m * p + t /\ x % m = t
  BY Divided, ZenonT(30)
<1>2. m * (q - p) = t - r /\ m * (p - q) = r - t
  BY <1>1
<1>3. \A z \in Nat \ {0} : m * z >= m
  OBVIOUS
<1> QED
  BY <1>1, <1>2, <1>3, q > p => q - p \in Nat \ {0}, p > q => p - q \in Nat \ {0}

(* wrappingCounter.get is addition modulo the number of values. *)
LEMMA WrappedIsNext ==
  ASSUME NEW m \in Nat \ {0, 1}, NEW x \in Nat
  PROVE  /\ x % m \in 0..(m - 1)
         /\ Wrapped(x % m, m) = (x + 1) % m
         /\ ((x % m) + 1) % m = (x + 1) % m
         /\ x < m => x % m = x
<1>1. PICK q \in Nat, r \in 0..(m - 1) : x = m * q + r /\ x % m = r
  BY Divided
<1>2. PICK y \in Nat : y = x + 1
  OBVIOUS
<1>3. y % m = IF r + 1 = m THEN 0 ELSE r + 1
  <2>1. CASE r + 1 = m
    <3>1. y = m * (q + 1) + 0 /\ q + 1 \in Nat /\ 0 \in 0..(m - 1)
      BY <1>1, <1>2, <2>1
    <3> QED
      BY <2>1, <3>1, RemainderIs
  <2>2. CASE r + 1 # m
    <3>1. y = m * q + (r + 1) /\ r + 1 \in 0..(m - 1)
      BY <1>1, <1>2, <2>2
    <3> QED
      BY <2>2, <3>1, RemainderIs
  <2> QED
    BY <2>1, <2>2
<1>4. (r + 1) % m = IF r + 1 = m THEN 0 ELSE r + 1
  OBVIOUS
<1>5. x < m => x % m = x
  OBVIOUS
<1> QED
  BY <1>1, <1>2, <1>3, <1>4, <1>5 DEF Wrapped

-----------------------------------------------------------------------------
(* Tables.                                                                 *)

PMTs == [version : 0..(VersionMod - 1), streams : Seq(PIDs), pcr : Nat]

OptionalPMT(c) == c = <<>> \/ (c = <<c[1]>> /\ c[1] \in PMTs)

(* The counter of calls bounds those that wrote data without tables, and   *)
(* is below the period only once tables have been written.                 *)
CounterInv ==
  /\ sinceTables \in Nat
  /\ sinceTables <= counter
  /\ emitted = <<>> => counter >= Period

(* The next version is one more than the cached PMT's, and as far from the *)
(* written one's as PMTs were generated since; a cached PMT that was not   *)
(* written has been generated since.                                       *)
VersionInv ==
  /\ generated \in Nat
  /\ OptionalPMT(pmtCache)
  /\ OptionalPMT(emitted)
  /\ pmtCache # <<>> => pmtVersion = Wrapped(pmtCache[1].version, VersionMod)
  /\ emitted # <<>> =>
       pmtVersion = (emitted[1].version + 1 + generated) % VersionMod
  /\ emitted # <<>> /\ pmtCache # <<>> /\ generated = 0 => pmtCache = emitted

TableInv ==
  /\ MuxTypeOK
  /\ contexts \in [DOMAIN contexts -> 0..(CCMod - 1)]
  /\ CounterInv /\ TablesKeepComing
  /\ VersionInv /\ PMTListsStreams

(* Generated PIDs, which are counted from 0, do not meet a client's.       *)
PIDsApart == \A n \in ExplicitPIDs : AutoPIDs => ~(0..n \subseteq PIDs)

(* A stream that does not exist has no last counter, and PIDs that were    *)
(* generated are below nextPID.                                            *)
StreamInv ==
  /\ StreamsNumbered
  /\ StreamsHaveContexts
  /\ \A pid \in PIDs \ DOMAIN contexts : lastCC[pid] = Unknown
  /\ \A pid \in Range(streams) : pid \in ExplicitPIDs \/ pid < nextPID
  /\ 0..(nextPID - 1) \subseteq PIDs
  /\ nextPID > 0 => AutoPIDs

-----------------------------------------------------------------------------

(* Taking one element out of a sequence (RemoveElementaryStream). *)
Without(s, i) == SubSeq(s, 1, i - 1) \o SubSeq(s, i + 1, Len(s))

(* What Without returns: all entries but the i-th, in order. *)
LEMMA WithoutOne ==
  ASSUME NEW S, NEW s \in Seq(S), NEW i \in 1..Len(s)
  PROVE  /\ Without(s, i) \in Seq(S)
         /\ Len(Without(s, i)) = Len(s) - 1
         /\ \A j \in 1..(Len(s) - 1) :
              Without(s, i)[j] = IF j < i THEN s[j] ELSE s[j + 1]
<1> DEFINE n == Len(s)
           a == SubSeq(s, 1, i - 1)
           b == SubSeq(s, i + 1, n)
           t == a \o b
<1>1. n \in Nat /\ i \in 1..n /\ \A j \in 1..n : s[j] \in S
  OBVIOUS
<1> HIDE DEF n
<1>2. /\ a \in Seq(S)
      /\ Len(a) = i - 1
      /\ \A j \in 1..(i - 1) : a[j] = s[j]
  <2>1. \A j \in 1..(i - 1) : s[j] \in S
    BY <1>1
  <2>2. /\ a \in Seq(S)
        /\ Len(a) = IF 1 <= i - 1 THEN (i - 1) - 1 + 1 ELSE 0
        /\ \A j \in 1..((i - 1) - 1 + 1) : a[j] = s[1 + j - 1]
    BY <1>1, <2>1
  <2> HIDE DEF a
  <2> QED
    BY <1>1, <2>2
<1>3. /\ b \in Seq(S)
      /\ Len(b) = n - i
      /\ \A j \in 1..(n - i) : b[j] = s[j + i]
  <2>1. \A j \in (i + 1)..n : s[j] \in S
    BY <1>1
  <2>2. /\ b \in Seq(S)
        /\ Len(b) = IF i + 1 <= n THEN n - (i + 1) + 1 ELSE 0
        /\ \A j \in 1..(n - (i + 1) + 1) : b[j] = s[(i + 1) + j - 1]
    BY <1>1, <2>1
  <2> HIDE DEF b
  <2> QED
    BY <1>1, <2>2, SMTT(60)
<1> HIDE DEF a, b
<1>4. /\ t \in Seq(S)
      /\ Len(t) = Len(a) + Len(b)
      /\ \A j \in 1..(Len(a) + Len(b)) : t[j] =
            IF j <= Len(a) THEN a[j] ELSE b[j - Len(a)]
  <2>1. a \in Seq(S) /\ b \in Seq(S)
    BY <1>2, <1>3
  <2> QED BY ONLY <2>1
<1> HIDE DEF t
<1>5. Len(t) = n - 1 /\ Len(a) + Len(b) = n - 1
  BY ONLY <1>1, <1>2, <1>3, <1>4
<1>6. ASSUME NEW j \in 1..(n - 1)
      PROVE  t[j] = IF j < i THEN s[j] ELSE s[j + 1]
  <2>1. t[j] = IF j <= i - 1 THEN a[j] ELSE b[j - (i - 1)]
    BY <1>2, <1>4, <1>5, ZenonT(60)
  <2>2. CASE j < i
    BY <1>1, <1>2, <2>1, <2>2, SMTT(60)
  <2>3. CASE ~(j < i)
    <3>1. j - (i - 1) \in 1..(n - i) /\ (j - (i - 1)) + i = j + 1
      BY <1>1, <2>3
    <3>2. b[j - (i - 1)] = s[j + 1]
      BY <1>3, <3>1
    <3> QED
      BY <1>1, <2>1, <2>3, <3>2
  <2> QED
    BY <2>2, <2>3
<1> QED
  BY <1>4, <1>5, <1>6, ZenonT(60) DEF Without, a, b, n, t

(* What generating the tables does to the cache and the versions. *)
LEMMA GenerateFacts ==
  ASSUME TableInv, GenerateTables
  PROVE  /\ patVersion' \in 0..(VersionMod - 1)
         /\ pmtVersion' \in 0..(VersionMod - 1)
         /\ OptionalPMT(pmtCache')
         /\ pmtCache' # <<>> => pmtCache'[1].streams = streams
         /\ pmtCache' # <<>> =>
              pmtVersion' = Wrapped(pmtCache'[1].version, VersionMod)
         /\ \/ /\ NeedsPMT /\ PCRPIDValid
               /\ pmtVersion' = Wrapped(pmtVersion, VersionMod)
            \/ /\ ~(NeedsPMT /\ PCRPIDValid)
               /\ UNCHANGED <<pmtVersion, pmtCache>>
         /\ PMTReady => pmtCache' # <<>>
<1>1. /\ VersionMod \in Nat \ {0, 1}
      /\ patVersion \in 0..(VersionMod - 1)
      /\ pmtVersion \in 0..(VersionMod - 1)
      /\ streams \in Seq(PIDs)
      /\ pcrPID \in Nat
  BY VersionModAssumption DEF TableInv, MuxTypeOK
<1>2. patVersion' \in 0..(VersionMod - 1) /\ pmtVersion' \in 0..(VersionMod - 1)
  BY <1>1 DEF GenerateTables, PATVersionAfter, PMTVersionAfter, Wrapped
<1>3. CASE NeedsPMT /\ PCRPIDValid
  <2>1. pmtVersion' = Wrapped(pmtVersion, VersionMod)
    BY <1>3 DEF GenerateTables, PMTVersionAfter
  <2>2. pmtCache' = IF PMTFits THEN <<generatePMT>> ELSE <<>>
    BY <1>3 DEF GenerateTables, PMTAfter, PMTReady, NeedsPMT
  <2>3. /\ generatePMT \in PMTs
        /\ generatePMT.version = pmtVersion
        /\ generatePMT.streams = streams
    BY <1>1 DEF generatePMT, PMTs
  <2>4. PMTReady <=> PMTFits
    BY <1>3 DEF PMTReady
  <2> QED
    BY <1>2, <1>3, <2>1, <2>2, <2>3, <2>4 DEF OptionalPMT
<1>4. CASE ~(NeedsPMT /\ PCRPIDValid)
  <2>1. UNCHANGED <<pmtVersion, pmtCache>>
    BY <1>4 DEF GenerateTables, PMTVersionAfter, PMTAfter, PMTReady
  <2> QED
    BY <1>2, <1>4, <2>1
    DEF TableInv, VersionInv, PMTListsStreams, PMTReady, NeedsPMT
<1> QED
  BY <1>3, <1>4

(* Generating tables without writing them keeps the versions in step. *)
LEMMA TablesFailKeeps ==
  ASSUME TableInv, TablesFail, UNCHANGED streams
  PROVE  VersionInv' /\ PMTListsStreams'
<1>1. GenerateTables /\ generated' = Generations /\ emitted' = emitted
  BY DEF TablesFail
<1>2. PMTListsStreams'
  BY <1>1, GenerateFacts DEF PMTListsStreams
<1>3. CASE ~(NeedsPMT /\ PCRPIDValid)
  <2>1. UNCHANGED <<pmtVersion, pmtCache, generated, emitted>>
    BY <1>1, <1>3, GenerateFacts DEF Generations
  <2> QED
    BY <1>2, <2>1 DEF TableInv, VersionInv
<1>4. CASE NeedsPMT /\ PCRPIDValid
  <2>1. /\ pmtVersion' = Wrapped(pmtVersion, VersionMod)
        /\ generated' = generated + 1
        /\ generated \in Nat
        /\ OptionalPMT(pmtCache')
        /\ pmtCache' # <<>> =>
             pmtVersion' = Wrapped(pmtCache'[1].version, VersionMod)
    BY <1>1, <1>4, GenerateFacts DEF Generations, TableInv, VersionInv
  <2>2. ASSUME emitted # <<>>
        PROVE  pmtVersion' = (emitted[1].version + 1 + generated') % VersionMod
    <3> DEFINE x == emitted[1].version + 1 + generated
    <3>1. emitted[1].version \in Nat /\ pmtVersion = x % VersionMod
      BY <2>2, VersionModAssumption DEF TableInv, VersionInv, OptionalPMT, PMTs
    <3>2. x \in Nat /\ x + 1 = emitted[1].version + 1 + generated'
      <4>1. generated \in Nat /\ generated' = generated + 1
        BY <2>1
      <4> QED
        BY ONLY <3>1, <4>1
    <3> HIDE DEF x
    <3>3. Wrapped(x % VersionMod, VersionMod) = (x + 1) % VersionMod
      BY <3>2, WrappedIsNext, VersionModAssumption, ZenonT(60)
    <3> QED
      BY <2>1, <3>1, <3>2, <3>3
  <2>3. generated' \in Nat \ {0}
    BY <2>1
  <2> QED
    BY <1>1, <1>2, <2>1, <2>2, <2>3 DEF TableInv, VersionInv
<1> QED
  BY <1>3, <1>4

(* So does writing them out. *)
LEMMA TablesOutKeeps ==
  ASSUME TableInv, TablesOut, UNCHANGED streams
  PROVE  VersionInv' /\ PMTListsStreams' /\ emitted' # <<>>
<1>1. /\ GenerateTables
      /\ PMTReady
      /\ emitted' = pmtCache'
      /\ generated' = 0
  BY DEF TablesOut, GenerateTables
<1>2. /\ pmtCache' # <<>>
      /\ OptionalPMT(pmtCache')
      /\ pmtCache'[1].streams = streams
      /\ pmtVersion' = Wrapped(pmtCache'[1].version, VersionMod)
  BY <1>1, GenerateFacts
<1>3. pmtVersion' = (pmtCache'[1].version + 1 + 0) % VersionMod
  <2> DEFINE v == pmtCache'[1].version
  <2>1. v \in 0..(VersionMod - 1)
    BY <1>2 DEF OptionalPMT, PMTs
  <2> HIDE DEF v
  <2>2. v % VersionMod = v /\ Wrapped(v % VersionMod, VersionMod) = (v + 1) % VersionMod
    BY <2>1, WrappedIsNext, VersionModAssumption, v \in Nat, v < VersionMod, ZenonT(60)
  <2> QED
    BY <1>2, <2>1, <2>2 DEF v
<1> QED
  BY <1>1, <1>2, <1>3 DEF VersionInv, PMTListsStreams

(* The packets of a call leave the counters in range. *)
LEMMA WritePacketsTypes ==
  ASSUME TableInv, NEW pid \in DOMAIN contexts, NEW n \in Nat,
         NEW fails \in BOOLEAN, WritePackets(pid, n, fails)
  PROVE  /\ DOMAIN contexts' = DOMAIN contexts
         /\ contexts' \in [DOMAIN contexts' -> 0..(CCMod - 1)]
         /\ lastCC' \in [PIDs -> 0..CCMod]
<1>1. /\ contexts \in [DOMAIN contexts -> 0..(CCMod - 1)]
      /\ lastCC \in [PIDs -> 0..CCMod]
      /\ pid \in PIDs
      /\ CCMod \in Nat \ {0, 1}
  BY CCModAssumption, ZenonT(60) DEF TableInv, MuxTypeOK
<1>2. \A k \in Nat : Advanced(contexts[pid], k) \in 0..(CCMod - 1)
  BY <1>1, Divided DEF Advanced
<1>3. Advanced(contexts[pid], IF fails THEN n + 1 ELSE n) \in 0..(CCMod - 1)
  BY <1>2
<1>4. n # 0 => Advanced(contexts[pid], n - 1) \in 0..CCMod
  BY <1>1, <1>2
<1> QED
  BY <1>1, <1>3, <1>4 DEF WritePackets, Unknown

(* Adding a stream. *)
LEMMA AddStreamKeepsTables ==
  ASSUME TableInv, NEW pid \in PIDs, AddStream(pid), nextPID' \in Nat
  PROVE  TableInv'
<1>1. /\ streams' = Append(streams, pid)
      /\ contexts' = [p \in DOMAIN contexts \cup {pid} |->
                        IF p = pid THEN 0 ELSE contexts[p]]
      /\ pmtCache' = <<>>
      /\ UNCHANGED <<pcrPID, patVersion, pmtVersion, counter, emitted,
                     generated, sinceTables, lastCC>>
  BY DEF AddStream
<1>2. streams' \in Seq(PIDs)
  <2>1. streams \in Seq(PIDs)
    BY DEF TableInv, MuxTypeOK
  <2> QED
    BY <1>1, <2>1
<1>3. /\ DOMAIN contexts' \subseteq PIDs
      /\ contexts' \in [DOMAIN contexts' -> 0..(CCMod - 1)]
  BY <1>1, CCModAssumption DEF TableInv, MuxTypeOK
<1>4. MuxTypeOK'
  BY <1>1, <1>2, <1>3, ZenonT(60) DEF TableInv, MuxTypeOK
<1>5. CounterInv' /\ TablesKeepComing' /\ VersionInv' /\ PMTListsStreams'
  BY <1>1
  DEF TableInv, CounterInv, TablesKeepComing, VersionInv, PMTListsStreams,
      OptionalPMT
<1> QED
  BY <1>3, <1>4, <1>5 DEF TableInv

(* Removing a stream. *)
LEMMA RemoveKeepsTables ==
  ASSUME TableInv, NEW pid \in PIDs, RemoveElementaryStream(pid)
  PROVE  TableInv'
<1>1. PICK i \in DOMAIN streams :
        /\ streams' = Without(streams, i)
        /\ contexts' = [p \in DOMAIN contexts \ {pid} |-> contexts[p]]
        /\ pmtCache' = <<>>
        /\ lastCC' = [lastCC EXCEPT ![pid] = Unknown]
        /\ UNCHANGED <<nextPID, pcrPID, patVersion, pmtVersion, counter, emitted,
                       generated, sinceTables>>
  BY ZenonT(60) DEF RemoveElementaryStream, Without
<1>2. streams' \in Seq(PIDs)
  <2>1. streams \in Seq(PIDs) /\ i \in 1..Len(streams)
    BY DEF TableInv, MuxTypeOK
  <2> QED
    BY <1>1, <2>1, WithoutOne
<1>3. /\ DOMAIN contexts' \subseteq PIDs
      /\ contexts' \in [DOMAIN contexts' -> 0..(CCMod - 1)]
  BY <1>1, SMTT(60) DEF TableInv, MuxTypeOK
<1>4. /\ lastCC' \in [PIDs -> 0..CCMod]
      /\ \A q \in PIDs : lastCC'[q] # Unknown => lastCC[q] # Unknown
  <2>1. lastCC \in [PIDs -> 0..CCMod]
    BY DEF TableInv, MuxTypeOK
  <2>2. Unknown \in 0..CCMod
    BY ONLY CCModAssumption DEF Unknown
  <2>3. lastCC' = [lastCC EXCEPT ![pid] = Unknown]
    BY <1>1
  <2> QED
    BY ONLY <2>1, <2>2, <2>3, pid \in PIDs
<1>5. MuxTypeOK'
  BY <1>1, <1>2, <1>3, <1>4, SMTT(60) DEF TableInv, MuxTypeOK
<1>6. CounterInv' /\ TablesKeepComing' /\ VersionInv' /\ PMTListsStreams'
  BY <1>1, <1>4
  DEF TableInv, CounterInv, TablesKeepComing, VersionInv, PMTListsStreams,
      OptionalPMT, Unknown
<1> QED
  BY <1>3, <1>5, <1>6 DEF TableInv

(* WriteTables. *)
LEMMA WriteTablesKeepsTables ==
  ASSUME TableInv, WriteTables
  PROVE  TableInv'
<1>1. /\ UNCHANGED <<streams, nextPID, pcrPID, contexts, counter, lastCC>>
      /\ GenerateTables
  BY DEF WriteTables, streamVars, TablesOut, TablesFail
<1>2. MuxTypeOK' /\ contexts' \in [DOMAIN contexts' -> 0..(CCMod - 1)]
  BY <1>1, GenerateFacts, SMTT(60) DEF TableInv, MuxTypeOK
<1>3. CASE TablesOut /\ sinceTables' = 0
  <2>1. VersionInv' /\ PMTListsStreams' /\ emitted' # <<>>
    BY <1>1, <1>3, TablesOutKeeps
  <2>2. CounterInv' /\ TablesKeepComing'
    BY <1>1, <1>3, <2>1, MuxBoundsAssumption
    DEF TableInv, MuxTypeOK, CounterInv, TablesKeepComing
  <2> QED
    BY <1>2, <2>1, <2>2 DEF TableInv
<1>4. CASE TablesFail /\ UNCHANGED sinceTables
  <2>1. VersionInv' /\ PMTListsStreams' /\ UNCHANGED emitted
    BY <1>1, <1>4, TablesFailKeeps DEF TablesFail
  <2>2. CounterInv' /\ TablesKeepComing'
    BY <1>1, <1>4, <2>1 DEF TableInv, CounterInv, TablesKeepComing, Unknown
  <2> QED
    BY <1>2, <2>1, <2>2 DEF TableInv
<1> QED
  BY <1>3, <1>4 DEF WriteTables

(* WriteData: one that writes no tables finds the counter below the period. *)
LEMMA WriteDataKeepsTables ==
  ASSUME TableInv, NEW pid \in PIDs, NEW random \in BOOLEAN, NEW n \in Nat,
         NEW fails \in BOOLEAN, WriteData(pid, random, n, fails)
  PROVE  TableInv'
<1>1. /\ UNCHANGED <<streams, nextPID, pcrPID>>
      /\ pid \in DOMAIN contexts
      /\ counter \in Nat
      /\ sinceTables \in Nat
  BY DEF WriteData, streamVars, TableInv, MuxTypeOK, CounterInv
<1> DEFINE ContextsOK == /\ DOMAIN contexts' = DOMAIN contexts
                         /\ contexts' \in [DOMAIN contexts' -> 0..(CCMod - 1)]
                         /\ lastCC' \in [PIDs -> 0..CCMod]
<1>2. CASE /\ ~TablesDue(pid, random)
           /\ counter' = counter + 1
           /\ sinceTables' = sinceTables + 1
           /\ WritePackets(pid, n, fails)
           /\ UNCHANGED tableVars
  <2>1. ContextsOK
    BY <1>1, <1>2, WritePacketsTypes
  <2>2. UNCHANGED <<patVersion, pmtVersion, pmtCache, emitted, generated>>
    BY <1>2 DEF tableVars, cacheVars
  <2>3. MuxTypeOK'
    <3>1. /\ streams \in Seq(PIDs) /\ DOMAIN contexts \subseteq PIDs
          /\ nextPID \in Nat /\ pcrPID \in Nat
          /\ patVersion \in 0..(VersionMod - 1) /\ pmtVersion \in 0..(VersionMod - 1)
      BY DEF TableInv, MuxTypeOK
    <3>2. counter' \in Nat
      BY <1>1, <1>2
    <3>3. DOMAIN contexts' \subseteq PIDs /\ lastCC' \in [PIDs -> 0..CCMod]
      BY ONLY <2>1, <3>1
    <3>4. \A q \in DOMAIN contexts' : contexts'[q] \in 0..(CCMod - 1)
      BY ONLY <2>1
    <3>5. /\ streams' \in Seq(PIDs) /\ nextPID' \in Nat /\ pcrPID' \in Nat
          /\ patVersion' \in 0..(VersionMod - 1) /\ pmtVersion' \in 0..(VersionMod - 1)
      BY ONLY <1>1, <2>2, <3>1
    <3> QED
      BY ONLY <3>2, <3>3, <3>4, <3>5, SMTT(60) DEF MuxTypeOK
  <2>4. VersionInv' /\ PMTListsStreams'
    BY <1>1, <2>2 DEF TableInv, VersionInv, PMTListsStreams
  <2>5. counter + 1 < Period /\ emitted # <<>>
    BY <1>1, <1>2, MuxBoundsAssumption, SMTT(60) DEF TablesDue, TableInv, CounterInv
  <2>6. CounterInv' /\ TablesKeepComing'
    BY <1>1, <1>2, <2>2, <2>5, MuxBoundsAssumption, SMTT(60)
    DEF TableInv, CounterInv, TablesKeepComing
  <2> QED
    BY <2>1, <2>3, <2>4, <2>6 DEF TableInv
<1>3. CASE /\ TablesOut
           /\ counter' = 0
           /\ sinceTables' = 0
           /\ WritePackets(pid, n, fails)
  <2>1. ContextsOK
    BY <1>1, <1>3, WritePacketsTypes
  <2>2. VersionInv' /\ PMTListsStreams' /\ emitted' # <<>>
    BY <1>1, <1>3, TablesOutKeeps
  <2>3. GenerateTables
    BY <1>3 DEF TablesOut
  <2>4. MuxTypeOK'
    BY <1>1, <1>3, <2>1, <2>3, GenerateFacts, ZenonT(60) DEF TableInv, MuxTypeOK
  <2>5. CounterInv' /\ TablesKeepComing'
    BY <1>3, <2>2, MuxBoundsAssumption DEF CounterInv, TablesKeepComing
  <2> QED
    BY <2>1, <2>2, <2>4, <2>5 DEF TableInv
<1>4. CASE /\ TablesFail
           /\ counter' = counter + 1
           /\ UNCHANGED <<contexts, sinceTables, lastCC>>
  <2>1. VersionInv' /\ PMTListsStreams' /\ UNCHANGED emitted
    BY <1>1, <1>4, TablesFailKeeps DEF TablesFail
  <2>2. GenerateTables
    BY <1>4 DEF TablesFail
  <2>3. MuxTypeOK' /\ contexts' \in [DOMAIN contexts' -> 0..(CCMod - 1)]
    <3>1. /\ patVersion' \in 0..(VersionMod - 1)
          /\ pmtVersion' \in 0..(VersionMod - 1)
      BY <2>2, GenerateFacts
    <3>2. UNCHANGED <<streams, nextPID, pcrPID, contexts, lastCC>> /\ counter' \in Nat
      BY <1>1, <1>4
    <3> QED
      BY <3>1, <3>2, SMTT(60) DEF TableInv, MuxTypeOK
  <2>4. CounterInv' /\ TablesKeepComing'
    BY <1>1, <1>4, <2>1, MuxBoundsAssumption, SMTT(60)
    DEF TableInv, CounterInv, TablesKeepComing, Unknown
  <2> QED
    BY <2>1, <2>3, <2>4 DEF TableInv
<1> QED
  BY <1>2, <1>3, <1>4 DEF WriteData

(* Only writing the tables out changes the PMT a receiver knows. *)
LEMMA EmittedByTablesOut ==
  ASSUME [MuxNext]_muxVars, emitted' # emitted
  PROVE  TablesOut
BY ZenonT(60) DEF MuxNext, muxVars, tableVars, AddElementaryStream, AddAutoPID, AddStream,
       RemoveElementaryStream, SetPCRPID, WriteTables, WriteData, TablesFail

(* The invariant holds at first and after every call. *)
LEMMA TableInvInductive == MuxSpec => []TableInv
<1>1. MuxInit => TableInv
  BY CCModAssumption, VersionModAssumption, MuxBoundsAssumption
  DEF MuxInit, TableInv, MuxTypeOK, CounterInv, TablesKeepComing, VersionInv,
      PMTListsStreams, OptionalPMT, Unknown
<1>2. TableInv /\ [MuxNext]_muxVars => TableInv'
  <2> SUFFICES ASSUME TableInv, [MuxNext]_muxVars
               PROVE  TableInv'
    OBVIOUS
  <2>1. ASSUME NEW pid \in ExplicitPIDs, AddElementaryStream(pid)
        PROVE  TableInv'
    BY <2>1, AddStreamKeepsTables, PIDsAssumption, ZenonT(60)
    DEF AddElementaryStream, TableInv, MuxTypeOK
  <2>2. CASE AddAutoPID
    BY <2>2, AddStreamKeepsTables, PIDsAssumption DEF AddAutoPID
  <2>3. ASSUME NEW pid \in PIDs, RemoveElementaryStream(pid)
        PROVE  TableInv'
    BY <2>3, RemoveKeepsTables
  <2>4. ASSUME NEW pid \in PIDs, SetPCRPID(pid)
        PROVE  TableInv'
    BY <2>4, PIDsAssumption, SMTT(60)
    DEF SetPCRPID, tableVars, cacheVars, TableInv, MuxTypeOK, CounterInv,
        TablesKeepComing, VersionInv, PMTListsStreams, Unknown
  <2>5. CASE WriteTables
    BY <2>5, WriteTablesKeepsTables
  <2>6. ASSUME NEW pid \in PIDs, NEW random \in BOOLEAN, NEW n \in 0..MaxPackets,
               NEW fails \in BOOLEAN, WriteData(pid, random, n, fails)
        PROVE  TableInv'
    BY <2>6, n \in Nat, WriteDataKeepsTables
  <2>7. CASE UNCHANGED muxVars
    BY <2>7
    DEF muxVars, streamVars, tableVars, cacheVars, TableInv, MuxTypeOK,
        CounterInv, TablesKeepComing, VersionInv, PMTListsStreams, Unknown
  <2> QED
    BY <2>1, <2>2, <2>3, <2>4, <2>5, <2>6, <2>7 DEF MuxNext
<1> QED
  BY <1>1, <1>2, PTL DEF MuxSpec

(* The muxer's state keeps its types. *)
THEOREM MuxTypeCorrect == MuxSpec => []MuxTypeOK
BY TableInvInductive, PTL DEF TableInv

(* No data before the tables, and never Period calls that write data       *)
(* without them, whichever writes fail (muxer.go retransmitTables).        *)
THEOREM TablesAlwaysCome == MuxSpec => []TablesKeepComing
BY TableInvInductive, PTL DEF TableInv

(* The PMT kept for retransmission lists the streams there are.            *)
THEOREM PMTAlwaysCurrent == MuxSpec => []PMTListsStreams
BY TableInvInductive, PTL DEF TableInv

(* A PMT that differs from the one written before has another version,     *)
(* unless VersionMod PMTs have been generated in between (generatePMT).    *)
THEOREM VersionAlwaysTracks == MuxSpec => VersionTracksPMT
<1> DEFINE A == emitted # <<>> /\ emitted' # emitted /\ Generations < VersionMod
                => emitted'[1].version # emitted[1].version
<1>1. TableInv /\ [MuxNext]_muxVars => [A]_muxVars
  <2> SUFFICES ASSUME TableInv, [MuxNext]_muxVars, emitted # <<>>,
                      emitted' # emitted, Generations < VersionMod
               PROVE  emitted'[1].version # emitted[1].version
    OBVIOUS
  <2> DEFINE v == emitted[1].version
  <2>1. TablesOut
    BY EmittedByTablesOut
  <2>2. /\ v \in 0..(VersionMod - 1)
        /\ generated \in Nat
        /\ pmtVersion = (v + 1 + generated) % VersionMod
        /\ VersionMod \in Nat \ {0, 1}
    BY VersionModAssumption DEF TableInv, VersionInv, OptionalPMT, PMTs
  <2> HIDE DEF v
  <2>3. CASE NeedsPMT
    <3>1. /\ emitted' = <<generatePMT>>
          /\ Generations = generated + 1
      BY <2>1, <2>3 DEF TablesOut, PMTAfter, PMTReady, Generations
    <3>2. emitted'[1].version = pmtVersion
      BY <3>1 DEF generatePMT
    <3>3. generated + 1 \in 1..(VersionMod - 1)
      BY <2>2, <3>1
    <3>4. (v + (generated + 1)) % VersionMod # v
      <4>1. PICK x \in 0..(2 * VersionMod - 1) : x = v + (generated + 1)
        BY <2>2, <3>3
      <4>2. x % VersionMod = IF x < VersionMod THEN x ELSE x - VersionMod
        BY <2>2, WrappedOnce, ZenonT(30)
      <4> QED
        BY <2>2, <3>3, <4>1, <4>2
    <3>5. v + (generated + 1) = v + 1 + generated
      BY <2>2
    <3> QED
      BY <2>2, <3>2, <3>4, <3>5 DEF v
  <2>4. CASE ~NeedsPMT
    <3>1. /\ emitted' = pmtCache
          /\ pmtCache # <<>>
          /\ Generations = generated
      BY <2>1, <2>4 DEF TablesOut, PMTAfter, NeedsPMT, Generations
    <3> DEFINE w == pmtCache[1].version
    <3>2. /\ w \in 0..(VersionMod - 1)
          /\ pmtVersion = Wrapped(w, VersionMod)
          /\ generated # 0
      BY <3>1 DEF TableInv, VersionInv, OptionalPMT, PMTs
    <3> HIDE DEF w
    <3>3. SUFFICES ASSUME w = v PROVE FALSE
      BY <3>1 DEF w, v
    <3>4. generated \in 1..(VersionMod - 1)
      BY <2>2, <3>1, <3>2
    <3>5. (v + 1) % VersionMod = Wrapped(v, VersionMod)
      BY <2>2, WrappedIsNext, v \in Nat, v < VersionMod, ZenonT(60)
    <3>6. ((v + 1) + generated) % VersionMod # (v + 1) % VersionMod
      <4>1. PICK x \in 0..(2 * VersionMod - 1), y \in 0..(2 * VersionMod - 1) :
              x = v + 1 /\ y = (v + 1) + generated
        BY <2>2, <3>4
      <4>2. /\ x % VersionMod = IF x < VersionMod THEN x ELSE x - VersionMod
            /\ y % VersionMod = IF y < VersionMod THEN y ELSE y - VersionMod
        BY <2>2, WrappedOnce, ZenonT(30)
      <4> QED
        BY <2>2, <3>4, <4>1, <4>2
    <3> QED
      BY <2>2, <3>2, <3>3, <3>5, <3>6
  <2> QED
    BY <2>3, <2>4
<1> QED
  BY <1>1, TableInvInductive, PTL DEF MuxSpec, VersionTracksPMT

-----------------------------------------------------------------------------
(* Streams.                                                                *)

(* The streams as a sequence without repetitions. *)
LEMMA StreamFacts ==
  ASSUME TableInv, StreamInv
  PROVE  /\ streams \in Seq(PIDs)
         /\ Len(streams) \in Nat
         /\ DOMAIN streams = 1..Len(streams)
         /\ DOMAIN contexts = Range(streams)
         /\ Range(streams) = {streams[i] : i \in 1..Len(streams)}
         /\ \A i, j \in 1..Len(streams) : streams[i] = streams[j] => i = j
<1>1. streams \in Seq(PIDs)
  BY ZenonT(30) DEF TableInv, MuxTypeOK
<1>2. /\ DOMAIN contexts = Range(streams)
      /\ \A i, j \in DOMAIN streams : streams[i] = streams[j] => i = j
  BY ZenonT(30) DEF StreamInv, StreamsHaveContexts
<1>3. Len(streams) \in Nat /\ DOMAIN streams = 1..Len(streams)
  BY <1>1
<1>4. Range(streams) = {streams[i] : i \in 1..Len(streams)}
  BY <1>3 DEF Range
<1> QED
  BY <1>1, <1>2, <1>3, <1>4

(* Adding a stream with a PID that is not in use. *)
LEMMA AddStreamKeepsStreams ==
  ASSUME TableInv, StreamInv, NEW pid \in PIDs, AddStream(pid),
         pid \notin Range(streams), nextPID' \in Nat, nextPID' >= nextPID,
         pid \in ExplicitPIDs \/ pid < nextPID',
         0..(nextPID' - 1) \subseteq PIDs, nextPID' > 0 => AutoPIDs
  PROVE  StreamInv'
<1> DEFINE n == Len(streams)
<1>1. /\ streams \in Seq(PIDs)
      /\ n \in Nat
      /\ DOMAIN streams = 1..n
      /\ DOMAIN contexts = Range(streams)
      /\ Range(streams) = {streams[i] : i \in 1..n}
      /\ \A i, j \in 1..n : streams[i] = streams[j] => i = j
  BY StreamFacts
<1>2. /\ streams' = Append(streams, pid)
      /\ contexts' = [p \in DOMAIN contexts \cup {pid} |->
                        IF p = pid THEN 0 ELSE contexts[p]]
      /\ UNCHANGED lastCC
  BY DEF AddStream
<1>3. /\ streams' \in Seq(PIDs)
      /\ Len(streams') = n + 1
      /\ \A i \in 1..n : streams'[i] = streams[i]
      /\ streams'[n + 1] = pid
      /\ DOMAIN streams' = 1..(n + 1)
  BY <1>1, <1>2
<1> HIDE DEF n
<1>4. Range(streams') = Range(streams) \cup {pid}
  BY <1>1, <1>3 DEF Range
<1>5. StreamsHaveContexts'
  <2>1. DOMAIN contexts' = Range(streams')
    BY <1>1, <1>2, <1>4
  <2>2. ASSUME NEW i \in 1..(n + 1), NEW j \in 1..(n + 1), streams'[i] = streams'[j]
        PROVE  i = j
    <3>1. \A k \in 1..n : streams[k] # pid
      BY <1>1
    <3> QED
      BY <1>1, <1>3, <2>2, <3>1
  <2> QED
    BY <1>3, <2>1, <2>2 DEF StreamsHaveContexts
<1>6. lastCC[pid] = Unknown
  BY <1>1 DEF StreamInv
<1>7. StreamsNumbered'
  BY <1>2, <1>6 DEF StreamInv, StreamsNumbered, Unknown
<1>8. \A q \in PIDs \ DOMAIN contexts' : lastCC'[q] = Unknown'
  BY <1>2 DEF StreamInv, Unknown
<1>9. \A q \in Range(streams') : q \in ExplicitPIDs \/ q < nextPID'
  <2>1. \A q \in Range(streams) : q \in Nat /\ (q \in ExplicitPIDs \/ q < nextPID)
    <3>1. \A q \in Range(streams) : q \in PIDs
      BY ONLY <1>1
    <3> QED BY <3>1, PIDsAssumption, ZenonT(60) DEF StreamInv
  <2> QED
    BY <1>4, <2>1 DEF TableInv, MuxTypeOK
<1> QED
  BY <1>5, <1>7, <1>8, <1>9, ZenonT(60) DEF StreamInv

(* Removing one. *)
LEMMA RemoveKeepsStreams ==
  ASSUME TableInv, StreamInv, NEW pid \in PIDs, RemoveElementaryStream(pid)
  PROVE  StreamInv'
<1> DEFINE n == Len(streams)
<1>1. /\ streams \in Seq(PIDs)
      /\ n \in Nat
      /\ DOMAIN streams = 1..n
      /\ DOMAIN contexts = Range(streams)
      /\ Range(streams) = {streams[i] : i \in 1..n}
      /\ \A i, j \in 1..n : streams[i] = streams[j] => i = j
  BY StreamFacts, SMTT(60)
<1>2. PICK i \in 1..n :
        /\ streams[i] = pid
        /\ streams' = Without(streams, i)
        /\ contexts' = [p \in DOMAIN contexts \ {pid} |-> contexts[p]]
        /\ lastCC' = [lastCC EXCEPT ![pid] = Unknown]
        /\ UNCHANGED nextPID
  BY <1>1, ZenonT(60) DEF RemoveElementaryStream, Without
<1>3. /\ streams' \in Seq(PIDs)
      /\ Len(streams') = n - 1
      /\ \A j \in 1..(n - 1) :
           streams'[j] = IF j < i THEN streams[j] ELSE streams[j + 1]
  BY <1>1, <1>2, WithoutOne, ZenonT(60)
<1>4. DOMAIN streams' = 1..(n - 1)
  BY <1>3
<1> HIDE DEF n
<1>5. Range(streams') = Range(streams) \ {pid}
  <2>1. Range(streams') = {streams'[j] : j \in 1..(n - 1)}
    BY <1>3, <1>4 DEF Range
  <2>2. ASSUME NEW j \in 1..(n - 1)
        PROVE  streams'[j] \in {streams[k] : k \in 1..n} \ {pid}
    <3>1. CASE j < i
      BY <1>1, <1>2, <1>3, <3>1
    <3>2. CASE ~(j < i)
      BY <1>1, <1>2, <1>3, <3>2, SMTT(60)
    <3> QED
      BY <3>1, <3>2
  <2>3. ASSUME NEW k \in 1..n, streams[k] # pid
        PROVE  \E j \in 1..(n - 1) : streams'[j] = streams[k]
    <3>1. CASE k < i
      <4>1. k \in 1..(n - 1) /\ streams'[k] = streams[k]
        BY <1>1, <1>2, <1>3, <3>1
      <4> QED
        BY <4>1
    <3>2. CASE k > i
      <4>1. k - 1 \in 1..(n - 1) /\ ~(k - 1 < i) /\ (k - 1) + 1 = k
        BY <1>1, <1>2, <3>2
      <4>2. streams'[k - 1] = streams[k]
        BY <1>3, <4>1
      <4> QED
        BY <4>1, <4>2
    <3> QED
      BY <1>2, <2>3, <3>1, <3>2
  <2> QED
    BY <1>1, <2>1, <2>2, <2>3
<1>6. StreamsHaveContexts'
  <2>1. ASSUME NEW j \in 1..(n - 1), NEW k \in 1..(n - 1), streams'[j] = streams'[k]
        PROVE  j = k
    <3> DEFINE Old(m) == IF m < i THEN m ELSE m + 1
    <3>1. /\ Old(j) \in 1..n /\ streams'[j] = streams[Old(j)]
          /\ Old(k) \in 1..n /\ streams'[k] = streams[Old(k)]
      BY <1>1, <1>2, <1>3
    <3>2. Old(j) = Old(k)
      BY <1>1, <2>1, <3>1, ZenonT(60)
    <3> QED
      BY <1>1, <1>2, <3>2, SMTT(60)
  <2> QED
    BY <1>1, <1>2, <1>4, <1>5, <2>1 DEF StreamsHaveContexts
<1>7. lastCC \in [PIDs -> 0..CCMod]
  BY DEF TableInv, MuxTypeOK
<1>8. StreamsNumbered'
  BY <1>2, <1>7 DEF StreamInv, StreamsNumbered, Unknown, TableInv, MuxTypeOK
<1>9. \A q \in PIDs \ DOMAIN contexts' : lastCC'[q] = Unknown'
  BY <1>2, <1>7 DEF StreamInv, Unknown
<1> QED
  BY <1>2, <1>5, <1>6, <1>8, <1>9 DEF StreamInv

(* Writing packets: the next counter follows the last one written. *)
LEMMA WritePacketsKeepsStreams ==
  ASSUME TableInv, StreamInv, NEW pid \in DOMAIN contexts, NEW n \in Nat,
         NEW fails \in BOOLEAN, WritePackets(pid, n, fails),
         UNCHANGED <<streams, nextPID>>
  PROVE  StreamInv'
<1>1. /\ contexts \in [DOMAIN contexts -> 0..(CCMod - 1)]
      /\ lastCC \in [PIDs -> 0..CCMod]
      /\ pid \in PIDs
      /\ CCMod \in Nat \ {0, 1}
  BY CCModAssumption, SMTT(60) DEF TableInv, MuxTypeOK
<1> DEFINE c == contexts[pid]
<1>2. /\ DOMAIN contexts' = DOMAIN contexts
      /\ \A q \in DOMAIN contexts \ {pid} :
           contexts'[q] = contexts[q] /\ lastCC'[q] = lastCC[q]
      /\ \A q \in PIDs \ {pid} : lastCC'[q] = lastCC[q]
  BY <1>1 DEF WritePackets, TableInv, MuxTypeOK
<1>3. ASSUME lastCC'[pid] # Unknown
      PROVE  contexts'[pid] = (lastCC'[pid] + 1) % CCMod
  <2>1. ~fails /\ contexts'[pid] = (c + n) % CCMod
    BY <1>1, <1>3 DEF WritePackets, Advanced
  <2>2. CASE n = 0
    <3>1. c + n = c /\ c % CCMod = c
      BY <1>1, <2>2
    <3>2. lastCC'[pid] = lastCC[pid] /\ lastCC[pid] # Unknown
      BY <1>3, <2>1, <2>2 DEF WritePackets
    <3> QED
      BY <2>1, <3>1, <3>2 DEF StreamInv, StreamsNumbered
  <2>3. CASE n # 0
    <3> DEFINE x == c + (n - 1)
    <3>1. x \in Nat /\ c + n = x + 1
      BY <1>1, <2>3
    <3>2. lastCC'[pid] = x % CCMod
      BY <1>1, <2>1, <2>3 DEF WritePackets, Advanced
    <3> HIDE DEF x
    <3>3. ((x % CCMod) + 1) % CCMod = (x + 1) % CCMod
      BY <1>1, <3>1, WrappedIsNext
    <3> QED
      BY <2>1, <3>1, <3>2, <3>3
  <2> QED
    BY <2>2, <2>3
<1>4. StreamsNumbered'
  BY <1>2, <1>3 DEF StreamInv, StreamsNumbered, Unknown
<1>5. StreamsHaveContexts'
  BY <1>2 DEF StreamInv, StreamsHaveContexts
<1>6. \A q \in PIDs \ DOMAIN contexts' : lastCC'[q] = Unknown'
  BY <1>2 DEF StreamInv, Unknown
<1> QED
  BY <1>4, <1>5, <1>6 DEF StreamInv

(* The invariant, when generated PIDs do not meet the client's. *)
LEMMA StreamInvInductive ==
  ASSUME PIDsApart
  PROVE  MuxSpec => []StreamInv
<1>1. MuxInit => StreamInv
  <2> SUFFICES ASSUME MuxInit PROVE StreamInv
    OBVIOUS
  <2>1. DOMAIN streams = {} /\ Range(streams) = {} /\ DOMAIN contexts = {}
    BY DEF MuxInit, Range
  <2>2. nextPID = 0 /\ \A pid \in PIDs : lastCC[pid] = Unknown
    BY DEF MuxInit
  <2>3. 0..(nextPID - 1) = {}
    BY <2>2
  <2> QED
    BY <2>1, <2>2, <2>3 DEF StreamInv, StreamsNumbered, StreamsHaveContexts
<1>2. TableInv /\ StreamInv /\ [MuxNext]_muxVars => StreamInv'
  <2> SUFFICES ASSUME TableInv, StreamInv, [MuxNext]_muxVars
               PROVE  StreamInv'
    OBVIOUS
  <2>1. ASSUME NEW pid \in ExplicitPIDs, AddElementaryStream(pid)
        PROVE  StreamInv'
    <3>1. /\ pid \in PIDs
          /\ pid \notin Range(streams)
          /\ AddStream(pid)
          /\ nextPID' = nextPID
          /\ nextPID \in Nat
      BY <2>1, PIDsAssumption DEF AddElementaryStream, TableInv, MuxTypeOK
    <3> QED
      BY <3>1, AddStreamKeepsStreams DEF StreamInv
  <2>2. CASE AddAutoPID
    <3>1. /\ nextPID \in PIDs
          /\ nextPID \in Nat
          /\ AddStream(nextPID)
          /\ nextPID' = nextPID + 1
          /\ AutoPIDs
      BY <2>2 DEF AddAutoPID, TableInv, MuxTypeOK
    <3>2. 0..nextPID \subseteq PIDs
      BY <3>1 DEF StreamInv
    <3>3. nextPID \notin ExplicitPIDs
      BY <3>1, <3>2 DEF PIDsApart
    <3>4. nextPID \notin Range(streams)
      BY <3>1, <3>3 DEF StreamInv
    <3>5. 0..(nextPID' - 1) \subseteq PIDs /\ nextPID' \in Nat /\ nextPID' >= nextPID
      BY <3>1, <3>2
    <3> QED
      BY <3>1, <3>4, <3>5, nextPID < nextPID', AddStreamKeepsStreams
  <2>3. ASSUME NEW pid \in PIDs, RemoveElementaryStream(pid)
        PROVE  StreamInv'
    BY <2>3, RemoveKeepsStreams
  <2>4. CASE UNCHANGED <<streams, nextPID, contexts, lastCC>>
    BY <2>4 DEF StreamInv, StreamsNumbered, StreamsHaveContexts, Unknown
  <2>5. ASSUME NEW pid \in PIDs, SetPCRPID(pid)
        PROVE  StreamInv'
    BY <2>4, <2>5 DEF SetPCRPID
  <2>6. CASE WriteTables
    BY <2>4, <2>6 DEF WriteTables, streamVars
  <2>7. ASSUME NEW pid \in PIDs, NEW random \in BOOLEAN, NEW n \in 0..MaxPackets,
               NEW fails \in BOOLEAN, WriteData(pid, random, n, fails)
        PROVE  StreamInv'
    <3>1. pid \in DOMAIN contexts /\ UNCHANGED <<streams, nextPID>> /\ n \in Nat
      BY <2>7 DEF WriteData, streamVars
    <3>2. CASE WritePackets(pid, n, fails)
      BY <3>1, <3>2, WritePacketsKeepsStreams
    <3>3. CASE UNCHANGED <<contexts, lastCC>>
      BY <2>4, <3>1, <3>3
    <3> QED
      BY <2>7, <3>2, <3>3 DEF WriteData
  <2>8. CASE UNCHANGED muxVars
    BY <2>4, <2>8 DEF muxVars, streamVars
  <2> QED
    BY <2>1, <2>2, <2>3, <2>5, <2>6, <2>7, <2>8 DEF MuxNext
<1> QED
  BY <1>1, <1>2, TableInvInductive, PTL DEF MuxSpec

(* Every stream's packets are numbered consecutively, whatever is done to  *)
(* other streams and to the tables, and whichever writes fail.             *)
THEOREM StreamsAlwaysNumbered ==
  ASSUME PIDsApart
  PROVE  MuxSpec => []StreamsNumbered
BY StreamInvInductive, PTL DEF StreamInv

(* The streams of the PMT have distinct PIDs, and are those WriteData      *)
(* accepts data for (AddElementaryStream, RemoveElementaryStream).         *)
THEOREM StreamsAlwaysHaveContexts ==
  ASSUME PIDsApart
  PROVE  MuxSpec => []StreamsHaveContexts
BY StreamInvInductive, PTL DEF StreamInv

-----------------------------------------------------------------------------
(* The packet loop of WriteData.  For every packet size, every set of      *)
(* legal MuxerData and every failure of the writer: it never builds a      *)
(* packet that is too long, cuts the payload exactly, numbers its packets  *)
(* without a gap, and, when the caller leaves no stuffing in the           *)
(* adaptation field, never pads a packet after its payload.                *)

OutPackets ==
  [cc : 0..(CCMod - 1), start : BOOLEAN, af : [bytes : Nat, length : Nat],
   header : Nat, from : Nat, to : Nat, padding : Nat]

(* The adaptation field, with its stuffing, leaves room for a length byte  *)
(* and the packet header, and is only pending in the first packet.         *)
FieldFits ==
  /\ d.af => HeaderSize + 1 + d.fixed + stuffing <= PacketSize
  /\ writeAf => d.af /\ (pc = "writing" => payloadStart)

(* How far the loop is: before the first packet nothing is written, and    *)
(* afterwards the last packet ends where the next one will start.          *)
Progress ==
  pc = "writing" => /\ result = "none"
                    /\ payloadStart => out = <<>> /\ done = 0
                    /\ ~payloadStart => out # <<>> /\ out[Len(out)].to = done

Split ==
  \A k \in 1..Len(out) : /\ out[k].start = (k = 1)
                         /\ out[k].header = IF k = 1 THEN d.written ELSE 0
                         /\ out[k].from = IF k = 1 THEN 0 ELSE out[k - 1].to
                         /\ out[k].from <= out[k].to

Whole == result = "ok" => (IF out = <<>> THEN 0 ELSE out[Len(out)].to) = d.len

TrueLength ==
  \A k \in 1..Len(out) : out[k].af.bytes > 0 => out[k].af.length = out[k].af.bytes - 1

PESInv == /\ PESTypeOK
          /\ out \in Seq(OutPackets)
          /\ FieldFits
          /\ Progress
          /\ Split
          /\ Whole
          /\ TrueLength
          /\ NoSizeError

-----------------------------------------------------------------------------

(* What is known of any MuxerData, the one before the first call included. *)
LEMMA DataFacts ==
  ASSUME NEW e \in MuxerDatas \cup {NoData}
  PROVE  /\ e.af \in BOOLEAN
         /\ e.fixed \in Nat /\ e.stuffing \in Nat
         /\ e.calc \in Nat /\ e.written \in Nat /\ e.len \in Nat
         /\ e.af => HeaderSize + 1 + e.fixed + e.stuffing <= PacketSize
         /\ e.written <= e.calc
         /\ HeaderSize + e.calc <= PacketSize
<1>1. CASE e \in MuxerDatas
  BY <1>1, MuxerDatasAssumption
<1>2. CASE e = NoData
  <2>1. /\ e.af = FALSE /\ e.fixed = 0 /\ e.stuffing = 0
        /\ e.calc = 1 /\ e.written = 1 /\ e.len = 0
    BY <1>2 DEF NoData
  <2>2. e.af \in BOOLEAN /\ ~e.af
    BY <2>1, ZenonT(60)
  <2>3. /\ e.fixed \in Nat /\ e.stuffing \in Nat
        /\ e.calc \in Nat /\ e.written \in Nat /\ e.len \in Nat
        /\ e.written <= e.calc
        /\ HeaderSize + e.calc <= PacketSize
    BY <2>1, PacketSizeAssumption DEF HeaderSize
  <2> QED BY <2>2, <2>3
<1> QED BY <1>1, <1>2

(* A length below 256 is not changed by its conversion to uint8. *)
LEMMA SmallLength ==
  ASSUME NEW n \in Nat, n < 256
  PROVE  n % 256 = n
  BY Z3

(* The room left beside an adaptation field that is still to be written.   *)
LEMMA AvailableWithField ==
  ASSUME PESInv, writeAf
  PROVE  Available = PacketSize - 5 - d.fixed - stuffing
<1>1. /\ d.fixed \in Nat /\ stuffing \in Nat
      /\ HeaderSize + 1 + d.fixed + stuffing <= PacketSize
  BY DataFacts DEF PESInv, PESTypeOK, FieldFits
<1>2. PacketSize \in 5..255 /\ HeaderSize = 4
  BY PacketSizeAssumption DEF HeaderSize
<1>3. d.fixed + stuffing \in Nat /\ d.fixed + stuffing < 256
  BY <1>1, <1>2
<1>4. AFLength(stuffing) = d.fixed + stuffing
  BY <1>3, SmallLength DEF AFLength
<1> QED BY <1>1, <1>2, <1>4 DEF Available

(* The arithmetic of one packet, in a state where the loop goes on and the *)
(* PES header fits: the payload is what is left or what fits, and header,  *)
(* adaptation field and payload fill the packet, up to the stuffing the    *)
(* caller left when that is replaced.                                      *)
LEMMA PacketArithmetic ==
  ASSUME PESInv, pc = "writing", done < d.len, HeaderFits
  PROVE  /\ PayloadBytes \in Nat
         /\ done + PayloadBytes \in 0..d.len
         /\ Rest \in Nat
         /\ Available \in Nat
         /\ HeaderBytes \in Nat
         /\ NewStuffing \in Nat
         /\ ~TooLong
         /\ PacketWritten \in OutPackets
         /\ d.af => HeaderSize + 1 + d.fixed + NewStuffing <= PacketSize
         /\ AFWritten.bytes > 0 => AFWritten.length = AFWritten.bytes - 1
         /\ PacketWritten.padding = IF writeAf /\ Rest > 0 THEN stuffing ELSE 0
<1> DEFINE A == Available
           H == HeaderBytes
           P == PayloadBytes
           R == Rest
<1>1. /\ d \in MuxerDatas \cup {NoData} /\ stuffing \in Nat /\ done \in 0..d.len
      /\ cc \in 0..(CCMod - 1) /\ payloadStart \in BOOLEAN /\ writeAf \in BOOLEAN
      /\ writeAf => d.af /\ payloadStart
      /\ d.af => HeaderSize + 1 + d.fixed + stuffing <= PacketSize
  BY DEF PESInv, PESTypeOK, FieldFits
<1>2. /\ d.fixed \in Nat /\ d.calc \in Nat /\ d.written \in Nat /\ d.len \in Nat
      /\ d.af \in BOOLEAN /\ d.written <= d.calc /\ HeaderSize + d.calc <= PacketSize
  BY <1>1, DataFacts
<1>3. PacketSize \in 5..255 /\ HeaderSize = 4
  BY PacketSizeAssumption DEF HeaderSize
<1>4. \A s \in Nat : d.fixed + s < 256 => AFLength(s) = d.fixed + s
  <2> SUFFICES ASSUME NEW s \in Nat, d.fixed + s < 256
               PROVE  AFLength(s) = d.fixed + s
    OBVIOUS
  <2>1. d.fixed + s \in Nat
    BY <1>2
  <2>2. (d.fixed + s) % 256 = d.fixed + s
    BY <2>1, SmallLength
  <2> QED BY <2>2 DEF AFLength
<1>5. A = IF writeAf THEN PacketSize - 5 - d.fixed - stuffing ELSE PacketSize - 4
  BY <1>1, <1>2, <1>3, <1>4 DEF Available
<1>6. A \in Nat /\ H \in Nat /\ H <= A
  BY <1>1, <1>2, <1>3, <1>5 DEF HeaderBytes, HeaderFits
<1>7. P \in Nat /\ done + P \in 0..d.len /\ R \in Nat /\ H + P + R = A
  BY <1>1, <1>2, <1>6 DEF PayloadBytes, Rest
<1>8. /\ NewStuffing = IF writeAf /\ R > 0 THEN R ELSE stuffing
      /\ NewStuffing \in Nat
  BY <1>1, <1>7 DEF NewStuffing
<1> HIDE DEF A, H, P, R
<1>9. d.af => 5 + d.fixed + NewStuffing <= PacketSize
  BY <1>1, <1>2, <1>3, <1>5, <1>6, <1>7, <1>8
<1>10. /\ AFWritten.bytes \in Nat /\ AFWritten.length \in Nat
       /\ AFWritten \in [bytes : Nat, length : Nat]
       /\ AFWritten.bytes = IF writeAf THEN 1 + d.fixed + NewStuffing ELSE R
       /\ AFWritten.bytes > 0 => AFWritten.length = AFWritten.bytes - 1
  <2>1. CASE writeAf
    <3>1. AFLength(NewStuffing) = d.fixed + NewStuffing
      BY <2>1, <1>1, <1>2, <1>3, <1>4, <1>8, <1>9
    <3>2. AFWritten = [bytes |-> 1 + d.fixed + NewStuffing,
                       length |-> d.fixed + NewStuffing]
      BY <3>1, <2>1 DEF AFWritten
    <3> QED BY <3>2, <2>1, <1>2, <1>8
  <2>2. CASE ~writeAf /\ R > 0
    <3>1. AFWritten = StuffingField(R)
      BY <2>2 DEF AFWritten, R
    <3>2. AFWritten = [bytes |-> R, length |-> R - 1]
      BY <3>1, <2>2, <1>7 DEF StuffingField
    <3> QED BY <3>2, <2>2, <1>7
  <2>3. CASE ~writeAf /\ ~(R > 0)
    <3>1. AFWritten = [bytes |-> 0, length |-> 0] /\ R = 0
      BY <2>3, <1>7 DEF AFWritten, R
    <3> QED BY <3>1, <2>3
  <2> QED BY <2>1, <2>2, <2>3, <1>1
<1>11. PacketSize - 4 - AFWritten.bytes - H - P = IF writeAf /\ R > 0 THEN stuffing ELSE 0
  BY <1>1, <1>2, <1>3, <1>5, <1>6, <1>7, <1>8, <1>10, SMTT(60)
<1>12. ~TooLong
  BY <1>1, <1>3, <1>6, <1>7, <1>10, <1>11 DEF TooLong, H, P
<1>13. PacketWritten.padding = IF writeAf /\ R > 0 THEN stuffing ELSE 0
  BY <1>3, <1>11 DEF PacketWritten, H, P
<1>14. PacketWritten \in OutPackets
  BY <1>1, <1>6, <1>7, <1>10, <1>11, <1>3 DEF PacketWritten, OutPackets, H, P
<1> QED BY <1>3, <1>6, <1>7, <1>8, <1>9, <1>10, <1>12, <1>13, <1>14 DEF A, H, P, R

-----------------------------------------------------------------------------
(* PESInv is inductive: one lemma per action that changes what it says.    *)

(* The beginning of a call, first or repeated. *)
LEMMA StartPreserves ==
  ASSUME PESInv, NEW e \in MuxerDatas \cup {NoData}, NEW s \in Nat, Start(e, s),
         e.af => HeaderSize + 1 + e.fixed + s <= PacketSize
  PROVE  PESInv'
<1>1. e.len \in Nat /\ e.af \in BOOLEAN
  BY DataFacts
<1>2. PESTypeOK'
  BY <1>1 DEF PESInv, PESTypeOK, Start
<1>3. out' = <<>> /\ out' \in Seq(OutPackets)
  BY DEF Start
<1>4. Split' /\ TrueLength'
  BY <1>3 DEF Split, TrueLength
<1>5. FieldFits' /\ Progress' /\ Whole' /\ NoSizeError'
  BY <1>3 DEF FieldFits, Progress, Whole, NoSizeError, Start
<1> QED BY <1>2, <1>3, <1>4, <1>5 DEF PESInv

(* A turn that gives up the adaptation field. *)
LEMMA GiveUpPreserves ==
  ASSUME PESInv, GiveUpAF
  PROVE  PESInv'
<1>1. /\ d \in MuxerDatas \cup {NoData} /\ stuffing \in Nat
      /\ cc \in 0..(CCMod - 1) /\ writeAf \in BOOLEAN
  BY DEF PESInv, PESTypeOK
<1>2. d.fixed \in Nat /\ PacketSize \in 5..255 /\ HeaderSize = 4
  BY <1>1, DataFacts, PacketSizeAssumption DEF HeaderSize
<1>3. writeAf => Available = PacketSize - 5 - d.fixed - stuffing
  BY AvailableWithField
<1>4. stuffing' \in Nat /\ (d.af => 5 + d.fixed + stuffing' <= PacketSize)
  <2>1. /\ stuffing' = IF writeAf THEN Available ELSE stuffing
        /\ writeAf => d.af
        /\ d.af => 5 + d.fixed + stuffing <= PacketSize
    BY <1>1, <1>2 DEF GiveUpAF, PESInv, FieldFits
  <2>2. CASE writeAf
    <3>1. stuffing' = PacketSize - 5 - d.fixed - stuffing
      BY <2>1, <2>2, <1>3
    <3>2. 5 + d.fixed + stuffing <= PacketSize
      BY <2>1, <2>2
    <3> QED BY <3>1, <3>2, <1>1, <1>2
  <2>3. CASE ~writeAf
    BY <2>1, <2>3, <1>1
  <2> QED BY <2>2, <2>3
<1>5. cc' \in 0..(CCMod - 1)
  BY <1>1, CCModAssumption DEF GiveUpAF, Wrapped
<1>6. PESTypeOK'
  BY <1>4, <1>5, ZenonT(60) DEF PESInv, PESTypeOK, GiveUpAF
<1>7. FieldFits' /\ Progress' /\ NoSizeError'
  BY <1>2, <1>4 DEF PESInv, FieldFits, Progress, NoSizeError, GiveUpAF
<1>8. Split' /\ Whole' /\ TrueLength' /\ out' \in Seq(OutPackets)
  BY DEF PESInv, Split, Whole, TrueLength, GiveUpAF
<1> QED BY <1>6, <1>7, <1>8 DEF PESInv

(* A turn that writes a packet, or fails to. *)
LEMMA WriteOnePreserves ==
  ASSUME PESInv, WriteOne
  PROVE  PESInv'
<1>1. /\ pc = "writing" /\ done < d.len /\ HeaderFits
      /\ d' = d /\ stuffing' = NewStuffing /\ writeAf' = FALSE
      /\ done' = done + PayloadBytes /\ cc' = Wrapped(cc, CCMod)
  BY DEF WriteOne
<1>2. /\ PayloadBytes \in Nat /\ done + PayloadBytes \in 0..d.len
      /\ NewStuffing \in Nat /\ ~TooLong /\ PacketWritten \in OutPackets
      /\ d.af => HeaderSize + 1 + d.fixed + NewStuffing <= PacketSize
      /\ AFWritten.bytes > 0 => AFWritten.length = AFWritten.bytes - 1
  BY <1>1, PacketArithmetic
<1>3. cc' \in 0..(CCMod - 1)
  BY <1>1, CCModAssumption DEF PESInv, PESTypeOK, Wrapped
<1>4. d \in MuxerDatas \cup {NoData} /\ payloadStart \in BOOLEAN /\ done \in Nat
  BY DataFacts DEF PESInv, PESTypeOK
<1>5. FieldFits'
  BY <1>1, <1>2 DEF FieldFits
<1>6. CASE UNCHANGED <<payloadStart, out>> /\ pc' = "idle" /\ result' = "error"
  <2>1. PESTypeOK'
    BY <1>1, <1>2, <1>3, <1>4, <1>6, ZenonT(60) DEF PESInv, PESTypeOK
  <2>2. Progress' /\ NoSizeError' /\ Whole'
    BY <1>6 DEF Progress, NoSizeError, Whole
  <2>3. Split' /\ TrueLength' /\ out' \in Seq(OutPackets)
    BY <1>1, <1>6 DEF PESInv, Split, TrueLength
  <2> QED BY <1>5, <2>1, <2>2, <2>3 DEF PESInv
<1>7. CASE /\ out' = Append(out, PacketWritten)
           /\ payloadStart' = FALSE
           /\ UNCHANGED <<pc, result>>
  <2> DEFINE n == Len(out)
  <2>1. /\ out' \in Seq(OutPackets) /\ n \in Nat /\ Len(out') = n + 1
        /\ out'[n + 1] = PacketWritten
        /\ \A k \in 1..n : out'[k] = out[k]
    BY <1>2, <1>7 DEF PESInv
  <2>2. /\ payloadStart => n = 0 /\ done = 0
        /\ ~payloadStart => n > 0 /\ out[n].to = done
        /\ result = "none"
    BY <1>1, <2>1 DEF PESInv, Progress
  <2>3. /\ PacketWritten.start = payloadStart
        /\ PacketWritten.header = IF payloadStart THEN d.written ELSE 0
        /\ PacketWritten.from = done /\ PacketWritten.to = done + PayloadBytes
        /\ PacketWritten.af = AFWritten
    BY DEF PacketWritten, HeaderBytes
  <2>4. PESTypeOK'
    BY <1>1, <1>2, <1>3, <1>4, <1>7, ZenonT(60) DEF PESInv, PESTypeOK
  <2>5. Progress' /\ NoSizeError' /\ Whole'
    <3>1. out' # <<>>
      BY <2>1
    <3> QED BY <3>1, <1>1, <1>7, <2>1, <2>2, <2>3 DEF Progress, NoSizeError, Whole
  <2>6. Split'
    <3> SUFFICES ASSUME NEW k \in 1..(n + 1)
                 PROVE  /\ out'[k].start = (k = 1)
                        /\ out'[k].header = IF k = 1 THEN d.written ELSE 0
                        /\ out'[k].from = IF k = 1 THEN 0 ELSE out'[k - 1].to
                        /\ out'[k].from <= out'[k].to
      BY <1>1, <2>1 DEF Split
    <3>1. CASE k \in 1..n
      <4>1. out'[k] = out[k] /\ (k # 1 => out'[k - 1] = out[k - 1])
        BY <3>1, <2>1
      <4> QED BY <4>1, <3>1 DEF PESInv, Split
    <3>2. CASE k = n + 1
      <4>1. CASE payloadStart
        <5>1. k = 1 /\ out'[k] = PacketWritten
          BY <4>1, <3>2, <2>1, <2>2
        <5>2. PacketWritten.start = TRUE
          BY <4>1, <2>3, <1>4
        <5>3. PacketWritten.start = (k = 1)
          BY <5>1, <5>2, ZenonT(60)
        <5>4. /\ PacketWritten.header = d.written
              /\ PacketWritten.from = 0 /\ PacketWritten.to = PayloadBytes
          BY <4>1, <2>2, <2>3, <1>2
        <5> QED BY <5>1, <5>3, <5>4, <1>2
      <4>2. CASE ~payloadStart
        <5>1. k # 1 /\ k - 1 = n /\ out'[k - 1] = out[n]
          BY <4>2, <3>2, <2>1, <2>2
        <5> QED BY <5>1, <4>2, <3>2, <2>1, <2>2, <2>3, <1>2, <1>4
      <4> QED BY <4>1, <4>2
    <3> QED BY <3>1, <3>2, <2>1
  <2>7. TrueLength'
    <3> SUFFICES ASSUME NEW k \in 1..(n + 1), out'[k].af.bytes > 0
                 PROVE  out'[k].af.length = out'[k].af.bytes - 1
      BY <2>1 DEF TrueLength
    <3>1. CASE k \in 1..n
      BY <3>1, <2>1 DEF PESInv, TrueLength
    <3>2. CASE k = n + 1
      BY <3>2, <2>1, <2>3, <1>2
    <3> QED BY <3>1, <3>2, <2>1
  <2> QED BY <1>5, <2>1, <2>4, <2>5, <2>6, <2>7 DEF PESInv
<1> QED BY <1>2, <1>6, <1>7, ZenonT(60) DEF WriteOne

(* PESInv holds at first and after every step of WriteData. *)
THEOREM PESInvInductive == PESSpec => []PESInv
<1>1. PESInit => PESInv
  <2> SUFFICES ASSUME PESInit PROVE PESInv
    OBVIOUS
  <2>1. d = NoData /\ d.len = 0 /\ ~d.af /\ out = <<>>
    BY DEF PESInit, NoData
  <2>2. PESTypeOK
    <3>1. cc \in 0..(CCMod - 1) /\ done \in 0..d.len /\ stuffing \in Nat
      BY <2>1, CCModAssumption DEF PESInit
    <3>2. payloadStart \in BOOLEAN /\ writeAf \in BOOLEAN
      BY ZenonT(60) DEF PESInit
    <3> QED BY <3>1, <3>2, <2>1 DEF PESInit, PESTypeOK
  <2>3. out \in Seq(OutPackets) /\ Split /\ TrueLength
    BY <2>1 DEF Split, TrueLength
  <2>4. FieldFits /\ Progress /\ Whole /\ NoSizeError
    BY <2>1 DEF PESInit, FieldFits, Progress, Whole, NoSizeError
  <2> QED BY <2>2, <2>3, <2>4 DEF PESInv
<1>2. PESInv /\ [PESNext]_pesVars => PESInv'
  <2> SUFFICES ASSUME PESInv, [PESNext]_pesVars PROVE PESInv'
    OBVIOUS
  <2>1. ASSUME NEW e \in MuxerDatas, Call(e) PROVE PESInv'
    BY <2>1, DataFacts, StartPreserves DEF Call
  <2>2. CASE Retry
    <3>1. /\ d \in MuxerDatas \cup {NoData} /\ stuffing \in Nat
          /\ d.af => HeaderSize + 1 + d.fixed + stuffing <= PacketSize
      BY DEF PESInv, PESTypeOK, FieldFits
    <3> QED BY <2>2, <3>1, StartPreserves DEF Retry
  <2>3. CASE GiveUpAF
    BY <2>3, GiveUpPreserves
  <2>4. CASE WriteOne
    BY <2>4, WriteOnePreserves
  <2>5. CASE Finish
    <3>1. d \in MuxerDatas \cup {NoData}
      BY DEF PESInv, PESTypeOK
    <3>2. PESTypeOK'
      BY <2>5 DEF PESInv, PESTypeOK, Finish
    <3>3. d.af => HeaderSize + 1 + d.fixed + 0 <= PacketSize
      BY <3>1, DataFacts, PacketSizeAssumption DEF HeaderSize
    <3>4. FieldFits' /\ Progress' /\ NoSizeError'
      BY <2>5, <3>3 DEF PESInv, FieldFits, Progress, NoSizeError, Finish
    <3>5. Split' /\ TrueLength' /\ out' \in Seq(OutPackets)
      BY <2>5 DEF PESInv, Split, TrueLength, Finish
    <3>6. Whole'
      BY <2>5, SMTT(60) DEF PESInv, PESTypeOK, Progress, Whole, Finish
    <3> QED BY <3>2, <3>4, <3>5, <3>6 DEF PESInv
  <2>6. CASE UNCHANGED pesVars
    BY <2>6, ZenonT(30) DEF PESInv, PESTypeOK, FieldFits, Progress, Split, Whole,
                            TrueLength, NoSizeError, pesVars
  <2> QED BY <2>1, <2>2, <2>3, <2>4, <2>5, <2>6 DEF PESNext
<1> QED BY <1>1, <1>2, PTL DEF PESSpec

(* The loop's variables keep their types (WriteData). *)
THEOREM PESTypeCorrect == PESSpec => []PESTypeOK
<1>1. PESInv => PESTypeOK
  BY DEF PESInv
<1> QED BY <1>1, PESInvInductive, PTL

(* writePacket accepts every packet WriteData builds (packet.go:338),      *)
(* whatever stuffing the caller left in the adaptation field.              *)
THEOREM NeverTooLong == PESSpec => []NoSizeError
<1>1. PESInv => NoSizeError
  BY DEF PESInv
<1> QED BY <1>1, PESInvInductive, PTL

(* The adaptation fields WriteData writes announce their true length.      *)
THEOREM LengthsTrue == PESSpec => []AFLengthTrue
<1>1. PESInv => AFLengthTrue
  <2> SUFFICES ASSUME PESInv PROVE AFLengthTrue
    OBVIOUS
  <2>1. DOMAIN out = 1..Len(out)
    BY DEF PESInv
  <2> QED BY <2>1 DEF PESInv, TrueLength, AFLengthTrue
<1> QED BY <1>1, PESInvInductive, PTL

(* WriteData cuts the payload into packets without gap or overlap, the     *)
(* header in the first of them, and a successful call has written it all.  *)
THEOREM SplitsExactly == PESSpec => []PayloadSplitExactly
<1>1. PESInv => PayloadSplitExactly
  <2> SUFFICES ASSUME PESInv PROVE PayloadSplitExactly
    OBVIOUS
  <2>1. DOMAIN out = 1..Len(out)
    BY DEF PESInv
  <2> QED BY <2>1 DEF PESInv, Split, Whole, PayloadSplitExactly
<1> QED BY <1>1, PESInvInductive, PTL

-----------------------------------------------------------------------------
(* Numbering.  A turn that gives up the adaptation field takes a counter   *)
(* value without writing a packet; it does so before the first packet of   *)
(* the call, so that the packets of a call still follow each other.        *)

(* Each step of WriteData keeps the packets of the call numbered. *)
LEMMA NumberedStep ==
  ASSUME PESInv, Numbered, [PESNext]_pesVars
  PROVE  Numbered'
<1>1. /\ out \in Seq(OutPackets) /\ cc \in 0..(CCMod - 1)
      /\ pc = "writing" => result = "none"
      /\ pc = "writing" /\ payloadStart => out = <<>>
  BY DEF PESInv, PESTypeOK, Progress
<1>2. ASSUME NEW e, NEW s, Start(e, s) PROVE Numbered'
  <2>1. out' = <<>>
    BY <1>2 DEF Start
  <2> QED
    BY <2>1 DEF Numbered
<1>3. CASE GiveUpAF
  <2>1. out' = <<>>
    BY <1>1, <1>3 DEF GiveUpAF, HeaderFits
  <2> QED
    BY <2>1 DEF Numbered
<1>4. CASE WriteOne
  <2>1. /\ pc = "writing" /\ done < d.len /\ HeaderFits
        /\ cc' = Wrapped(cc, CCMod)
        /\ \/ out' = Append(out, PacketWritten)
           \/ out' = out /\ result' \in {"sizeError", "error"}
    BY <1>4 DEF WriteOne
  <2>2. cc' = (cc + 1) % CCMod
    <3>1. cc \in Nat /\ cc < CCMod /\ CCMod \in Nat \ {0, 1}
      BY <1>1, CCModAssumption
    <3> QED BY <2>1, <3>1, WrappedIsNext, ZenonT(30)
  <2>3. CASE out' = out /\ result' \in {"sizeError", "error"}
    BY <2>3 DEF Numbered
  <2>4. CASE out' = Append(out, PacketWritten)
    <3> DEFINE n == Len(out)
    <3>1. PacketWritten \in OutPackets /\ PacketWritten.cc = cc
      BY <2>1, PacketArithmetic, ZenonT(30) DEF PacketWritten
    <3>2. /\ n \in Nat /\ Len(out') = n + 1
          /\ DOMAIN out = 1..n /\ DOMAIN out' = 1..(n + 1)
          /\ out'[n + 1] = PacketWritten
          /\ \A k \in 1..n : out'[k] = out[k]
      BY <1>1, <2>4, <3>1
    <3>3. n > 0 => cc = (out[n].cc + 1) % CCMod
      BY <1>1, <2>1, <3>2 DEF Numbered
    <3> HIDE DEF n
    <3>4. ASSUME NEW k \in 1..(n + 1), k > 1
          PROVE  out'[k].cc = (out'[k - 1].cc + 1) % CCMod
      <4>1. CASE k = n + 1
        BY <3>1, <3>2, <3>3, <3>4, <4>1
      <4>2. CASE k \in 1..n
        <5>1. out'[k] = out[k] /\ out'[k - 1] = out[k - 1]
          BY <3>2, <3>4, <4>2
        <5> QED
          BY <3>2, <3>4, <4>2, <5>1, ZenonT(30) DEF Numbered
      <4> QED
        BY <3>2, <4>1, <4>2
    <3> QED
      BY <2>2, <3>1, <3>2, <3>4 DEF Numbered
  <2> QED
    BY <2>1, <2>3, <2>4
<1>5. CASE Finish
  <2>1. out' = out /\ cc' = cc /\ result = "none"
    BY <1>1, <1>5 DEF Finish
  <2> QED
    BY <2>1 DEF Numbered
<1>6. CASE UNCHANGED pesVars
  BY <1>6 DEF pesVars, Numbered
<1> QED
  BY <1>2, <1>3, <1>4, <1>5, <1>6 DEF PESNext, Call, Retry

(* packet.go:32: the packets of a call are numbered one after the other,   *)
(* and as long as the writer does not fail the next call goes on with the  *)
(* number after its last, whatever the calls and however often a turn of   *)
(* the loop gives up the adaptation field.                                 *)
THEOREM AlwaysNumbered == PESSpec => []Numbered
<1>1. PESInit => Numbered
  BY DEF PESInit, Numbered
<1>2. PESInv /\ Numbered /\ [PESNext]_pesVars => Numbered'
  BY NumberedStep
<1> QED
  BY <1>1, <1>2, PESInvInductive, PTL DEF PESSpec

-----------------------------------------------------------------------------
(* Padding.  A caller that leaves no stuffing in the adaptation field may  *)
(* still pass data again after an error, with the StuffingLength of the    *)
(* failed call in it.  That is harmless when the PES header is as long as  *)
(* it was taken to be: the stuffing is then the one the packet needs, or   *)
(* fills the packet, so that the field is given up again.                  *)

CallerClean ==
  \A e \in MuxerDatas : e.stuffing = 0 /\ (e \in Retried => e.written = e.calc)

StuffingReusable ==
  d.af /\ (writeAf \/ d \in Retried) =>
    \/ stuffing = 0
    \/ HeaderSize + 1 + d.fixed + stuffing = PacketSize
    \/ HeaderSize + 1 + d.fixed + stuffing + d.written + d.len = PacketSize

PadInv == StuffingReusable /\ NoTrailingPadding

(* Each step of WriteData keeps the stuffing reusable and the packets full. *)
LEMMA PaddingStep ==
  ASSUME CallerClean, PESInv, PadInv, [PESNext]_pesVars
  PROVE  PadInv'
<1>1. /\ d \in MuxerDatas \cup {NoData} /\ stuffing \in Nat /\ done \in 0..d.len
      /\ writeAf \in BOOLEAN /\ payloadStart \in BOOLEAN
      /\ out \in Seq(OutPackets)
      /\ writeAf => d.af /\ (pc = "writing" => payloadStart)
      /\ d.af => HeaderSize + 1 + d.fixed + stuffing <= PacketSize
  BY DEF PESInv, PESTypeOK, FieldFits
<1>2. /\ d.fixed \in Nat /\ d.calc \in Nat /\ d.written \in Nat /\ d.len \in Nat
      /\ d.af \in BOOLEAN /\ PacketSize \in 5..255 /\ HeaderSize = 4
  BY <1>1, DataFacts, PacketSizeAssumption DEF HeaderSize
<1>3. d \in Retried /\ d.af => d.written = d.calc
  BY <1>1 DEF CallerClean, NoData
<1>4. writeAf => Available = PacketSize - 5 - d.fixed - stuffing
  BY AvailableWithField
<1>11. /\ d.fixed \in Nat /\ d.calc \in Nat /\ d.written \in Nat /\ d.len \in Nat
      /\ PacketSize \in Nat /\ stuffing \in Nat
  BY <1>1, <1>2
<1>5. ASSUME NEW e \in MuxerDatas, Call(e) PROVE PadInv'
  <2>1. stuffing' = 0 /\ out' = <<>>
    BY <1>5 DEF Call, Start, CallerClean
  <2> QED BY <2>1 DEF PadInv, StuffingReusable, NoTrailingPadding
<1>6. CASE Retry
  <2>1. out' = <<>> /\ stuffing' = stuffing /\ d' = d /\ d \in Retried
    BY <1>6 DEF Retry, Start
  <2> QED BY <2>1 DEF PadInv, StuffingReusable, NoTrailingPadding
<1>7. CASE GiveUpAF
  <2>1. /\ out' = out /\ d' = d /\ writeAf' = FALSE
        /\ stuffing' = IF writeAf THEN Available ELSE stuffing
        /\ payloadStart => Available < d.calc
        /\ pc = "writing"
    <3>1. payloadStart /\ ~(Available >= d.calc)
      BY <1>7 DEF GiveUpAF, HeaderFits
    <3>2. Available \in Int
      BY <1>1, <1>2, <1>4 DEF Available
    <3> QED BY <3>1, <3>2, <1>2, <1>7 DEF GiveUpAF
  <2>2. ASSUME writeAf, d \in Retried PROVE StuffingReusable'
    <3>1. \/ stuffing = 0
          \/ 5 + d.fixed + stuffing = PacketSize
          \/ 5 + d.fixed + stuffing + d.written + d.len = PacketSize
      BY <2>2, <1>1, <1>2 DEF PadInv, StuffingReusable
    <3>2. /\ d.written = d.calc /\ Available < d.calc
          /\ stuffing' = PacketSize - 5 - d.fixed - stuffing
          /\ Available = PacketSize - 5 - d.fixed - stuffing
      BY <2>1, <2>2, <1>1, <1>3, <1>4
    <3>3. stuffing' = 0 \/ 5 + d.fixed + stuffing' = PacketSize
      <4>1. CASE stuffing = 0
        BY <4>1, <3>2, <1>11
      <4>2. CASE 5 + d.fixed + stuffing = PacketSize
        BY <4>2, <3>2, <1>11
      <4>3. CASE 5 + d.fixed + stuffing + d.written + d.len = PacketSize
        BY <4>3, <3>2, <1>11
      <4> QED BY <3>1, <4>1, <4>2, <4>3
    <3> QED BY <3>3, <2>1, <1>2 DEF StuffingReusable
  <2>3. ASSUME ~writeAf \/ d \notin Retried PROVE StuffingReusable'
    BY <2>3, <2>1, <1>1 DEF PadInv, StuffingReusable
  <2> QED BY <2>1, <2>2, <2>3 DEF PadInv, NoTrailingPadding
<1>8. CASE WriteOne
  <2>1. /\ pc = "writing" /\ done < d.len /\ HeaderFits
        /\ d' = d /\ stuffing' = NewStuffing /\ writeAf' = FALSE
        /\ out' = out \/ out' = Append(out, PacketWritten)
    BY <1>8 DEF WriteOne
  <2>2. /\ Rest \in Nat /\ PacketWritten \in OutPackets /\ PayloadBytes \in Nat
        /\ PacketWritten.padding = IF writeAf /\ Rest > 0 THEN stuffing ELSE 0
    BY <2>1, PacketArithmetic
  <2>3. ASSUME writeAf, Rest > 0
        PROVE  stuffing = 0 /\ 5 + d.fixed + Rest + d.written + d.len = PacketSize
    <3>1. payloadStart /\ done = 0
      BY <2>1, <2>3, <1>1, SMTT(60) DEF PESInv, Progress
    <3>2. Rest = PacketSize - 5 - d.fixed - stuffing - d.written - d.len
      BY <3>1, <2>2, <2>3, <1>1, <1>2, <1>4, SMTT(60) DEF Rest, HeaderBytes, PayloadBytes
    <3>3. \/ stuffing = 0
          \/ 5 + d.fixed + stuffing = PacketSize
          \/ 5 + d.fixed + stuffing + d.written + d.len = PacketSize
      BY <2>3, <1>1, <1>2 DEF PadInv, StuffingReusable
    <3>4. stuffing = 0
      BY <3>2, <3>3, <2>3, <1>11
    <3> QED BY <3>2, <3>4, <1>11
  <2>4. StuffingReusable'
    <3>1. CASE writeAf /\ Rest > 0
      BY <3>1, <2>1, <2>2, <2>3, <1>1, <1>2, SMTT(60) DEF StuffingReusable, NewStuffing
    <3>2. CASE ~(writeAf /\ Rest > 0)
      BY <3>2, <2>1, <1>1 DEF PadInv, StuffingReusable, NewStuffing
    <3> QED BY <3>1, <3>2
  <2>5. PacketWritten.padding = 0
    BY <2>2, <2>3
  <2>6. NoTrailingPadding'
    <3>1. CASE out' = out
      BY <3>1 DEF PadInv, NoTrailingPadding
    <3>2. CASE out' = Append(out, PacketWritten)
      <4>1. /\ DOMAIN out = 1..Len(out) /\ Len(out) \in Nat
            /\ DOMAIN out' = 1..(Len(out) + 1)
            /\ out'[Len(out) + 1] = PacketWritten
            /\ \A k \in 1..Len(out) : out'[k] = out[k]
        BY <3>2, <2>2, <1>1
      <4> SUFFICES ASSUME NEW k \in 1..(Len(out) + 1) PROVE out'[k].padding = 0
        BY <4>1 DEF NoTrailingPadding
      <4>2. CASE k \in 1..Len(out)
        BY <4>2, <4>1 DEF PadInv, NoTrailingPadding
      <4>3. CASE k = Len(out) + 1
        BY <4>3, <4>1, <2>5, SMTT(60)
      <4> QED BY <4>1, <4>2, <4>3
    <3> QED BY <3>1, <3>2, <2>1
  <2> QED BY <2>4, <2>6 DEF PadInv
<1>9. CASE Finish
  BY <1>9, SMTT(60) DEF Finish, PadInv, StuffingReusable, NoTrailingPadding
<1>10. CASE UNCHANGED pesVars
  BY <1>10 DEF pesVars, PadInv, StuffingReusable, NoTrailingPadding
<1> QED BY <1>5, <1>6, <1>7, <1>8, <1>9, <1>10 DEF PESNext

(* muxer.go:234: no packet is padded after its payload, for a caller that  *)
(* leaves no stuffing behind, even when it repeats failed calls.           *)
THEOREM NeverPadded ==
  ASSUME CallerClean
  PROVE  PESSpec => []NoTrailingPadding
<1>1. PESInit => PadInv
  BY DEF PESInit, NoData, PadInv, StuffingReusable, NoTrailingPadding
<1>2. PESInv /\ PadInv /\ [PESNext]_pesVars => PadInv'
  BY CallerClean, PaddingStep
<1>3. PadInv => NoTrailingPadding
  BY DEF PadInv
<1> QED BY <1>1, <1>2, <1>3, PESInvInductive, PTL DEF PESSpec

=============================================================================
