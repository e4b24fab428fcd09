--------------------------- MODULE EsSplitProofs ---------------------------
(***************************************************************************)
(* For every tape and reader: the files of cmd/astits-es-split hold        *)
(* exactly the PES of their streams, in the order of the tape.             *)
(***************************************************************************)
EXTENDS EsSplit, DemuxerOrderProofs

(* How long each prover may take over a leaf. *)
USE SMTT(30), ZenonT(30)

(* The splitter does nothing to the demuxer but call it, so that whatever  *)
(* is proved of the demuxer holds in it (main.go's loop, demuxer.go).      *)
THEOREM SplitIsDemux == SplitSpec => DemuxSpec
<1>1. SplitInit => DemuxInit
  BY DEF SplitInit
<1>2. [SplitNext]_allVars => [DemuxNext]_demuxVars
  <2>1. CallNextData => DemuxNext
    BY DEF CallNextData, DemuxNext
  <2>2. Handle => UNCHANGED demuxVars
    BY ZenonT(30) DEF Handle, EndOfStream, HandleError, HandleNothing, HandlePAT, HandlePMT,
           HandleOther, Handles
  <2> QED
    BY <2>1, <2>2 DEF SplitNext, allVars
<1> QED
  BY <1>1, <1>2, PTL DEF SplitSpec, DemuxSpec

(* How many of the data NextData has returned have been handled. *)
Handled == IF turn = "handle" THEN Len(delivered) - Len(ret.d) ELSE Len(delivered)

(* What NextData has just returned is the end of what it has returned. *)
JustReturned ==
  turn = "handle" =>
    \/ ret.d = <<>>
    \/ /\ ret.err = "none" /\ Len(delivered) > 0
       /\ ret.d = <<delivered[Len(delivered)]>>

(* The values of the loop's variables after the first n data. *)
PATIs(n, pt) ==
  \/ pt = <<>> /\ \A k \in 1..n : delivered[k].kind # "PAT"
  \/ \E a \in 1..n : IsLastPAT(a, n) /\ pt = <<delivered[a].programs>>

PMTsAre(n, pm) ==
  /\ \A k \in PMTsUpTo(n) : PMTOf(k).number \in DOMAIN pm
  /\ \A g \in DOMAIN pm :
       \E k \in PMTsUpTo(n) : /\ IsNewest(k, n)
                              /\ PMTOf(k).number = g
                              /\ PMTOf(k).streams = pm[g]

GotAll(n) == \E m \in 1..n : /\ CompletesTables(m)
                             /\ \A j \in m..n : delivered[j].kind # "PAT"

(* The data of pid, of the first n, that belong in a file. *)
Mine(pid, n) == {k \in 1..n : delivered[k].pid = pid /\ BelongsInFile(k)}

(* The file holds the data K, in their order. *)
Holds(file, K) ==
  /\ file \in Seq(Nat)
  /\ Len(file) = Cardinality(K)
  /\ \A k \in K : file[Rank(K, k)] = delivered[k].first

FilesAre(n, fs) ==
  /\ DOMAIN fs = UNION {StreamsAt(m) : m \in {m \in 1..n : CompletesTables(m)}}
  /\ \A pid \in DOMAIN fs : Holds(fs[pid], Mine(pid, n))

LoopIs(n, pt, pm, got, fs) ==
  PATIs(n, pt) /\ PMTsAre(n, pm) /\ (got <=> GotAll(n)) /\ FilesAre(n, fs)

SplitInv ==
  /\ JustReturned
  /\ turn \in {"call", "called", "handle", "done"} =>
       LoopIs(Handled, pat, pmts, gotAllPMTs, files)

-----------------------------------------------------------------------------
(* What is told from the data returned.                                    *)

(* It does not change when more is returned. *)
LEMMA ToldOfFirst ==
  ASSUME NEW n \in Nat, \A k \in 1..n : delivered'[k] = delivered[k], tape' = tape
  PROVE  /\ \A k \in 1..n : PMTOf(k)' = PMTOf(k)
         /\ PMTsUpTo(n)' = PMTsUpTo(n)
         /\ \A k \in 1..n : IsNewest(k, n)' <=> IsNewest(k, n)
         /\ \A a \in 1..n : IsLastPAT(a, n)' <=> IsLastPAT(a, n)
         /\ \A m \in 1..n : CompletesTables(m)' <=> CompletesTables(m)
         /\ \A m \in 1..n : StreamsAt(m)' = StreamsAt(m)
         /\ \A pid : Mine(pid, n)' = Mine(pid, n)
<1>1. \A k \in 1..n : PMTOf(k)' = PMTOf(k)
  BY DEF PMTOf
<1>2. \A m \in 0..n : PMTsUpTo(m)' = PMTsUpTo(m)
  BY DEF PMTsUpTo
<1>3. \A m \in 0..n : \A k \in 1..m : IsNewest(k, m)' <=> IsNewest(k, m)
  BY <1>1, <1>2 DEF IsNewest, PMTsUpTo
<1>4. \A m \in 0..n : \A a \in 1..m : IsLastPAT(a, m)' <=> IsLastPAT(a, m)
  BY DEF IsLastPAT
<1>5. \A m \in 1..n : CompletesTables(m)' <=> CompletesTables(m)
  BY <1>1, <1>2, <1>4 DEF CompletesTables, PMTsUpTo
<1>6. \A m \in 1..n : StreamsAt(m)' = StreamsAt(m)
  BY <1>1, <1>2, <1>3 DEF StreamsAt, PMTsUpTo
<1>7. \A k \in 1..n : BelongsInFile(k)' <=> BelongsInFile(k)
  BY <1>5, <1>6 DEF BelongsInFile
<1>8. \A pid : Mine(pid, n)' = Mine(pid, n)
  BY <1>7 DEF Mine
<1> QED
  BY <1>1, <1>2, <1>3, <1>4, <1>5, <1>6, <1>8

(* So what the loop's variables should be does not change either. *)
LEMMA LoopIsStays ==
  ASSUME NEW n \in Nat, \A k \in 1..n : delivered'[k] = delivered[k], tape' = tape,
         NEW pt, NEW pm, NEW got, NEW fs, LoopIs(n, pt, pm, got, fs)
  PROVE  LoopIs(n, pt, pm, got, fs)'
<1>1. /\ \A k \in 1..n : PMTOf(k)' = PMTOf(k)
      /\ PMTsUpTo(n)' = PMTsUpTo(n)
      /\ \A k \in 1..n : IsNewest(k, n)' <=> IsNewest(k, n)
      /\ \A a \in 1..n : IsLastPAT(a, n)' <=> IsLastPAT(a, n)
      /\ \A m \in 1..n : CompletesTables(m)' <=> CompletesTables(m)
      /\ \A m \in 1..n : StreamsAt(m)' = StreamsAt(m)
      /\ \A pid : Mine(pid, n)' = Mine(pid, n)
  BY ToldOfFirst
<1>2. PATIs(n, pt)'
  BY <1>1 DEF PATIs, LoopIs
<1>3. PMTsAre(n, pm)'
  <2>1. PMTsUpTo(n) \subseteq 1..n
    BY DEF PMTsUpTo
  <2> QED BY <1>1, <2>1 DEF PMTsAre, LoopIs
<1>4. got <=> GotAll(n)'
  BY <1>1 DEF GotAll, LoopIs
<1>5. FilesAre(n, fs)'
  <2>1. DOMAIN fs = UNION {StreamsAt(m)' : m \in {m \in 1..n : CompletesTables(m)'}}
    BY <1>1 DEF FilesAre, LoopIs
  <2>2. ASSUME NEW pid \in DOMAIN fs PROVE Holds(fs[pid], Mine(pid, n))'
    <3>1. Holds(fs[pid], Mine(pid, n)) /\ Mine(pid, n)' = Mine(pid, n)
      BY <1>1 DEF FilesAre, LoopIs
    <3>2. \A k \in Mine(pid, n) : delivered'[k] = delivered[k]
      BY DEF Mine
    <3> QED BY <3>1, <3>2, ZenonT(30) DEF Holds, Rank
  <2> QED BY <2>1, <2>2 DEF FilesAre
<1> QED BY <1>2, <1>3, <1>4, <1>5 DEF LoopIs

(* What one datum more adds to it. *)
LEMMA ToldOfNext ==
  ASSUME NEW n \in Nat
  PROVE  /\ PMTsUpTo(n + 1) = IF delivered[n + 1].kind = "PMT"
                              THEN PMTsUpTo(n) \cup {n + 1} ELSE PMTsUpTo(n)
         /\ \A a \in 1..n : IsLastPAT(a, n + 1) <=>
                              IsLastPAT(a, n) /\ delivered[n + 1].kind # "PAT"
         /\ \A pid : Mine(pid, n + 1) =
                       IF delivered[n + 1].pid = pid /\ BelongsInFile(n + 1)
                       THEN Mine(pid, n) \cup {n + 1} ELSE Mine(pid, n)
<1>1. 1..(n + 1) = (1..n) \cup {n + 1}
  OBVIOUS
<1>2. ASSUME NEW a \in 1..n
      PROVE  IsLastPAT(a, n + 1) <=> IsLastPAT(a, n) /\ delivered[n + 1].kind # "PAT"
  <2>1. (a + 1)..(n + 1) = ((a + 1)..n) \cup {n + 1}
    OBVIOUS
  <2> QED BY <2>1 DEF IsLastPAT
<1>3. PMTsUpTo(n + 1) = IF delivered[n + 1].kind = "PMT"
                        THEN PMTsUpTo(n) \cup {n + 1} ELSE PMTsUpTo(n)
  BY <1>1 DEF PMTsUpTo
<1>4. ASSUME NEW pid
      PROVE  Mine(pid, n + 1) = IF delivered[n + 1].pid = pid /\ BelongsInFile(n + 1)
                                THEN Mine(pid, n) \cup {n + 1} ELSE Mine(pid, n)
  BY <1>1 DEF Mine
<1> QED BY <1>2, <1>3, <1>4

(* The data of a PID stay as they are when the next one does not belong. *)
LEMMA FilesStay ==
  ASSUME NEW n \in Nat, NEW fs, FilesAre(n, fs), ~CompletesTables(n + 1),
         \A pid \in DOMAIN fs : ~(delivered[n + 1].pid = pid /\ BelongsInFile(n + 1))
  PROVE  FilesAre(n + 1, fs)
<1>1. {m \in 1..(n + 1) : CompletesTables(m)} = {m \in 1..n : CompletesTables(m)}
  <2>1. 1..(n + 1) = (1..n) \cup {n + 1}
    OBVIOUS
  <2> QED BY <2>1
<1>2. \A pid \in DOMAIN fs : Mine(pid, n + 1) = Mine(pid, n)
  BY ToldOfNext, ZenonT(30)
<1> QED BY <1>1, <1>2 DEF FilesAre

(* A PAT is returned. *)
LEMMA NextIsPAT ==
  ASSUME NEW n \in Nat, NEW pt, NEW pm, NEW got, NEW fs, LoopIs(n, pt, pm, got, fs),
         delivered[n + 1].kind = "PAT"
  PROVE  LoopIs(n + 1, <<delivered[n + 1].programs>>, pm, FALSE, fs)
<1>1. PATIs(n + 1, <<delivered[n + 1].programs>>)
  BY DEF PATIs, IsLastPAT
<1>2. PMTsUpTo(n + 1) = PMTsUpTo(n)
  BY ToldOfNext, ZenonT(30)
<1>3. PMTsAre(n + 1, pm)
  BY <1>2 DEF PMTsAre, LoopIs, IsNewest
<1>4. ~GotAll(n + 1)
  BY DEF GotAll
<1>5. FilesAre(n + 1, fs)
  BY FilesStay DEF LoopIs, CompletesTables, BelongsInFile
<1> QED BY <1>1, <1>3, <1>4, <1>5 DEF LoopIs

(* A datum that is neither a PAT nor a PMT is returned. *)
LEMMA NextIsOther ==
  ASSUME NEW n \in Nat, NEW pt, NEW pm, NEW got, NEW fs, LoopIs(n, pt, pm, got, fs),
         delivered[n + 1].kind \notin {"PAT", "PMT"}
  PROVE  /\ BelongsInFile(n + 1) <=> /\ got /\ delivered[n + 1].kind = "PES"
                                     /\ delivered[n + 1].pid \in DOMAIN fs
         /\ PATIs(n + 1, pt) /\ PMTsAre(n + 1, pm) /\ (got <=> GotAll(n + 1))
<1>1. /\ PMTsUpTo(n + 1) = PMTsUpTo(n)
      /\ \A a \in 1..n : IsLastPAT(a, n + 1) <=> IsLastPAT(a, n)
  BY ToldOfNext, ZenonT(30)
<1>2. 1..(n + 1) = (1..n) \cup {n + 1} /\ (n + 1) - 1 = n
  OBVIOUS
<1>3. PATIs(n + 1, pt)
  BY <1>1, <1>2 DEF PATIs, LoopIs
<1>4. PMTsAre(n + 1, pm)
  BY <1>1 DEF PMTsAre, LoopIs, IsNewest
<1>5. \A m \in 1..n : (\A j \in m..(n + 1) : delivered[j].kind # "PAT")
                       <=> (\A j \in m..n : delivered[j].kind # "PAT")
  <2>1. \A m \in 1..n : m..(n + 1) = (m..n) \cup {n + 1}
    OBVIOUS
  <2> QED BY <2>1
<1>6. got <=> GotAll(n + 1)
  BY <1>2, <1>5 DEF GotAll, LoopIs, CompletesTables
<1>7. BelongsInFile(n + 1) <=> /\ got /\ delivered[n + 1].kind = "PES"
                               /\ delivered[n + 1].pid \in DOMAIN fs
  <2>1. got <=> \E m \in 1..n : /\ CompletesTables(m)
                                /\ \A j \in m..(n + 1) : delivered[j].kind # "PAT"
    BY <1>5 DEF LoopIs, GotAll
  <2>2. delivered[n + 1].pid \in DOMAIN fs <=>
          \E m \in 1..n : CompletesTables(m) /\ delivered[n + 1].pid \in StreamsAt(m)
    BY DEF LoopIs, FilesAre
  <2> QED BY <1>2, <2>1, <2>2 DEF BelongsInFile
<1> QED BY <1>3, <1>4, <1>6, <1>7

(* A PES is written to its file. *)
LEMMA PESWritten ==
  ASSUME NEW n \in Nat, NEW fs, FilesAre(n, fs), BelongsInFile(n + 1),
         delivered[n + 1].pid \in DOMAIN fs, delivered[n + 1].first \in Nat
  PROVE  FilesAre(n + 1, [fs EXCEPT ![delivered[n + 1].pid] =
                                       Append(@, delivered[n + 1].first)])
<1> DEFINE pid == delivered[n + 1].pid
           f == delivered[n + 1].first
           gs == [fs EXCEPT ![pid] = Append(@, f)]
           K == Mine(pid, n)
<1>1. {m \in 1..(n + 1) : CompletesTables(m)} = {m \in 1..n : CompletesTables(m)}
  <2>1. 1..(n + 1) = (1..n) \cup {n + 1}
    OBVIOUS
  <2>2. ~CompletesTables(n + 1)
    BY DEF BelongsInFile, CompletesTables
  <2> QED BY <2>1, <2>2
<1>2. DOMAIN gs = DOMAIN fs /\ gs[pid] = Append(fs[pid], f)
  OBVIOUS
<1>3. \A q \in DOMAIN fs \ {pid} : gs[q] = fs[q] /\ Mine(q, n + 1) = Mine(q, n)
  BY ToldOfNext, ZenonT(30)
<1>4. Mine(pid, n + 1) = K \cup {n + 1}
  BY ToldOfNext, ZenonT(30)
<1> HIDE DEF gs
<1>5. Holds(fs[pid], K)
  BY DEF FilesAre
<1>6. /\ K \in SUBSET (1..n) /\ IsFiniteSet(K) /\ Cardinality(K) \in Nat
      /\ n + 1 \notin K /\ Cardinality(K \cup {n + 1}) = Cardinality(K) + 1
  <2>1. K \in SUBSET (1..n) /\ IsFiniteSet(1..n)
    BY FS_Interval, 1 \in Int, n \in Int DEF Mine
  <2>2. IsFiniteSet(K) /\ Cardinality(K) \in Nat /\ n + 1 \notin K
    BY <2>1, FS_Subset, FS_CardinalityType
  <2> QED BY <2>1, <2>2, FS_AddElement, ZenonT(30)
<1>7. /\ \A k \in K : Rank(K \cup {n + 1}, k) = Rank(K, k)
      /\ Rank(K \cup {n + 1}, n + 1) = Cardinality(K) + 1
  <2>1. \A k \in K : {m \in K \cup {n + 1} : m <= k} = {m \in K : m <= k}
    BY <1>6
  <2>2. {m \in K \cup {n + 1} : m <= n + 1} = K \cup {n + 1}
    BY <1>6
  <2> QED BY <1>6, <2>1, <2>2 DEF Rank
<1>8. \A k \in K : Rank(K, k) \in 1..Cardinality(K)
  BY <1>6, RankOnto
<1> HIDE DEF K, f
<1>9. Holds(gs[pid], K \cup {n + 1})
  <2>1. /\ fs[pid] \in Seq(Nat) /\ Len(fs[pid]) = Cardinality(K)
        /\ \A k \in K : fs[pid][Rank(K, k)] = delivered[k].first
    BY <1>5 DEF Holds
  <2>2. /\ gs[pid] \in Seq(Nat) /\ Len(gs[pid]) = Cardinality(K) + 1
        /\ gs[pid][Cardinality(K) + 1] = f
        /\ \A i \in 1..Cardinality(K) : gs[pid][i] = fs[pid][i]
    BY <1>2, <1>6, <2>1 DEF f
  <2> QED BY <1>6, <1>7, <1>8, <2>1, <2>2, ZenonT(30) DEF Holds, f
<1> QED BY <1>1, <1>2, <1>3, <1>4, <1>9, ZenonT(30) DEF FilesAre, gs, K, f

(* Files are created for the streams of the tables that datum n + 1, a     *)
(* PMT, has completed.                                                     *)
LEMMA FilesCreated ==
  ASSUME NEW n \in Nat, NEW fs, FilesAre(n, fs), CompletesTables(n + 1)
  PROVE  FilesAre(n + 1, [pid \in DOMAIN fs \cup StreamsAt(n + 1) |->
                            IF pid \in DOMAIN fs THEN fs[pid] ELSE <<>>])
<1> DEFINE gs == [pid \in DOMAIN fs \cup StreamsAt(n + 1) |->
                    IF pid \in DOMAIN fs THEN fs[pid] ELSE <<>>]
<1>1. DOMAIN gs = UNION {StreamsAt(m) : m \in {m \in 1..(n + 1) : CompletesTables(m)}}
  <2>1. {m \in 1..(n + 1) : CompletesTables(m)}
          = {m \in 1..n : CompletesTables(m)} \cup {n + 1}
    <3>1. 1..(n + 1) = (1..n) \cup {n + 1}
      OBVIOUS
    <3> QED BY <3>1
  <2>2. DOMAIN gs = DOMAIN fs \cup StreamsAt(n + 1)
    OBVIOUS
  <2> QED BY <2>1, <2>2, Zenon DEF FilesAre
<1>2. \A pid : Mine(pid, n + 1) = Mine(pid, n)
  <2>1. ~BelongsInFile(n + 1)
    BY DEF BelongsInFile, CompletesTables
  <2> QED BY <2>1, ToldOfNext, ZenonT(30)
<1>3. ASSUME NEW pid \in DOMAIN gs PROVE Holds(gs[pid], Mine(pid, n))
  <2>1. CASE pid \in DOMAIN fs
    BY <2>1 DEF FilesAre
  <2>2. CASE pid \notin DOMAIN fs
    <3>1. ASSUME NEW k \in 1..n, delivered[k].pid = pid, BelongsInFile(k)
          PROVE  FALSE
      <4>1. PICK m \in 1..(k - 1) : CompletesTables(m) /\ pid \in StreamsAt(m)
        BY <3>1 DEF BelongsInFile
      <4>2. m \in 1..n
        OBVIOUS
      <4> QED BY <2>2, <4>1, <4>2 DEF FilesAre
    <3>2. Mine(pid, n) = {}
      BY <3>1 DEF Mine
    <3>3. gs[pid] = <<>>
      BY <2>2
    <3>4. Cardinality({}) = 0
      BY FS_EmptySet
    <3> HIDE DEF gs
    <3> QED BY <3>2, <3>3, <3>4 DEF Holds
  <2> QED BY <2>1, <2>2
<1> QED BY <1>1, <1>2, <1>3, ZenonT(30) DEF FilesAre

(* A PMT is returned. *)
LEMMA NextIsPMT ==
  ASSUME NEW n \in Nat, NEW pt, NEW pm, NEW got, NEW fs, LoopIs(n, pt, pm, got, fs),
         delivered[n + 1].kind = "PMT", pt # <<>>,
         NEW known, known = Put(pm, PMTOf(n + 1).number, PMTOf(n + 1).streams)
  PROVE  /\ PATIs(n + 1, pt) /\ PMTsAre(n + 1, known)
         /\ CompletesTables(n + 1) <=> \A g \in pt[1] : g.number \in DOMAIN known
         /\ GotAll(n + 1) <=> CompletesTables(n + 1)
         /\ \A p : p \in StreamsAt(n + 1) <=> \E g \in DOMAIN known : p \in known[g]
<1> DEFINE N == n + 1
<1>1. /\ PMTsUpTo(N) = PMTsUpTo(n) \cup {N} /\ PMTsUpTo(n) \subseteq 1..n
      /\ \A a \in 1..n : IsLastPAT(a, N) <=> IsLastPAT(a, n)
  BY ToldOfNext DEF PMTsUpTo
<1>2. PICK a \in 1..n : IsLastPAT(a, n) /\ pt = <<delivered[a].programs>>
  BY DEF LoopIs, PATIs
<1>3. PATIs(N, pt)
  BY <1>1, <1>2 DEF PATIs
<1>4. /\ DOMAIN known = DOMAIN pm \cup {PMTOf(N).number}
      /\ known[PMTOf(N).number] = PMTOf(N).streams
      /\ \A g \in DOMAIN pm \ {PMTOf(N).number} : known[g] = pm[g]
  BY DEF Put
<1>5. PMTsAre(N, known)
  <2>1. \A k \in PMTsUpTo(N) : PMTOf(k).number \in DOMAIN known
    BY <1>1, <1>4 DEF LoopIs, PMTsAre
  <2>2. ASSUME NEW g \in DOMAIN known
        PROVE  \E k \in PMTsUpTo(N) : /\ IsNewest(k, N)
                                      /\ PMTOf(k).number = g
                                      /\ PMTOf(k).streams = known[g]
    <3>1. CASE g = PMTOf(N).number
      <4>1. N \in PMTsUpTo(N) /\ IsNewest(N, N)
        BY <1>1 DEF IsNewest
      <4> QED BY <1>4, <3>1, <4>1
    <3>2. CASE g # PMTOf(N).number
      <4>1. PICK k \in PMTsUpTo(n) : /\ IsNewest(k, n) /\ PMTOf(k).number = g
                                     /\ PMTOf(k).streams = pm[g]
        BY <1>4, <3>2 DEF LoopIs, PMTsAre
      <4>2. k \in PMTsUpTo(N) /\ IsNewest(k, N)
        BY <1>1, <3>2, <4>1 DEF IsNewest
      <4> QED BY <1>4, <3>2, <4>1, <4>2
    <3> QED BY <3>1, <3>2
  <2> QED BY <2>1, <2>2 DEF PMTsAre
<1>6. DOMAIN known = {PMTOf(k).number : k \in PMTsUpTo(N)}
  BY <1>5, ZenonT(30) DEF PMTsAre
<1>7. CompletesTables(N) <=> \A g \in pt[1] : g.number \in DOMAIN known
  <2>1. \A b \in 1..N : IsLastPAT(b, N) => b = a
    BY <1>1, <1>2 DEF IsLastPAT
  <2>2. a \in 1..N /\ IsLastPAT(a, N) /\ pt[1] = delivered[a].programs
    BY <1>1, <1>2
  <2> QED BY <1>6, <2>1, <2>2 DEF CompletesTables
<1>8. ASSUME NEW m \in 1..n, CompletesTables(m),
             \A j \in m..N : delivered[j].kind # "PAT"
      PROVE  CompletesTables(N)
  <2>1. PICK b \in 1..m : /\ IsLastPAT(b, m)
                          /\ \A g \in delivered[b].programs :
                               \E k \in PMTsUpTo(m) : PMTOf(k).number = g.number
    BY <1>8 DEF CompletesTables
  <2>2. b \in 1..N /\ IsLastPAT(b, N)
    BY <1>8, <2>1 DEF IsLastPAT
  <2>3. PMTsUpTo(m) \subseteq PMTsUpTo(N)
    BY DEF PMTsUpTo
  <2> QED BY <2>1, <2>2, <2>3 DEF CompletesTables
<1>9. GotAll(N) <=> CompletesTables(N)
  <2>1. 1..N = (1..n) \cup {N} /\ N..N = {N}
    OBVIOUS
  <2> QED BY <1>8, <2>1 DEF GotAll
<1>10. \A p : p \in StreamsAt(N) <=> \E g \in DOMAIN known : p \in known[g]
  <2>1. ASSUME NEW k \in PMTsUpTo(N), IsNewest(k, N)
        PROVE  PMTOf(k).number \in DOMAIN known
               /\ known[PMTOf(k).number] = PMTOf(k).streams
    <3>1. PICK j \in PMTsUpTo(N) : /\ IsNewest(j, N) /\ PMTOf(j).number = PMTOf(k).number
                                   /\ PMTOf(j).streams = known[PMTOf(k).number]
      BY <1>5 DEF PMTsAre
    <3>2. j <= k /\ k <= j
      BY <2>1, <3>1 DEF IsNewest
    <3>3. j = k
      BY <1>1, <3>2
    <3> QED BY <1>5, <3>1, <3>3 DEF PMTsAre
  <2>2. ASSUME NEW g \in DOMAIN known
        PROVE  \E k \in PMTsUpTo(N) : IsNewest(k, N) /\ PMTOf(k).streams = known[g]
    BY <1>5 DEF PMTsAre
  <2> QED BY <2>1, <2>2 DEF StreamsAt
<1> QED BY <1>3, <1>5, <1>7, <1>9, <1>10

-----------------------------------------------------------------------------
(* The steps of the splitter.                                              *)

(* A step of NextData goes on, or returns nothing or one datum. *)
LEMMA CallReturns ==
  ASSUME CallNextData
  PROVE  /\ UNCHANGED tape
         /\ \/ pc' # "idle" /\ delivered' = delivered
            \/ /\ pc' = "idle" /\ delivered' = delivered \o ret'.d
               /\ ret'.d = <<>> \/ (\E e : ret'.d = <<e>> /\ ret'.err = "none")
<1> DEFINE Goal == /\ UNCHANGED tape
                   /\ \/ pc' # "idle" /\ delivered' = delivered
                      \/ /\ pc' = "idle" /\ delivered' = delivered \o ret'.d
                         /\ ret'.d = <<>> \/ (\E e : ret'.d = <<e>> /\ ret'.err = "none")
<1>1. ASSUME NEW from, NEW e, NEW d, Return(from, d, e), d = <<>>, UNCHANGED tape
      PROVE  Goal
  BY <1>1, ZenonT(30) DEF Return
<1>2. ASSUME NEW from, NEW ds, updateData(from, ds), pc # "idle", UNCHANGED tape
      PROVE  Goal
  <2>1. CASE ds = <<>>
    BY <1>2, <2>1 DEF updateData
  <2>2. CASE ds # <<>>
    <3>1. pc' = "idle" /\ ret' = [call |-> from, d |-> <<Head(ds)>>, err |-> "none"]
      BY <1>2, <2>2 DEF updateData, Return
    <3>2. delivered' = delivered \o <<Head(ds)>>
      BY <1>2, <2>2 DEF updateData, Return
    <3>3. ret'.d = <<Head(ds)>> /\ ret'.err = "none"
      BY <3>1
    <3> QED BY <1>2, <3>1, <3>2, <3>3
  <2> QED BY <2>1, <2>2
<1>3. CASE PopData
  BY <1>3 DEF PopData, Return
<1>4. CASE BeginNextData
  BY <1>4 DEF BeginNextData
<1>5. CASE LoopStep
  <2>1. pc = "packets" /\ UNCHANGED tape
    BY <1>5 DEF LoopStep
  <2>2. CASE LoopFails
    BY <2>1, <2>2, <1>1 DEF LoopFails
  <2>3. CASE LoopEnds
    BY <2>1, <2>3 DEF LoopEnds
  <2>4. CASE LoopAdds
    BY <2>1, <2>4, <1>1, <1>2 DEF LoopAdds
  <2> QED BY <1>5, <2>2, <2>3, <2>4 DEF LoopStep
<1>6. CASE DumpStep
  <2>1. pc = "dump" /\ UNCHANGED tape
    BY <1>6 DEF DumpStep
  <2> QED BY <2>1, <1>6, <1>1, <1>2 DEF DumpStep
<1> QED BY <1>3, <1>4, <1>5, <1>6 DEF CallNextData

(* A step of NextData leaves the splitter's variables alone. *)
LEMMA CallKeepsInv ==
  ASSUME SplitInv, DataTypes, DataTypes', CallNextData
  PROVE  SplitInv'
<1> PICK n \in Nat : n = Len(delivered)
  BY DEF DataTypes
<1>1. /\ turn \in {"call", "called"} /\ turn' \in {"called", "handle"}
      /\ UNCHANGED <<pat, pmts, gotAllPMTs, files>>
      /\ turn' = "handle" => pc' = "idle"
      /\ turn' # "handle" => pc' # "idle"
  BY DEF CallNextData, Turned
<1>2. Handled = n /\ LoopIs(n, pat, pmts, gotAllPMTs, files)
  BY <1>1 DEF SplitInv, Handled
<1>3. /\ \A k \in 1..n : delivered'[k] = delivered[k]
      /\ Handled' = n /\ JustReturned'
  <2>1. delivered \in Seq(Data) /\ delivered' \in Seq(Data)
    BY DEF DataTypes
  <2>2. CASE pc' # "idle" /\ delivered' = delivered
    BY <1>1, <2>2 DEF Handled, JustReturned
  <2>3. CASE pc' = "idle" /\ delivered' = delivered \o ret'.d /\ ret'.d = <<>>
    BY <1>1, <2>1, <2>3 DEF Handled, JustReturned
  <2>4. ASSUME NEW e, pc' = "idle", delivered' = delivered \o ret'.d, ret'.d = <<e>>,
               ret'.err = "none"
        PROVE  /\ \A k \in 1..n : delivered'[k] = delivered[k]
               /\ Handled' = n /\ JustReturned'
    <3>1. /\ Len(delivered') = n + 1 /\ delivered'[n + 1] = e /\ Len(ret'.d) = 1
          /\ \A k \in 1..n : delivered'[k] = delivered[k]
      BY <2>1, <2>4
    <3> QED BY <1>1, <2>4, <3>1 DEF Handled, JustReturned
  <2> QED BY CallReturns, <2>2, <2>3, <2>4
<1>4. UNCHANGED tape
  BY CallReturns
<1>5. LoopIs(n, pat, pmts, gotAllPMTs, files)'
  <2>1. PICK pt, pm, got, fs : pt = pat /\ pm = pmts /\ got = gotAllPMTs /\ fs = files
    OBVIOUS
  <2>2. LoopIs(n, pt, pm, got, fs)'
    BY <1>2, <1>3, <1>4, <2>1, LoopIsStays
  <2> QED BY <1>1, <2>1, <2>2
<1> QED BY <1>3, <1>5 DEF SplitInv

(* So does handling what it returned keep them as they should be. *)
LEMMA HandleKeepsInv ==
  ASSUME SplitInv, DataTypes, Handle
  PROVE  SplitInv'
<1>1. /\ turn = "handle" /\ turn' \in {"call", "done", "fatal", "panic"}
      /\ UNCHANGED demuxVars
  BY ZenonT(30) DEF Handle, EndOfStream, HandleError, HandleNothing, HandlePAT, HandlePMT,
         HandleOther, Handles
<1>2. JustReturned' /\ UNCHANGED <<tape, delivered, ret>> /\ delivered \in Seq(Data)
  BY <1>1 DEF JustReturned, demuxVars, DataTypes
<1>3. CASE turn' \in {"fatal", "panic"}
  BY <1>2, <1>3 DEF SplitInv
<1>4. ASSUME NEW n \in Nat, n = Len(delivered), turn' \in {"call", "done"},
             LoopIs(n, pat', pmts', gotAllPMTs', files')
      PROVE  SplitInv'
  <2>1. PICK pt, pm, got, fs :
          pt = pat' /\ pm = pmts' /\ got = gotAllPMTs' /\ fs = files'
    OBVIOUS
  <2>2. LoopIs(n, pt, pm, got, fs)'
    BY <1>2, <1>4, <2>1, LoopIsStays
  <2>3. Handled' = n
    BY <1>2, <1>4 DEF Handled
  <2> QED BY <1>2, <2>1, <2>2, <2>3 DEF SplitInv
<1>5. CASE ret.d = <<>> /\ turn' \in {"call", "done"}
  <2>1. EndOfStream
    BY <1>1, <1>5 DEF Handle, HandleError, HandleNothing, HandlePAT, HandlePMT,
                      HandleOther, Handles, Returned
  <2>2. Handled = Len(delivered) /\ Len(delivered) \in Nat
    BY <1>1, <1>2, <1>5 DEF Handled
  <2> QED BY <1>1, <1>4, <1>5, <2>1, <2>2 DEF EndOfStream, SplitInv
<1>6. CASE ret.d # <<>> /\ turn' \in {"call", "done"}
  <2>1. /\ Len(delivered) \in Nat /\ Len(delivered) > 0 /\ ret.err = "none"
        /\ ret.d = <<delivered[Len(delivered)]>>
    BY <1>1, <1>2, <1>6 DEF SplitInv, JustReturned
  <2>2. PICK n \in Nat : n + 1 = Len(delivered)
    BY <2>1, Len(delivered) - 1 \in Nat
  <2> DEFINE e == delivered[n + 1]
  <2>3. ret.d[1] = e /\ Len(ret.d) = 1 /\ e.first \in Nat
    <3>1. ret.d = <<e>>
      BY <2>1, <2>2
    <3>2. e \in Data
      BY <1>2, <2>2
    <3> HIDE DEF e
    <3> QED BY <3>1, <3>2 DEF Data
  <2>4. LoopIs(n, pat, pmts, gotAllPMTs, files)
    <3>1. Handled = n
      BY <1>1, <2>2, <2>3 DEF Handled
    <3> QED BY <1>1, <3>1 DEF SplitInv
  <2>5. PICK pt, pm, got, fs : pt = pat /\ pm = pmts /\ got = gotAllPMTs /\ fs = files
    OBVIOUS
  <2>6. LoopIs(n, pt, pm, got, fs)
    BY <2>4, <2>5
  <2>7. CASE HandlePAT
    <3>1. LoopIs(n + 1, <<e.programs>>, pm, FALSE, fs)
      BY <2>3, <2>6, <2>7, NextIsPAT, ZenonT(30) DEF HandlePAT, Returned
    <3>2. pat' = <<e.programs>> /\ pmts' = pm /\ files' = fs /\ ~gotAllPMTs'
      BY <2>3, <2>5, <2>7 DEF HandlePAT
    <3>3. LoopIs(n + 1, pat', pmts', gotAllPMTs', files')
      BY <3>1, <3>2 DEF LoopIs
    <3> QED BY <1>4, <1>6, <2>2, <3>3
  <2>8. CASE HandlePMT
    <3> DEFINE pmt == tape[ret.d[1].first].body.pmt
               known == Put(pmts, pmt.number, pmt.streams)
               complete == \A g \in pat[1] : g.number \in DOMAIN known
               streams == UNION {known[g] : g \in DOMAIN known}
    <3>1. e.kind = "PMT" /\ pmts' = known /\ UNCHANGED pat /\ pt # <<>>
      BY <1>6, <2>3, <2>5, <2>8, ZenonT(30) DEF HandlePMT, Handles, Returned
    <3>2. \/ ~complete /\ ~gotAllPMTs' /\ files' = files
          \/ /\ complete /\ gotAllPMTs'
             /\ files' = [pid \in DOMAIN files \cup streams |->
                            IF pid \in DOMAIN files THEN files[pid] ELSE <<>>]
      <4>1. turn' # "fatal" /\ pat # <<>>
        BY <1>6, <2>5, <3>1
      <4> QED BY <2>8, <4>1, ZenonT(60) DEF HandlePMT, Handles
    <3>3. known = Put(pm, PMTOf(n + 1).number, PMTOf(n + 1).streams)
      BY <2>3, <2>5 DEF PMTOf
    <3> HIDE DEF known
    <3>4. /\ PATIs(n + 1, pt) /\ PMTsAre(n + 1, known)
          /\ CompletesTables(n + 1) <=> complete
          /\ GotAll(n + 1) <=> CompletesTables(n + 1)
          /\ \A p : p \in StreamsAt(n + 1) <=> p \in streams
      <4>1. PICK kn : kn = known
        OBVIOUS
      <4>2. /\ PATIs(n + 1, pt) /\ PMTsAre(n + 1, kn)
            /\ CompletesTables(n + 1) <=> \A g \in pt[1] : g.number \in DOMAIN kn
            /\ GotAll(n + 1) <=> CompletesTables(n + 1)
            /\ \A p : p \in StreamsAt(n + 1) <=> \E g \in DOMAIN kn : p \in kn[g]
        BY <2>6, <3>1, <3>3, <4>1, NextIsPMT, ZenonT(30)
      <4> QED BY <2>5, <4>1, <4>2
    <3>6. streams = StreamsAt(n + 1)
      BY <3>4
    <3> HIDE DEF complete, streams
    <3>5. FilesAre(n + 1, files') /\ (gotAllPMTs' <=> GotAll(n + 1))
      <4>1. CASE complete
        BY <2>5, <2>6, <3>2, <3>4, <3>6, <4>1, FilesCreated DEF LoopIs
      <4>2. CASE ~complete
        BY <2>5, <2>6, <3>1, <3>2, <3>4, <4>2, FilesStay DEF LoopIs, BelongsInFile
      <4> QED BY <4>1, <4>2
    <3> QED BY <1>4, <1>6, <2>2, <2>5, <3>1, <3>4, <3>5 DEF LoopIs
  <2>9. CASE HandleOther
    <3> DEFINE wanted == got /\ e.kind = "PES" /\ e.pid \in DOMAIN fs
    <3>1. /\ e.kind \notin {"PAT", "PMT"} /\ UNCHANGED <<pat, pmts, gotAllPMTs>>
          /\ \/ ~wanted /\ UNCHANGED files
             \/ wanted /\ files' = [files EXCEPT ![e.pid] = Append(@, e.first)]
      BY <1>6, <2>3, <2>5, <2>9, ZenonT(30) DEF HandleOther, Handles
    <3>2. /\ BelongsInFile(n + 1) <=> wanted
          /\ PATIs(n + 1, pt) /\ PMTsAre(n + 1, pm) /\ (got <=> GotAll(n + 1))
      <4>1. delivered[n + 1].kind \notin {"PAT", "PMT"}
        BY <3>1
      <4> HIDE DEF e
      <4>2. BelongsInFile(n + 1) <=> /\ got /\ delivered[n + 1].kind = "PES"
                                     /\ delivered[n + 1].pid \in DOMAIN fs
        BY <2>6, <4>1, NextIsOther
      <4>3. PATIs(n + 1, pt) /\ PMTsAre(n + 1, pm) /\ (got <=> GotAll(n + 1))
        BY <2>6, <4>1, NextIsOther
      <4> QED BY <4>2, <4>3 DEF e
    <3> HIDE DEF wanted
    <3>3. FilesAre(n + 1, files')
      <4>1. CASE wanted
        <5>1. FilesAre(n, fs) /\ BelongsInFile(n + 1)
          BY <2>6, <3>2, <4>1 DEF LoopIs
        <5>2. /\ files' = [fs EXCEPT ![e.pid] = Append(@, e.first)]
              /\ e.pid \in DOMAIN fs /\ e.first \in Nat
          BY <2>3, <2>5, <3>1, <4>1 DEF wanted
        <5> QED BY <5>1, <5>2, PESWritten, ZenonT(30)
      <4>2. CASE ~wanted
        BY <2>5, <2>6, <3>1, <3>2, <4>2, FilesStay DEF LoopIs, CompletesTables
      <4> QED BY <4>1, <4>2
    <3>4. LoopIs(n + 1, pat', pmts', gotAllPMTs', files')
      BY <2>5, <3>1, <3>2, <3>3 DEF LoopIs
    <3> QED BY <1>4, <1>6, <2>2, <3>4
  <2>10. HandlePAT \/ HandlePMT \/ HandleOther
    BY <1>6, <2>1 DEF Handle, EndOfStream, HandleError, HandleNothing, Handles
  <2> QED BY <2>7, <2>8, <2>9, <2>10
<1> QED BY <1>1, <1>3, <1>5, <1>6

(* The invariant holds at first and after every step of the program. *)
LEMMA SplitInvInductive == SplitSpec => [](SplitInv /\ DataTypes)
<1>1. SplitInit => SplitInv
  <2> SUFFICES ASSUME SplitInit PROVE SplitInv
    OBVIOUS
  <2>1. turn = "call" /\ delivered = <<>> /\ pat = <<>> /\ pmts = <<>> /\ files = <<>>
        /\ gotAllPMTs = FALSE /\ Handled = 0
    BY DEF SplitInit, DemuxInit, Handled
  <2>2. LoopIs(0, pat, pmts, gotAllPMTs, files)
    BY <2>1 DEF LoopIs, PATIs, PMTsAre, PMTsUpTo, GotAll, FilesAre
  <2> QED BY <2>1, <2>2 DEF SplitInv, JustReturned
<1>2. SplitInv /\ DataTypes /\ DataTypes' /\ [SplitNext]_allVars => SplitInv'
  <2> SUFFICES ASSUME SplitInv, DataTypes, DataTypes', [SplitNext]_allVars
               PROVE  SplitInv'
    OBVIOUS
  <2>1. CASE UNCHANGED allVars
    <3>1. UNCHANGED <<turn, pat, pmts, gotAllPMTs, files, tape, delivered, ret>>
      BY <2>1 DEF allVars, splitVars, demuxVars
    <3>2. JustReturned' /\ Handled' = Handled
      BY <3>1 DEF SplitInv, JustReturned, Handled
    <3>3. Handled \in Nat
      <4>1. Len(delivered) \in Nat
        BY DEF DataTypes
      <4>2. turn = "handle" => Len(ret.d) = 0 \/ (Len(ret.d) = 1 /\ Len(delivered) > 0)
        <5>1. CASE turn # "handle" \/ ret.d = <<>>
          BY <5>1
        <5>2. CASE ret.d = <<delivered[Len(delivered)]>> /\ Len(delivered) > 0
          BY <5>2
        <5> QED BY <5>1, <5>2 DEF SplitInv, JustReturned
      <4> QED BY <4>1, <4>2 DEF Handled
    <3>4. PICK n, pt, pm, got, fs : /\ n = Handled /\ pt = pat /\ pm = pmts
                                    /\ got = gotAllPMTs /\ fs = files
      OBVIOUS
    <3>5. LoopIs(n, pt, pm, got, fs) => LoopIs(n, pt, pm, got, fs)'
      BY <3>1, <3>3, <3>4, LoopIsStays
    <3> QED BY <3>1, <3>2, <3>4, <3>5 DEF SplitInv
  <2> QED BY <2>1, CallKeepsInv, HandleKeepsInv DEF SplitNext
<1> QED BY <1>1, <1>2, SplitIsDemux, HistoryInvariant, PTL DEF SplitSpec

(* Whenever the splitter begins a turn and at the end, the file of a PID   *)
(* holds exactly the PES of that PID that belong in it, each once and in   *)
(* the order they came, whatever the stream (cmd/astits-es-split/main.go). *)
THEOREM FilesAlwaysTheStreams == SplitSpec => []FilesAreTheStreams
<1>1. SplitInv /\ DataTypes => FilesAreTheStreams
  <2> SUFFICES ASSUME SplitInv, DataTypes, turn \in {"call", "done"}
               PROVE  FilesAreTheStreams
    BY ZenonT(30) DEF FilesAreTheStreams
  <2>1. PICK n \in Nat : n = Len(delivered) /\ DOMAIN delivered = 1..n
    BY DEF DataTypes
  <2>2. FilesAre(n, files)
    BY <2>1 DEF SplitInv, Handled, LoopIs
  <2>3. ASSUME NEW pid, pid \notin DOMAIN files PROVE Mine(pid, n) = {}
    BY <2>2, <2>3 DEF FilesAre, Mine, BelongsInFile
  <2>4. ASSUME NEW pid \in PIDs
        PROVE  Holds(IF pid \in DOMAIN files THEN files[pid] ELSE <<>>,
                     {k \in DOMAIN delivered : /\ delivered[k].pid = pid
                                               /\ BelongsInFile(k)})
    <3> DEFINE ks == {k \in DOMAIN delivered : /\ delivered[k].pid = pid
                                               /\ BelongsInFile(k)}
    <3>1. ks = Mine(pid, n)
      BY <2>1 DEF Mine
    <3> HIDE DEF ks
    <3>2. Holds(IF pid \in DOMAIN files THEN files[pid] ELSE <<>>, ks)
      <4>1. CASE pid \in DOMAIN files
        BY <2>2, <3>1, <4>1 DEF FilesAre
      <4>2. CASE pid \notin DOMAIN files
        <5>1. ks = {}
          BY <2>3, <3>1, <4>2
        <5>2. Cardinality(ks) = 0
          BY <5>1, FS_EmptySet
        <5> QED BY <4>2, <5>1, <5>2 DEF Holds
      <4> QED BY <4>1, <4>2
    <3> QED BY <3>2 DEF ks
  <2> QED BY <2>4, Zenon DEF FilesAreTheStreams, Holds, Rank
<1> QED BY <1>1, SplitInvInductive, PTL

(* The places of the packets that began the PES of a file are increasing:  *)
(* no PES is written twice, and none before one that began earlier.        *)
FilesInTapeOrder ==
  turn \in {"call", "done"} =>
    \A pid \in DOMAIN files \cap PIDs : \A i, j \in 1..Len(files[pid]) :
      i < j => files[pid][i] < files[pid][j]

(* Every file is in the order of the tape, because NextData returns the    *)
(* data of a PID in that order (demuxer.go NextData, main.go's loop).      *)
THEOREM FilesAlwaysInTapeOrder == SplitSpec => []FilesInTapeOrder
<1>1. FilesAreTheStreams /\ InStreamOrder /\ DataTypes => FilesInTapeOrder
  <2> SUFFICES ASSUME FilesAreTheStreams, InStreamOrder, DataTypes,
                      turn \in {"call", "done"}, NEW pid \in DOMAIN files \cap PIDs,
                      NEW i \in 1..Len(files[pid]), NEW j \in 1..Len(files[pid]), i < j
               PROVE  files[pid][i] < files[pid][j]
    BY DEF FilesInTapeOrder
  <2> DEFINE K == {k \in DOMAIN delivered : delivered[k].pid = pid /\ BelongsInFile(k)}
  <2>1. DOMAIN delivered = 1..Len(delivered) /\ Len(delivered) \in Nat
    BY DEF DataTypes
  <2>2. K \in SUBSET Nat /\ IsFiniteSet(K)
    <3>1. IsFiniteSet(1..Len(delivered)) /\ K \subseteq 1..Len(delivered)
      BY <2>1, FS_Interval
    <3> QED BY <2>1, <3>1, FS_Subset
  <2>3. /\ Len(files[pid]) = Cardinality(K)
        /\ \A k \in K : files[pid][Rank(K, k)] = delivered[k].first
    BY Zenon DEF FilesAreTheStreams, Rank
  <2>4. \A k \in K : /\ k \in 1..Len(delivered) /\ delivered[k].pid = pid
                     /\ delivered[k].kind = "PES"
    BY <2>1 DEF BelongsInFile
  <2> HIDE DEF K
  <2>5. PICK k \in K, m \in K : Rank(K, k) = i /\ Rank(K, m) = j
    BY <2>2, <2>3, RankOnto, ZenonT(30)
  <2>6. k < m
    BY <2>2, <2>5, RankOnto
  <2>7. delivered[k].first < delivered[m].first
    BY <2>1, <2>4, <2>6 DEF InStreamOrder
  <2> QED BY <2>3, <2>5, <2>7
<1> QED
  BY <1>1, FilesAlwaysTheStreams, SplitInvInductive, SplitIsDemux,
     AlwaysInStreamOrder, PTL

=============================================================================
