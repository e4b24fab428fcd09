----------------------- MODULE DemuxerCompleteProofs -----------------------
(***************************************************************************)
(* For every tape and reader: a PES that arrived whole at NextData is      *)
(* returned by it before it reports the end of the stream, provided that   *)
(* the custom parser neither fails nor replaces the default parsing.       *)
(***************************************************************************)
EXTENDS DemuxerDataProofs

(* How long each prover may take over a leaf. *)
USE SMTT(30), ZenonT(30)

(* There is no custom parser, or it leaves the parsing to parseData. *)
ParserPasses == \A o \in ParserOutcomes : ~o.fails /\ ~o.skip

(* The packets of a unit that have been read so far, and the pool holding  *)
(* just them.                                                              *)
RunTo(i, q) == {j \in Run(i) : j <= q}

HoldsRun(i, q) ==
  LET ps == pool[tape[i].pid]
  IN  /\ ps # <<>>
      /\ ps[1].at = i
      /\ Len(ps) = Cardinality(RunTo(i, q))
      /\ LastOf(ps).at \in RunTo(i, q)
      /\ \A j \in RunTo(i, q) : j <= LastOf(ps).at

Wanted(i) == /\ tape[i].body.kind = "pes"
             /\ tape[i].pid # PIDCAT
             /\ ~isPSIPayload(tape[i].pid, programMap)

ReturnedPES(i) ==
  \E k \in 1..Len(History) : History[k].first = i /\ History[k].kind = "PES"

FromTape ==
  \A pid \in PIDs : \A m \in 1..Len(pool[pid]) :
    pool[pid][m] = Tagged(tape[pool[pid][m].at], pool[pid][m].at)

(* A PES that has arrived whole so far is in the history, or else in the   *)
(* pool with its end still to come.                                        *)
Arrived(i) == Unbroken(i) /\ RunTo(i, pos) \cap unseen = {} /\ Wanted(i)

Served(i) == ReturnedPES(i) \/ (pos < NextStart(i) /\ HoldsRun(i, pos))

CompleteInv ==
  /\ FromTape
  /\ buffer = "nil" => unseen = 1..pos
  /\ \A i \in 1..pos : Arrived(i) => Served(i)

-----------------------------------------------------------------------------
(* The tape.                                                               *)

(* The next start of a unit's PID is the first one, or lies beyond the     *)
(* tape.                                                                   *)
LEMMA NextStartFacts ==
  ASSUME tape \in Seq(Shapes), NEW i \in 1..Len(tape)
  PROVE  /\ Later(i) \subseteq (i + 1)..Len(tape)
         /\ NextStart(i) \in (i + 1)..(Len(tape) + 1)
         /\ NextStart(i) <= Len(tape) =>
              NextStart(i) \in Later(i) /\ tape[NextStart(i)].pusi
         /\ \A j \in Later(i) : tape[j].pusi => NextStart(i) <= j
<1> DEFINE S == {j \in Later(i) : tape[j].pusi}
<1>1. Len(tape) \in Nat /\ Later(i) \subseteq (i + 1)..Len(tape)
  BY DEF Later
<1>2. S \in SUBSET Nat /\ IsFiniteSet(S)
  <2>1. S \in SUBSET ((i + 1)..Len(tape)) /\ (i + 1)..Len(tape) \in SUBSET Nat
    BY <1>1
  <2>2. IsFiniteSet((i + 1)..Len(tape))
    BY <1>1, FS_Interval, i + 1 \in Int, Len(tape) \in Int
  <2> HIDE DEF S
  <2> QED
    BY <2>1, <2>2, FS_Subset, ZenonT(60)
<1>3. CASE S = {}
  <2>1. NextStart(i) = Len(tape) + 1
    BY <1>3 DEF NextStart
  <2>2. \A j \in Later(i) : ~tape[j].pusi
    BY <1>3
  <2> QED
    BY <1>1, <2>1, <2>2
<1>4. CASE S # {}
  <2>1. NextStart(i) = CHOOSE j \in S : \A k \in S : j <= k
    BY <1>4 DEF NextStart
  <2>2. \E j \in S : \A k \in S : j <= k
    <3> HIDE DEF S
    <3> QED
      BY <1>2, <1>4, FiniteMin
  <2>3. NextStart(i) \in S /\ \A k \in S : NextStart(i) <= k
    <3> HIDE DEF S
    <3> QED
      BY <2>1, <2>2
  <2> QED
    BY <1>1, <2>3
<1> QED
  BY <1>3, <1>4

(* The places of a unit, up to where the tape has been read. *)
LEMMA RunFacts ==
  ASSUME tape \in Seq(Shapes), NEW i \in 1..Len(tape), NEW q \in Nat
  PROVE  /\ Run(i) \subseteq i..Len(tape)
         /\ IsFiniteSet(RunTo(i, q))
         /\ RunTo(i, q) \subseteq Run(i)
         /\ i <= q => i \in RunTo(i, q)
<1>1. Run(i) \subseteq i..Len(tape)
  BY NextStartFacts DEF Run
<1>2. IsFiniteSet(i..Len(tape))
  BY FS_Interval, i \in Int, Len(tape) \in Int
<1>3. RunTo(i, q) \in SUBSET (i..Len(tape))
  BY <1>1 DEF RunTo
<1> QED
  BY <1>1, <1>2, <1>3, FS_Subset DEF RunTo, Run

(* The tape does not change. *)
LEMMA TapeFixed ==
  ASSUME UNCHANGED tape, NEW i
  PROVE  /\ (Unbroken(i))' = Unbroken(i)
         /\ (NextStart(i))' = NextStart(i)
         /\ (Run(i))' = Run(i)
<1>1. (Later(i))' = Later(i)
  BY DEF Later, Carries
<1>2. (NextStart(i))' = NextStart(i)
  BY <1>1 DEF NextStart
<1>3. (Run(i))' = Run(i)
  BY <1>1, <1>2 DEF Run
<1>4. (Unbroken(i))' = Unbroken(i)
  BY <1>2, <1>3 DEF Unbroken, Carries
<1> QED
  BY <1>2, <1>3, <1>4

-----------------------------------------------------------------------------
(* A packet with payload reaches the pool.                                 *)

(* The next counter value is another one. *)
LEMMA NextCCDiffers ==
  ASSUME NEW c \in 0..(CCMod - 1)
  PROVE  NextCC(c) # c
<1>1. CCMod \in Nat \ {0, 1} /\ c \in Nat /\ 1 \in 1..(CCMod - 1) /\ c % CCMod = c
  BY CCModAssumption
<1>2. (c + 1) % CCMod # c % CCMod
  BY <1>1, StepsDiffer, ZenonT(60)
<1> QED
  BY <1>1, <1>2 DEF NextCC

(* What add makes of a packet that starts a unit, and of one that          *)
(* continues the buffer's.                                                 *)
LEMMA AddPayload ==
  ASSUME NEW ps \in Seq(Packets), NEW p \in Packets, p.hasPayload, ~p.tei
  PROVE  /\ p.pusi => AddStored(ps, p) = <<p>>
         /\ ps # <<>> /\ ~p.disc /\ p.cc = NextCC(LastOf(ps).cc) =>
              IF p.pusi THEN AddFlushed(ps, p) = ps
              ELSE AddStored(ps, p) = Append(ps, p)
<1>1. ~ThrownAway(ps, p)
  <2> SUFFICES ASSUME isSameAsPrevious(Kept(ps, p), p) PROVE FALSE
    BY DEF ThrownAway
  <2>1. Kept(ps, p) = ps /\ ~hasDiscontinuity(ps, p) /\ ps # <<>>
    BY DEF isSameAsPrevious, Kept
  <2>2. p.cc = NextCC(LastOf(ps).cc) /\ p.cc = LastOf(ps).cc
    BY <2>1 DEF isSameAsPrevious, hasDiscontinuity
  <2>3. LastOf(ps) \in Packets
    BY <2>1 DEF LastOf
  <2>4. LastOf(ps).cc \in 0..(CCMod - 1)
    BY <2>3, PacketsAssumption
  <2> QED
    BY <2>2, <2>4, NextCCDiffers, ZenonT(60)
<1>2. Empties(ps, p) \/ Extends(ps, p) \/ Starts(ps, p)
  BY <1>1, AddCases DEF Ignores
<1>3. p.pusi => Starts(ps, p)
  BY <1>2 DEF Empties, Extends
<1>4. ASSUME ps # <<>>, ~p.disc, p.cc = NextCC(LastOf(ps).cc)
      PROVE  Kept(ps, p) = ps
  BY <1>4 DEF Kept, hasDiscontinuity
<1>5. ~p.pusi /\ Kept(ps, p) = ps /\ ps # <<>> => Extends(ps, p)
  BY <1>2 DEF Empties, Starts
<1> QED
  BY <1>3, <1>4, <1>5 DEF Starts, Extends

(* The next packet of a unit the pool holds continues it. *)
LEMMA NextContinues ==
  ASSUME DemuxInv, FromTape, NEW i \in 1..pos, Unbroken(i), HoldsRun(i, pos),
         tape[i].pid \in PIDs, NEW j, j = pos + 1, j \in Run(i)
  PROVE  /\ ~tape[j].disc
         /\ tape[j].cc = NextCC(LastOf(pool[tape[i].pid]).cc)
<1> DEFINE ps == pool[tape[i].pid]
           last == LastOf(ps).at
           B(k) == k \in Run(i) /\ k < j /\ \A m \in Run(i) : m < j => m <= k
           before == CHOOSE k \in Run(i) : k < j /\ \A m \in Run(i) : m < j => m <= k
<1>1. tape \in Seq(Shapes) /\ pos \in 0..Len(tape) /\ i \in 1..Len(tape) /\ pos \in Nat
  BY DEF DemuxInv, ReaderInv
<1>2. Run(i) \subseteq i..Len(tape) /\ Run(i) \subseteq Nat
  BY <1>1, RunFacts
<1>3. /\ ps # <<>> /\ ps \in Seq(Packets)
      /\ last \in RunTo(i, pos) /\ \A m \in RunTo(i, pos) : m <= last
  BY DEF HoldsRun, DemuxInv, PoolInv, PoolTypeOK
<1>4. LastOf(ps) = Tagged(tape[last], last)
  <2>1. Len(ps) \in 1..Len(ps)
    BY <1>3
  <2> QED
    BY <2>1 DEF FromTape, LastOf
<1> HIDE DEF last
<1>5. B(last)
  BY <1>1, <1>2, <1>3 DEF RunTo
<1>6. \A k : B(k) => k = last
  BY <1>1, <1>2, <1>3, <1>5 DEF RunTo
<1>7. before = last
  <2>1. B(before)
    BY <1>5, ZenonT(60)
  <2> HIDE DEF before
  <2> QED
    BY <1>6, <2>1
<1>8. ~tape[j].disc /\ tape[j].cc = NextCC(tape[before].cc)
  <2>1. j # i
    BY <1>1
  <2> QED
    BY <2>1, ZenonT(60) DEF Unbroken
<1>9. LastOf(ps).cc = tape[last].cc
  BY <1>4 DEF Tagged
<1> QED
  BY <1>7, <1>8, <1>9, ZenonT(60)

(* parseData makes a PES of it. *)
LEMMA ParsesPES ==
  ASSUME ParserPasses, NEW ps, NEW pm, NEW o \in ParserOutcomes,
         ps[1].body.kind = "pes", ps[1].pid # PIDCAT,
         ~isPSIPayload(ps[1].pid, pm), ~(Len(ps) < ps[1].body.needs)
  PROVE  LET r == parseData(ps, o, pm)
         IN  /\ ~r.fails
             /\ \E k \in 1..Len(r.ds) : /\ r.ds[k].kind = "PES"
                                        /\ r.ds[k].first = ps[1].at
<1> DEFINE p == ps[1]
           c == Datum(p, "Custom", {})
           pes == Datum(p, "PES", {})
           custom == [k \in 1..o.count |-> c]
           ds == custom \o <<pes>>
<1>1. ~o.fails /\ ~o.skip /\ o.count \in Nat
  BY ParserOutcomesAssumption DEF ParserPasses
<1>2. parseData(ps, o, pm) = Parsed(ds)
  BY <1>1 DEF parseData
<1>3. pes.kind = "PES" /\ pes.first = p.at
  BY DEF Datum
<1> HIDE DEF c, pes
<1>4. custom \in Seq({c, pes}) /\ <<pes>> \in Seq({c, pes}) /\ Len(custom) = o.count
  BY <1>1
<1> HIDE DEF custom
<1>5. Len(ds) = o.count + 1 /\ ds[o.count + 1] = pes
  BY <1>1, <1>4
<1> HIDE DEF ds
<1>6. parseData(ps, o, pm).ds = ds /\ ~parseData(ps, o, pm).fails
  BY <1>2 DEF Parsed
<1>7. o.count + 1 \in 1..Len(ds)
  BY <1>1, <1>5
<1> QED
  BY <1>3, <1>5, <1>6, <1>7

(* The history and the program map only grow. *)
Grows == /\ \E ds \in Seq(Data) : History' = History \o ds
         /\ programMap \subseteq programMap'

(* What is in the history stays there. *)
LEMMA GrowsKeeps ==
  ASSUME DataTypes, Grows, NEW i
  PROVE  /\ ReturnedPES(i) => (ReturnedPES(i))'
         /\ UNCHANGED tape /\ (Wanted(i))' => Wanted(i)
<1>1. PICK ds \in Seq(Data) : History' = History \o ds
  BY DEF Grows
<1>2. History \in Seq(Data)
  BY HistoryIsData
<1>3. ASSUME ReturnedPES(i) PROVE (ReturnedPES(i))'
  <2>1. PICK k \in 1..Len(History) : History[k].first = i /\ History[k].kind = "PES"
    BY <1>3 DEF ReturnedPES
  <2>2. k \in 1..Len(History') /\ History'[k] = History[k]
    BY <1>1, <1>2, ConcatElements
  <2> QED
    BY <2>1, <2>2 DEF ReturnedPES
<1>4. ASSUME UNCHANGED tape, (Wanted(i))' PROVE Wanted(i)
  BY <1>4 DEF Wanted, Grows, isPSIPayload
<1> QED
  BY <1>3, <1>4

(* A history that stays the same grows, in the weak sense. *)
LEMMA UnchangedGrows ==
  ASSUME DataTypes, History' = History, UNCHANGED programMap
  PROVE  Grows
<1>1. <<>> \in Seq(Data) /\ History \o <<>> = History
  BY HistoryIsData
<1> QED
  BY <1>1, ZenonT(60) DEF Grows

(* A unit's data only extend the history. *)
LEMMA TakesGrows ==
  ASSUME DemuxInv, DemuxInv', DataTypes, Adds \/ Dumps
  PROVE  Grows
<1>1. TakesUnit
  BY DEF Adds, Dumps
<1>2. CASE flushed' = <<>>
  BY <1>1, <1>2, UnchangedGrows DEF TakesUnit
<1>3. CASE flushed' # <<>>
  <2>1. \E pid, f : Takes(pid, f)
    BY <1>3, AddsFacts, DumpsFacts DEF AddsPacket
  <2>2. CASE History' = History /\ UNCHANGED programMap
    BY <2>2, UnchangedGrows
  <2>3. ASSUME NEW pid, NEW f, NEW ds, Appends(pid, f, ds) PROVE Grows
    BY <2>3 DEF Appends, Grows
  <2> QED
    BY <1>1, <1>3, <2>1, <2>2, <2>3, TakenAppends
<1> QED
  BY <1>2, <1>3

(* When the unit is taken out of the pool, the PES is in the history. *)
LEMMA UnitGivesPES ==
  ASSUME ParserPasses, DemuxInv, DataTypes, FromTape, TakesUnit,
         NEW i \in 1..pos, HoldsRun(i, pos), Wanted(i), tape[i].pid \in PIDs,
         RunTo(i, pos) = Run(i) \ {NextStart(i)}, Unbroken(i),
         flushed' = pool[tape[i].pid]
  PROVE  (ReturnedPES(i))'
<1> DEFINE ps == pool[tape[i].pid]
<1>1. /\ ps # <<>> /\ ps[1].at = i /\ Len(ps) = Cardinality(RunTo(i, pos))
      /\ ps \in Seq(PacketsAt(FreshPlaces))
  BY DEF HoldsRun, DemuxInv, FreshInv
<1>2. 1 \in 1..Len(ps) /\ Len(ps) \in Nat
  BY <1>1
<1>3. ps[1] = Tagged(tape[i], i)
  BY <1>1, <1>2 DEF FromTape
<1>4. tape[i] \in Shapes
  BY DEF DemuxInv, ReaderInv
<1>5. ~(Len(ps) < tape[i].body.needs)
  <2>1. tape[i].body.needs \in Nat
    BY <1>4, NeedsAssumption DEF Wanted
  <2>2. Len(ps) >= tape[i].body.needs
    BY <1>1 DEF Unbroken
  <2> HIDE DEF ps
  <2> QED
    BY <1>2, <2>1, <2>2
<1>6. /\ ps[1].body = tape[i].body /\ ps[1].pid = tape[i].pid /\ ps[1].at = i
  BY <1>3 DEF Tagged
<1>7. PICK o \in ParserOutcomes :
        LET r == parseData(flushed', o, programMap)
        IN  IF r.fails THEN History' = History /\ UNCHANGED programMap
            ELSE /\ History' = History \o r.ds
                 /\ programMap' = programMap \cup Announced(r.ds)
  BY <1>1, ZenonT(60) DEF TakesUnit
<1> HIDE DEF ps
<1> DEFINE r == parseData(ps, o, programMap)
           ds == r.ds
<1>8. /\ ~r.fails
      /\ \E k \in 1..Len(ds) : ds[k].kind = "PES" /\ ds[k].first = i
  BY <1>5, <1>6, ParsesPES DEF Wanted
<1>9. History' = History \o ds
  BY <1>7, <1>8, ZenonT(60) DEF ps
<1>10. ds \in Seq(Data)
  <2>1. FreshPlaces \in SUBSET Nat /\ PacketsAt(FreshPlaces) \in SUBSET Packets
    BY FreshArePackets DEF DemuxInv
  <2>2. UnitData(ps[1], programMap, ds)
    BY <1>1, <1>8, <2>1, ParseIsUnitData
  <2> QED
    BY <2>2 DEF UnitData
<1> HIDE DEF r, ds
<1>11. PICK k \in 1..Len(ds) : ds[k].kind = "PES" /\ ds[k].first = i
  BY <1>8
<1> DEFINE h == History
           m == Len(h) + k
<1>12. h \in Seq(Data)
  BY HistoryIsData
<1> HIDE DEF h
<1>13. /\ m \in 1..Len(h \o ds) /\ (h \o ds)[m] = ds[k]
  <2>1. /\ Len(h) \in Nat /\ Len(ds) \in Nat
        /\ Len(h \o ds) = Len(h) + Len(ds)
        /\ \A x \in (Len(h) + 1)..(Len(h) + Len(ds)) :
             x - Len(h) \in 1..Len(ds) /\ (h \o ds)[x] = ds[x - Len(h)]
    BY <1>10, <1>12, ConcatElements
  <2>2. m \in (Len(h) + 1)..(Len(h) + Len(ds)) /\ m - Len(h) = k
        /\ m \in 1..(Len(h) + Len(ds))
    BY <1>11, <2>1
  <2> HIDE DEF m
  <2> QED
    BY <2>1, <2>2
<1> HIDE DEF m
<1> QED
  BY <1>9, <1>11, <1>13 DEF ReturnedPES, h

-----------------------------------------------------------------------------
(* One more packet is read.                                                *)

(* What the next packet of the tape does to the part of a run read so far. *)
LEMMA RunGrows ==
  ASSUME tape \in Seq(Shapes), NEW i \in 1..Len(tape), NEW q \in Nat, i <= q,
         q < NextStart(i), q + 1 <= Len(tape)
  PROVE  /\ q + 1 \notin Run(i) =>
              q + 1 < NextStart(i) /\ RunTo(i, q + 1) = RunTo(i, q)
         /\ q + 1 \in Run(i) =>
              /\ q + 1 \in Later(i)
              /\ RunTo(i, q + 1) = RunTo(i, q) \cup {q + 1}
              /\ Cardinality(RunTo(i, q + 1)) = Cardinality(RunTo(i, q)) + 1
              /\ q + 1 = NextStart(i) => RunTo(i, q) = Run(i) \ {NextStart(i)}
<1>1. /\ Run(i) \subseteq i..Len(tape)
      /\ IsFiniteSet(RunTo(i, q))
      /\ Len(tape) \in Nat
      /\ \A j \in Run(i) : j \in Nat
  BY RunFacts
<1>2. /\ NextStart(i) \in Nat
      /\ NextStart(i) <= Len(tape) => NextStart(i) \in Later(i)
  BY NextStartFacts
<1>3. \A j \in Run(i) : j <= q + 1 <=> j <= q \/ j = q + 1
  BY <1>1
<1>4. ASSUME q + 1 \notin Run(i)
      PROVE  q + 1 < NextStart(i) /\ RunTo(i, q + 1) = RunTo(i, q)
  <2>1. q + 1 # NextStart(i)
    BY <1>2, <1>4 DEF Run
  <2>2. RunTo(i, q + 1) = RunTo(i, q)
    BY <1>3, <1>4 DEF RunTo
  <2> QED
    BY <1>2, <2>1, <2>2
<1>5. ASSUME q + 1 \in Run(i)
      PROVE  /\ q + 1 \in Later(i)
             /\ RunTo(i, q + 1) = RunTo(i, q) \cup {q + 1}
             /\ Cardinality(RunTo(i, q + 1)) = Cardinality(RunTo(i, q)) + 1
  <2>1. q + 1 \in Later(i)
    <3>1. q + 1 # i
      OBVIOUS
    <3> QED
      BY <1>5, <3>1 DEF Run
  <2>2. RunTo(i, q + 1) = RunTo(i, q) \cup {q + 1}
    <3>1. q + 1 <= q + 1
      OBVIOUS
    <3> HIDE DEF Run
    <3> QED
      BY <1>3, <1>5, <3>1, Zenon DEF RunTo
  <2>3. q + 1 \notin RunTo(i, q)
    BY DEF RunTo
  <2> QED
    BY <1>1, <2>1, <2>2, <2>3, FS_AddElement
<1>6. ASSUME q + 1 = NextStart(i)
      PROVE  RunTo(i, q) = Run(i) \ {NextStart(i)}
  <2>1. \A j \in Run(i) : j <= NextStart(i)
    BY <1>1, <1>2 DEF Run
  <2>2. \A j \in Run(i) : j <= q <=> j # NextStart(i)
    BY <1>1, <1>2, <1>6, <2>1
  <2> QED
    BY <2>2, Zenon DEF RunTo
<1> QED
  BY <1>4, <1>5, <1>6

(* A packet that is none of the unit leaves it as it is. *)
LEMMA HeldStays ==
  ASSUME DemuxInv, DemuxInv', UNCHANGED tape, NEW i \in 1..pos,
         pos < NextStart(i), HoldsRun(i, pos),
         \/ pos' = pos
         \/ pos' = pos + 1 /\ pos' \notin Run(i),
         pool'[tape[i].pid] = pool[tape[i].pid]
  PROVE  pos' < (NextStart(i))' /\ (HoldsRun(i, pos))'
<1>1. /\ tape \in Seq(Shapes) /\ i \in 1..Len(tape) /\ i <= pos
      /\ pos \in Nat /\ pos' <= Len(tape) /\ Len(tape) \in Nat
  BY DEF DemuxInv, ReaderInv
<1>2. (NextStart(i))' = NextStart(i) /\ (Run(i))' = Run(i)
  BY TapeFixed
<1>3. (RunTo(i, pos))' = RunTo(i, pos')
  BY <1>2 DEF RunTo
<1>4. pos' < NextStart(i) /\ RunTo(i, pos') = RunTo(i, pos)
  BY <1>1, RunGrows
<1> QED
  BY <1>2, <1>3, <1>4 DEF HoldsRun

(* The packet that starts a unit. *)
LEMMA StartHeld ==
  ASSUME DemuxInv, DemuxInv', UNCHANGED tape, NEW p, AddsPacket(p),
         Unbroken(pos')
  PROVE  pos' < NextStart(pos') /\ pool'[tape[pos'].pid] = <<p>>
         /\ p.at = pos' /\ RunTo(pos', pos') = {pos'}
<1> DEFINE i == pos'
<1>1. /\ p \in Packets /\ p.pid \in PIDs /\ p = Tagged(tape[i], i)
      /\ i \in 1..Len(tape)
      /\ pool'[p.pid] = AddStored(pool[p.pid], p)
  BY DEF AddsPacket
<1>2. p.hasPayload /\ ~p.tei /\ p.pusi /\ p.pid = tape[i].pid /\ p.at = i
  BY <1>1 DEF Unbroken, Carries, Tagged
<1>3. pool[p.pid] \in Seq(Packets)
  BY <1>1 DEF DemuxInv, PoolInv, PoolTypeOK
<1>4. pool'[p.pid] = <<p>>
  BY <1>1, <1>2, <1>3, AddPayload
<1>5. tape \in Seq(Shapes) /\ Len(tape) \in Nat
  BY DEF DemuxInv, ReaderInv
<1>6. i < NextStart(i)
  BY <1>1, <1>5, NextStartFacts
<1>7. RunTo(i, i) = {i}
  <2>1. Run(i) \subseteq i..Len(tape) /\ i \in RunTo(i, i) /\ i \in Nat
    BY <1>1, <1>5, RunFacts
  <2>2. \A j \in Run(i) : j <= i => j = i
    BY <2>1
  <2> QED
    BY <2>1, <2>2 DEF RunTo
<1> QED
  BY <1>2, <1>4, <1>6, <1>7

(* A packet that continues the unit: it is held with the others. *)
LEMMA HeldExtends ==
  ASSUME DemuxInv, DemuxInv', UNCHANGED tape, NEW i \in 1..pos,
         pos < NextStart(i), HoldsRun(i, pos), tape[i].pid \in PIDs,
         pos' = pos + 1, pos' \in Run(i), pos' # NextStart(i),
         NEW p \in Packets, p.at = pos',
         pool'[tape[i].pid] = Append(pool[tape[i].pid], p)
  PROVE  pos' < (NextStart(i))' /\ (HoldsRun(i, pos))'
<1> DEFINE ps == pool[tape[i].pid]
           qs == pool'[tape[i].pid]
<1>1. /\ tape \in Seq(Shapes) /\ i \in 1..Len(tape) /\ i <= pos
      /\ pos \in Nat /\ pos' <= Len(tape) /\ Len(tape) \in Nat
  BY DEF DemuxInv, ReaderInv
<1>2. (NextStart(i))' = NextStart(i) /\ (Run(i))' = Run(i)
  BY TapeFixed
<1>3. (RunTo(i, pos))' = RunTo(i, pos')
  BY <1>2 DEF RunTo
<1>4. /\ RunTo(i, pos') = RunTo(i, pos) \cup {pos'}
      /\ Cardinality(RunTo(i, pos')) = Cardinality(RunTo(i, pos)) + 1
  BY <1>1, RunGrows, SMTT(60)
<1>5. NextStart(i) \in Nat
  BY <1>1, NextStartFacts
<1>6. /\ ps # <<>> /\ ps \in Seq(Packets) /\ ps[1].at = i
      /\ Len(ps) = Cardinality(RunTo(i, pos))
  BY DEF HoldsRun, DemuxInv, PoolInv, PoolTypeOK
<1>7. /\ Len(qs) = Len(ps) + 1 /\ Len(ps) \in Nat
      /\ qs[Len(ps) + 1] = p
      /\ qs[1] = ps[1]
      /\ qs # <<>>
  <2> HIDE DEF ps
  <2> QED
    BY <1>6, SMTT(60) DEF ps
<1>8. \A j \in RunTo(i, pos') : j <= pos'
  BY DEF RunTo
<1>9. LastOf(qs).at = pos'
  BY <1>7 DEF LastOf
<1> HIDE DEF qs, ps
<1>10. /\ qs # <<>> /\ qs[1].at = i
       /\ Len(qs) = Cardinality(RunTo(i, pos'))
       /\ LastOf(qs).at \in RunTo(i, pos')
       /\ \A j \in RunTo(i, pos') : j <= LastOf(qs).at
  BY <1>4, <1>6, <1>7, <1>8, <1>9
<1>11. (HoldsRun(i, pos))'
  BY <1>3, <1>10, ZenonT(60) DEF HoldsRun, qs
<1>12. pos' < NextStart(i)
  BY <1>1, <1>5, SMTT(60)
<1> QED
  BY <1>2, <1>11, <1>12, ZenonT(60)

(* Before the packet buffer exists nothing counts as read by NextData. *)
LEMMA NilUnseen ==
  ASSUME ReaderInv, CompleteInv, buffer = "nil"
  PROVE  1..StartPos \subseteq Unseen
<1>1. pos \in 0..Len(tape) /\ Len(tape) \in Nat /\ unseen = 1..pos
  BY DEF ReaderInv, CompleteInv
<1>2. StartPos \in Nat /\ (StartPos < pos => StartPos = 0)
  BY <1>1 DEF StartPos
<1>3. CASE StartPos < pos
  BY <1>2, <1>3
<1>4. CASE ~(StartPos < pos)
  <2>1. \A x \in 1..StartPos : x \in 1..pos \/ x \in (pos + 1)..StartPos
    BY <1>1, <1>2, <1>4
  <2> QED
    BY <1>1, <1>4, <2>1 DEF Unseen
<1> QED
  BY <1>3, <1>4

(* What has arrived after a step had arrived before it. *)
LEMMA ArrivedBefore ==
  ASSUME DemuxInv, DemuxInv', DataTypes, Grows, UNCHANGED tape,
         unseen \subseteq unseen', pos <= pos', NEW i \in 1..pos, (Arrived(i))'
  PROVE  Arrived(i)
<1>1. pos \in Nat /\ pos' \in Nat /\ tape \in Seq(Shapes) /\ i \in 1..Len(tape)
  BY DEF DemuxInv, ReaderInv
<1>2. Unbroken(i) /\ (Run(i))' = Run(i)
  BY TapeFixed DEF Arrived
<1>3. RunTo(i, pos) \subseteq (RunTo(i, pos))'
  <2>1. \A j \in Run(i) : j \in Nat
    BY <1>1, RunFacts
  <2> QED
    BY <1>1, <1>2, <2>1 DEF RunTo
<1>4. RunTo(i, pos) \cap unseen = {}
  BY <1>3 DEF Arrived
<1> QED
  BY <1>2, <1>4, GrowsKeeps DEF Arrived

(* A place that has just been read arrived only if it is not unseen. *)
LEMMA ArrivedIsSeen ==
  ASSUME DemuxInv', UNCHANGED tape, NEW i \in 1..pos', (Arrived(i))'
  PROVE  /\ i \notin unseen'
         /\ ~tape[i].malformed
         /\ (Run(i))' = Run(i)
         /\ pos' \in Run(i) => pos' \notin unseen'
<1>1. Unbroken(i) /\ (Run(i))' = Run(i)
  BY TapeFixed DEF Arrived
<1>2. pos' \in Nat /\ i \in Run(i)
  BY DEF DemuxInv, ReaderInv, Run
<1>3. (RunTo(i, pos))' = {j \in Run(i) : j <= pos'}
  BY <1>1 DEF RunTo
<1>4. i \in (RunTo(i, pos))' /\ (pos' \in Run(i) => pos' \in (RunTo(i, pos))')
  BY <1>2, <1>3
<1> QED
  BY <1>1, <1>4 DEF Arrived, Unbroken, Carries

-----------------------------------------------------------------------------
(* Every step.                                                             *)

(* A packet that does not reach the pool leaves every arrived PES served. *)
LEMMA SkipsServed ==
  ASSUME DemuxInv, DemuxInv', DataTypes, CompleteInv, Skips,
         NEW i \in 1..pos', (Arrived(i))'
  PROVE  (Served(i))'
<1>1. /\ UNCHANGED <<pool, tape, programMap>>
      /\ History' = History
      /\ Unseen \subseteq unseen'
      /\ \/ pos' = StartPos
         \/ pos' = StartPos + 1 /\ (pos' \in unseen' \/ tape[pos'].malformed)
  BY DEF Skips
<1>2. Grows
  BY <1>1, UnchangedGrows
<1>3. /\ i \notin unseen' /\ ~tape[i].malformed
      /\ pos' \in Run(i) => pos' \notin unseen'
  BY <1>1, ArrivedIsSeen
<1>4. /\ StartPos \in Nat /\ pos \in Nat /\ pos' \in Nat
      /\ buffer # "nil" => StartPos = pos /\ Unseen = unseen
  BY ReadFacts DEF DemuxInv, ReaderInv
<1>5. i \in 1..StartPos
  BY <1>1, <1>3, <1>4
<1>6. CASE buffer = "nil"
  BY <1>1, <1>3, <1>5, <1>6, NilUnseen DEF DemuxInv
<1>7. CASE buffer # "nil"
  <2>1. i \in 1..pos /\ pos <= pos' /\ unseen \subseteq unseen'
    BY <1>1, <1>4, <1>5, <1>7
  <2>2. Served(i)
    BY <1>1, <1>2, <2>1, ArrivedBefore DEF CompleteInv
  <2>3. CASE ReturnedPES(i)
    BY <1>2, <2>3, GrowsKeeps DEF Served
  <2>4. CASE pos < NextStart(i) /\ HoldsRun(i, pos)
    <3>1. pos' = pos + 1 => pos' \notin Run(i)
      <4>1. \A j \in Run(i) : j = i \/ ~tape[j].malformed
        BY DEF Run, Later, Carries
      <4> QED
        BY <1>1, <1>3, <1>4, <1>7, <2>1, <4>1
    <3>2. pos' = pos \/ (pos' = pos + 1 /\ pos' \notin Run(i))
      BY <1>1, <1>4, <1>7, <3>1
    <3> QED
      BY <1>1, <2>1, <2>4, <3>2, HeldStays DEF Served
  <2> QED
    BY <2>2, <2>3, <2>4 DEF Served
<1> QED
  BY <1>6, <1>7

(* So does a packet that is added to the pool. *)
LEMMA AddsServed ==
  ASSUME ParserPasses, DemuxInv, DemuxInv', DataTypes, CompleteInv, Adds,
         NEW i \in 1..pos', (Arrived(i))'
  PROVE  (Served(i))'
<1> DEFINE p == PacketRead
<1>1. AddsPacket(p) /\ Grows
  BY AddsFacts, TakesGrows
<1>2. /\ UNCHANGED tape /\ TakesUnit /\ unseen' = Unseen /\ pos' = StartPos + 1
      /\ ~tape[pos'].malformed
  BY DEF Adds, ReadsPacket
<1> HIDE DEF p
<1>3. i \notin unseen' /\ (Run(i))' = Run(i)
  BY <1>2, ArrivedIsSeen
<1>4. Unbroken(i) /\ (NextStart(i))' = NextStart(i)
  BY <1>2, TapeFixed DEF Arrived
<1>5. /\ p \in Packets /\ p.pid \in PIDs /\ p.at = pos'
      /\ p = Tagged(tape[pos'], pos') /\ pos' \in 1..Len(tape)
      /\ buffer # "nil" => pos' = pos + 1 /\ unseen' = unseen
      /\ \A pid \in PIDs : pid # p.pid => pool'[pid] = pool[pid]
      /\ pool'[p.pid] = AddStored(pool[p.pid], p)
      /\ flushed' = AddFlushed(pool[p.pid], p)
  BY <1>1 DEF AddsPacket
<1>6. pos \in Nat /\ pos' \in Nat /\ StartPos \in Nat
  BY ReadFacts DEF DemuxInv, ReaderInv
<1>7. CASE i = pos'
  <2>1. /\ i < NextStart(i) /\ pool'[tape[i].pid] = <<p>>
        /\ p.at = i /\ RunTo(i, i) = {i}
    BY <1>1, <1>2, <1>4, <1>7, StartHeld
  <2>2. (RunTo(i, pos))' = {i}
    BY <1>3, <1>7, <2>1 DEF RunTo
  <2>3. Cardinality({i}) = 1
    BY FS_Singleton
  <2>4. /\ <<p>> # <<>> /\ <<p>>[1] = p /\ Len(<<p>>) = 1
    OBVIOUS
  <2>5. i <= i
    BY <1>6, <1>7
  <2>6. (HoldsRun(i, pos))'
    BY <1>2, <2>1, <2>2, <2>3, <2>4, <2>5 DEF HoldsRun, LastOf
  <2> QED
    BY <1>4, <1>7, <2>1, <2>6 DEF Served
<1>8. CASE i # pos' /\ buffer = "nil"
  <2>1. i \in 1..StartPos
    BY <1>2, <1>6, <1>8
  <2> QED
    BY <1>2, <1>3, <1>8, <2>1, NilUnseen DEF DemuxInv
<1>9. CASE i # pos' /\ buffer # "nil"
  <2>1. pos' = pos + 1 /\ unseen' = unseen /\ i \in 1..pos /\ pos <= pos'
    BY <1>5, <1>6, <1>9
  <2>2. Arrived(i) /\ Served(i) /\ FromTape /\ Wanted(i)
    BY <1>1, <1>2, <2>1, ArrivedBefore DEF CompleteInv, Arrived
  <2>3. CASE ReturnedPES(i)
    BY <1>1, <2>3, GrowsKeeps DEF Served
  <2>4. CASE pos < NextStart(i) /\ HoldsRun(i, pos)
    <3> DEFINE pid == tape[i].pid
               ps == pool[pid]
    <3>1. /\ tape \in Seq(Shapes) /\ i \in 1..Len(tape) /\ Len(tape) \in Nat
          /\ i <= pos /\ pos + 1 <= Len(tape)
      BY <1>5, <2>1 DEF DemuxInv, ReaderInv
    <3>2. /\ p.pid = tape[pos'].pid /\ p.tei = tape[pos'].tei
          /\ p.hasPayload = tape[pos'].hasPayload /\ p.pusi = tape[pos'].pusi
          /\ p.disc = tape[pos'].disc /\ p.cc = tape[pos'].cc
      <4>1. p = Tagged(tape[pos'], pos')
        BY <1>5, ZenonT(60)
      <4> QED
        BY <4>1 DEF Tagged
    <3>3. pid \in PIDs /\ ps \in Seq(Packets) /\ ps # <<>>
      <4>1. tape[i] \in Shapes /\ i \in 1..MaxTape
        BY <3>1, BoundsAssumption DEF DemuxInv, ReaderInv
      <4>2. Tagged(tape[i], i) \in Packets
        BY <4>1, TapePacketsAssumption DEF TapePackets
      <4>3. Tagged(tape[i], i).pid = pid
        BY DEF Tagged
      <4>4. pid \in PIDs
        BY <4>2, <4>3, PacketsAssumption
      <4> QED
        BY <2>4, <4>4 DEF HoldsRun, DemuxInv, PoolInv, PoolTypeOK
    <3>4. CASE pos' \notin Run(i)
      <4>1. pos' < NextStart(i)
        BY <1>6, <2>1, <2>4, <3>1, <3>4, RunGrows
      <4>2. ~Carries(pos', pid)
        <5>1. pos' \in (i + 1)..Len(tape) /\ pos' <= NextStart(i)
          <6>1. NextStart(i) \in Nat
            BY <3>1, NextStartFacts
          <6> QED
            BY <1>6, <2>1, <3>1, <4>1, <6>1
        <5> QED
          BY <3>4, <5>1 DEF Run, Later
      <4>3. CASE p.pid # pid
        BY <1>2, <1>5, <2>1, <2>4, <3>3, <3>4, <4>3, HeldStays DEF Served
      <4>4. CASE p.pid = pid
        <5>1. pos' \in i..Len(tape)
          BY <1>5, <2>1, <3>1
        <5>2. tape[pos'].tei
          BY <1>2, <1>4, <3>2, <4>1, <4>2, <4>4, <5>1, ZenonT(60) DEF Unbroken, Carries
        <5>3. pool'[pid] = pool[pid]
          BY <1>5, <3>2, <4>4, <5>2, ZenonT(60) DEF AddStored, ThrownAway
        <5> QED
          BY <1>2, <2>1, <2>4, <3>4, <5>3, HeldStays DEF Served
      <4> QED
        BY <4>3, <4>4
    <3>5. CASE pos' \in Run(i)
      <4>1. pos' \in Later(i) /\ Carries(pos', pid)
        BY <1>6, <2>1, <2>4, <3>1, <3>5, RunGrows DEF Later
      <4>2. p.hasPayload /\ ~p.tei /\ p.pid = pid
        BY <3>2, <4>1 DEF Carries
      <4>3. ~p.disc /\ p.cc = NextCC(LastOf(ps).cc)
        BY <1>4, <2>1, <2>2, <2>4, <3>2, <3>3, <3>5, NextContinues
      <4>4. IF p.pusi THEN AddFlushed(ps, p) = ps
            ELSE AddStored(ps, p) = Append(ps, p)
        BY <1>5, <3>3, <4>2, <4>3, AddPayload, ZenonT(60)
      <4>5. CASE p.pusi
        <5>1. NextStart(i) = pos'
          <6>1. /\ NextStart(i) \in Nat
                /\ \A j \in Later(i) : tape[j].pusi => NextStart(i) <= j
            BY <3>1, NextStartFacts
          <6>2. NextStart(i) <= pos'
            BY <3>2, <4>1, <4>5, <6>1, Zenon
          <6> QED
            BY <1>6, <2>1, <2>4, <6>1, <6>2
        <5>2. RunTo(i, pos) = Run(i) \ {NextStart(i)}
          BY <1>6, <2>1, <2>4, <3>1, <3>5, <5>1, RunGrows
        <5>3. flushed' = pool[tape[i].pid]
          BY <1>5, <4>2, <4>4, <4>5
        <5> QED
          BY <1>2, <1>4, <2>1, <2>2, <2>4, <3>3, <5>2, <5>3, UnitGivesPES,
              ZenonT(60) DEF Served
      <4>6. CASE ~p.pusi
        <5>1. pos' # NextStart(i)
          BY <1>5, <3>1, <3>2, <4>6, NextStartFacts
        <5>2. pool'[tape[i].pid] = Append(pool[tape[i].pid], p)
          BY <1>5, <4>2, <4>4, <4>6, ZenonT(60)
        <5> QED
          BY <1>2, <1>5, <2>1, <2>4, <3>3, <3>5, <5>1, <5>2, HeldExtends,
              ZenonT(60) DEF Served
      <4> QED
        BY <4>5, <4>6
    <3> QED
      BY <3>4, <3>5
  <2> QED
    BY <2>2, <2>3, <2>4 DEF Served
<1> QED
  BY <1>7, <1>8, <1>9

(* So does a unit that is dumped at the end of the tape. *)
LEMMA DumpsServed ==
  ASSUME ParserPasses, DemuxInv, DemuxInv', DataTypes, CompleteInv, Dumps,
         NEW i \in 1..pos', (Arrived(i))'
  PROVE  (Served(i))'
<1>1. /\ UNCHANGED <<tape, pos, buffer, unseen>> /\ TakesUnit
      /\ pos = Len(tape) /\ Grows
  BY TakesGrows DEF Dumps
<1>2. pos \in Nat /\ tape \in Seq(Shapes) /\ i \in 1..pos /\ i \in 1..Len(tape)
  BY <1>1 DEF DemuxInv, ReaderInv
<1>3. Arrived(i) /\ Served(i) /\ FromTape /\ Wanted(i) /\ Unbroken(i)
  BY <1>1, <1>2, ArrivedBefore DEF CompleteInv, Arrived
<1>4. CASE ReturnedPES(i)
  BY <1>1, <1>4, GrowsKeeps DEF Served
<1>5. CASE pos < NextStart(i) /\ HoldsRun(i, pos)
  <2>1. CASE pool'[tape[i].pid] = pool[tape[i].pid]
    BY <1>1, <1>2, <1>5, <2>1, HeldStays DEF Served
  <2>2. CASE pool'[tape[i].pid] # pool[tape[i].pid]
    <3>1. /\ Takes(flushed'[1].pid, flushed'[1].at)
          /\ pool' = [pool EXCEPT ![flushed'[1].pid] = <<>>]
      BY <2>2, DumpsFacts
    <3>2. flushed' = pool[flushed'[1].pid] /\ flushed'[1].pid \in PIDs
      BY <3>1 DEF Takes
    <3>3. flushed'[1].pid = tape[i].pid
      <4>1. tape[i] \in Shapes /\ i \in 1..MaxTape
        BY <1>1, <1>2, BoundsAssumption DEF DemuxInv, ReaderInv
      <4>2. Tagged(tape[i], i) \in Packets /\ Tagged(tape[i], i).pid = tape[i].pid
        BY <4>1, TapePacketsAssumption DEF TapePackets, Tagged
      <4>3. tape[i].pid \in PIDs
        BY <4>2, PacketsAssumption
      <4> QED
        BY <2>2, <3>1, <4>3 DEF DemuxInv, PoolInv, PoolTypeOK
    <3>4. RunTo(i, pos) = Run(i) \ {NextStart(i)}
      <4>1. \A j \in Run(i) : j <= pos /\ j # NextStart(i)
        <5>1. Run(i) \subseteq i..Len(tape)
          BY <1>2, RunFacts
        <5>2. NextStart(i) \in Nat
          BY <1>2, NextStartFacts
        <5> QED
          BY <1>1, <1>2, <1>5, <5>1, <5>2
      <4> QED
        BY <4>1 DEF RunTo
    <3> QED
      BY <1>1, <1>2, <1>3, <1>5, <3>2, <3>3, <3>4, UnitGivesPES DEF Served
  <2> QED
    BY <2>1, <2>2
<1> QED
  BY <1>3, <1>4, <1>5 DEF Served

(* What the pool holds stays the tape's. *)
LEMMA FromTapeStep ==
  ASSUME DemuxInv, DemuxInv', FromTape,
         Idles \/ Skips \/ Adds \/ Dumps \/ Restarts
  PROVE  FromTape'
<1>1. UNCHANGED tape
  BY DEF Idles, Skips, Adds, Dumps, Restarts
<1>2. CASE Idles \/ Skips
  BY <1>2 DEF Idles, Skips, FromTape
<1>3. CASE Adds
  <2> DEFINE p == PacketRead
  <2>1. AddsPacket(p)
    BY <1>3, AddsFacts
  <2> HIDE DEF p
  <2>2. ASSUME NEW pid \in PIDs, NEW m \in 1..Len(pool'[pid])
        PROVE  pool'[pid][m] = Tagged(tape[pool'[pid][m].at], pool'[pid][m].at)
    <3>1. CASE pool'[pid][m] = p
      BY <2>1, <3>1 DEF AddsPacket
    <3>2. CASE m \in 1..Len(pool[pid]) /\ pool'[pid][m] = pool[pid][m]
      BY <3>2 DEF FromTape
    <3> QED
      BY <2>1, <3>1, <3>2, ZenonT(60) DEF AddsPacket
  <2> QED
    BY <1>1, <2>2 DEF FromTape
<1>4. CASE Dumps
  <2>1. \A pid \in PIDs : pool'[pid] = pool[pid] \/ pool'[pid] = <<>>
    BY <1>4, DumpsFacts DEF DemuxInv, PoolInv, PoolTypeOK
  <2> QED
    BY <1>1, <2>1 DEF FromTape
<1>5. CASE Restarts
  BY <1>5 DEF Restarts, FromTape
<1> QED
  BY <1>2, <1>3, <1>4, <1>5

(* Every step keeps the invariant, a Rewind since it forgets what has arrived. *)
LEMMA CompleteStep ==
  ASSUME ParserPasses, DemuxInv, DemuxInv', DataTypes, CompleteInv,
         Idles \/ Skips \/ Adds \/ Dumps \/ Restarts
  PROVE  CompleteInv'
<1>1. FromTape'
  BY FromTapeStep DEF CompleteInv
<1>2. (buffer = "nil" => unseen = 1..pos)'
  BY ReadFacts DEF Idles, Skips, Adds, Dumps, Restarts, CompleteInv, DemuxInv
<1>3. ASSUME NEW i \in 1..pos', (Arrived(i))' PROVE (Served(i))'
  <2>1. CASE Idles
    <3>1. /\ UNCHANGED <<pool, tape, pos, unseen, programMap>>
          /\ History' = History
      BY <2>1 DEF Idles
    <3>2. Grows /\ i \in 1..pos /\ pos <= pos' /\ unseen \subseteq unseen'
      BY <3>1, UnchangedGrows DEF DemuxInv, ReaderInv
    <3>3. Served(i)
      BY <1>3, <3>1, <3>2, ArrivedBefore DEF CompleteInv
    <3>4. (NextStart(i))' = NextStart(i) /\ (Run(i))' = Run(i)
      BY <3>1, TapeFixed
    <3> QED
      BY <3>1, <3>3, <3>4, ZenonT(60) DEF Served, ReturnedPES, HoldsRun, RunTo
  <2>2. CASE Skips
    BY <1>3, <2>2, SkipsServed
  <2>3. CASE Adds
    BY <1>3, <2>3, AddsServed
  <2>4. CASE Dumps
    BY <1>3, <2>4, DumpsServed
  <2>5. CASE Restarts
    BY <1>3, <2>5, ArrivedIsSeen DEF Restarts
  <2> QED
    BY <2>1, <2>2, <2>3, <2>4, <2>5
<1> QED
  BY <1>1, <1>2, <1>3 DEF CompleteInv

(* When NextData reports the end of the stream, every PES that reached it  *)
(* whole on a PID that is no PSI PID has been returned, the ones still in  *)
(* the pool at the end included, provided no custom parser takes the units *)
(* over (packet_pool.go add and dump, data.go parseData, demuxer.go        *)
(* NextData).                                                              *)
THEOREM PESAlwaysComplete ==
  ASSUME ParserPasses
  PROVE  DemuxSpec => []PESComplete
<1>1. DemuxInit => CompleteInv
  <2> SUFFICES ASSUME DemuxInit PROVE CompleteInv
    OBVIOUS
  <2>1. /\ pool = [pid \in PIDs |-> <<>>] /\ pos = 0 /\ unseen = {}
        /\ 1..0 = {} /\ Len(<<>>) = 0
    BY HistoryInit
  <2> QED
    BY <2>1 DEF CompleteInv, FromTape
<1>2. /\ DemuxInv /\ DataTypes /\ CompleteInv /\ DemuxInv'
      /\ [DemuxNext]_demuxVars
      => CompleteInv'
  BY HistorySteps, CompleteStep
<1>3. DemuxInv /\ DataTypes /\ CompleteInv => PESComplete
  <2> SUFFICES ASSUME DemuxInv, DataTypes, CompleteInv,
                      ret.call = "end", ret.err = "noMorePackets",
                      NEW i \in DOMAIN tape, ArrivesWhole(i),
                      tape[i].body.kind = "pes", tape[i].pid # PIDCAT,
                      ~isPSIPayload(tape[i].pid, programMap)
               PROVE  \E k \in DOMAIN delivered :
                        delivered[k].first = i /\ delivered[k].kind = "PES"
    BY DEF PESComplete
  <2>1. i \in 1..pos /\ i \in 1..Len(tape) /\ tape \in Seq(Shapes)
    BY DEF DemuxInv, LoopInv, ReaderInv
  <2>2. Arrived(i)
    BY DEF Arrived, ArrivesWhole, Wanted, RunTo
  <2>3. Occupied = {} /\ dataBuffer = <<>>
    BY DEF DemuxInv, EndIsFinal
  <2>4. ~HoldsRun(i, pos)
    <3>1. tape[i] \in Shapes /\ i \in 1..MaxTape
      BY <2>1, BoundsAssumption DEF DemuxInv, ReaderInv
    <3>2. Tagged(tape[i], i) \in Packets
      BY <3>1, TapePacketsAssumption DEF TapePackets
    <3>3. Tagged(tape[i], i).pid = tape[i].pid
      BY ZenonT(60) DEF Tagged
    <3>4. tape[i].pid \in PIDs
      BY <3>2, <3>3, PacketsAssumption
    <3>5. pool[tape[i].pid] = <<>>
      BY <2>3, <3>4, ZenonT(60) DEF Occupied
    <3> QED
      BY <3>5, ZenonT(60) DEF HoldsRun
  <2>5. ReturnedPES(i)
    BY <2>1, <2>2, <2>4 DEF CompleteInv, Served
  <2>6. History = delivered /\ DOMAIN delivered = 1..Len(delivered)
    BY <2>3 DEF DataTypes, History
  <2> QED
    BY <2>5, <2>6 DEF ReturnedPES
<1> QED
  BY <1>1, <1>2, <1>3, HistoryInvariant, PTL DEF DemuxSpec

=============================================================================
