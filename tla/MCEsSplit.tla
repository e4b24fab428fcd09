----------------------------- MODULE MCEsSplit -----------------------------
(* EsSplit for TLC: one program with its PMT on PID 32, a stream below and *)
(* one above that PID, and a PMT that gains a stream.                      *)
EXTENDS EsSplit

Shape(pid, cc, body) ==
  [pid |-> pid, cc |-> cc, tei |-> FALSE, hasPayload |-> TRUE, pusi |-> TRUE,
   disc |-> FALSE, malformed |-> FALSE, body |-> body]

Section(t, ps) == [table |-> t, needs |-> 1, valid |-> TRUE, programs |-> ps]

PAT(cc, ps) == Shape(0, cc, [kind |-> "psi", needs |-> 1,
                             sections |-> <<Section("PAT", ps)>>])
PMT(cc, streams) == Shape(32, cc, [kind |-> "psi", needs |-> 1,
                                   sections |-> <<Section("PMT", {})>>,
                                   pmt |-> [number |-> 1, streams |-> streams]])
PES(pid, cc, bare) == Shape(pid, cc, [kind |-> "pes", needs |-> 1,
                                      sections |-> <<>>, bare |-> bare])
TDT == Shape(20, 0, [kind |-> "psi", needs |-> 1,
                     sections |-> <<Section("None", {})>>])

Program1 == {[number |-> 1, map |-> 32]}
NITOn16 == {[number |-> 0, map |-> 16]}

MCPIDs == {0, 20, 22, 32, 33}

OddShapes == {PAT(1, Program1 \cup NITOn16), PES(33, 1, TRUE), TDT}

MCShapes ==
  {PAT(0, Program1), PAT(1, Program1), PMT(0, {33}), PMT(1, {22, 33}),
   PES(22, 0, FALSE), PES(33, 0, FALSE)} \cup OddShapes

(* Bound: one odd packet in a tape, and none in the longest; the tape is   *)
(* the same in all of a behaviour.                                         *)
OneOdd ==
  LET odd == {i \in DOMAIN tape : tape[i] \in OddShapes}
  IN  odd = {} \/ (Cardinality(odd) = 1 /\ Len(tape) < MaxTape)

MCReaders == {[kind |-> "bufio", sized |-> FALSE]}

MCParserOutcomes == {NoParser}
=============================================================================
