----------------------------- MODULE MCDemuxer -----------------------------
(* Demuxer for TLC: a PAT PID, a reserved PID, a PID the PAT may announce  *)
(* as a program's and one it does not, and a few packets for each.         *)
EXTENDS Demuxer

Shape(pid, cc, pusi, body) ==
  [pid |-> pid, cc |-> cc, tei |-> FALSE, hasPayload |-> TRUE, pusi |-> pusi,
   disc |-> FALSE, malformed |-> FALSE, body |-> body]

PSI(ss) == [kind |-> "psi", sections |-> ss, needs |-> 1]
PES(n) == [kind |-> "pes", sections |-> <<>>, needs |-> n]
Other == [kind |-> "other", sections |-> <<>>, needs |-> 1]
Section(t, n, ps) == [table |-> t, needs |-> n, valid |-> TRUE, programs |-> ps]

Announces32 == {[number |-> 1, map |-> 32]}
NITOn33 == {[number |-> 0, map |-> 33]}

PATUnit == Shape(0, 0, TRUE, PSI(<<Section("PAT", 1, Announces32 \cup NITOn33)>>))
PMTUnit == Shape(32, 0, TRUE, PSI(<<Section("PMT", 1, {}), Section("PMT", 1, {}),
                                    Section("Stop", 1, {})>>))
PESStart(cc) == Shape(33, cc, TRUE, PES(1))
LongPES == Shape(33, 0, TRUE, PES(2))
Rest(cc) == Shape(33, cc, FALSE, Other)
TDTUnit == Shape(20, 0, TRUE, PSI(<<Section("None", 1, {})>>))

MCPIDs == {0, 1, 20, 32, 33, 34}

MCShapes ==
  {PATUnit, PMTUnit, PESStart(1), LongPES, Rest(1)}

(* A table without data, and a PES that is too short, may be the last unit *)
(* dumped.                                                                 *)
EndShapes == {PATUnit, PESStart(0), LongPES, TDTUnit, Shape(34, 0, TRUE, PES(2))}

(* Bytes of the wrong kind for their PID, damaged and empty packets. *)
OddShapes ==
  {PATUnit, Shape(32, 1, TRUE, PES(1)), PESStart(0), PESStart(1),
   [Rest(1) EXCEPT !.malformed = TRUE], [Rest(1) EXCEPT !.tei = TRUE],
   [Rest(0) EXCEPT !.hasPayload = FALSE], [PESStart(1) EXCEPT !.disc = TRUE],
   Shape(1, 0, TRUE, Other)}

MCParserOutcomes ==
  {NoParser, [NoParser EXCEPT !.fails = TRUE],
   [NoParser EXCEPT !.skip = TRUE, !.count = 2], [NoParser EXCEPT !.count = 1]}

Detecting(kind) == [kind |-> kind, sized |-> FALSE]
AllReaders == {Detecting("seeker"), Detecting("plain"), [kind |-> "bufio", sized |-> TRUE]}
PlainSized == {[kind |-> "plain", sized |-> TRUE]}

MCNoParser == {NoParser}
=============================================================================
