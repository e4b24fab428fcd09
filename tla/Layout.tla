------------------------------- MODULE Layout -------------------------------
(* The layout of a structure on the wire: the sequence of its parts, each  *)
(* with a name and a size in bytes.  What a part holds is not modelled.    *)
EXTENDS Integers, Sequences, SequencesExt

Part(name, size) == [name |-> name, size |-> size]

Optional(present, name, size) == IF present THEN <<Part(name, size)>> ELSE <<>>

Bytes(present, size) == IF present THEN size ELSE 0

(* The bytes before part k, and the bytes of all parts. *)
StartOf(layout, k) ==
  LET before[j \in Nat] == IF j <= 1 THEN 0 ELSE before[j - 1] + layout[j - 1].size
  IN  before[k]

Size(layout) == StartOf(layout, Len(layout) + 1)

(* The parts with the bytes they start at. *)
Placed(layout) == [k \in DOMAIN layout |-> [at |-> StartOf(layout, k), part |-> layout[k]]]

=============================================================================
