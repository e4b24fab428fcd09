-------------------------- MODULE WrappingCounter --------------------------
(***************************************************************************)
(* wrapping_counter.go: the counter that numbers the packets of an         *)
(* elementary stream and the versions of a table.                          *)
(***************************************************************************)
EXTENDS Integers

CONSTANT CCMod   \* number of continuity counter values, 16 in the code

ASSUME CCModAssumption == CCMod \in Nat \ {0, 1}

(* wrappingCounter.get on a counter of n values: the value after it. *)
Wrapped_late(c, n) == IF c + 1 > n THEN 0 ELSE c + 1

Wrapped_early(c, n) == IF c + 1 > n - 2 THEN 0 ELSE c + 1

Wrapped(c, n) == IF c + 1 > n - 1 THEN 0 ELSE c + 1

=============================================================================
