---------------------------- MODULE UnitDelivery ----------------------------
(***************************************************************************)
(* What the reassembly of payload units promises, without packets: units   *)
(* are numbered per PID in the order they are sent, a unit is closed when  *)
(* the next one starts, and a unit is handed over at the moment it is      *)
(* closed, whole, or never.                                                *)
(***************************************************************************)
EXTENDS Naturals, Sequences

CONSTANT PIDs

VARIABLES closed,  \* per PID, how many units have been sent to their end
          got      \* per PID, the numbers of the units handed over

vars == <<closed, got>>

Init == /\ closed = [pid \in PIDs |-> 0]
        /\ got = [pid \in PIDs |-> <<>>]

Close(pid) == closed' = [closed EXCEPT ![pid] = @ + 1]

Lose(pid) == Close(pid) /\ UNCHANGED got

HandOver(pid) == /\ Close(pid)
                 /\ got' = [got EXCEPT ![pid] = Append(@, closed[pid] + 1)]

Next == \E pid \in PIDs : Lose(pid) \/ HandOver(pid)

Spec == Init /\ [][Next]_vars
=============================================================================
