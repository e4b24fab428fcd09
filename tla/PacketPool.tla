----------------------------- MODULE PacketPool -----------------------------
(***************************************************************************)
(* packet_pool.go: the buffers that collect, per PID, the packets of the   *)
(* payload unit being received.                                            *)
(*                                                                         *)
(* pool[pid] is b.b[pid].  A key that is absent and a key that holds an    *)
(* empty slice behave alike in add and in dump, so both are <<>>.          *)
(* flushed is the slice the last call of add or dump returned.             *)
(*                                                                         *)
(* A packet is a record with at least the fields of PacketsAssumption;     *)
(* disc stands for HasAdaptationField && DiscontinuityIndicator.  What a   *)
(* packet carries is left to the modules that extend this one.             *)
(***************************************************************************)
EXTENDS Integers, Sequences

CONSTANTS PIDs,     \* the PIDs in use
          CCMod,    \* number of continuity counter values, 16 in the code
          Packets,  \* the packets that can be received
          MaxUnit   \* bound on the packets buffered for one PID

ASSUME PIDsAssumption == PIDs \subseteq Nat
ASSUME CCModAssumption == CCMod \in Nat \ {0, 1}
ASSUME PacketsAssumption ==
  \A p \in Packets : /\ p.pid \in PIDs
                     /\ p.cc \in 0..(CCMod - 1)
                     /\ p.tei \in BOOLEAN
                     /\ p.hasPayload \in BOOLEAN
                     /\ p.pusi \in BOOLEAN
                     /\ p.disc \in BOOLEAN
ASSUME MaxUnitAssumption == MaxUnit \in Nat

VARIABLES pool, flushed

poolVars == <<pool, flushed>>

NextCC(cc) == (cc + 1) % CCMod

LastOf(ps) == ps[Len(ps)]

-----------------------------------------------------------------------------
(* The decisions add takes about packet p when the PID's buffer is ps.     *)

hasDiscontinuity_noWrap(ps, p) ==
  p.disc \/ (ps # <<>> /\ p.hasPayload /\ p.cc # LastOf(ps).cc + 1)

hasDiscontinuity(ps, p) ==
  \/ p.disc
  \/ ps # <<>> /\ p.hasPayload /\ p.cc # NextCC(LastOf(ps).cc)
  \/ ps # <<>> /\ ~p.hasPayload /\ p.cc # LastOf(ps).cc

isSameAsPrevious(ps, p) ==
  ps # <<>> /\ p.hasPayload /\ p.cc = LastOf(ps).cc

(* The buffer once a discontinuity has emptied it. *)
Kept(ps, p) == IF hasDiscontinuity(ps, p) THEN <<>> ELSE ps

(* A packet add returns on before it assigns the buffer. *)
ThrownAway(ps, p) ==
  \/ p.tei
  \/ ~p.hasPayload
  \/ isSameAsPrevious(Kept(ps, p), p)

(* Without a start indicator an empty buffer stays empty. *)
Appended_anyPacket(ps, p) == Append(Kept(ps, p), p)

Appended(ps, p) ==
  IF Kept(ps, p) # <<>> \/ p.pusi THEN Append(Kept(ps, p), p) ELSE <<>>

Completes(ps, p) == p.pusi /\ Len(Appended(ps, p)) > 1

(* What add returns, and what it leaves in the buffer. *)
AddFlushed_zeroPadded(ps, p) ==
  IF ~ThrownAway(ps, p) /\ Completes(ps, p)
  THEN [Appended(ps, p) EXCEPT ![Len(Appended(ps, p))] = [p EXCEPT !.pid = -1]]
  ELSE <<>>

AddFlushed_oneShort(ps, p) ==
  IF ~ThrownAway(ps, p) /\ Completes(ps, p)
  THEN SubSeq(Appended(ps, p), 1, Len(Appended(ps, p)) - 2)
  ELSE <<>>

AddFlushed_withNext(ps, p) ==
  IF ~ThrownAway(ps, p) /\ Completes(ps, p) THEN Appended(ps, p) ELSE <<>>

AddFlushed(ps, p) ==
  IF ~ThrownAway(ps, p) /\ Completes(ps, p)
  THEN SubSeq(Appended(ps, p), 1, Len(Appended(ps, p)) - 1)
  ELSE <<>>

AddStored(ps, p) ==
  IF ThrownAway(ps, p) THEN ps
  ELSE IF Completes(ps, p) THEN <<p>>
  ELSE Appended(ps, p)

-----------------------------------------------------------------------------

PoolInit == /\ pool = [pid \in PIDs |-> <<>>]
            /\ flushed = <<>>

add(p) == /\ flushed' = AddFlushed(pool[p.pid], p)
          /\ pool' = [pool EXCEPT ![p.pid] = AddStored(@, p)]

Occupied == {pid \in PIDs : pool[pid] # <<>>}

(* The lowest PID that has packets: dump walks the sorted keys. *)
IsFirstOccupied(pid) == pid \in Occupied /\ \A q \in Occupied : pid <= q

dump_keepsPackets ==
  \/ Occupied = {} /\ flushed' = <<>> /\ UNCHANGED pool
  \/ \E pid \in PIDs : IsFirstOccupied(pid) /\ flushed' = pool[pid] /\ UNCHANGED pool

dump ==
  \/ /\ Occupied = {}
     /\ flushed' = <<>>
     /\ UNCHANGED pool
  \/ \E pid \in PIDs : /\ IsFirstOccupied(pid)
                       /\ flushed' = pool[pid]
                       /\ pool' = [pool EXCEPT ![pid] = <<>>]

PoolNext ==
  \/ \E p \in Packets : Len(pool[p.pid]) < MaxUnit /\ add(p)
  \/ dump

PoolSpec == PoolInit /\ [][PoolNext]_poolVars

-----------------------------------------------------------------------------

(* The buffers and the returned slice are sequences of packets. *)
PoolTypeOK == /\ pool \in [PIDs -> Seq(Packets)]
              /\ flushed \in Seq(Packets)

(* ps could be one payload unit of pid, or its beginning: only its first   *)
(* packet has the start indicator, its counters follow each other, and no  *)
(* packet in it is damaged, empty or announces a discontinuity inside it.  *)
IsUnit(pid, ps) ==
  /\ ps[1].pusi
  /\ \A k \in 1..Len(ps) : ps[k].pid = pid /\ ps[k].hasPayload /\ ~ps[k].tei
  /\ \A k \in 2..Len(ps) : /\ ~ps[k].pusi
                           /\ ~ps[k].disc
                           /\ ps[k].cc = NextCC(ps[k - 1].cc)

(* Whatever packets arrive in whatever order, what the pool holds for a    *)
(* PID is a run of consecutive packets of one unit of that PID             *)
(* (packet_pool.go add).                                                   *)
PoolHoldsUnits == \A pid \in PIDs : pool[pid] # <<>> => IsUnit(pid, pool[pid])

(* The same of the slice that add or dump returns: never the first packet  *)
(* of the next unit, never packets from both sides of a gap.               *)
FlushesUnits == flushed # <<>> => IsUnit(flushed[1].pid, flushed)

(* packet_pool.go:51 "Throw away packet if it's the same as the previous   *)
(* one": a second copy of the last buffered packet changes nothing.        *)
DuplicateThrownAway ==
  \A pid \in Occupied : AddStored(pool[pid], LastOf(pool[pid])) = pool[pid]

=============================================================================
