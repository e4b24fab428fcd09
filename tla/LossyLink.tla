----------------------------- MODULE LossyLink -----------------------------
(***************************************************************************)
(* The packet pool at the end of a transport stream that loses, damages    *)
(* and repeats packets.                                                    *)
(*                                                                         *)
(* The sender numbers the payload packets of a PID; the counter a packet   *)
(* carries is its number modulo CCMod, so a receiver cannot see CCMod      *)
(* consecutive losses.  A sender may skip numbers in a packet that         *)
(* carries the discontinuity indicator.  The receiver is packet_pool.go;   *)
(* the sender and the link are the environment.                            *)
(***************************************************************************)
EXTENDS PacketPool

CONSTANT MaxSeq  \* bound on the packet numbers used on one PID

ASSUME MaxSeqAssumption == MaxSeq \in Nat

LinkPackets ==
  [pid : PIDs, cc : 0..(CCMod - 1), tei : BOOLEAN, hasPayload : BOOLEAN,
   pusi : BOOLEAN, disc : BOOLEAN,
   seq : 0..MaxSeq, unit : 0..(MaxSeq + 1), idx : 0..(MaxSeq + 1)]

ASSUME LinkPacketsAssumption == LinkPackets \subseteq Packets

VARIABLES sent,       \* per PID, the number of the next packet
          sizes,      \* per PID, the packets sent so far of each unit
          arrived,    \* per PID, the number after the last packet received
          last,       \* per PID, the last packet received, if any
          whole,      \* per PID, the current unit arrived undisturbed so far
          delivered   \* per PID, the labels of the units add returned

linkVars == <<pool, flushed, sent, sizes, arrived, last, whole, delivered>>

Labels(ps) == [k \in 1..Len(ps) |-> <<ps[k].unit, ps[k].idx>>]

WholeUnit(pid, u) == [k \in 1..sizes[pid][u] |-> <<u, k>>]

LinkInit == /\ PoolInit
            /\ sent = [pid \in PIDs |-> 0]
            /\ sizes = [pid \in PIDs |-> <<>>]
            /\ arrived = [pid \in PIDs |-> 0]
            /\ last = [pid \in PIDs |-> <<>>]
            /\ whole = [pid \in PIDs |-> FALSE]
            /\ delivered = [pid \in PIDs |-> <<>>]

(* The payload packet numbered n, starting a unit or continuing one. *)
PayloadPacket(pid, start, disc, n) ==
  LET u == Len(sizes[pid])
  IN  [pid |-> pid, cc |-> n % CCMod, tei |-> FALSE, hasPayload |-> TRUE,
       pusi |-> start, disc |-> disc, seq |-> n,
       unit |-> IF start THEN u + 1 ELSE u,
       idx |-> IF start THEN 1 ELSE sizes[pid][u] + 1]

(* A sender continues only a unit it has started, and skips numbers only   *)
(* where it announces it.                                                  *)
CanSend(pid, start, disc, n) == /\ n \in sent[pid]..MaxSeq
                                /\ n < sent[pid] + CCMod
                                /\ ~disc => n = sent[pid]
                                /\ start \/ sizes[pid] # <<>>

Send(pid, p) ==
  /\ sent' = [sent EXCEPT ![pid] = p.seq + 1]
  /\ sizes' = [sizes EXCEPT ![pid] = IF p.pusi THEN Append(sizes[pid], 1)
                                     ELSE [sizes[pid] EXCEPT ![p.unit] = p.idx]]

(* The packet reaches add.  Fewer than CCMod numbers are missing before it *)
(* unless it announces a discontinuity: the limit of a wrapping counter.   *)
Receive(pid, p) ==
  /\ p.disc \/ p.seq < arrived[pid] + CCMod
  /\ Send(pid, p)
  /\ add(p)
  /\ delivered' = [delivered EXCEPT ![pid] =
                     IF AddFlushed(pool[pid], p) = <<>> THEN @
                     ELSE Append(@, Labels(AddFlushed(pool[pid], p)))]
  /\ arrived' = [arrived EXCEPT ![pid] = p.seq + 1]
  /\ last' = [last EXCEPT ![pid] = <<p>>]
  /\ whole' = [whole EXCEPT ![pid] = p.pusi \/ (@ /\ ~p.disc)]

Lose(pid, p) ==
  /\ Send(pid, p)
  /\ flushed' = <<>>
  /\ whole' = [whole EXCEPT ![pid] = FALSE]
  /\ UNCHANGED <<pool, arrived, last, delivered>>

(* The packet arrives with the transport error indicator set. *)
Damage(pid, p) ==
  /\ Send(pid, p)
  /\ add([p EXCEPT !.tei = TRUE])
  /\ whole' = [whole EXCEPT ![pid] = FALSE]
  /\ UNCHANGED <<arrived, last, delivered>>

(* The last packet received arrives a second time. *)
Repeat(pid) ==
  /\ last[pid] # <<>>
  /\ sent[pid] = arrived[pid]
  /\ add(last[pid][1])
  /\ whole' = [whole EXCEPT ![pid] = @ /\ last[pid][1].pusi]
  /\ UNCHANGED <<sent, sizes, arrived, last, delivered>>

(* A packet with an adaptation field only arrives; its counter is that of  *)
(* the last payload packet.                                                *)
NoPayload(pid) ==
  /\ sizes[pid] # <<>>
  /\ \E disc \in BOOLEAN :
       add([PayloadPacket(pid, FALSE, disc, sent[pid] - 1)
              EXCEPT !.hasPayload = FALSE, !.unit = 0, !.idx = 0])
  /\ UNCHANGED <<sent, sizes, arrived, last, whole, delivered>>

(* The stream pauses or ends and the demuxer dumps the pool. *)
Dump ==
  /\ dump
  /\ whole' = [pid \in PIDs |-> whole[pid] /\ pool[pid] = pool'[pid]]
  /\ UNCHANGED <<sent, sizes, arrived, last, delivered>>

Transmit(pid) ==
  \E start \in BOOLEAN, disc \in BOOLEAN, n \in 0..MaxSeq :
    /\ CanSend(pid, start, disc, n)
    /\ LET p == PayloadPacket(pid, start, disc, n)
       IN  Receive(pid, p) \/ Lose(pid, p) \/ Damage(pid, p)

LinkNext == \/ \E pid \in PIDs : Transmit(pid) \/ Repeat(pid) \/ NoPayload(pid)
            \/ Dump

LinkSpec == LinkInit /\ [][LinkNext]_linkVars

-----------------------------------------------------------------------------

(* The bookkeeping of sender, link and receiver has its type. *)
LinkTypeOK ==
  /\ PoolTypeOK
  /\ sent \in [PIDs -> 0..(MaxSeq + 1)]
  /\ sizes \in [PIDs -> Seq(Nat)]
  /\ arrived \in [PIDs -> 0..(MaxSeq + 1)]
  /\ last \in [PIDs -> Seq(Packets)]
  /\ whole \in [PIDs -> BOOLEAN]
  /\ delivered \in [PIDs -> Seq(Seq(Nat \X Nat))]

(* What dump returns at the end of the stream is the beginning of a unit.  *)
FlushedIsPrefix ==
  \A k \in 1..Len(flushed) : /\ flushed[k].unit = flushed[1].unit
                             /\ flushed[k].idx = k

(* No needless loss: as long as a unit's packets arrive undisturbed the    *)
(* pool holds all of them, whatever happened before the unit and however   *)
(* often the counter wraps inside it.                                      *)
UndisturbedIsKept ==
  \A pid \in PIDs :
    whole[pid] => Labels(pool[pid]) = WholeUnit(pid, Len(sizes[pid]))

(* Every unit add returns is one sent unit, from its first packet to its   *)
(* last, although packets were lost, damaged and repeated on the way, and  *)
(* units come out in the order they were sent, each at most once and at    *)
(* the moment the next unit starts: the pool implements UnitDelivery.      *)
(* A unit with a hole, without its tail or with a foreign packet would be  *)
(* number 0.                                                               *)
UnitNumber(pid, e) == IF e = WholeUnit(pid, e[1][1]) THEN e[1][1] ELSE 0

ClosedUnits == [pid \in PIDs |-> IF sizes[pid] = <<>> THEN 0
                                 ELSE Len(sizes[pid]) - 1]

GotUnits == [pid \in PIDs |-> [k \in 1..Len(delivered[pid]) |->
                                 UnitNumber(pid, delivered[pid][k])]]

Units == INSTANCE UnitDelivery WITH closed <- ClosedUnits, got <- GotUnits

ImplementsUnitDelivery == Units!Spec

=============================================================================
