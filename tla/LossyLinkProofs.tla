-------------------------- MODULE LossyLinkProofs --------------------------
(***************************************************************************)
(* For every set of PIDs, counter size and number of packets: behind a     *)
(* link that loses, damages and repeats packets the pool implements        *)
(* UnitDelivery, and keeps every unit that arrives undisturbed.            *)
(***************************************************************************)
EXTENDS LossyLink, PacketPoolProofs

(* How long each prover may take over a leaf. *)
USE SMTT(30), ZenonT(30)

(* The inductive invariant, for one PID.  The sender numbers packets and   *)
(* units, and is ahead of the receiver.                                    *)
SenderOK(pid) ==
  /\ sent[pid] \in 0..(MaxSeq + 1)
  /\ arrived[pid] \in 0..sent[pid]
  /\ sizes[pid] \in Seq(Nat \ {0})
  /\ Len(sizes[pid]) <= sent[pid]
  /\ \A u \in 1..Len(sizes[pid]) : sizes[pid][u] <= sent[pid]

(* The pool holds the beginning of a unit, up to the last packet received; *)
(* when nothing was sent since, this is all that was sent of the unit.     *)
HoldsRun(pid) ==
  LET ps == pool[pid]
      U == Len(sizes[pid])
  IN  ps # <<>> =>
        /\ \A k \in 1..Len(ps) : ps[k].unit = ps[1].unit /\ ps[k].idx = k
        /\ LastOf(ps).cc = LastOf(ps).seq % CCMod
        /\ LastOf(ps).seq + 1 = arrived[pid]
        /\ U > 0
        /\ sent[pid] = arrived[pid] => ps[1].unit = U /\ Len(ps) = sizes[pid][U]

(* The packet that may be repeated is the last one received. *)
LastFits(pid) ==
  LET p == last[pid][1]
      U == Len(sizes[pid])
  IN  last[pid] # <<>> =>
        /\ last[pid] = <<p>> /\ p \in LinkPackets
        /\ p.pid = pid /\ p.hasPayload /\ ~p.tei
        /\ p.cc = p.seq % CCMod
        /\ p.seq + 1 = arrived[pid]
        /\ p.pusi => p.idx = 1
        /\ U > 0
        /\ sent[pid] = arrived[pid] => p.unit = U /\ p.idx = sizes[pid][U]

(* A unit that was handed over is closed, and whole: e are its labels, s   *)
(* the sizes of the units of its PID.                                      *)
HandedOver(e, s) == /\ e[1][1] \in 1..(Len(s) - 1)
                    /\ e = [k \in 1..s[e[1][1]] |-> <<e[1][1], k>>]

DeliveredOK(pid) ==
  \A k \in 1..Len(delivered[pid]) : HandedOver(delivered[pid][k], sizes[pid])

WholeOK(pid) == whole[pid] => pool[pid] # <<>> /\ sent[pid] = arrived[pid]

OK(pid) == /\ SenderOK(pid) /\ HoldsRun(pid) /\ LastFits(pid)
           /\ DeliveredOK(pid) /\ WholeOK(pid)

LinkInv == /\ LinkTypeOK
           /\ pool \in [PIDs -> Seq(LinkPackets)]
           /\ PoolInv
           /\ FlushedIsPrefix
           /\ \A pid \in PIDs : OK(pid)

-----------------------------------------------------------------------------

(* A PID that a step does not touch. *)
LEMMA Untouched ==
  ASSUME NEW q \in PIDs, OK(q), pool'[q] = pool[q], sent'[q] = sent[q],
         sizes'[q] = sizes[q], arrived'[q] = arrived[q], last'[q] = last[q],
         whole'[q] = whole[q], delivered'[q] = delivered[q]
  PROVE  OK(q)'
<1>1. SenderOK(q)' /\ WholeOK(q)'
  BY DEF OK, SenderOK, WholeOK
<1>2. HoldsRun(q)'
  BY DEF OK, HoldsRun
<1>3. LastFits(q)'
  BY DEF OK, LastFits
<1>4. DeliveredOK(q)'
  BY ZenonT(60) DEF OK, DeliveredOK, HandedOver
<1> QED
  BY <1>1, <1>2, <1>3, <1>4 DEF OK

(* p is sent on pid: packet n, which starts a unit or not. *)
Sending(pid, start, disc, n, p) == /\ CanSend(pid, start, disc, n)
                                   /\ p = PayloadPacket(pid, start, disc, n)
                                   /\ Send(pid, p)

(* What a packet looks like, and what sending it does to its PID: it is    *)
(* the last packet of the last unit, and closed units are left alone.      *)
LEMMA SendFacts ==
  ASSUME LinkInv, NEW pid \in PIDs, NEW start \in BOOLEAN, NEW disc \in BOOLEAN,
         NEW n \in 0..MaxSeq, NEW p, Sending(pid, start, disc, n, p)
  PROVE  /\ p \in LinkPackets
         /\ p.pid = pid /\ p.hasPayload /\ ~p.tei
         /\ p.pusi = start /\ p.disc = disc /\ p.seq = n /\ p.cc = n % CCMod
         /\ sent'[pid] = n + 1
         /\ sizes'[pid] \in Seq(Nat \ {0})
         /\ Len(sizes'[pid]) = IF start THEN Len(sizes[pid]) + 1 ELSE Len(sizes[pid])
         /\ Len(sizes'[pid]) > 0
         /\ p.unit = Len(sizes'[pid])
         /\ p.idx = sizes'[pid][Len(sizes'[pid])]
         /\ p.idx = IF start THEN 1 ELSE sizes[pid][Len(sizes[pid])] + 1
         /\ \A u \in 1..(Len(sizes'[pid]) - 1) : sizes'[pid][u] = sizes[pid][u]
         /\ Len(sizes'[pid]) <= n + 1
         /\ \A u \in 1..Len(sizes'[pid]) : sizes'[pid][u] <= n + 1
<1> DEFINE s == sizes[pid]
           t == sizes'[pid]
           U == Len(s)
           c == n % CCMod
<1>1. s \in Seq(Nat \ {0}) /\ U <= sent[pid] /\ \A u \in 1..U : s[u] <= sent[pid]
  BY DEF LinkInv, OK, SenderOK
<1>2. sent[pid] \in Nat /\ sent[pid] <= n /\ n \in Nat /\ MaxSeq \in Nat
  BY MaxSeqAssumption DEF LinkInv, OK, SenderOK, CanSend, Sending
<1>3. c \in 0..(CCMod - 1)
  BY <1>2, DivMod, CCModAssumption, CCMod \in Nat \ {0}
<1>4. ~start => s # <<>>
  BY DEF CanSend, Sending
<1>5. p = [pid |-> pid, cc |-> c, tei |-> FALSE, hasPayload |-> TRUE,
           pusi |-> start, disc |-> disc, seq |-> n,
           unit |-> IF start THEN U + 1 ELSE U,
           idx |-> IF start THEN 1 ELSE s[U] + 1]
  BY DEF PayloadPacket, Sending
<1> HIDE DEF c
<1>6. /\ p.pid = pid /\ p.hasPayload /\ ~p.tei
      /\ p.pusi = start /\ p.disc = disc /\ p.seq = n /\ p.cc = c
      /\ p.unit = IF start THEN U + 1 ELSE U
      /\ p.idx = IF start THEN 1 ELSE s[U] + 1
  BY <1>5
<1>7. /\ sent'[pid] = n + 1
      /\ t = IF start THEN Append(s, 1) ELSE [s EXCEPT ![U] = s[U] + 1]
  BY <1>6 DEF Send, Sending, LinkInv, LinkTypeOK
<1> HIDE DEF s, t
<1>8. U \in Nat /\ (~start => U > 0) /\ \A u \in 1..U : s[u] \in Nat \ {0}
  BY <1>1, <1>4
<1>9. /\ U <= n /\ \A u \in 1..U : s[u] <= n
      /\ (IF start THEN U + 1 ELSE U) \in 0..(MaxSeq + 1)
      /\ (IF start THEN 1 ELSE s[U] + 1) \in 0..(MaxSeq + 1)
  <2> HIDE DEF U
  <2>1. U <= n /\ \A u \in 1..U : s[u] <= n
    BY ONLY <1>1, <1>2, <1>8
  <2>2. n <= MaxSeq
    BY <1>2
  <2>3. ~start => U \in 1..U
    BY ONLY <1>8
  <2>4. ~start => s[U] \in Nat /\ s[U] <= n
    BY ONLY <1>8, <2>1, <2>3
  <2> QED
    BY ONLY <1>2, <1>8, <2>1, <2>2, <2>4
<1>10. p \in LinkPackets
  BY <1>3, <1>5, <1>9 DEF LinkPackets
<1>11. /\ t \in Seq(Nat \ {0})
       /\ Len(t) = IF start THEN U + 1 ELSE U
       /\ \A u \in 1..(Len(t) - 1) : t[u] = s[u]
       /\ t[Len(t)] = IF start THEN 1 ELSE s[U] + 1
  <2>1. CASE start
    <3>1. t = Append(s, 1) /\ 1 \in Nat \ {0}
      BY <1>7, <2>1
    <3>2. /\ t \in Seq(Nat \ {0})
          /\ Len(t) = U + 1
          /\ \A u \in 1..U : t[u] = s[u]
          /\ t[U + 1] = 1
      BY <1>1, <3>1
    <3> HIDE DEF U
    <3> QED
      BY <1>8, <2>1, <3>2
  <2>2. CASE ~start
    <3>1. t = [s EXCEPT ![U] = s[U] + 1] /\ U \in 1..U /\ s[U] + 1 \in Nat \ {0}
      BY <1>7, <1>8, <2>2
    <3>2. t \in Seq(Nat \ {0}) /\ Len(t) = U
      BY <1>1, <3>1
    <3>3. t[U] = s[U] + 1 /\ \A u \in 1..U : u # U => t[u] = s[u]
      BY <1>1, <3>1
    <3> HIDE DEF U
    <3> QED
      BY <1>8, <2>2, <3>2, <3>3
  <2> QED
    BY <2>1, <2>2
<1>12. /\ Len(t) > 0 /\ Len(t) <= n + 1
       /\ \A u \in 1..Len(t) : t[u] <= n + 1
  <2> HIDE DEF U
  <2>1. Len(t) > 0 /\ Len(t) <= n + 1 /\ Len(t) \in Nat
    BY <1>2, <1>8, <1>9, <1>11
  <2>2. ASSUME NEW u \in 1..Len(t) PROVE t[u] <= n + 1
    <3>1. CASE u = Len(t)
      BY <1>2, <1>8, <1>9, <1>11, <3>1
    <3>2. CASE u # Len(t)
      <4>1. u \in 1..(Len(t) - 1) /\ u \in 1..U
        BY <1>8, <1>11, <2>1, <3>2
      <4>2. t[u] = s[u] /\ s[u] <= n /\ s[u] \in Nat
        BY ONLY <1>8, <1>9, <1>11, <4>1
      <4> QED
        BY ONLY <1>2, <4>2
    <3> QED
      BY <3>1, <3>2
  <2> QED
    BY <2>1, <2>2
<1>13. p.cc = n % CCMod
  BY <1>6 DEF c
<1> QED
  BY <1>6, <1>7, <1>10, <1>11, <1>12, <1>13, ZenonT(60) DEF s, t

(* A payload packet is never mistaken for a repetition of one in the pool: *)
(* the discontinuity test has emptied the buffer before.                   *)
LEMMA NotThrownAway ==
  ASSUME NEW ps \in Seq(Packets), NEW p \in Packets, p.hasPayload, ~p.tei
  PROVE  ~ThrownAway(ps, p)
<1> SUFFICES ASSUME isSameAsPrevious(Kept(ps, p), p)
             PROVE  FALSE
  BY DEF ThrownAway
<1>1. /\ ps # <<>>
      /\ p.cc = LastOf(ps).cc
      /\ p.cc = NextCC(LastOf(ps).cc)
  BY DEF isSameAsPrevious, Kept, hasDiscontinuity
<1>2. p.cc \in 0..(CCMod - 1)
  BY PacketsAssumption
<1>3. p.cc % CCMod = p.cc /\ p.cc \in Nat
  BY <1>2, CCModAssumption
<1> QED
  BY <1>1, <1>3, StepsDiffer, CCModAssumption, 1 \in 1..(CCMod - 1) DEF NextCC

(* A packet whose counter follows the pool's last one is the next packet:  *)
(* fewer than CCMod are missing before it.                                 *)
LEMMA InSequence ==
  ASSUME NEW pid \in PIDs, OK(pid), pool[pid] # <<>>, NEW n \in Nat,
         LastOf(pool[pid]).seq \in Nat,
         n >= sent[pid], n < arrived[pid] + CCMod,
         n % CCMod = NextCC(LastOf(pool[pid]).cc)
  PROVE  n = arrived[pid] /\ n = sent[pid]
<1> DEFINE x == LastOf(pool[pid]).seq
           a == arrived[pid]
           b == sent[pid]
<1>1. a \in Nat /\ b \in Nat /\ a <= b /\ CCMod \in Nat \ {0, 1}
  BY CCModAssumption, MaxSeqAssumption DEF OK, SenderOK
<1>2. LastOf(pool[pid]).cc = x % CCMod /\ x + 1 = a /\ x \in Nat
  BY DEF OK, HoldsRun
<1>3. n >= b /\ n < a + CCMod /\ n % CCMod = ((x % CCMod) + 1) % CCMod
  BY <1>2 DEF NextCC
<1> HIDE DEF x, a, b
<1>4. a % CCMod = n % CCMod
  BY <1>1, <1>2, <1>3, RemainderOfNext, ZenonT(60)
<1>5. n \in a..(a + CCMod - 1)
  BY <1>1, <1>3
<1>6. a = n
  BY <1>1, <1>4, <1>5, SameRemainder, ZenonT(60)
<1> QED
  BY <1>1, <1>3, <1>6 DEF a, b

(* The packets of a PID's buffer, and what is known of them. *)
LEMMA BufferFacts ==
  ASSUME LinkInv, NEW pid \in PIDs
  PROVE  /\ pool[pid] \in Seq(LinkPackets) /\ pool[pid] \in Seq(Packets)
         /\ Len(pool[pid]) \in Nat
         /\ pool[pid] # <<>> => /\ Len(pool[pid]) > 0
                                /\ LastOf(pool[pid]) \in LinkPackets
                                /\ LastOf(pool[pid]).seq \in Nat
<1>1. pool[pid] \in Seq(LinkPackets)
  BY DEF LinkInv
<1>2. pool[pid] \in Seq(Packets)
  BY <1>1, LinkPacketsAssumption
<1>3. Len(pool[pid]) \in Nat /\ (pool[pid] # <<>> => Len(pool[pid]) > 0)
  BY <1>1
<1>4. pool[pid] # <<>> => LastOf(pool[pid]) \in LinkPackets
  BY <1>1, <1>3 DEF LastOf
<1>5. \A p \in LinkPackets : p.seq \in Nat
  BY MaxSeqAssumption DEF LinkPackets
<1> QED
  BY <1>1, <1>2, <1>3, <1>4, <1>5

(* What a packet that is received finds in the buffer and does not empty   *)
(* is all that was sent of the last unit.                                  *)
LEMMA KeptIsWhole ==
  ASSUME LinkInv, NEW pid \in PIDs, NEW start \in BOOLEAN, NEW disc \in BOOLEAN,
         NEW n \in 0..MaxSeq, NEW p, Sending(pid, start, disc, n, p),
         p.disc \/ p.seq < arrived[pid] + CCMod,
         Kept(pool[pid], p) # <<>>
  PROVE  /\ Kept(pool[pid], p) = pool[pid] /\ pool[pid] # <<>>
         /\ Len(sizes[pid]) > 0
         /\ pool[pid][1].unit = Len(sizes[pid])
         /\ Len(pool[pid]) = sizes[pid][Len(sizes[pid])]
         /\ Labels(pool[pid]) = WholeUnit(pid, Len(sizes[pid]))
<1>1. p.hasPayload /\ p.seq = n /\ p.cc = n % CCMod /\ p.disc = disc
  BY SendFacts
<1>2. /\ Kept(pool[pid], p) = pool[pid] /\ pool[pid] # <<>>
      /\ ~p.disc /\ p.cc = NextCC(LastOf(pool[pid]).cc)
  BY <1>1 DEF Kept, hasDiscontinuity
<1>3. OK(pid)
  BY DEF LinkInv
<1>4. n >= sent[pid] /\ n \in Nat
  BY <1>3, MaxSeqAssumption DEF Sending, CanSend, OK, SenderOK
<1>5. n < arrived[pid] + CCMod
  BY <1>1, <1>2
<1>6. LastOf(pool[pid]).seq \in Nat /\ n % CCMod = NextCC(LastOf(pool[pid]).cc)
  BY <1>1, <1>2, BufferFacts
<1>7. sent[pid] = arrived[pid]
  BY <1>2, <1>3, <1>4, <1>5, <1>6, InSequence
<1>8. /\ \A k \in 1..Len(pool[pid]) :
           pool[pid][k].unit = pool[pid][1].unit /\ pool[pid][k].idx = k
      /\ Len(sizes[pid]) > 0
      /\ pool[pid][1].unit = Len(sizes[pid])
      /\ Len(pool[pid]) = sizes[pid][Len(sizes[pid])]
  BY <1>2, <1>3, <1>7 DEF OK, HoldsRun
<1>9. Labels(pool[pid]) = WholeUnit(pid, Len(sizes[pid]))
  BY <1>8 DEF Labels, WholeUnit
<1> QED
  BY <1>2, <1>8, <1>9

(* The next packet of a unit that arrived undisturbed empties nothing. *)
LEMMA WholeIsKept ==
  ASSUME LinkInv, NEW pid \in PIDs, NEW start \in BOOLEAN, NEW disc \in BOOLEAN,
         NEW n \in 0..MaxSeq, NEW p, Sending(pid, start, disc, n, p),
         whole[pid], ~p.disc
  PROVE  Kept(pool[pid], p) # <<>>
<1> DEFINE x == LastOf(pool[pid]).seq
<1>1. p.hasPayload /\ p.cc = n % CCMod /\ p.disc = disc
  BY SendFacts
<1>2. pool[pid] # <<>> /\ sent[pid] = arrived[pid]
  BY DEF LinkInv, OK, WholeOK
<1>3. LastOf(pool[pid]).cc = x % CCMod /\ x + 1 = arrived[pid]
  BY <1>2 DEF LinkInv, OK, HoldsRun
<1>4. n = sent[pid]
  BY <1>1 DEF Sending, CanSend
<1>5. x \in Nat
  BY <1>2, BufferFacts
<1>6. n = x + 1
  BY <1>2, <1>3, <1>4
<1> HIDE DEF x
<1>7. ((x % CCMod) + 1) % CCMod = (x + 1) % CCMod
  BY ONLY <1>5, RemainderOfNext, CCModAssumption, ZenonT(60)
<1>8. p.cc = NextCC(LastOf(pool[pid]).cc)
  BY ONLY <1>1, <1>3, <1>6, <1>7 DEF NextCC
<1> QED
  BY <1>1, <1>2, <1>8 DEF Kept, hasDiscontinuity

(* Sending leaves the closed units of the PID, and what is known of those  *)
(* that were handed over, as they are.                                     *)
LEMMA DeliveredStays ==
  ASSUME LinkInv, NEW pid \in PIDs, NEW start \in BOOLEAN, NEW disc \in BOOLEAN,
         NEW n \in 0..MaxSeq, NEW p, Sending(pid, start, disc, n, p),
         NEW k \in 1..Len(delivered[pid])
  PROVE  HandedOver(delivered[pid][k], sizes'[pid])
<1> DEFINE e == delivered[pid][k]
           u == e[1][1]
           t == sizes'[pid]
<1>1. /\ u \in 1..(Len(sizes[pid]) - 1)
      /\ e = [j \in 1..sizes[pid][u] |-> <<u, j>>]
  BY ZenonT(60) DEF LinkInv, OK, DeliveredOK, HandedOver
<1>2. /\ Len(t) = IF start THEN Len(sizes[pid]) + 1 ELSE Len(sizes[pid])
      /\ \A v \in 1..(Len(t) - 1) : t[v] = sizes[pid][v]
  BY SendFacts
<1>3. Len(sizes[pid]) \in Nat
  BY DEF LinkInv, OK, SenderOK
<1> HIDE DEF u, t
<1>4. u \in 1..(Len(t) - 1)
  BY <1>1, <1>2, <1>3
<1>5. t[u] = sizes[pid][u]
  BY <1>2, <1>4
<1> QED
  BY <1>1, <1>4, <1>5, ZenonT(60) DEF HandedOver, u, t

-----------------------------------------------------------------------------

(* A step of pid leaves the other PIDs alone. *)
OnlyOn(pid) == \A q \in PIDs \ {pid} :
  /\ pool'[q] = pool[q] /\ sent'[q] = sent[q] /\ sizes'[q] = sizes[q]
  /\ arrived'[q] = arrived[q] /\ last'[q] = last[q]
  /\ whole'[q] = whole[q] /\ delivered'[q] = delivered[q]

(* A step on one PID keeps the invariant of the others. *)
LEMMA OthersStay ==
  ASSUME LinkInv, NEW pid \in PIDs, OnlyOn(pid), OK(pid)'
  PROVE  \A q \in PIDs : OK(q)'
<1> SUFFICES ASSUME NEW q \in PIDs, q # pid PROVE OK(q)'
  OBVIOUS
<1>1. OK(q)
  BY DEF LinkInv
<1> QED
  BY <1>1, Untouched DEF OnlyOn

(* A packet is sent that does not reach the pool, or that the pool throws  *)
(* away.                                                                   *)
LEMMA MissedOK ==
  ASSUME LinkInv, NEW pid \in PIDs, NEW start \in BOOLEAN, NEW disc \in BOOLEAN,
         NEW n \in 0..MaxSeq, NEW p, Sending(pid, start, disc, n, p),
         pool'[pid] = pool[pid], arrived'[pid] = arrived[pid],
         last'[pid] = last[pid], delivered'[pid] = delivered[pid],
         whole'[pid] = FALSE
  PROVE  OK(pid)'
<1>1. SenderOK(pid) /\ HoldsRun(pid) /\ LastFits(pid)
  BY DEF LinkInv, OK
<1>2. sent[pid] <= n /\ sent[pid] \in Nat /\ n \in Nat /\ MaxSeq \in Nat
  BY <1>1, MaxSeqAssumption DEF Sending, CanSend, SenderOK
<1>3. arrived[pid] \in 0..sent[pid]
  BY <1>1 DEF SenderOK
<1>4. /\ sent'[pid] = n + 1 /\ sizes'[pid] \in Seq(Nat \ {0})
      /\ Len(sizes'[pid]) > 0 /\ Len(sizes'[pid]) <= n + 1
      /\ \A u \in 1..Len(sizes'[pid]) : sizes'[pid][u] <= n + 1
  BY SendFacts
<1>5. n + 1 \in 0..(MaxSeq + 1) /\ arrived[pid] \in 0..(n + 1) /\ n + 1 # arrived[pid]
  BY <1>2, <1>3
<1>6. SenderOK(pid)'
  BY <1>4, <1>5 DEF SenderOK
<1>7. HoldsRun(pid)'
  BY <1>1, <1>4, <1>5 DEF HoldsRun
<1>8. LastFits(pid)'
  BY <1>1, <1>4, <1>5 DEF LastFits
<1>9. DeliveredOK(pid)'
  <2>1. \A k \in 1..Len(delivered[pid]) : HandedOver(delivered[pid][k], sizes'[pid])
    BY DeliveredStays
  <2> QED
    BY <2>1, ZenonT(60) DEF DeliveredOK, HandedOver
<1>10. WholeOK(pid)'
  BY DEF WholeOK
<1> QED
  BY <1>6, <1>7, <1>8, <1>9, <1>10 DEF OK

-----------------------------------------------------------------------------

(* What receiving a packet, receiving it again and losing it do to the     *)
(* invariant.                                                              *)

(* The packet is received: what Receive does to its PID. *)
Received(pid, p) ==
  /\ p.disc \/ p.seq < arrived[pid] + CCMod
  /\ pool'[pid] = AddStored(pool[pid], p)
  /\ arrived'[pid] = p.seq + 1
  /\ last'[pid] = <<p>>
  /\ whole'[pid] = (p.pusi \/ (whole[pid] /\ ~p.disc))
  /\ delivered'[pid] = IF AddFlushed(pool[pid], p) = <<>> THEN delivered[pid]
                       ELSE Append(delivered[pid], Labels(AddFlushed(pool[pid], p)))

(* Receiving a packet keeps the sender's part. *)
LEMMA ReceivedSender ==
  ASSUME LinkInv, NEW pid \in PIDs, NEW start \in BOOLEAN, NEW disc \in BOOLEAN,
         NEW n \in 0..MaxSeq, NEW p, Sending(pid, start, disc, n, p),
         Received(pid, p)
  PROVE  SenderOK(pid)' /\ LastFits(pid)'
<1>1. n \in Nat /\ MaxSeq \in Nat
  BY MaxSeqAssumption
<1>2. /\ sent'[pid] = n + 1 /\ sizes'[pid] \in Seq(Nat \ {0})
      /\ Len(sizes'[pid]) > 0 /\ Len(sizes'[pid]) <= n + 1
      /\ \A u \in 1..Len(sizes'[pid]) : sizes'[pid][u] <= n + 1
      /\ p \in LinkPackets /\ p.pid = pid /\ p.hasPayload /\ ~p.tei
      /\ p.seq = n /\ p.cc = n % CCMod /\ (p.pusi => p.idx = 1)
      /\ p.unit = Len(sizes'[pid])
      /\ p.idx = sizes'[pid][Len(sizes'[pid])]
  BY SendFacts
<1>3. arrived'[pid] = n + 1 /\ last'[pid] = <<p>>
  BY <1>2 DEF Received
<1>4. n + 1 \in 0..(MaxSeq + 1) /\ n + 1 \in 0..(n + 1)
  BY <1>1
<1>5. SenderOK(pid)'
  BY <1>2, <1>3, <1>4 DEF SenderOK
<1>6. LastFits(pid)'
  <2>1. last'[pid][1] = p
    BY <1>3
  <2> QED
    BY <1>2, <1>3, <2>1 DEF LastFits
<1> QED
  BY <1>5, <1>6

(* A received packet empties the buffer, extends the unit in it, or starts *)
(* a unit and hands over what the buffer holds.                            *)
LEMMA ReceivedCases ==
  ASSUME LinkInv, NEW pid \in PIDs, NEW start \in BOOLEAN, NEW disc \in BOOLEAN,
         NEW n \in 0..MaxSeq, NEW p, Sending(pid, start, disc, n, p)
  PROVE  \/ Empties(pool[pid], p) \/ Extends(pool[pid], p)
         \/ Starts(pool[pid], p)
<1>1. p \in LinkPackets /\ p.hasPayload /\ ~p.tei
  BY SendFacts
<1>2. p \in Packets /\ pool[pid] \in Seq(Packets)
  BY <1>1, LinkPacketsAssumption, BufferFacts
<1>3. ~ThrownAway(pool[pid], p)
  BY <1>1, <1>2, NotThrownAway
<1> QED
  BY <1>2, <1>3, AddCases DEF Ignores

(* Receiving a packet keeps the pool's part. *)
LEMMA ReceivedPool ==
  ASSUME LinkInv, NEW pid \in PIDs, NEW start \in BOOLEAN, NEW disc \in BOOLEAN,
         NEW n \in 0..MaxSeq, NEW p, Sending(pid, start, disc, n, p),
         Received(pid, p)
  PROVE  HoldsRun(pid)' /\ WholeOK(pid)'
<1> DEFINE ps == pool[pid]
           qs == pool'[pid]
           t == sizes'[pid]
<1>1. /\ sent'[pid] = n + 1 /\ Len(t) > 0
      /\ Len(t) = IF start THEN Len(sizes[pid]) + 1 ELSE Len(sizes[pid])
      /\ p \in LinkPackets /\ p.seq = n /\ p.cc = n % CCMod /\ p.pusi = start
      /\ p.unit = Len(t) /\ p.idx = t[Len(t)]
      /\ p.idx = IF start THEN 1 ELSE sizes[pid][Len(sizes[pid])] + 1
  BY SendFacts
<1>2. arrived'[pid] = n + 1 /\ qs = AddStored(ps, p)
  BY <1>1 DEF Received
<1>3. CASE Empties(ps, p)
  <2>1. qs = <<>>
    BY <1>2, <1>3 DEF Empties
  <2>2. ~whole'[pid]
    <3>1. ~p.pusi /\ Kept(ps, p) = <<>>
      BY <1>3 DEF Empties
    <3>2. ~(whole[pid] /\ ~p.disc)
      BY <3>1, WholeIsKept
    <3> QED
      BY <3>1, <3>2, ZenonT(60) DEF Received
  <2> QED
    BY <2>1, <2>2 DEF HoldsRun, WholeOK
<1>4. CASE Extends(ps, p)
  <2>1. /\ qs = Append(ps, p) /\ ~start /\ ps # <<>>
        /\ Kept(ps, p) = ps
    <3>1. p.hasPayload
      BY SendFacts
    <3> QED
      BY <1>1, <1>2, <1>4, <3>1 DEF Extends, Kept, hasDiscontinuity
  <2>2. /\ ps[1].unit = Len(sizes[pid])
        /\ Len(ps) = sizes[pid][Len(sizes[pid])]
    BY <2>1, KeptIsWhole DEF Received
  <2>3. \A k \in 1..Len(ps) : ps[k].unit = ps[1].unit /\ ps[k].idx = k
    BY <2>1 DEF LinkInv, OK, HoldsRun
  <2>4. ps \in Seq(LinkPackets) /\ Len(ps) \in Nat /\ Len(ps) > 0
    BY <2>1, BufferFacts
  <2>5. /\ qs # <<>> /\ Len(qs) = Len(ps) + 1
        /\ \A k \in 1..Len(ps) : qs[k] = ps[k]
        /\ qs[Len(ps) + 1] = p
    <3>1. p \in LinkPackets /\ qs = Append(ps, p)
      BY <1>1, <2>1
    <3> HIDE DEF ps, qs
    <3> QED
      BY <2>4, <3>1
  <2>6. /\ p.unit = Len(t) /\ Len(t) = Len(sizes[pid])
        /\ p.idx = Len(ps) + 1 /\ p.idx = t[Len(t)]
    BY <1>1, <2>1, <2>2
  <2>7. LastOf(qs) = p
    BY <2>5 DEF LastOf
  <2> HIDE DEF ps, qs, t
  <2>8. qs[1].unit = Len(t) /\ Len(qs) = t[Len(t)]
    BY <2>2, <2>4, <2>5, <2>6
  <2>9. \A k \in 1..Len(qs) : qs[k].unit = qs[1].unit /\ qs[k].idx = k
    <3> SUFFICES ASSUME NEW k \in 1..Len(qs)
                 PROVE  qs[k].unit = qs[1].unit /\ qs[k].idx = k
      OBVIOUS
    <3>1. CASE k = Len(ps) + 1
      BY <2>5, <2>6, <2>8, <3>1
    <3>2. CASE k # Len(ps) + 1
      <4>1. k \in 1..Len(ps)
        BY <2>4, <2>5, <3>2
      <4> QED
        BY <2>2, <2>3, <2>5, <2>6, <2>8, <4>1, ZenonT(60)
    <3> QED
      BY <3>1, <3>2
  <2> QED
    BY <1>1, <1>2, <2>5, <2>7, <2>8, <2>9 DEF HoldsRun, WholeOK, qs, t
<1>5. CASE Starts(ps, p)
  <2>1. qs = <<p>> /\ start
    BY <1>1, <1>2, <1>5 DEF Starts
  <2>2. qs # <<>> /\ Len(qs) = 1 /\ qs[1] = p /\ LastOf(qs) = p
    BY <2>1 DEF LastOf
  <2>3. p.idx = 1
    BY <1>1, <2>1
  <2> HIDE DEF qs, t
  <2> QED
    BY <1>1, <1>2, <2>2, <2>3 DEF HoldsRun, WholeOK, qs, t
<1> QED
  BY <1>3, <1>4, <1>5, ReceivedCases

(* What add hands over is the unit that p closes. *)
LEMMA ReceivedFlush ==
  ASSUME LinkInv, NEW pid \in PIDs, NEW start \in BOOLEAN, NEW disc \in BOOLEAN,
         NEW n \in 0..MaxSeq, NEW p, Sending(pid, start, disc, n, p),
         p.disc \/ p.seq < arrived[pid] + CCMod,
         AddFlushed(pool[pid], p) # <<>>
  PROVE  /\ start /\ Len(sizes[pid]) > 0
         /\ AddFlushed(pool[pid], p) = pool[pid]
         /\ Labels(pool[pid]) = WholeUnit(pid, Len(sizes[pid]))
         /\ Labels(pool[pid])[1][1] = Len(sizes[pid])
         /\ HandedOver(Labels(pool[pid]), sizes'[pid])
<1> DEFINE ps == pool[pid]
           U == Len(sizes[pid])
           t == sizes'[pid]
           e == Labels(ps)
<1>1. Starts(ps, p)
  BY ReceivedCases DEF Empties, Extends
<1>2. start /\ AddFlushed(ps, p) = Kept(ps, p)
  BY <1>1, SendFacts DEF Starts
<1>3. /\ Kept(ps, p) = ps /\ U > 0 /\ Len(ps) = sizes[pid][U]
      /\ e = WholeUnit(pid, U) /\ ps # <<>>
  <2>1. Kept(pool[pid], p) # <<>>
    BY <1>2
  <2> QED
    BY <2>1, KeptIsWhole
<1>4. Len(ps) > 0 /\ Len(ps) \in Nat
  BY <1>3, BufferFacts
<1>5. e = [k \in 1..sizes[pid][U] |-> <<U, k>>]
  BY <1>3 DEF WholeUnit
<1>6. Len(t) = U + 1 /\ \A u \in 1..(Len(t) - 1) : t[u] = sizes[pid][u]
  <2>1. /\ Len(t) = IF start THEN U + 1 ELSE U
        /\ \A u \in 1..(Len(t) - 1) : t[u] = sizes[pid][u]
    BY SendFacts
  <2> QED
    BY <1>2, <2>1
<1>7. U \in Nat
  BY DEF LinkInv, OK, SenderOK
<1> HIDE DEF U, e, t
<1>8. e[1] = <<U, 1>> /\ e[1][1] = U
  BY <1>3, <1>4, <1>5
<1>9. U \in 1..(Len(t) - 1) /\ t[U] = sizes[pid][U]
  BY <1>3, <1>6, <1>7
<1>10. HandedOver(e, t)
  BY <1>5, <1>8, <1>9, ZenonT(60) DEF HandedOver
<1> QED
  BY <1>2, <1>3, <1>8, <1>10 DEF U, e, t

(* Labels are pairs of numbers. *)
LEMMA LabelsType ==
  ASSUME LinkInv, NEW pid \in PIDs
  PROVE  Labels(pool[pid]) \in Seq(Nat \X Nat)
<1>1. pool[pid] \in Seq(LinkPackets) /\ Len(pool[pid]) \in Nat
  BY BufferFacts
<1>2. \A q \in LinkPackets : q.unit \in Nat /\ q.idx \in Nat
  BY MaxSeqAssumption DEF LinkPackets
<1>3. \A k \in 1..Len(pool[pid]) : pool[pid][k].unit \in Nat /\ pool[pid][k].idx \in Nat
  BY <1>1, <1>2
<1> QED
  BY <1>1, <1>3 DEF Labels

(* Receiving a packet keeps what was delivered closed and whole. *)
LEMMA ReceivedDelivered ==
  ASSUME LinkInv, NEW pid \in PIDs, NEW start \in BOOLEAN, NEW disc \in BOOLEAN,
         NEW n \in 0..MaxSeq, NEW p, Sending(pid, start, disc, n, p),
         Received(pid, p)
  PROVE  DeliveredOK(pid)' /\ delivered'[pid] \in Seq(Seq(Nat \X Nat))
<1> DEFINE d == delivered[pid]
           e == Labels(pool[pid])
<1>1. d \in Seq(Seq(Nat \X Nat))
  BY DEF LinkInv, LinkTypeOK
<1>2. \A k \in 1..Len(d) : HandedOver(d[k], sizes'[pid])
  BY DeliveredStays
<1>3. CASE AddFlushed(pool[pid], p) = <<>>
  <2>1. delivered'[pid] = d
    BY <1>3 DEF Received
  <2> QED
    BY <1>1, <1>2, <2>1, ZenonT(60) DEF DeliveredOK, HandedOver
<1>4. CASE AddFlushed(pool[pid], p) # <<>>
  <2>1. /\ AddFlushed(pool[pid], p) = pool[pid]
        /\ HandedOver(e, sizes'[pid])
    BY <1>4, ReceivedFlush DEF Received
  <2>2. delivered'[pid] = Append(d, e)
    BY <1>4, <2>1 DEF Received
  <2>3. e \in Seq(Nat \X Nat)
    BY LabelsType
  <2> HIDE DEF d, e
  <2>4. /\ Append(d, e) \in Seq(Seq(Nat \X Nat))
        /\ Len(Append(d, e)) = Len(d) + 1 /\ Len(d) \in Nat
        /\ \A k \in 1..Len(d) : Append(d, e)[k] = d[k]
        /\ Append(d, e)[Len(d) + 1] = e
    BY <1>1, <2>3
  <2>5. ASSUME NEW k \in 1..Len(Append(d, e))
        PROVE  HandedOver(Append(d, e)[k], sizes'[pid])
    <3>1. CASE k = Len(d) + 1
      BY <2>1, <2>4, <3>1
    <3>2. CASE k # Len(d) + 1
      <4>1. k \in 1..Len(d)
        BY <2>4, <3>2
      <4> QED
        BY <1>2, <2>4, <4>1
    <3> QED
      BY <3>1, <3>2
  <2>6. \A k \in 1..Len(delivered'[pid]) : HandedOver(delivered'[pid][k], sizes'[pid])
    BY <2>2, <2>5
  <2> QED
    BY <2>2, <2>4, <2>6, ZenonT(60) DEF DeliveredOK, HandedOver
<1> QED
  BY <1>3, <1>4

(* The packet received last arrives again: its counter does not follow the *)
(* pool's, so the buffer is emptied, and a unit restarts or is lost.       *)
LEMMA RepeatedCases ==
  ASSUME LinkInv, NEW pid \in PIDs, last[pid] # <<>>
  PROVE  LET p == last[pid][1]
         IN  /\ p \in LinkPackets /\ p.pid = pid
             /\ AddFlushed(pool[pid], p) = <<>>
             /\ AddStored(pool[pid], p) = IF p.pusi THEN <<p>> ELSE <<>>
<1> DEFINE p == last[pid][1]
           ps == pool[pid]
<1>1. /\ p \in LinkPackets /\ p.pid = pid /\ p.hasPayload /\ ~p.tei
      /\ p.cc = p.seq % CCMod /\ p.seq + 1 = arrived[pid]
  BY DEF LinkInv, OK, LastFits
<1>2. p \in Packets /\ ps \in Seq(Packets) /\ p.seq \in Nat
  <2>1. ps \in Seq(Packets)
    BY BufferFacts
  <2>2. \A q \in LinkPackets : q.seq \in Nat
    BY ONLY MaxSeqAssumption DEF LinkPackets
  <2> QED
    BY ONLY <1>1, <2>1, <2>2, LinkPacketsAssumption
<1>3. Kept(ps, p) = <<>> /\ ~Extends(ps, p)
  <2>1. CASE ps = <<>>
    BY <2>1 DEF Kept, Extends
  <2>2. CASE ps # <<>>
    <3> DEFINE x == LastOf(ps).seq
    <3>1. LastOf(ps).cc = x % CCMod /\ x + 1 = arrived[pid] /\ x \in Nat
      BY <2>2, BufferFacts DEF LinkInv, OK, HoldsRun
    <3>2. LastOf(ps).cc = p.cc
      <4>1. x = p.seq
        BY <1>1, <1>2, <3>1
      <4> QED
        BY <1>1, <3>1, <4>1
    <3>3. ((p.seq % CCMod) + 1) % CCMod = (p.seq + 1) % CCMod
      BY ONLY <1>2, RemainderOfNext, CCModAssumption
    <3>4. (p.seq + 1) % CCMod # p.seq % CCMod
      <4>1. 1 \in 1..(CCMod - 1)
        BY ONLY CCModAssumption
      <4> QED
        BY ONLY <1>2, <4>1, StepsDiffer, CCModAssumption, ZenonT(60)
    <3>5. p.cc # NextCC(LastOf(ps).cc)
      BY ONLY <1>1, <3>2, <3>3, <3>4 DEF NextCC
    <3> QED
      BY <1>1, <2>2, <3>5 DEF Kept, hasDiscontinuity, Extends
  <2> QED
    BY <2>1, <2>2
<1>4. ~ThrownAway(ps, p)
  BY <1>1, <1>2, NotThrownAway
<1>5. Empties(ps, p) \/ Starts(ps, p)
  BY <1>2, <1>3, <1>4, AddCases DEF Ignores
<1> QED
  BY <1>1, <1>3, <1>5 DEF Empties, Starts

(* Receiving the last packet again keeps the invariant of its PID. *)
LEMMA RepeatedOK ==
  ASSUME LinkInv, NEW pid \in PIDs, Repeat(pid)
  PROVE  OK(pid)'
<1> DEFINE p == last[pid][1]
           qs == pool'[pid]
<1>1. /\ last[pid] # <<>> /\ sent[pid] = arrived[pid] /\ add(p)
      /\ whole' = [whole EXCEPT ![pid] = @ /\ p.pusi]
      /\ UNCHANGED <<sent, sizes, arrived, last, delivered>>
  BY DEF Repeat
<1>2. p.pid = pid /\ AddStored(pool[pid], p) = IF p.pusi THEN <<p>> ELSE <<>>
  BY <1>1, RepeatedCases
<1>3. /\ qs = IF p.pusi THEN <<p>> ELSE <<>>
      /\ whole'[pid] = (whole[pid] /\ p.pusi)
  BY <1>1, <1>2 DEF add, LinkInv, LinkTypeOK, PoolTypeOK
<1>4. /\ p.cc = p.seq % CCMod /\ p.seq + 1 = arrived[pid]
      /\ (p.pusi => p.idx = 1) /\ Len(sizes[pid]) > 0
      /\ p.unit = Len(sizes[pid]) /\ p.idx = sizes[pid][Len(sizes[pid])]
  BY <1>1 DEF LinkInv, OK, LastFits
<1>5. SenderOK(pid)' /\ LastFits(pid)' /\ DeliveredOK(pid)'
  <2>1. SenderOK(pid) /\ LastFits(pid) /\ DeliveredOK(pid)
    BY DEF LinkInv, OK
  <2>2. SenderOK(pid)'
    BY <1>1, <2>1 DEF SenderOK
  <2>3. LastFits(pid)'
    BY <1>1, <2>1 DEF LastFits
  <2>4. DeliveredOK(pid)'
    BY <1>1, <2>1, ZenonT(60) DEF DeliveredOK, HandedOver
  <2> QED
    BY <2>2, <2>3, <2>4
<1>6. HoldsRun(pid)' /\ WholeOK(pid)'
  <2>1. CASE p.pusi
    <3>1. qs # <<>> /\ Len(qs) = 1 /\ qs[1] = p /\ LastOf(qs) = p
      BY <1>3, <2>1 DEF LastOf
    <3> QED
      BY <1>1, <1>4, <2>1, <3>1 DEF HoldsRun, WholeOK
  <2>2. CASE ~p.pusi
    BY <1>3, <2>2, ZenonT(60) DEF HoldsRun, WholeOK
  <2> QED
    BY <2>1, <2>2
<1> QED
  BY <1>5, <1>6 DEF OK

-----------------------------------------------------------------------------

(* The pool's part of the invariant, for a packet that is thrown away and  *)
(* for one that is added.                                                  *)
PoolPart == /\ pool \in [PIDs -> Seq(LinkPackets)]
            /\ PoolInv
            /\ FlushedIsPrefix

(* A packet that add ignores keeps the pool's part of the invariant. *)
LEMMA IgnoredKeepsPool ==
  ASSUME LinkInv, pool' = pool, flushed' = <<>>
  PROVE  PoolPart'
<1>1. /\ pool \in [PIDs -> Seq(LinkPackets)]
      /\ PoolTypeOK /\ PoolHoldsUnits
  BY DEF LinkInv, PoolInv
<1>2. PoolTypeOK'
  BY <1>1 DEF PoolTypeOK
<1>3. PoolHoldsUnits'
  BY <1>1 DEF PoolHoldsUnits, IsUnit
<1>4. FlushesUnits'
  BY DEF FlushesUnits
<1>5. FlushedIsPrefix'
  BY DEF FlushedIsPrefix
<1> QED
  BY <1>1, <1>2, <1>3, <1>4, <1>5 DEF PoolPart, PoolInv

(* So does a packet that flushes nothing or the whole buffer. *)
LEMMA AddKeepsPool ==
  ASSUME LinkInv, NEW p \in LinkPackets, add(p),
         \/ AddFlushed(pool[p.pid], p) = <<>>
         \/ AddFlushed(pool[p.pid], p) = pool[p.pid]
  PROVE  PoolPart'
<1>1. p \in Packets /\ p.pid \in PIDs
  BY LinkPacketsAssumption, PacketsAssumption
<1>2. PoolInv'
  BY <1>1, AddPreservesInv DEF LinkInv
<1>3. pool' \in [PIDs -> Seq(LinkPackets)]
  <2>1. pool[p.pid] \in Seq(LinkPackets)
    BY <1>1 DEF LinkInv
  <2>2. AddStored(pool[p.pid], p) \in Seq(LinkPackets)
    BY <2>1, AddTypes, LinkPacketsAssumption, LinkPackets \in SUBSET Packets
  <2> QED
    BY <1>1, <2>2 DEF add, LinkInv
<1>4. FlushedIsPrefix'
  <2>1. flushed' = <<>> \/ (flushed' = pool[p.pid] /\ flushed' # <<>>)
    BY DEF add
  <2>2. pool[p.pid] # <<>> =>
          \A k \in 1..Len(pool[p.pid]) : /\ pool[p.pid][k].unit = pool[p.pid][1].unit
                                         /\ pool[p.pid][k].idx = k
    BY <1>1 DEF LinkInv, OK, HoldsRun
  <2> QED
    BY <2>1, <2>2 DEF FlushedIsPrefix
<1> QED
  BY <1>2, <1>3, <1>4 DEF PoolPart

(* A PID's record of what was sent keeps its type. *)
LEMMA SendTypes ==
  ASSUME LinkInv, NEW pid \in PIDs, NEW start \in BOOLEAN, NEW disc \in BOOLEAN,
         NEW n \in 0..MaxSeq, NEW p, Sending(pid, start, disc, n, p)
  PROVE  /\ sent' \in [PIDs -> 0..(MaxSeq + 1)]
         /\ sizes' \in [PIDs -> Seq(Nat)]
         /\ \A q \in PIDs \ {pid} : sent'[q] = sent[q] /\ sizes'[q] = sizes[q]
<1> DEFINE t == IF p.pusi THEN Append(sizes[pid], 1)
                ELSE [sizes[pid] EXCEPT ![p.unit] = p.idx]
<1>1. /\ sent' = [sent EXCEPT ![pid] = p.seq + 1]
      /\ sizes' = [sizes EXCEPT ![pid] = t]
  BY DEF Sending, Send
<1>2. p.seq = n /\ sizes'[pid] \in Seq(Nat \ {0})
  BY SendFacts
<1> HIDE DEF t
<1>3. t \in Seq(Nat)
  <2>1. t \in Seq(Nat \ {0})
    BY <1>1, <1>2 DEF LinkInv, LinkTypeOK
  <2> QED
    BY <2>1, Nat \ {0} \subseteq Nat
<1>4. n + 1 \in 0..(MaxSeq + 1)
  BY MaxSeqAssumption
<1> QED
  BY <1>1, <1>2, <1>3, <1>4 DEF LinkInv, LinkTypeOK

(* A packet that was sent and does not arrive keeps the invariant. *)
LEMMA MissedKeeps ==
  ASSUME LinkInv, NEW pid \in PIDs, NEW start \in BOOLEAN, NEW disc \in BOOLEAN,
         NEW n \in 0..MaxSeq, NEW p, Sending(pid, start, disc, n, p),
         pool' = pool, flushed' = <<>>,
         whole' = [whole EXCEPT ![pid] = FALSE],
         UNCHANGED <<arrived, last, delivered>>
  PROVE  LinkInv'
<1>1. PoolPart'
  BY IgnoredKeepsPool
<1>2. LinkTypeOK'
  BY <1>1, SendTypes DEF PoolPart, PoolInv, LinkInv, LinkTypeOK
<1>3. whole'[pid] = FALSE /\ \A q \in PIDs \ {pid} : whole'[q] = whole[q]
  BY DEF LinkInv, LinkTypeOK
<1>4. OnlyOn(pid)
  BY <1>3, SendTypes DEF OnlyOn
<1>5. OK(pid)'
  BY <1>3, MissedOK, ZenonT(60)
<1> QED
  BY <1>1, <1>2, <1>4, <1>5, OthersStay DEF LinkInv, PoolPart

(* A lost packet is one of them. *)
LEMMA LoseKeeps ==
  ASSUME LinkInv, NEW pid \in PIDs, NEW start \in BOOLEAN, NEW disc \in BOOLEAN,
         NEW n \in 0..MaxSeq, NEW p, Sending(pid, start, disc, n, p), Lose(pid, p)
  PROVE  LinkInv'
BY MissedKeeps, ZenonT(60) DEF Lose

(* A packet that arrives with an error is another. *)
LEMMA DamageKeeps ==
  ASSUME LinkInv, NEW pid \in PIDs, NEW start \in BOOLEAN, NEW disc \in BOOLEAN,
         NEW n \in 0..MaxSeq, NEW p, Sending(pid, start, disc, n, p), Damage(pid, p)
  PROVE  LinkInv' /\ delivered' = delivered
<1> DEFINE q == [p EXCEPT !.tei = TRUE]
<1>1. p \in LinkPackets /\ p.pid = pid
  BY SendFacts
<1>2. q.tei /\ q.pid = pid
  BY <1>1 DEF LinkPackets
<1>3. ThrownAway(pool[pid], q) /\ add(q)
  BY <1>2 DEF ThrownAway, Damage
<1> HIDE DEF q
<1>4. pool' = pool /\ flushed' = <<>>
  BY <1>2, <1>3 DEF add, AddStored, AddFlushed, LinkInv
<1> QED
  BY <1>4, MissedKeeps, ZenonT(60) DEF Damage

-----------------------------------------------------------------------------

(* Each action of the link keeps the invariant. *)
LEMMA ReceiveKeeps ==
  ASSUME LinkInv, NEW pid \in PIDs, NEW start \in BOOLEAN, NEW disc \in BOOLEAN,
         NEW n \in 0..MaxSeq, NEW p, Sending(pid, start, disc, n, p), Receive(pid, p)
  PROVE  LinkInv' /\ Received(pid, p)
<1>1. p \in LinkPackets /\ p.pid = pid /\ p.seq = n /\ p.pusi = start /\ p.disc = disc
  BY SendFacts
<1>2. Received(pid, p)
  BY <1>1 DEF Received, Receive, add, LinkInv, LinkTypeOK, PoolTypeOK
<1>3. PoolPart'
  <2>1. add(p)
    BY DEF Receive
  <2>2. AddFlushed(pool[pid], p) = <<>> \/ AddFlushed(pool[pid], p) = pool[pid]
    BY ReceivedFlush DEF Receive
  <2> QED
    BY <1>1, <2>1, <2>2, AddKeepsPool
<1>4. LinkTypeOK'
  <2>1. arrived' \in [PIDs -> 0..(MaxSeq + 1)]
    <3>1. n + 1 \in 0..(MaxSeq + 1)
      BY MaxSeqAssumption
    <3> QED
      BY <1>1, <3>1 DEF Receive, LinkInv, LinkTypeOK
  <2>2. last' \in [PIDs -> Seq(Packets)]
    <3>1. <<p>> \in Seq(Packets)
      BY <1>1, LinkPacketsAssumption
    <3> QED
      BY <3>1 DEF Receive, LinkInv, LinkTypeOK
  <2>3. whole' \in [PIDs -> BOOLEAN]
    BY DEF Receive, LinkInv, LinkTypeOK
  <2>4. delivered' \in [PIDs -> Seq(Seq(Nat \X Nat))]
    <3>1. delivered'[pid] \in Seq(Seq(Nat \X Nat))
      BY <1>2, ReceivedDelivered
    <3> DEFINE d == IF AddFlushed(pool[pid], p) = <<>> THEN delivered[pid]
                    ELSE Append(delivered[pid], Labels(AddFlushed(pool[pid], p)))
    <3>2. delivered' = [delivered EXCEPT ![pid] = d]
      BY DEF Receive
    <3> HIDE DEF d
    <3> QED
      BY <3>1, <3>2 DEF LinkInv, LinkTypeOK
  <2>5. PoolTypeOK'
    BY <1>3 DEF PoolPart, PoolInv
  <2> QED
    <3>1. sent' \in [PIDs -> 0..(MaxSeq + 1)] /\ sizes' \in [PIDs -> Seq(Nat)]
      BY SendTypes, ZenonT(60)
    <3> QED
      BY <2>1, <2>2, <2>3, <2>4, <2>5, <3>1, ZenonT(60) DEF LinkTypeOK
<1>5. OnlyOn(pid)
  <2> SUFFICES ASSUME NEW q \in PIDs \ {pid}
               PROVE  /\ pool'[q] = pool[q] /\ sent'[q] = sent[q] /\ sizes'[q] = sizes[q]
                      /\ arrived'[q] = arrived[q] /\ last'[q] = last[q]
                      /\ whole'[q] = whole[q] /\ delivered'[q] = delivered[q]
    BY DEF OnlyOn
  <2>1. sent'[q] = sent[q] /\ sizes'[q] = sizes[q]
    BY SendTypes
  <2>2. pool'[q] = pool[q]
    BY <1>1 DEF Receive, add, LinkInv
  <2>3. arrived'[q] = arrived[q] /\ last'[q] = last[q] /\ whole'[q] = whole[q]
    BY DEF Receive, LinkInv, LinkTypeOK
  <2>4. delivered'[q] = delivered[q]
    BY DEF Receive, LinkInv, LinkTypeOK
  <2> QED
    BY <2>1, <2>2, <2>3, <2>4
<1>6. OK(pid)'
  BY <1>2, ReceivedSender, ReceivedPool, ReceivedDelivered DEF OK
<1> QED
  BY <1>2, <1>3, <1>4, <1>5, <1>6, OthersStay DEF LinkInv, PoolPart

(* The same of a packet that arrives twice, *)
LEMMA RepeatKeeps ==
  ASSUME LinkInv, NEW pid \in PIDs, Repeat(pid)
  PROVE  LinkInv'
<1> DEFINE p == last[pid][1]
<1>1. last[pid] # <<>> /\ add(p)
  BY DEF Repeat
<1>2. p \in LinkPackets /\ p.pid = pid /\ AddFlushed(pool[pid], p) = <<>>
  BY <1>1, RepeatedCases, ZenonT(60)
<1>3. PoolPart'
  <2> HIDE DEF p
  <2> QED
    BY <1>1, <1>2, AddKeepsPool
<1>4. LinkTypeOK'
  BY <1>3 DEF PoolPart, PoolInv, LinkInv, LinkTypeOK, Repeat
<1>5. OnlyOn(pid)
  <2>1. \A q \in PIDs \ {pid} : pool'[q] = pool[q]
    BY <1>1, <1>2 DEF add, LinkInv
  <2> QED
    BY <2>1 DEF OnlyOn, Repeat, LinkInv, LinkTypeOK
<1>6. OK(pid)'
  BY RepeatedOK
<1> QED
  BY <1>3, <1>4, <1>5, <1>6, OthersStay DEF LinkInv, PoolPart

(* of a packet without payload, *)
LEMMA NoPayloadKeeps ==
  ASSUME LinkInv, NEW pid \in PIDs, NoPayload(pid)
  PROVE  LinkInv'
<1>1. PICK disc \in BOOLEAN :
        add([PayloadPacket(pid, FALSE, disc, sent[pid] - 1)
               EXCEPT !.hasPayload = FALSE, !.unit = 0, !.idx = 0])
  BY ZenonT(60) DEF NoPayload
<1> DEFINE q == [PayloadPacket(pid, FALSE, disc, sent[pid] - 1)
                   EXCEPT !.hasPayload = FALSE, !.unit = 0, !.idx = 0]
<1>2. ~q.hasPayload /\ q.pid = pid
  BY DEF PayloadPacket
<1>3. add(q)
  BY <1>1
<1> HIDE DEF q
<1>4. ThrownAway(pool[pid], q)
  BY <1>2 DEF ThrownAway
<1>5. pool' = pool /\ flushed' = <<>>
  BY <1>2, <1>3, <1>4 DEF add, AddStored, AddFlushed, LinkInv
<1>6. UNCHANGED <<sent, sizes, arrived, last, whole, delivered>>
  BY DEF NoPayload
<1>7. PoolPart'
  BY <1>5, IgnoredKeepsPool
<1>8. LinkTypeOK'
  BY <1>6, <1>7 DEF PoolPart, PoolInv, LinkInv, LinkTypeOK
<1>9. \A q1 \in PIDs : OK(q1)'
  BY <1>5, <1>6, Untouched DEF LinkInv
<1> QED
  BY <1>7, <1>8, <1>9 DEF LinkInv, PoolPart

(* and of dump. *)
LEMMA DumpKeeps ==
  ASSUME LinkInv, Dump
  PROVE  LinkInv'
<1>1. /\ dump /\ whole' = [pid \in PIDs |-> whole[pid] /\ pool[pid] = pool'[pid]]
      /\ UNCHANGED <<sent, sizes, arrived, last, delivered>>
  BY DEF Dump
<1>2. PoolInv'
  BY <1>1, DumpPreservesInv DEF LinkInv
<1>3. LinkTypeOK'
  BY <1>1, <1>2 DEF PoolInv, LinkInv, LinkTypeOK
<1>4. CASE flushed' = <<>> /\ UNCHANGED pool
  <2>1. PoolPart'
    BY <1>4, IgnoredKeepsPool
  <2>2. \A q \in PIDs : whole'[q] = whole[q]
    BY <1>1, <1>4 DEF LinkInv, LinkTypeOK
  <2>3. \A q \in PIDs : OK(q)'
    BY <1>1, <1>4, <2>2, Untouched DEF LinkInv
  <2> QED
    BY <1>3, <2>1, <2>3 DEF LinkInv, PoolPart
<1>5. ASSUME NEW pid \in PIDs, IsFirstOccupied(pid), flushed' = pool[pid],
             pool' = [pool EXCEPT ![pid] = <<>>]
      PROVE  LinkInv'
  <2>1. pool[pid] # <<>>
    BY <1>5 DEF IsFirstOccupied, Occupied
  <2>2. pool' \in [PIDs -> Seq(LinkPackets)] /\ pool'[pid] = <<>>
        /\ \A q \in PIDs \ {pid} : pool'[q] = pool[q]
    <3>1. pool \in [PIDs -> Seq(LinkPackets)]
      BY ZenonT(30) DEF LinkInv
    <3> QED
      BY <1>5, <3>1
  <2>3. FlushedIsPrefix'
    BY <1>5, <2>1 DEF LinkInv, OK, HoldsRun, FlushedIsPrefix
  <2>4. OnlyOn(pid)
    <3>1. LinkTypeOK
      BY ZenonT(30) DEF LinkInv
    <3> QED
      BY <1>1, <2>2, <3>1 DEF OnlyOn, LinkTypeOK
  <2>5. OK(pid)'
    <3>1. SenderOK(pid) /\ LastFits(pid) /\ DeliveredOK(pid)
      BY DEF LinkInv, OK
    <3>2. SenderOK(pid)'
      BY <1>1, <3>1 DEF SenderOK
    <3>3. LastFits(pid)'
      BY <1>1, <3>1 DEF LastFits
    <3>4. DeliveredOK(pid)'
      BY <1>1, <3>1, ZenonT(60) DEF DeliveredOK, HandedOver
    <3>5. HoldsRun(pid)' /\ WholeOK(pid)'
      BY <1>1, <2>1, <2>2, ZenonT(60) DEF HoldsRun, WholeOK
    <3> QED
      BY <3>2, <3>3, <3>4, <3>5 DEF OK
  <2> QED
    BY <1>2, <1>3, <2>2, <2>3, <2>4, <2>5, OthersStay DEF LinkInv
<1> QED
  BY <1>1, <1>4, <1>5 DEF dump

-----------------------------------------------------------------------------

(* The invariant holds at the beginning, *)
LEMMA LinkInvStarts == LinkInit => LinkInv
<1> SUFFICES ASSUME LinkInit PROVE LinkInv
  OBVIOUS
<1>1. MaxSeq \in Nat /\ 0 \in 0..(MaxSeq + 1) /\ 0 \in 0..0
  BY MaxSeqAssumption
<1>2. LinkTypeOK
  BY <1>1 DEF LinkInit, PoolInit, LinkTypeOK, PoolTypeOK
<1>3. PoolPart
  BY DEF PoolPart, LinkInit, PoolInit, PoolInv, PoolTypeOK,
                  PoolHoldsUnits, FlushesUnits, FlushedIsPrefix
<1>4. ASSUME NEW pid \in PIDs PROVE OK(pid)
  <2>1. /\ pool[pid] = <<>> /\ sent[pid] = 0 /\ sizes[pid] = <<>>
        /\ arrived[pid] = 0 /\ last[pid] = <<>> /\ whole[pid] = FALSE
        /\ delivered[pid] = <<>>
    BY DEF LinkInit, PoolInit
  <2>2. SenderOK(pid)
    BY <1>1, <2>1 DEF SenderOK
  <2>3. HoldsRun(pid) /\ LastFits(pid) /\ DeliveredOK(pid) /\ WholeOK(pid)
    BY <2>1 DEF HoldsRun, LastFits, DeliveredOK, WholeOK
  <2> QED
    BY <2>2, <2>3 DEF OK
<1> QED
  BY <1>2, <1>3, <1>4 DEF LinkInv, PoolPart

(* every step keeps it, *)
LEMMA LinkInvKept == LinkInv /\ [LinkNext]_linkVars => LinkInv'
<1> SUFFICES ASSUME LinkInv, [LinkNext]_linkVars PROVE LinkInv'
  OBVIOUS
<1>1. ASSUME NEW pid \in PIDs, Transmit(pid) PROVE LinkInv'
  <2>1. PICK start \in BOOLEAN, disc \in BOOLEAN, n \in 0..MaxSeq :
          /\ CanSend(pid, start, disc, n)
          /\ LET p == PayloadPacket(pid, start, disc, n)
             IN  Receive(pid, p) \/ Lose(pid, p) \/ Damage(pid, p)
    BY <1>1 DEF Transmit
  <2> DEFINE p == PayloadPacket(pid, start, disc, n)
  <2>2. Sending(pid, start, disc, n, p)
    BY <2>1 DEF Sending, Receive, Lose, Damage
  <2> HIDE DEF p
  <2> QED
    BY <2>1, <2>2, ReceiveKeeps, LoseKeeps, DamageKeeps DEF p
<1>2. ASSUME NEW pid \in PIDs, Repeat(pid) PROVE LinkInv'
  BY <1>2, RepeatKeeps
<1>3. ASSUME NEW pid \in PIDs, NoPayload(pid) PROVE LinkInv'
  BY <1>3, NoPayloadKeeps
<1>4. CASE Dump
  BY <1>4, DumpKeeps
<1>5. CASE UNCHANGED linkVars
  <2>1. UNCHANGED <<pool, flushed, sent, sizes, arrived, last, whole, delivered>>
    BY <1>5 DEF linkVars
  <2>2. PoolPart'
    BY <2>1 DEF LinkInv, PoolPart, PoolInv, PoolTypeOK, PoolHoldsUnits, IsUnit,
                FlushesUnits, FlushedIsPrefix
  <2>3. LinkTypeOK'
    BY <2>1 DEF LinkInv, LinkTypeOK, PoolTypeOK
  <2>4. \A q \in PIDs : OK(q)'
    BY <2>1, Untouched DEF LinkInv
  <2> QED
    BY <2>2, <2>3, <2>4 DEF LinkInv, PoolPart
<1> QED
  BY <1>1, <1>2, <1>3, <1>4, <1>5 DEF LinkNext

(* so it holds in every behaviour. *)
LEMMA LinkInvInductive == LinkSpec => []LinkInv
BY LinkInvStarts, LinkInvKept, PTL DEF LinkSpec

(* The bookkeeping of the sender, the link and the pool keeps its type.    *)
THEOREM LinkTypeCorrect == LinkSpec => []LinkTypeOK
BY LinkInvInductive, PTL DEF LinkInv

(* Whatever is lost, damaged or repeated, what add and dump return is the  *)
(* beginning of one unit, without a hole.                                  *)
THEOREM FlushesPrefixes == LinkSpec => []FlushedIsPrefix
BY LinkInvInductive, PTL DEF LinkInv

(* As long as a unit arrives undisturbed the pool holds all of it, however *)
(* often the continuity counter wraps and whatever was lost before.        *)
THEOREM UndisturbedAlwaysKept == LinkSpec => []UndisturbedIsKept
<1>1. LinkInv => UndisturbedIsKept
  <2> SUFFICES ASSUME LinkInv, NEW pid \in PIDs, whole[pid]
               PROVE  Labels(pool[pid]) = WholeUnit(pid, Len(sizes[pid]))
    BY DEF UndisturbedIsKept
  <2>1. OK(pid)
    BY DEF LinkInv
  <2>2. pool[pid] # <<>> /\ sent[pid] = arrived[pid]
    BY <2>1 DEF OK, WholeOK
  <2>3. /\ \A k \in 1..Len(pool[pid]) :
             pool[pid][k].unit = pool[pid][1].unit /\ pool[pid][k].idx = k
        /\ pool[pid][1].unit = Len(sizes[pid])
        /\ Len(pool[pid]) = sizes[pid][Len(sizes[pid])]
    BY <2>1, <2>2 DEF OK, HoldsRun
  <2> QED
    BY <2>3 DEF Labels, WholeUnit
<1> QED
  BY <1>1, LinkInvInductive, PTL

-----------------------------------------------------------------------------

(* The numbers of the units whose labels are d. *)
Numbers(d) == [k \in 1..Len(d) |-> d[k][1][1]]

(* What was handed over is whole, so the refinement mapping is its number. *)
MapsToNumbers == GotUnits = [pid \in PIDs |-> Numbers(delivered[pid])]

(* The refinement mapping yields sequences of numbers, before a step *)
LEMMA GotNumbers == LinkInv => MapsToNumbers
<1> SUFFICES ASSUME LinkInv PROVE MapsToNumbers
  OBVIOUS
<1>1. ASSUME NEW pid \in PIDs, NEW k \in 1..Len(delivered[pid])
      PROVE  UnitNumber(pid, delivered[pid][k]) = delivered[pid][k][1][1]
  BY ZenonT(60) DEF LinkInv, OK, DeliveredOK, HandedOver, UnitNumber, WholeUnit
<1> QED
  BY <1>1 DEF MapsToNumbers, GotUnits, Numbers

(* and after it. *)
LEMMA GotNumbersNext == LinkInv' => MapsToNumbers'
BY GotNumbers, PTL

(* Mapping commutes with appending a delivered unit. *)
LEMMA AppendNumber ==
  ASSUME NEW d \in Seq(Seq(Nat \X Nat)), NEW e \in Seq(Nat \X Nat)
  PROVE  Numbers(Append(d, e)) = Append(Numbers(d), e[1][1])
<1>1. /\ Len(Append(d, e)) = Len(d) + 1 /\ Len(d) \in Nat
      /\ \A k \in 1..Len(d) : Append(d, e)[k] = d[k]
      /\ Append(d, e)[Len(d) + 1] = e
  OBVIOUS
<1> QED
  BY <1>1 DEF Numbers

(* A unit that starts closes the one before it. *)
LEMMA ClosedBySending ==
  ASSUME LinkInv, NEW pid \in PIDs, NEW start \in BOOLEAN, NEW disc \in BOOLEAN,
         NEW n \in 0..MaxSeq, NEW p, Sending(pid, start, disc, n, p)
  PROVE  /\ start /\ Len(sizes[pid]) > 0 =>
              /\ ClosedUnits' = [ClosedUnits EXCEPT ![pid] = @ + 1]
              /\ ClosedUnits[pid] + 1 = Len(sizes[pid])
         /\ ~(start /\ Len(sizes[pid]) > 0) => ClosedUnits' = ClosedUnits
<1> DEFINE s == sizes[pid]
           t == sizes'[pid]
<1>1. /\ Len(t) = IF start THEN Len(s) + 1 ELSE Len(s)
      /\ Len(t) > 0 /\ t \in Seq(Nat \ {0})
  BY SendFacts
<1>2. Len(s) \in Nat /\ (s = <<>> <=> Len(s) = 0) /\ t # <<>>
  <2>1. s \in Seq(Nat \ {0})
    BY ZenonT(30) DEF LinkInv, OK, SenderOK
  <2> QED
    BY <1>1, <2>1
<1>3. \A q \in PIDs \ {pid} : ClosedUnits'[q] = ClosedUnits[q]
  BY SendTypes DEF ClosedUnits
<1>4. ClosedUnits'[pid] = Len(t) - 1
  BY <1>2 DEF ClosedUnits
<1>5. ClosedUnits[pid] = IF Len(s) = 0 THEN 0 ELSE Len(s) - 1
  BY <1>2 DEF ClosedUnits
<1>6. /\ ClosedUnits = [q \in PIDs |-> ClosedUnits[q]]
      /\ ClosedUnits' = [q \in PIDs |-> ClosedUnits'[q]]
  BY DEF ClosedUnits
<1> HIDE DEF s, t
<1>7. start /\ Len(s) > 0 => /\ ClosedUnits'[pid] = ClosedUnits[pid] + 1
                             /\ ClosedUnits[pid] + 1 = Len(s)
  BY <1>1, <1>2, <1>4, <1>5
<1>8. ~(start /\ Len(s) > 0) => ClosedUnits'[pid] = ClosedUnits[pid]
  BY <1>1, <1>2, <1>4, <1>5
<1> QED
  BY <1>3, <1>6, <1>7, <1>8 DEF s

(* Sending and receiving a packet is a step of UnitDelivery. *)
LEMMA SendImplements ==
  ASSUME LinkInv, LinkInv',
         NEW pid \in PIDs, NEW start \in BOOLEAN, NEW disc \in BOOLEAN,
         NEW n \in 0..MaxSeq, NEW p, Sending(pid, start, disc, n, p),
         delivered' = delivered \/ Receive(pid, p)
  PROVE  [Units!Next]_(Units!vars)
<1> DEFINE d == delivered[pid]
           e == Labels(pool[pid])
           U == Len(sizes[pid])
<1>1. /\ GotUnits = [q \in PIDs |-> Numbers(delivered[q])]
      /\ GotUnits' = [q \in PIDs |-> Numbers(delivered'[q])]
  BY GotNumbers, GotNumbersNext DEF MapsToNumbers
<1>2. CASE delivered' = delivered
  <2>1. GotUnits' = GotUnits
    BY <1>1, <1>2
  <2>2. CASE start /\ U > 0
    BY <2>1, <2>2, ClosedBySending, ZenonT(60) DEF Units!Next, Units!Lose, Units!Close
  <2>3. CASE ~(start /\ U > 0)
    BY <2>1, <2>3, ClosedBySending DEF Units!vars
  <2> QED
    BY <2>2, <2>3
<1>3. CASE Receive(pid, p) /\ AddFlushed(pool[pid], p) # <<>>
  <2>1. p.disc \/ p.seq < arrived[pid] + CCMod
    BY <1>3, ZenonT(30) DEF Receive
  <2>2. start /\ U > 0 /\ e[1][1] = U /\ AddFlushed(pool[pid], p) = pool[pid]
    <3>1. AddFlushed(pool[pid], p) # <<>>
      BY <1>3, ZenonT(30)
    <3>2. /\ start /\ Len(sizes[pid]) > 0
          /\ AddFlushed(pool[pid], p) = pool[pid]
          /\ Labels(pool[pid])[1][1] = Len(sizes[pid])
      BY <2>1, <3>1, ReceivedFlush
    <3> QED
      BY <3>2, ZenonT(30)
  <2>3. delivered' = [delivered EXCEPT ![pid] = Append(d, e)]
    BY <1>3, <2>2 DEF Receive
  <2>4. /\ d \in Seq(Seq(Nat \X Nat)) /\ e \in Seq(Nat \X Nat)
        /\ delivered \in [PIDs -> Seq(Seq(Nat \X Nat))]
    BY LabelsType, ZenonT(60) DEF LinkInv, LinkTypeOK
  <2>5. ClosedUnits' = [ClosedUnits EXCEPT ![pid] = @ + 1] /\ ClosedUnits[pid] + 1 = U
    BY <2>2, ClosedBySending, ZenonT(60)
  <2> HIDE DEF e, U
  <2>6. Numbers(Append(d, e)) = Append(Numbers(d), U)
    BY <2>2, <2>4, AppendNumber
  <2>7. GotUnits' = [GotUnits EXCEPT ![pid] = Append(@, U)]
    <3>1. GotUnits'[pid] = Append(GotUnits[pid], U)
      BY <1>1, <2>3, <2>4, <2>6
    <3>2. \A q \in PIDs \ {pid} : GotUnits'[q] = GotUnits[q]
      BY <1>1, <2>3, <2>4
    <3> QED
      BY <1>1, <3>1, <3>2
  <2>8. GotUnits' = [GotUnits EXCEPT ![pid] = Append(@, ClosedUnits[pid] + 1)]
    BY <2>5, <2>7, ZenonT(60)
  <2> QED
    BY <2>5, <2>8, ZenonT(60) DEF Units!Next, Units!HandOver, Units!Close
<1>4. CASE Receive(pid, p) /\ AddFlushed(pool[pid], p) = <<>>
  <2>1. delivered' = delivered
    BY <1>4 DEF Receive, LinkInv, LinkTypeOK
  <2> QED
    BY <1>2, <2>1
<1> QED
  BY <1>2, <1>3, <1>4

(* Every step of the link is a step of UnitDelivery, or none. *)
LEMMA StepImplements ==
  LinkInv /\ LinkInv' /\ [LinkNext]_linkVars => [Units!Next]_(Units!vars)
<1> SUFFICES ASSUME LinkInv, LinkInv', [LinkNext]_linkVars
             PROVE  [Units!Next]_(Units!vars)
  OBVIOUS
<1>1. ASSUME NEW pid \in PIDs, Transmit(pid) PROVE [Units!Next]_(Units!vars)
  <2>1. PICK start \in BOOLEAN, disc \in BOOLEAN, n \in 0..MaxSeq :
          /\ CanSend(pid, start, disc, n)
          /\ LET p == PayloadPacket(pid, start, disc, n)
             IN  Receive(pid, p) \/ Lose(pid, p) \/ Damage(pid, p)
    BY <1>1 DEF Transmit
  <2> DEFINE p == PayloadPacket(pid, start, disc, n)
  <2>2. Sending(pid, start, disc, n, p)
    BY <2>1 DEF Sending, Receive, Lose, Damage
  <2>3. delivered' = delivered \/ Receive(pid, p)
    BY <2>1 DEF Lose, Damage
  <2> HIDE DEF p
  <2> QED
    BY <2>2, <2>3, SendImplements
<1>2. ASSUME sizes' = sizes, delivered' = delivered
      PROVE  [Units!Next]_(Units!vars)
  BY <1>2 DEF Units!vars, ClosedUnits, GotUnits, UnitNumber, WholeUnit
<1>3. \/ \E pid \in PIDs : Transmit(pid)
      \/ sizes' = sizes /\ delivered' = delivered
  BY ZenonT(60) DEF LinkNext, linkVars, Repeat, NoPayload, Dump
<1> QED
  BY <1>1, <1>2, <1>3

(* Behind a link that loses, damages and repeats packets the pool keeps    *)
(* UnitDelivery's promise (packet_pool.go add): a unit is handed over      *)
(* whole, at the moment the next one starts, or never.                     *)
THEOREM PoolImplementsUnitDelivery == LinkSpec => ImplementsUnitDelivery
<1>1. LinkInit => Units!Init
  <2> SUFFICES ASSUME LinkInit PROVE Units!Init
    OBVIOUS
  <2>1. ClosedUnits = [pid \in PIDs |-> 0]
    BY DEF LinkInit, ClosedUnits
  <2>2. GotUnits = [pid \in PIDs |-> <<>>]
    BY DEF LinkInit, GotUnits
  <2> QED
    BY <2>1, <2>2 DEF Units!Init
<1> QED
  BY <1>1, StepImplements, LinkInvInductive, PTL
  DEF LinkSpec, ImplementsUnitDelivery, Units!Spec

=============================================================================
