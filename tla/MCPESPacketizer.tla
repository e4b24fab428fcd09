-------------------------- MODULE MCPESPacketizer --------------------------
(* PESPacketizer for TLC at the real packet size: payloads that end at,    *)
(* before and after a packet's end, with PES headers and adaptation fields *)
(* that leave much, little or no room.                                     *)
EXTENDS PESPacketizer

Data(fixed, s, h, n) ==
  [af |-> fixed > 0, fixed |-> fixed, stuffing |-> s,
   calc |-> h, written |-> h, len |-> n]

Headers == {6, 14, 179}
FixedParts == {1, 7, 8, 169, 170, 177, 183}

(* The payload bytes that fit in the first packet, if any do. *)
Fits(fixed, h) == 184 - h - (IF fixed > 0 THEN 1 + fixed ELSE 0)

Lengths(fixed, h) ==
  {n \in {0, 1, 360} \cup {Fits(f, h) + k + 184 * m :
                           f \in {0, fixed}, k \in -2..1, m \in 0..1} : n >= 0}

(* The caller leaves no stuffing in the adaptation field. *)
AsCounted ==
  UNION {{Data(f, 0, h, n) : n \in Lengths(f, h)} :
           f \in FixedParts \cup {0}, h \in Headers}

(* A stream without an optional header, though the caller set one. *)
Overcounted ==
  UNION {{[Data(f, 0, 14, n) EXCEPT !.written = 6] : n \in Lengths(f, 6)} :
           f \in {0, 1, 8, 169, 170, 177}}

CleanDatas == AsCounted \cup Overcounted

(* Adaptation fields as the demuxer returns them, with their stuffing. *)
ParsedDatas ==
  UNION {{Data(f, s, 14, n) : s \in {0, 5}, n \in Lengths(f, 14)} : f \in {1, 8}}
=============================================================================
