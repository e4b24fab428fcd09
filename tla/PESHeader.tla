----------------------------- MODULE PESHeader -----------------------------
(***************************************************************************)
(* data_pes.go: how a PES header is measured, written and parsed.          *)
(*                                                                         *)
(* The lengths the two sides exchange are modelled as what they are:       *)
(* PES_packet_length is 16 bits wide with 0 for "unspecified", and         *)
(* PES_header_data_length 8 bits.                                          *)
(***************************************************************************)
EXTENDS Layout

CONSTANTS Ext2Sizes,     \* lengths of Extension2Data, at most 127
          PayloadSizes   \* lengths of the PES payload

ASSUME PESSizesAssumption == Ext2Sizes \subseteq 0..127 /\ PayloadSizes \subseteq Nat

(* kind: a video stream, another stream with an optional header, or one of *)
(* the streams without (padding, private stream 2).  pts is                *)
(* PTSDTSIndicator, 1 being the forbidden value.                           *)
PESHeaders ==
  [kind : {"video", "other", "bare"}, pts : 0..3, escr : BOOLEAN,
   esRate : BOOLEAN, trickMode : BOOLEAN, copyInfo : BOOLEAN, crc : BOOLEAN,
   ext : BOOLEAN, private : BOOLEAN, pack : BOOLEAN, counter : BOOLEAN,
   pstd : BOOLEAN, ext2 : BOOLEAN, ext2Size : Ext2Sizes]

LegalHeader(x) ==
  /\ ~x.ext => ~x.private /\ ~x.pack /\ ~x.counter /\ ~x.pstd /\ ~x.ext2
  /\ ~x.ext2 => \A n \in Ext2Sizes : x.ext2Size <= n

-----------------------------------------------------------------------------

hasPESOptionalHeader(x) == x.kind # "bare"

(* calcPESOptionalHeaderDataLength, a uint8: the CRC and the pack header   *)
(* count for nothing, as they are not written.                             *)
calcPESOptionalHeaderDataLength(x) ==
  (Bytes(x.pts = 2, 5) + Bytes(x.pts = 3, 10) + Bytes(x.escr, 6)
     + Bytes(x.esRate, 3) + Bytes(x.trickMode, 1) + Bytes(x.copyInfo, 1)
     + Bytes(x.ext, 1) + Bytes(x.private, 16)
     + Bytes(x.counter, 2) + Bytes(x.pstd, 2)
     + Bytes(x.ext2, 1 + x.ext2Size)) % 256

(* writePESOptionalHeader, after the three bytes of flags and length.  It  *)
(* clears the two flags it does not support.                               *)
FlagsWritten(x) == [x EXCEPT !.crc = FALSE, !.pack = FALSE]

writePESOptionalHeader(x) ==
  Optional(x.pts = 2, "PTS", 5)
    \o (IF x.pts = 3 THEN <<Part("PTS", 5), Part("DTS", 5)>> ELSE <<>>)
    \o Optional(x.escr, "ESCR", 6)
    \o Optional(x.esRate, "ES rate", 3)
    \o Optional(x.trickMode, "trick mode", 1)
    \o Optional(x.copyInfo, "copy info", 1)
    \o Optional(x.ext, "extension flags", 1)
    \o Optional(x.private, "private data", 16)
    \o Optional(x.counter, "sequence counter", 2)
    \o Optional(x.pstd, "P-STD buffer", 2)
    \o Optional(x.ext2, "extension 2 length", 1)
    \o Optional(x.ext2, "extension 2", x.ext2Size)

(* parsePESOptionalHeader, for the flags f it reads. *)
parsePESOptionalHeader(f) ==
  Optional(f.pts \in {2, 3}, "PTS", 5)
    \o Optional(f.pts = 3, "DTS", 5)
    \o Optional(f.escr, "ESCR", 6)
    \o Optional(f.esRate, "ES rate", 3)
    \o Optional(f.trickMode, "trick mode", 1)
    \o Optional(f.copyInfo, "copy info", 1)
    \o Optional(f.crc, "CRC", 2)
    \o Optional(f.ext, "extension flags", 1)
    \o Optional(f.private, "private data", 16)
    \o Optional(f.pack, "pack field length", 1)
    \o Optional(f.counter, "sequence counter", 2)
    \o Optional(f.pstd, "P-STD buffer", 2)
    \o Optional(f.ext2, "extension 2 length", 1)
    \o Optional(f.ext2, "extension 2", f.ext2Size)

calcPESOptionalHeaderLength(x) ==
  IF hasPESOptionalHeader(x) THEN 3 + calcPESOptionalHeaderDataLength(x) ELSE 0

(* writePESHeader's PES_packet_length for a payload of n bytes. *)
PESPacketLength_truncated(x, n) ==
  IF x.kind = "video" THEN 0 ELSE (n + calcPESOptionalHeaderLength(x)) % 65536

PESPacketLength(x, n) ==
  IF x.kind = "video" \/ n + calcPESOptionalHeaderLength(x) > 65535 THEN 0
  ELSE n + calcPESOptionalHeaderLength(x)

PESStart == <<Part("start code", 3), Part("stream id", 1), Part("packet length", 2)>>
OptionalStart == <<Part("header flags", 2), Part("header length", 1)>>

writePESHeader(x) ==
  PESStart \o (IF hasPESOptionalHeader(x)
               THEN OptionalStart \o writePESOptionalHeader(x) ELSE <<>>)

(* The parts parsePESHeader reads. *)
parsePESHeader(x) ==
  PESStart \o (IF hasPESOptionalHeader(x)
               THEN OptionalStart \o parsePESOptionalHeader(FlagsWritten(x)) ELSE <<>>)

=============================================================================
