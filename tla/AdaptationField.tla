-------------------------- MODULE AdaptationField --------------------------
(***************************************************************************)
(* packet.go: how an adaptation field is measured, written and parsed.     *)
(*                                                                         *)
(* Three functions of the code walk over the optional parts, each with its *)
(* own list of cases: calcPacketAdaptationFieldLength,                     *)
(* writePacketAdaptationField and parsePacketAdaptationField.  RoundTrip   *)
(* puts them together.                                                     *)
(***************************************************************************)
EXTENDS Layout

CONSTANTS PrivateSizes,  \* lengths of the transport private data
          Stuffings      \* values of StuffingLength

ASSUME SizesAssumption == PrivateSizes \subseteq Nat /\ Stuffings \subseteq Nat

(* TransportPrivateDataLength is the length of TransportPrivateData. *)
AdaptationFields ==
  [pcr : BOOLEAN, opcr : BOOLEAN, splice : BOOLEAN, private : BOOLEAN,
   privateSize : PrivateSizes, ext : BOOLEAN, ltw : BOOLEAN, pwr : BOOLEAN,
   seamless : BOOLEAN, stuffing : Stuffings, oneByte : BOOLEAN]

(* Parts that are absent have no content, and one byte of stuffing is all  *)
(* there is when it is there.                                              *)
LegalField(a) ==
  /\ ~a.private => \A n \in PrivateSizes : a.privateSize <= n
  /\ ~a.ext => ~a.ltw /\ ~a.pwr /\ ~a.seamless
  /\ a.oneByte => /\ ~a.pcr /\ ~a.opcr /\ ~a.splice /\ ~a.private /\ ~a.ext
                  /\ \A n \in Stuffings : a.stuffing <= n

-----------------------------------------------------------------------------

calcPacketAdaptationFieldExtensionLength(a) ==
  1 + Bytes(a.ltw, 2) + Bytes(a.pwr, 3) + Bytes(a.seamless, 5)

(* A uint8. *)
calcPacketAdaptationFieldLength(a) ==
  (1 + Bytes(a.pcr, 6) + Bytes(a.opcr, 6)
     + Bytes(a.splice, 1) + Bytes(a.private, 1 + a.privateSize)
     + Bytes(a.ext, 1 + calcPacketAdaptationFieldExtensionLength(a)) + a.stuffing) % 256

(* The length byte; a field that is one byte of stuffing is nothing else.  *)
LengthByte(a) == IF a.oneByte THEN 0 ELSE calcPacketAdaptationFieldLength(a)

writePacketAdaptationFieldExtension(a) ==
  <<Part("extension length", 1), Part("extension flags", 1)>>
    \o Optional(a.ltw, "legal time window", 2)
    \o Optional(a.pwr, "piecewise rate", 3)
    \o Optional(a.seamless, "DTS next access unit", 5)

writePacketAdaptationField(a) ==
  IF a.oneByte THEN <<Part("field length", 1)>>
  ELSE <<Part("field length", 1), Part("field flags", 1)>>
         \o Optional(a.pcr, "PCR", 6)
         \o Optional(a.opcr, "OPCR", 6)
         \o Optional(a.splice, "splice countdown", 1)
         \o (IF a.private THEN <<Part("private length", 1)>>
                                 \o Optional(a.privateSize > 0, "private data", a.privateSize)
             ELSE <<>>)
         \o (IF a.ext THEN writePacketAdaptationFieldExtension(a) ELSE <<>>)
         \o Optional(a.stuffing > 0, "stuffing", a.stuffing)

(* The parts parsePacketAdaptationField reads when the length byte is n    *)
(* and the flags, the private length and the extension flags are a's.      *)
PartsRead_extensionFirst(n, a) ==
  <<Part("field length", 1)>>
    \o (IF n = 0 THEN <<>>
        ELSE <<Part("field flags", 1)>>
               \o Optional(a.pcr, "PCR", 6)
               \o Optional(a.opcr, "OPCR", 6)
               \o Optional(a.splice, "splice countdown", 1)
               \o (IF a.ext THEN writePacketAdaptationFieldExtension(a) ELSE <<>>)
               \o Optional(a.private, "private length", 1)
               \o Optional(a.private /\ a.privateSize > 0, "private data", a.privateSize))

PartsRead(n, a) ==
  <<Part("field length", 1)>>
    \o (IF n = 0 THEN <<>>
        ELSE <<Part("field flags", 1)>>
               \o Optional(a.pcr, "PCR", 6)
               \o Optional(a.opcr, "OPCR", 6)
               \o Optional(a.splice, "splice countdown", 1)
               \o Optional(a.private, "private length", 1)
               \o Optional(a.private /\ a.privateSize > 0, "private data", a.privateSize)
               \o Optional(a.ext, "extension length", 1)
               \o Optional(a.ext, "extension flags", 1)
               \o Optional(a.ext /\ a.ltw, "legal time window", 2)
               \o Optional(a.ext /\ a.pwr, "piecewise rate", 3)
               \o Optional(a.ext /\ a.seamless, "DTS next access unit", 5))

(* What is left of the field's length after them is StuffingLength. *)
parsePacketAdaptationField(n, a) ==
  LET stuffing == 1 + n - Size(PartsRead(n, a))
  IN  PartsRead(n, a) \o Optional(stuffing > 0, "stuffing", stuffing)

=============================================================================
