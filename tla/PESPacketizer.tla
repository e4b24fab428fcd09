--------------------------- MODULE PESPacketizer ---------------------------
(***************************************************************************)
(* The packet loop of muxer.go WriteData, with writePESData and            *)
(* writePacket: how a PES is cut into transport packets of PacketSize      *)
(* bytes, and how a packet that is not full is stuffed.                    *)
(*                                                                         *)
(* Only byte counts are kept.  A MuxerData is                              *)
(*   af       whether it has an adaptation field,                          *)
(*   fixed    the bytes of that field's flags and optional parts,          *)
(*   stuffing the StuffingLength the caller left in it,                    *)
(*   calc     the PES header as calcPESOptionalHeaderLength counts it,     *)
(*   written  the PES header as writePESHeader writes it,                  *)
(*   len      the payload.                                                 *)
(* calc and written differ when the stream has no optional header but the  *)
(* caller set one.                                                         *)
(***************************************************************************)
EXTENDS WrappingCounter, Sequences

CONSTANTS PacketSize,   \* MpegTsPacketSize, 188 in the code
          MaxCalls,     \* bound on the calls of WriteData
          MuxerDatas,   \* what WriteData may be called with
          WriterFails,  \* whether the io.Writer may fail
          Retried       \* what is passed again after a failure

HeaderSize == 4         \* sync byte + mpegTsPacketHeaderSize

ASSUME PacketSizeAssumption == PacketSize \in (HeaderSize + 1)..255
ASSUME MaxCallsAssumption == MaxCalls \in Nat
ASSUME ClientAssumption == WriterFails \in BOOLEAN /\ Retried \subseteq MuxerDatas

(* A legal adaptation field and a legal PES header each fit in a packet.   *)
ASSUME MuxerDatasAssumption ==
  \A d \in MuxerDatas :
    /\ d.af \in BOOLEAN
    /\ d.fixed \in Nat /\ d.stuffing \in Nat
    /\ d.calc \in Nat /\ d.written \in Nat /\ d.len \in Nat
    /\ d.af => /\ d.fixed >= 1
               /\ HeaderSize + 1 + d.fixed + d.stuffing <= PacketSize
    /\ 1 <= d.written /\ d.written <= d.calc
    /\ HeaderSize + d.calc <= PacketSize

VARIABLES
  pc,            \* "idle", or "writing" inside the loop of WriteData
  d,             \* the MuxerData of the current or last call
  stuffing,      \* d.AdaptationField.StuffingLength
  payloadStart,
  writeAf,
  done,          \* payloadBytesWritten
  cc,            \* esContext.cc
  out,           \* the packets the current or last call has written
  result,        \* how the last call ended
  calls          \* how often WriteData was called

pesVars == <<pc, d, stuffing, payloadStart, writeAf, done, cc, out, result,
             calls>>

-----------------------------------------------------------------------------

(* calcPacketAdaptationFieldLength, a uint8. *)
AFLength_withoutStuffing(s) == d.fixed % 256

AFLength(s) == (d.fixed + s) % 256

Available ==
  PacketSize - HeaderSize - (IF writeAf THEN 1 + AFLength(stuffing) ELSE 0)

(* writePESData: the header's bytes in this packet, and the payload's. *)
HeaderBytes_always == d.written

HeaderBytes == IF payloadStart THEN d.written ELSE 0

PayloadBytes_allLeft == d.len - done

PayloadBytes_pastEnd == Available - HeaderBytes

PayloadBytes ==
  IF Available - HeaderBytes > d.len - done
  THEN d.len - done
  ELSE Available - HeaderBytes

(* The space left in the packet, to be filled by the adaptation field. *)
Rest == Available - HeaderBytes - PayloadBytes

(* The adaptation field as writePacketAdaptationField writes it: its       *)
(* length byte, and the bytes it occupies.  The caller's field gets Rest   *)
(* as its StuffingLength, in place of what was there; without a field,     *)
(* newStuffingAdaptationField fills Rest exactly.                          *)
NewStuffing == IF writeAf /\ Rest > 0 THEN Rest ELSE stuffing

StuffingField_short(n) ==
  IF n = 1 THEN [bytes |-> 1, length |-> 0]
  ELSE [bytes |-> n - 1, length |-> n - 2]

StuffingField(n) ==
  IF n = 1 THEN [bytes |-> 1, length |-> 0]
  ELSE [bytes |-> n, length |-> n - 1]

AFWritten ==
  IF writeAf THEN [bytes |-> 1 + d.fixed + NewStuffing,
                   length |-> AFLength(NewStuffing)]
  ELSE IF Rest > 0 THEN StuffingField(Rest)
  ELSE [bytes |-> 0, length |-> 0]

(* writePacket refuses a payload that does not fit, and pads with 0xff.    *)
TooLong == PacketSize - HeaderSize - AFWritten.bytes < HeaderBytes + PayloadBytes

PacketWritten ==
  [cc |-> cc, start |-> payloadStart, af |-> AFWritten, header |-> HeaderBytes,
   from |-> done, to |-> done + PayloadBytes,
   padding |-> PacketSize - HeaderSize - AFWritten.bytes
                 - HeaderBytes - PayloadBytes]

-----------------------------------------------------------------------------

NoData == [af |-> FALSE, fixed |-> 0, stuffing |-> 0,
           calc |-> 1, written |-> 1, len |-> 0]

PESInit ==
  /\ pc = "idle"
  /\ d = NoData
  /\ stuffing = 0
  /\ payloadStart = FALSE
  /\ writeAf = FALSE
  /\ done = 0
  /\ cc = 0
  /\ out = <<>>
  /\ result = "none"
  /\ calls = 0

(* A call of WriteData up to its loop. *)
Start(e, s) ==
  /\ pc = "idle"
  /\ calls < MaxCalls
  /\ calls' = calls + 1
  /\ pc' = "writing"
  /\ d' = e
  /\ stuffing' = s
  /\ payloadStart' = TRUE
  /\ writeAf' = e.af
  /\ done' = 0
  /\ out' = <<>>
  /\ result' = "none"
  /\ UNCHANGED cc

Call(e) == Start(e, e.stuffing)

(* The same MuxerData is passed again after an error. *)
Retry == d \in Retried /\ result = "error" /\ Start(d, stuffing)

HeaderFits == payloadStart => Available >= d.calc

(* A turn of the loop that finds no room for the PES header: a counter     *)
(* value is taken and the adaptation field given up, but no packet is      *)
(* written.                                                                *)
GiveUpAF_keepsAF ==
  /\ pc = "writing" /\ done < d.len /\ ~HeaderFits
  /\ cc' = Wrapped(cc, CCMod)
  /\ stuffing' = IF writeAf THEN Available ELSE stuffing
  /\ UNCHANGED <<pc, d, payloadStart, writeAf, done, out, result, calls>>

GiveUpAF ==
  /\ pc = "writing" /\ done < d.len /\ ~HeaderFits
  /\ cc' = Wrapped(cc, CCMod)
  /\ stuffing' = IF writeAf THEN Available ELSE stuffing
  /\ writeAf' = FALSE
  /\ UNCHANGED <<pc, d, payloadStart, done, out, result, calls>>

(* A turn that writes a packet, or fails to. *)
WriteOne ==
  /\ pc = "writing" /\ done < d.len /\ HeaderFits
  /\ cc' = Wrapped(cc, CCMod)
  /\ stuffing' = NewStuffing
  /\ writeAf' = FALSE
  /\ done' = done + PayloadBytes
  /\ \/ /\ ~TooLong
        /\ out' = Append(out, PacketWritten)
        /\ payloadStart' = FALSE
        /\ UNCHANGED <<pc, result>>
     \/ /\ TooLong
        /\ pc' = "idle"
        /\ result' = "sizeError"
        /\ UNCHANGED <<payloadStart, out>>
     \/ /\ WriterFails
        /\ pc' = "idle"
        /\ result' = "error"
        /\ UNCHANGED <<payloadStart, out>>
  /\ UNCHANGED <<d, calls>>

Finish ==
  /\ pc = "writing" /\ done = d.len
  /\ pc' = "idle"
  /\ stuffing' = 0
  /\ result' = "ok"
  /\ UNCHANGED <<d, payloadStart, writeAf, done, cc, out, calls>>

PESNext == \/ \E e \in MuxerDatas : Call(e)
           \/ Retry \/ GiveUpAF \/ WriteOne \/ Finish

PESSpec == PESInit /\ [][PESNext]_pesVars

(* WriteData is not left in the middle of its loop. *)
PESFairSpec == PESSpec /\ WF_pesVars(GiveUpAF \/ WriteOne \/ Finish)

-----------------------------------------------------------------------------

(* The loop's variables have their types. *)
PESTypeOK ==
  /\ pc \in {"idle", "writing"}
  /\ d \in MuxerDatas \cup {NoData}
  /\ stuffing \in Nat
  /\ payloadStart \in BOOLEAN /\ writeAf \in BOOLEAN
  /\ done \in 0..d.len
  /\ cc \in 0..(CCMod - 1)
  /\ result \in {"none", "ok", "error", "sizeError"}

(* packet.go:338: no packet WriteData builds is refused as too long. *)
NoSizeError == result # "sizeError"

(* muxer.go:234: a packet is filled up by its adaptation field and never   *)
(* by bytes after the payload, which a PES of unspecified length would     *)
(* take for its own.                                                       *)
NoTrailingPadding == \A k \in DOMAIN out : out[k].padding = 0

(* The length byte of every adaptation field is the number of bytes that   *)
(* follow it, so that the reader finds the payload where it starts.        *)
AFLengthTrue ==
  \A k \in DOMAIN out : LET a == out[k].af IN a.bytes > 0 => a.length = a.bytes - 1

(* The packets of a call hold the PES header once, in the first of them,   *)
(* and the payload without gap or overlap; when the call succeeds on a     *)
(* payload that is not empty, all of it.                                   *)
PayloadSplitExactly ==
  /\ \A k \in DOMAIN out : /\ out[k].start = (k = 1)
                           /\ out[k].header = IF k = 1 THEN d.written ELSE 0
                           /\ out[k].from = IF k = 1 THEN 0 ELSE out[k - 1].to
                           /\ out[k].from <= out[k].to
  /\ result = "ok" => (IF out = <<>> THEN 0 ELSE out[Len(out)].to) = d.len

(* Every call of WriteData returns. *)
CallReturns == (pc = "writing") ~> (pc = "idle")

(* packet.go:32 "Sequence number of payload packets": the packets of a     *)
(* call are numbered consecutively, and as long as the writer does not     *)
(* fail the counter is left where the next call goes on with them.         *)
Numbered ==
  /\ \A k \in DOMAIN out : k > 1 => out[k].cc = (out[k - 1].cc + 1) % CCMod
  /\ out # <<>> /\ result \in {"none", "ok"} => cc = (out[Len(out)].cc + 1) % CCMod

=============================================================================
