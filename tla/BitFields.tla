----------------------------- MODULE BitFields -----------------------------
(***************************************************************************)
(* The bits of headers, flags and clock references, in packet.go,          *)
(* data_pes.go, data_psi.go, data_pat.go and data_pmt.go.                  *)
(*                                                                         *)
(* The writer appends bits, the parser shifts and masks bytes.  A bit on   *)
(* the wire is <<field, k>>, bit k of a field's value whatever the value   *)
(* is, or one of the constants; so one behaviour stands for all values.    *)
(***************************************************************************)
EXTENDS Integers, Sequences, FiniteSets

(* b.WriteN(field >> from, n), and a whole field; booleans are fields of   *)
(* one bit.                                                                *)
Shifted(field, from, n) == [k \in 1..n |-> <<field, from + n - k>>]
Field(field, n) == Shifted(field, 0, n)
Flag(field) == Field(field, 1)

(* Reserved and marker bits, and the bits of the constants written. *)
One == <<"1", 0>>
Zero == <<"0", 0>>
Ones(n) == [k \in 1..n |-> One]

(* bs[byte] >> right & (2^width - 1) << left, one term of a parsed value. *)
Term(byte, right, width, left) ==
  [byte |-> byte, right |-> right, width |-> width, left |-> left]

(* What the terms make of the bits: which bit ends up in which place. *)
Value(bits, terms) ==
  UNION {{<<t.left + k, bits[8 * t.byte + 8 - (t.right + k)]>> : k \in 0..(t.width - 1)} :
           t \in terms}

(* A single masked bit, and one whole byte. *)
Bit(bits, byte, right) == Value(bits, {Term(byte, right, 1, 0)})
Byte(bits, byte) == Value(bits, {Term(byte, 0, 8, 0)})

(* value >> n and value & (2^n - 1). *)
Above(value, n) == {<<p[1] - n, p[2]>> : p \in {q \in value : q[1] >= n}}
Below(value, n) == {p \in value : p[1] < n}

-----------------------------------------------------------------------------
(* The packet header. *)

writePacketHeader ==
  Flag("TransportErrorIndicator") \o Flag("PayloadUnitStartIndicator")
    \o Flag("TransportPriority") \o Field("PID", 13)
    \o Field("TransportScramblingControl", 2) \o Flag("HasAdaptationField")
    \o Flag("HasPayload") \o Field("ContinuityCounter", 4)

parsePacketHeader(bits) ==
  [ContinuityCounter |-> Value(bits, {Term(2, 0, 4, 0)}),
   HasAdaptationField |-> Bit(bits, 2, 5),
   HasPayload |-> Bit(bits, 2, 4), PayloadUnitStartIndicator |-> Bit(bits, 0, 6),
   PID |-> Value(bits, {Term(0, 0, 5, 8), Term(1, 0, 8, 0)}),
   TransportErrorIndicator |-> Bit(bits, 0, 7), TransportPriority |-> Bit(bits, 0, 5),
   TransportScramblingControl |-> Value(bits, {Term(2, 6, 2, 0)})]

(* The flags of an adaptation field and of its extension; the first has    *)
(* three flags for no part of the field.                                   *)
WriteFieldFlags ==
  Flag("DiscontinuityIndicator") \o Flag("RandomAccessIndicator")
    \o Flag("ElementaryStreamPriorityIndicator") \o Flag("HasPCR") \o Flag("HasOPCR")
    \o Flag("HasSplicingCountdown") \o Flag("HasTransportPrivateData")
    \o Flag("HasAdaptationExtensionField")

ParseFieldFlags(bits) ==
  [DiscontinuityIndicator |-> Bit(bits, 0, 7), RandomAccessIndicator |-> Bit(bits, 0, 6),
   ElementaryStreamPriorityIndicator |-> Bit(bits, 0, 5), HasPCR |-> Bit(bits, 0, 4),
   HasOPCR |-> Bit(bits, 0, 3), HasSplicingCountdown |-> Bit(bits, 0, 2),
   HasTransportPrivateData |-> Bit(bits, 0, 1),
   HasAdaptationExtensionField |-> Bit(bits, 0, 0)]

(* The parts of the extension. *)
WriteExtensionParts ==
  Flag("HasLegalTimeWindow") \o Flag("HasPiecewiseRate") \o Flag("HasSeamlessSplice")
    \o Ones(5)
    \o Flag("LegalTimeWindowIsValid") \o Field("LegalTimeWindowOffset", 15)
    \o Ones(2) \o Field("PiecewiseRate", 22)

ParseExtensionParts(bits) ==
  [HasLegalTimeWindow |-> Bit(bits, 0, 7), HasPiecewiseRate |-> Bit(bits, 0, 6),
   HasSeamlessSplice |-> Bit(bits, 0, 5), LegalTimeWindowIsValid |-> Bit(bits, 1, 7),
   LegalTimeWindowOffset |-> Value(bits, {Term(1, 0, 7, 8), Term(2, 0, 8, 0)}),
   PiecewiseRate |-> Value(bits, {Term(3, 0, 6, 16), Term(4, 0, 8, 8), Term(5, 0, 8, 0)})]

-----------------------------------------------------------------------------
(* Clock references. *)

(* 33 bits in three groups, behind four bits of the caller's. *)
writePTSOrDTS(flag) ==
  flag \o Shifted("Base", 30, 3) \o <<One>> \o Shifted("Base", 15, 15) \o <<One>>
    \o Shifted("Base", 0, 15) \o <<One>>

parsePTSOrDTS(bits) ==
  [Base |-> Value(bits, {Term(0, 1, 3, 30), Term(1, 0, 8, 22), Term(2, 1, 7, 15),
                         Term(3, 0, 8, 7), Term(4, 1, 7, 0)})]

(* The splice type is taken from the byte the time begins in. *)
parseSplice(bits) ==
  [SpliceType |-> Value(bits, {Term(0, 4, 4, 0)}), Base |-> parsePTSOrDTS(bits).Base]

writeESCR ==
  Ones(2) \o Shifted("Base", 30, 3) \o <<One>> \o Shifted("Base", 15, 15) \o <<One>>
    \o Shifted("Base", 0, 15) \o <<One>> \o Field("Extension", 9) \o <<One>>

(* A number of 42 bits, of which the base is the upper 33. *)
parseESCR_markerKept(bits) ==
  LET escr == Value(bits, {Term(0, 3, 3, 39), Term(0, 0, 2, 37), Term(1, 0, 8, 29),
                           Term(2, 3, 5, 24), Term(2, 0, 3, 22), Term(3, 0, 8, 14),
                           Term(4, 3, 5, 9), Term(4, 0, 2, 7), Term(5, 1, 7, 0)})
  IN  [Base |-> Above(escr, 9), Extension |-> Below(escr, 9)]

parseESCR(bits) ==
  LET escr == Value(bits, {Term(0, 3, 3, 39), Term(0, 0, 2, 37), Term(1, 0, 8, 29),
                           Term(2, 3, 5, 24), Term(2, 0, 2, 22), Term(3, 0, 8, 14),
                           Term(4, 3, 5, 9), Term(4, 0, 2, 7), Term(5, 1, 7, 0)})
  IN  [Base |-> Above(escr, 9), Extension |-> Below(escr, 9)]

writePCR == Field("Base", 33) \o Ones(6) \o Field("Extension", 9)

parsePCR(bits) ==
  LET pcr == Value(bits, {Term(k, 0, 8, 40 - 8 * k) : k \in 0..5})
  IN  [Base |-> Above(pcr, 15), Extension |-> Below(pcr, 9)]

-----------------------------------------------------------------------------
(* The optional header of a PES: its two bytes of flags, of which the      *)
(* writer clears the one for the CRC; and its small parts.                 *)

WriteOptionalFlags ==
  <<One, Zero>> \o Field("ScramblingControl", 2) \o Flag("Priority")
    \o Flag("DataAlignmentIndicator") \o Flag("IsCopyrighted") \o Flag("IsOriginal")
    \o Field("PTSDTSIndicator", 2) \o Flag("HasESCR") \o Flag("HasESRate")
    \o Flag("HasDSMTrickMode") \o Flag("HasAdditionalCopyInfo") \o <<Zero>>
    \o Flag("HasExtension")

ParseOptionalFlags(bits) ==
  [ScramblingControl |-> Value(bits, {Term(0, 4, 2, 0)}), Priority |-> Bit(bits, 0, 3),
   DataAlignmentIndicator |-> Bit(bits, 0, 2), IsCopyrighted |-> Bit(bits, 0, 1),
   IsOriginal |-> Bit(bits, 0, 0), PTSDTSIndicator |-> Value(bits, {Term(1, 6, 2, 0)}),
   HasESCR |-> Bit(bits, 1, 5), HasESRate |-> Bit(bits, 1, 4),
   HasDSMTrickMode |-> Bit(bits, 1, 3), HasAdditionalCopyInfo |-> Bit(bits, 1, 2),
   HasExtension |-> Bit(bits, 1, 0)]

(* The rate and, as if they followed at once, the copy info. *)
WriteRateAndCopyInfo ==
  <<One>> \o Field("ESRate", 22) \o <<One>> \o <<One>> \o Field("AdditionalCopyInfo", 7)

ParseRateAndCopyInfo(bits) ==
  [ESRate |-> Value(bits, {Term(0, 0, 7, 15), Term(1, 0, 8, 7), Term(2, 1, 7, 0)}),
   AdditionalCopyInfo |-> Value(bits, {Term(3, 0, 7, 0)})]

(* The trick modes that have fields, by what has them. *)
TrickModes == {"fast", "freeze", "slow", "other"}

writeDSMTrickMode(mode) ==
  Field("TrickModeControl", 3)
    \o (CASE mode = "fast" -> Field("FieldID", 2) \o Flag("IntraSliceRefresh")
                                \o Field("FrequencyTruncation", 2)
          [] mode = "freeze" -> Field("FieldID", 2) \o Ones(3)
          [] mode = "slow" -> Field("RepeatControl", 5)
          [] mode = "other" -> Ones(5))

parseDSMTrickMode(mode, bits) ==
  LET control == Value(bits, {Term(0, 5, 3, 0)})
      field == Value(bits, {Term(0, 3, 2, 0)})
  IN  CASE mode = "fast" ->
             [TrickModeControl |-> control, FieldID |-> field,
              IntraSliceRefresh |-> Bit(bits, 0, 2),
              FrequencyTruncation |-> Value(bits, {Term(0, 0, 2, 0)})]
        [] mode = "freeze" -> [TrickModeControl |-> control, FieldID |-> field]
        [] mode = "slow" -> [TrickModeControl |-> control,
                             RepeatControl |-> Value(bits, {Term(0, 0, 5, 0)})]
        [] mode = "other" -> [TrickModeControl |-> control]

(* The flags of the PES extension, of which the writer clears the one for  *)
(* the pack header; the sequence counter; the P-STD buffer.                *)
WriteExtensionFlags ==
  Flag("HasPrivateData") \o <<Zero>> \o Flag("HasProgramPacketSequenceCounter")
    \o Flag("HasPSTDBuffer") \o Ones(3) \o Flag("HasExtension2")
    \o <<One>> \o Field("PacketSequenceCounter", 7)
    \o <<One>> \o Field("MPEG1OrMPEG2ID", 1) \o Field("OriginalStuffingLength", 6)
    \o <<Zero, One>> \o Field("PSTDBufferScale", 1) \o Field("PSTDBufferSize", 13)

ParseExtensionFlags(bits) ==
  [HasPrivateData |-> Bit(bits, 0, 7), HasProgramPacketSequenceCounter |-> Bit(bits, 0, 5),
   HasPSTDBuffer |-> Bit(bits, 0, 4), HasExtension2 |-> Bit(bits, 0, 0),
   PacketSequenceCounter |-> Value(bits, {Term(1, 0, 7, 0)}),
   MPEG1OrMPEG2ID |-> Bit(bits, 2, 6),
   OriginalStuffingLength |-> Value(bits, {Term(2, 0, 6, 0)}),
   PSTDBufferScale |-> Bit(bits, 3, 5),
   PSTDBufferSize |-> Value(bits, {Term(3, 0, 5, 8), Term(4, 0, 8, 0)})]

-----------------------------------------------------------------------------
(* The tables. *)

WriteSectionHeader ==
  Field("TableID", 8) \o Flag("SectionSyntaxIndicator") \o Flag("PrivateBit")
    \o Ones(2) \o Field("SectionLength", 12)

parsePSISectionHeader(bits) ==
  [TableID |-> Byte(bits, 0), SectionSyntaxIndicator |-> Bit(bits, 1, 7),
   PrivateBit |-> Bit(bits, 1, 6),
   SectionLength |-> Value(bits, {Term(1, 0, 4, 8), Term(2, 0, 8, 0)})]

writePSISectionSyntaxHeader ==
  Field("TableIDExtension", 16) \o Ones(2) \o Field("VersionNumber", 5)
    \o Flag("CurrentNextIndicator") \o Field("SectionNumber", 8)
    \o Field("LastSectionNumber", 8)

parsePSISectionSyntaxHeader(bits) ==
  [TableIDExtension |-> Value(bits, {Term(0, 0, 8, 8), Term(1, 0, 8, 0)}),
   VersionNumber |-> Value(bits, {Term(2, 1, 5, 0)}),
   CurrentNextIndicator |-> Bit(bits, 2, 0), SectionNumber |-> Byte(bits, 3),
   LastSectionNumber |-> Byte(bits, 4)]

(* A program of a PAT, and a stream of a PMT behind the PCR PID. *)
WriteProgram == Field("ProgramNumber", 16) \o Ones(3) \o Field("ProgramMapID", 13)

ParseProgramBits(bits) ==
  [ProgramMapID |-> Value(bits, {Term(2, 0, 5, 8), Term(3, 0, 8, 0)}),
   ProgramNumber |-> Value(bits, {Term(0, 0, 8, 8), Term(1, 0, 8, 0)})]

WriteStream ==
  Ones(3) \o Field("PCRPID", 13) \o Field("StreamType", 8) \o Ones(3)
    \o Field("ElementaryPID", 13)

ParseStreamBits(bits) ==
  [PCRPID |-> Value(bits, {Term(0, 0, 5, 8), Term(1, 0, 8, 0)}),
   StreamType |-> Byte(bits, 2),
   ElementaryPID |-> Value(bits, {Term(3, 0, 5, 8), Term(4, 0, 8, 0)})]

-----------------------------------------------------------------------------
(* All of them. *)

Structures ==
  {"packet header", "field flags", "extension parts", "PTS", "DTS", "splice", "ESCR", "PCR",
   "optional flags", "rate and copy info", "extension flags", "section header",
   "syntax header", "program", "stream"} \cup TrickModes

BitsWritten(x) ==
  CASE x = "packet header" -> writePacketHeader
    [] x = "field flags" -> WriteFieldFlags
    [] x = "extension parts" -> WriteExtensionParts
    [] x = "PTS" -> writePTSOrDTS(<<Zero, Zero, One, Zero>>)
    [] x = "DTS" -> writePTSOrDTS(<<Zero, Zero, Zero, One>>)
    [] x = "splice" -> writePTSOrDTS(Field("SpliceType", 4))
    [] x = "ESCR" -> writeESCR
    [] x = "PCR" -> writePCR
    [] x = "optional flags" -> WriteOptionalFlags
    [] x = "rate and copy info" -> WriteRateAndCopyInfo
    [] x = "extension flags" -> WriteExtensionFlags
    [] x = "section header" -> WriteSectionHeader
    [] x = "syntax header" -> writePSISectionSyntaxHeader
    [] x = "program" -> WriteProgram
    [] x = "stream" -> WriteStream
    [] x \in TrickModes -> writeDSMTrickMode(x)

BitsParsed(x, bits) ==
  CASE x = "packet header" -> parsePacketHeader(bits)
    [] x = "field flags" -> ParseFieldFlags(bits)
    [] x = "extension parts" -> ParseExtensionParts(bits)
    [] x \in {"PTS", "DTS"} -> parsePTSOrDTS(bits)
    [] x = "splice" -> parseSplice(bits)
    [] x = "ESCR" -> parseESCR(bits)
    [] x = "PCR" -> parsePCR(bits)
    [] x = "optional flags" -> ParseOptionalFlags(bits)
    [] x = "rate and copy info" -> ParseRateAndCopyInfo(bits)
    [] x = "extension flags" -> ParseExtensionFlags(bits)
    [] x = "section header" -> parsePSISectionHeader(bits)
    [] x = "syntax header" -> parsePSISectionSyntaxHeader(bits)
    [] x = "program" -> ParseProgramBits(bits)
    [] x = "stream" -> ParseStreamBits(bits)
    [] x \in TrickModes -> parseDSMTrickMode(x, bits)

=============================================================================
