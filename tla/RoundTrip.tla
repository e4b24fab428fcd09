----------------------------- MODULE RoundTrip -----------------------------
(***************************************************************************)
(* What the library writes, it parses: an adaptation field or a PES header *)
(* in front of a payload, the bits of a header, a DVB time or duration, or *)
(* tables, is written and parsed again.  The parser knows the lengths and  *)
(* the flags that were written, and finds everything else by them.  Tables *)
(* are parsed step by step (PSISection), the rest at once.                 *)
(***************************************************************************)
EXTENDS AdaptationField, PESHeader, PSISection, DVBTime, BitFields

CONSTANTS Times,     \* DVB times: a date, and the second of the day
          Durations  \* DVB durations in seconds

ASSUME TimesAssumption ==
  /\ Times \subseteq [date : Dates, second : 0..86399]
  /\ Durations \subseteq 0..359999

VARIABLES lengths,  \* the values of the length fields in the wire
          parsed    \* what the parser made of it, once it has run

tripVars == <<psiVars, lengths, parsed>>

(* The payload behind an adaptation field is the rest of the packet. *)
GivenFields == {[what |-> "field", it |-> a, payload |-> 1] :
                  a \in {b \in AdaptationFields : LegalField(b)}}
GivenHeaders == {[what |-> "PES", it |-> h, payload |-> n] :
                   h \in {k \in PESHeaders : LegalHeader(k)}, n \in PayloadSizes}
GivenBits == {[what |-> "bits", it |-> x] : x \in Structures}
GivenTimes == {[what |-> "time", it |-> t] : t \in Times}
GivenDurations == {[what |-> "duration", it |-> s] : s \in Durations}

TripInit ==
  /\ lengths = <<>> /\ parsed = <<>>
  /\ \/ PSIInit
     \/ /\ \/ given \in GivenFields \/ given \in GivenHeaders \/ given \in GivenBits
           \/ given \in GivenTimes \/ given \in GivenDurations
        /\ pc = "idle" /\ Blank

(* One thing is written, and later parsed. *)
Writes(what, w, ns) ==
  /\ given.what = what /\ wire = <<>>
  /\ wire' = w /\ lengths' = ns
  /\ UNCHANGED <<given, parsed, pc, offset, start, sectionsEnd, end, loopEnd,
                 descriptorsEnd, found>>

Parses(what, p) ==
  /\ given.what = what /\ wire # <<>> /\ parsed = <<>>
  /\ parsed' = <<p>>
  /\ UNCHANGED <<psiVars, lengths>>

WriteField ==
  Writes("field", writePacketAdaptationField(given.it) \o <<Part("payload", given.payload)>>,
         <<LengthByte(given.it)>>)

(* The payload starts at payloadOffset and goes to the end of the packet. *)
ParseField ==
  Parses("field", [parts |-> parsePacketAdaptationField(lengths[1], given.it),
                   start |-> 1 + lengths[1], end |-> Size(wire)])

(* writePESData of a whole PES. *)
WritePES ==
  Writes("PES", writePESHeader(given.it) \o <<Part("payload", given.payload)>>,
         <<PESPacketLength(given.it, given.payload), calcPESOptionalHeaderDataLength(given.it)>>)

(* parsePESData: where the data starts and where it ends. *)
ParsePES ==
  Parses("PES", [parts |-> parsePESHeader(given.it),
                 start |-> IF hasPESOptionalHeader(given.it) THEN 9 + lengths[2] ELSE 6,
                 end |-> IF lengths[1] > 0 THEN 6 + lengths[1] ELSE Size(wire)])

WriteBits == Writes("bits", BitsWritten(given.it), <<>>)
ParseBits == Parses("bits", BitsParsed(given.it, wire))

WriteTime == Writes("time", writeDVBTime(given.it.date, given.it.second), <<>>)
ParseTime == Parses("time", parseDVBTime(wire))

(* Both forms, one after the other. *)
WriteDuration ==
  Writes("duration", writeDVBDurationSeconds(given.it) \o writeDVBDurationMinutes(given.it), <<>>)
ParseDuration ==
  Parses("duration", [seconds |-> parseDVBDurationSeconds(SubSeq(wire, 1, 3)),
                      minutes |-> parseDVBDurationMinutes(SubSeq(wire, 4, 5))])

TripNext ==
  \/ WriteField \/ ParseField \/ WritePES \/ ParsePES \/ WriteBits \/ ParseBits
  \/ WriteTime \/ ParseTime \/ WriteDuration \/ ParseDuration
  \/ PSINext /\ UNCHANGED <<lengths, parsed>>

TripSpec == TripInit /\ [][TripNext]_tripVars

(* parsePSIData is not left in the middle of a loop. *)
TripFairSpec == TripSpec /\ WF_psiVars(ParseStep)

-----------------------------------------------------------------------------

(* The parser takes for the payload what was written as the payload, no    *)
(* byte more or less: the length byte of an adaptation field, and the two  *)
(* lengths of a PES header, count what the writer puts after them, also    *)
(* where PES_packet_length cannot express it.                              *)
PayloadFound ==
  parsed # <<>> /\ given.what \in {"field", "PES"} =>
    /\ parsed[1].start = StartOf(wire, Len(wire))
    /\ parsed[1].end = Size(wire)

(* Every optional part is read where it was written, and none besides; the *)
(* parts the PES writer does not support are not announced by its flags,   *)
(* and stuffing is taken for stuffing.                                     *)
PartsFound ==
  parsed # <<>> /\ given.what \in {"field", "PES"} =>
    parsed[1].parts = SubSeq(wire, 1, Len(wire) - 1)

(* Of a header, a clock reference or a table's fixed part, the shifts and  *)
(* masks of the parser put every bit of every field back in its place, for *)
(* every value: no reserved or marker bit gets in, none of a neighbour,    *)
(* and a clock reference keeps its 33 bits.                                *)
BitsFound ==
  parsed # <<>> /\ given.what = "bits" =>
    LET bits == {wire[k] : k \in DOMAIN wire}
        width(f) == Cardinality({b \in bits : b[1] = f})
    IN  /\ Len(wire) % 8 = 0
        /\ DOMAIN parsed[1] = {b[1] : b \in bits} \ {"0", "1"}
        /\ \A f \in DOMAIN parsed[1] :
             /\ parsed[1][f] = {<<k, <<f, k>>>> : k \in 0..(width(f) - 1)}
             /\ f = "Base" => width(f) = 33

(* The Modified Julian Day that is written is that of the calendar, for    *)
(* every day 16 bits can express, and the parser's formulas lead from it   *)
(* to the year, month and day; times of day and durations come back.       *)
TimesComputed ==
  parsed # <<>> =>
    /\ given.what = "time" => /\ wire[1] = MJD(given.it.date)
                              /\ parsed[1].computed = given.it.date
                              /\ parsed[1].second = given.it.second
    /\ given.what = "duration" => /\ parsed[1].seconds = given.it
                                  /\ parsed[1].minutes = given.it - (given.it % 60)

(* "parseDVBTime parses a DVB time" (dvb.go:10): the date it returns is    *)
(* the date that was written.                                              *)
DateComesBack ==
  parsed # <<>> /\ given.what = "time" => parsed[1].date = given.it.date

=============================================================================
