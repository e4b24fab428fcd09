----------------------------- MODULE PSISection -----------------------------
(***************************************************************************)
(* data_psi.go, the tables (data_pat.go, data_pmt.go, data_nit.go,         *)
(* data_sdt.go, data_eit.go, data_tot.go) and the lists of descriptors of  *)
(* descriptor.go: sections are written and parsed again by parsePSIData.   *)
(*                                                                         *)
(* PAT and PMT are written by writePSIData, which announces four lengths   *)
(* before it writes what they measure (section, program info, stream info, *)
(* descriptor), each added up by a function of its own.  The library does  *)
(* not write the other tables: theirs are what a sender puts on the wire.  *)
(* The parser finds its way by the lengths alone.  The wire is a layout    *)
(* whose parts may carry a value, and the parser is a machine that reads   *)
(* at an offset.  A section is                                             *)
(*   table    its type; TDT and ST stand for the tables that are known but *)
(*            not parsed, with and without content,                        *)
(*   info     the descriptors of the whole table,                          *)
(*   entries  per program, stream, service or event, its descriptors.      *)
(***************************************************************************)
EXTENDS Descriptors

CONSTANTS PSIDatas   \* what may be written

VARIABLES
  given,         \* the PSIData, and whether the last packet has room left
  wire,          \* what has been written, and the packet's padding, placed
  pc,            \* what the parser reads next
  offset,        \* the offset of its iterator
  start, sectionsEnd, end,   \* offsetStart, offsetSectionsEnd, offsetEnd
  loopEnd,       \* where the loop over the table's entries ends
  descriptorsEnd,            \* offsetEnd of parseDescriptors
  found          \* the sections parsed so far

psiVars == <<given, wire, pc, offset, start, sectionsEnd, end, loopEnd,
             descriptorsEnd, found>>

hasPSISyntaxHeader(table) == table \in {"PAT", "PMT", "NIT", "SDT", "EIT"}
hasCRC32(table) == table \in {"PAT", "PMT", "NIT", "SDT", "EIT", "TOT"}

-----------------------------------------------------------------------------
(* The lengths the writer announces. *)

SumOver(f(_), s) == FoldLeft(LAMBDA n, x : n + f(x), 0, s)

calcDescriptorsLength(ds) == SumOver(LAMBDA d : 2 + calcDescriptorLength(d), ds)

calcPATSectionLength(s) == 4 * Len(s.entries)

calcPMTSectionLength(s) ==
  4 + calcDescriptorsLength(s.info)
    + SumOver(LAMBDA ds : 5 + calcDescriptorsLength(ds), s.entries)

(* generatePAT and generatePMT put the length of the table's own part into *)
(* Header.SectionLength.  The length that is written adds the syntax       *)
(* header of 5 bytes and the CRC of 4 that both tables have.               *)
SectionLength(s) ==
  IF s.table = "PAT" THEN calcPATSectionLength(s) ELSE calcPMTSectionLength(s)

calcPSISectionLength(s) ==
  Bytes(hasPSISyntaxHeader(s.table), 5) + SectionLength(s) + Bytes(hasCRC32(s.table), 4)

-----------------------------------------------------------------------------
(* What the writer writes. *)

Valued(name, size, value) == [name |-> name, size |-> size, value |-> value]

writeDescriptor(d) ==
  <<Valued("descriptor", 2, [it |-> d, length |-> calcDescriptorLength(d)])>>
    \o writeDescriptorBody(d)

writeDescriptorsWithLength(ds) ==
  <<Valued("descriptors", 2, calcDescriptorsLength(ds) % 4096)>>
    \o FlattenSeq([k \in DOMAIN ds |-> writeDescriptor(ds[k])])

writePATSection(s) == [k \in DOMAIN s.entries |-> Part("program", 4)]

(* Entries that are a head of some bytes and a list of descriptors. *)
Entries(s, name, size) ==
  FlattenSeq([k \in DOMAIN s.entries |->
    <<Part(name, size)>> \o writeDescriptorsWithLength(s.entries[k])])

writePMTSection(s) ==
  <<Part("PCR PID", 2)>> \o writeDescriptorsWithLength(s.info) \o Entries(s, "stream", 3)

(* The CRC is kept up by a callback on every byte from the table id on: it *)
(* stands for the number of bytes it covers.  A header whose SectionLength *)
(* is 0 is written alone.                                                  *)
writePSISection(s) ==
  LET header == <<Valued("table id", 1, s.table),
                  Valued("section length", 2, calcPSISectionLength(s) % 4096)>>
      body == header \o <<Part("syntax header", 5)>>
                \o (IF s.table = "PAT" THEN writePATSection(s) ELSE writePMTSection(s))
  IN  IF SectionLength(s) = 0 THEN header
      ELSE body \o <<Valued("CRC", 4, Size(body))>>

(* The tables of other senders.  The running status of a service or event  *)
(* shares a byte with the length of its descriptors.                       *)
ForeignData(s) ==
  CASE s.table = "NIT" ->
         LET streams == Entries(s, "transport stream", 4)
         IN  writeDescriptorsWithLength(s.info)
               \o <<Valued("loop length", 2, Size(streams))>> \o streams
    [] s.table = "SDT" -> <<Part("SDT head", 3)>> \o Entries(s, "service", 3)
    [] s.table = "EIT" -> <<Part("EIT head", 6)>> \o Entries(s, "event", 10)
    [] s.table = "TOT" -> <<Part("UTC time", 5)>> \o writeDescriptorsWithLength(s.info)
    [] s.table = "TDT" -> <<Part("UTC time", 5)>>
    [] s.table = "ST" -> <<>>

ForeignSection(s) ==
  LET data == Optional(hasPSISyntaxHeader(s.table), "syntax header", 5) \o ForeignData(s)
  IN  <<Valued("table id", 1, s.table),
        Valued("section length", 2, Size(data) + Bytes(hasCRC32(s.table), 4))>>
        \o data
        \o (IF hasCRC32(s.table) THEN <<Valued("CRC", 4, 3 + Size(data))>> ELSE <<>>)

(* writePacket fills the packet with 0xff, the null table id. *)
writePSIData ==
  <<Valued("pointer field", 1, given.pointer), Part("filler", given.pointer)>>
    \o FlattenSeq([k \in DOMAIN given.sections |->
         LET s == given.sections[k]
         IN  IF s.table \in {"PAT", "PMT"} THEN writePSISection(s) ELSE ForeignSection(s)])
    \o (IF given.padded THEN <<Valued("table id", 1, "null"), Part("padding", 8)>> ELSE <<>>)

-----------------------------------------------------------------------------

(* Nothing has been written or parsed. *)
Blank ==
  /\ wire = <<>>
  /\ offset = 0 /\ start = 0 /\ sectionsEnd = 0 /\ end = 0 /\ loopEnd = 0
  /\ descriptorsEnd = 0
  /\ found = <<>>

PSIInit == given \in PSIDatas /\ pc = "write" /\ Blank

Write ==
  /\ pc = "write" /\ pc' = "pointer"
  /\ wire' = Placed(writePSIData)
  /\ UNCHANGED <<given, offset, start, sectionsEnd, end, loopEnd, descriptorsEnd, found>>

(* The part named name begins at byte o, and what it holds. *)
Begins(k, o, name) == wire[k].at = o /\ wire[k].part.name = name

IsAt(o, name) == \E k \in DOMAIN wire : Begins(k, o, name)

ValueAt(o, name) == wire[CHOOSE k \in DOMAIN wire : Begins(k, o, name)].part.value

(* The parser only goes on where the bytes are what it takes them for;     *)
(* OnTrack says that they always are.                                      *)

LastFound == found[Len(found)]
Found(s) == found' = [found EXCEPT ![Len(found)] = s]
Table == LastFound.table

(* parsePSIData: the pointer field, and the filler that is skipped. *)
ParsePointer ==
  /\ pc = "pointer" /\ pc' = "section"
  /\ offset' = 1 + ValueAt(0, "pointer field")
  /\ UNCHANGED <<start, sectionsEnd, end, loopEnd, descriptorsEnd, found>>

(* The loop over the sections ends at the null table id or with the bytes. *)
WireEnd == LET last == wire[Len(wire)] IN last.at + last.part.size

HasBytesLeft == offset < WireEnd

StopParsing ==
  /\ pc = "section"
  /\ HasBytesLeft => IsAt(offset, "table id") /\ ValueAt(offset, "table id") = "null"
  /\ pc' = "done"
  /\ UNCHANGED <<offset, start, sectionsEnd, end, loopEnd, descriptorsEnd, found>>

(* Another table id: the offsets are set, and the syntax header is read. *)
ParseSection ==
  /\ pc = "section" /\ HasBytesLeft /\ IsAt(offset, "table id")
  /\ LET table == ValueAt(offset, "table id")
         length == ValueAt(offset + 1, "section length")
     IN  /\ table # "null"
         /\ found' = Append(found, [table |-> table, info |-> <<>>, entries |-> <<>>])
         /\ pc' = IF length = 0 \/ table \in {"TDT", "ST"} THEN "end" ELSE "head"
         /\ start' = offset
         /\ end' = offset + 3 + length
         /\ sectionsEnd' = end' - Bytes(hasCRC32(table), 4)
         /\ offset' = offset + 3 + Bytes(length > 0 /\ hasPSISyntaxHeader(table), 5)
  /\ UNCHANGED <<loopEnd, descriptorsEnd>>

(* The beginning of parseDescriptors at byte o. *)
BeginDescriptors(o) ==
  /\ descriptorsEnd' = o + 2 + ValueAt(o, "descriptors")
  /\ offset' = o + 2

(* The tables up to their loops.  The PAT has no descriptors; in PMT, NIT  *)
(* and TOT those of the whole table come first ("info").                   *)
ParsePAT ==
  /\ pc = "head" /\ Table = "PAT" /\ pc' = "loop"
  /\ loopEnd' = sectionsEnd /\ descriptorsEnd' = offset
  /\ UNCHANGED <<offset, start, sectionsEnd, end, found>>

ParsePMT ==
  /\ pc = "head" /\ Table = "PMT" /\ IsAt(offset, "PCR PID") /\ pc' = "info"
  /\ BeginDescriptors(offset + 2)
  /\ loopEnd' = sectionsEnd
  /\ UNCHANGED <<start, sectionsEnd, end, found>>

ParseNIT ==
  /\ pc = "head" /\ Table = "NIT" /\ pc' = "info"
  /\ BeginDescriptors(offset)
  /\ UNCHANGED <<start, sectionsEnd, end, loopEnd, found>>

(* The loop of the NIT has a length of its own. *)
ParseNITLoopLength ==
  /\ pc = "info" /\ Table = "NIT" /\ offset >= descriptorsEnd
  /\ IsAt(offset, "loop length") /\ pc' = "loop"
  /\ loopEnd' = offset + 2 + ValueAt(offset, "loop length")
  /\ offset' = offset + 2 /\ descriptorsEnd' = offset + 2
  /\ UNCHANGED <<start, sectionsEnd, end, found>>

ParseTOT ==
  /\ pc = "head" /\ Table = "TOT" /\ IsAt(offset, "UTC time") /\ pc' = "info"
  /\ BeginDescriptors(offset + 5)
  /\ loopEnd' = offset'
  /\ UNCHANGED <<start, sectionsEnd, end, found>>

ParseHead(table, name, size) ==
  /\ pc = "head" /\ Table = table /\ IsAt(offset, name) /\ pc' = "loop"
  /\ offset' = offset + size /\ descriptorsEnd' = offset + size
  /\ loopEnd' = sectionsEnd
  /\ UNCHANGED <<start, sectionsEnd, end, found>>

ParseSDT == ParseHead("SDT", "SDT head", 3)
ParseEIT == ParseHead("EIT", "EIT head", 6)

(* The loops over entries. *)
InLoop(table) ==
  /\ pc \in {"info", "loop", "entry"} /\ Table = table /\ (table = "NIT" => pc # "info")
  /\ offset >= descriptorsEnd /\ offset < loopEnd

(* parsePATSection, one program. *)
ParseProgram ==
  /\ InLoop("PAT") /\ IsAt(offset, "program")
  /\ offset' = offset + 4
  /\ Found([LastFound EXCEPT !.entries = Append(@, <<>>)])
  /\ UNCHANGED <<pc, start, sectionsEnd, end, loopEnd, descriptorsEnd>>

(* One turn of another table's loop, up to the descriptors ("entry"). *)
ParseEntry(table, name, size) ==
  /\ InLoop(table) /\ IsAt(offset, name)
  /\ pc' = "entry"
  /\ BeginDescriptors(offset + size)
  /\ Found([LastFound EXCEPT !.entries = Append(@, <<>>)])
  /\ UNCHANGED <<start, sectionsEnd, end, loopEnd>>

ParseStream == ParseEntry("PMT", "stream", 3)
ParseTransportStream == ParseEntry("NIT", "transport stream", 4)
(* A byte is read for the running status and given back by Skip(-1). *)
ParseService == ParseEntry("SDT", "service", 3)
ParseEvent == ParseEntry("EIT", "event", 10)

(* One turn of parseDescriptors: the body is read when there is one, and   *)
(* the end of the descriptor is sought whatever was read.  A turn of a     *)
(* loop that reads nothing changes nothing: a parser that Spins stays      *)
(* where it is.                                                            *)
ParseDescriptor ==
  /\ pc \in {"info", "entry"} /\ offset < descriptorsEnd /\ IsAt(offset, "descriptor")
  /\ LET h == ValueAt(offset, "descriptor")
         d == [tag |-> h.it.tag,
               parts |-> IF h.length > 0 THEN newDescriptor(h.it, h.length) ELSE <<>>]
     IN  /\ ~Spins(h.it)
         /\ offset' = offset + 2 + h.length
         /\ \/ pc = "info" /\ Found([LastFound EXCEPT !.info = Append(@, d)])
            \/ /\ pc = "entry"
               /\ Found([LastFound EXCEPT !.entries[Len(LastFound.entries)] = Append(@, d)])
  /\ UNCHANGED <<pc, start, sectionsEnd, end, loopEnd, descriptorsEnd>>

(* The table's loop is over, or it has none.  The CRC is looked up at      *)
(* sectionsEnd and must cover what precedes it; then the iterator is moved *)
(* to the section's end.                                                   *)
EndSection ==
  /\ \/ pc = "end"
     \/ /\ pc \in {"info", "loop", "entry"} /\ ~(pc = "info" /\ Table = "NIT")
        /\ offset >= descriptorsEnd /\ offset >= loopEnd
  /\ pc # "end" /\ hasCRC32(Table) =>
       IsAt(sectionsEnd, "CRC") /\ ValueAt(sectionsEnd, "CRC") = sectionsEnd - start
  /\ pc' = "section"
  /\ offset' = end
  /\ UNCHANGED <<start, sectionsEnd, end, loopEnd, descriptorsEnd, found>>

ParseStep ==
  /\ \/ ParsePointer \/ StopParsing \/ ParseSection \/ EndSection \/ ParseDescriptor
     \/ ParsePAT \/ ParsePMT \/ ParseNIT \/ ParseNITLoopLength \/ ParseTOT
     \/ ParseSDT \/ ParseEIT
     \/ ParseProgram \/ ParseStream \/ ParseTransportStream \/ ParseService \/ ParseEvent
  /\ UNCHANGED <<given, wire>>

PSINext == Write \/ ParseStep

-----------------------------------------------------------------------------

(* What the loop over a table's entries expects, and what follows it. *)
EntryName ==
  CASE Table = "PAT" -> "program" [] Table = "PMT" -> "stream"
    [] Table = "NIT" -> "transport stream" [] Table = "SDT" -> "service"
    [] Table = "EIT" -> "event" [] OTHER -> "CRC"

(* Wherever parsePSIData, a table's parser or parseDescriptors starts to   *)
(* read, what they expect there begins there: the end of a loop falls on   *)
(* the end of what was written for it, neither short of it nor past it.    *)
OnTrack ==
  /\ pc = "section" => offset = WireEnd \/ IsAt(offset, "table id")
  /\ pc \in {"info", "loop", "entry"} =>
       IsAt(offset, CASE offset < descriptorsEnd -> "descriptor"
                      [] offset >= descriptorsEnd /\ pc = "info" /\ Table = "NIT" -> "loop length"
                      [] OTHER -> IF offset < loopEnd THEN EntryName ELSE "CRC")

(* The sections as a parser should find them. *)
Bodies(ds) == [k \in DOMAIN ds |-> [tag |-> ds[k].tag, parts |-> writeDescriptorBody(ds[k])]]

Contents(ss) ==
  [k \in DOMAIN ss |->
     [table |-> ss[k].table, info |-> Bodies(ss[k].info),
      entries |-> [j \in DOMAIN ss[k].entries |-> Bodies(ss[k].entries[j])]]]

(* Every PSIData that was written is parsed to its end: the same sections  *)
(* with the same programs, streams, services and events, in each of them   *)
(* the same descriptors, and in those the parts that were written; none of *)
(* them added by the padding.                                              *)
SectionsComeBack ==
  pc = "pointer" ~> pc = "done" /\ found = Contents(given.sections)

=============================================================================
