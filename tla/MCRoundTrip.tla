---------------------------- MODULE MCRoundTrip ----------------------------
(* RoundTrip for TLC: every combination of flags, every kind of            *)
(* descriptor, every table, every date.                                    *)
EXTENDS RoundTrip

Plain(tags) == {[tag |-> t] : t \in tags}
WithText(tags, ns) == {[tag |-> t, text |-> n] : t \in tags, n \in ns}
WithItems(tags, ns) == {[tag |-> t, items |-> n] : t \in tags, n \in ns}
WithFlags(tag, flags, ns) ==
  {[tag |-> tag, has |-> has, text |-> n] : has \in SUBSET flags, n \in ns}

VBI(services) == [tag |-> "VBI data", items |-> services]
VBIService == [known |-> TRUE, count |-> 1]

(* Bodies up to the 255 bytes that can be announced. *)
MCDescriptors ==
  Plain({"AVC video", "data stream alignment", "ISO639", "maximum bitrate",
         "private data indicator", "private data specifier", "stream identifier"})
    \cup WithText({"network name", "user defined", "unknown"}, {0, 1, 255})
    \cup WithText({"component"}, {0, 249})
    \cup WithText({"registration"}, {0, 251})
    \cup WithItems({"content", "local time offset", "parental rating", "subtitling",
                    "teletext", "VBI teletext"}, {0, 1, 4})
    \cup WithFlags("AC3", AC3Flags, {0, 3})
    \cup WithFlags("enhanced AC3", EnhancedAC3Flags \cup {"mix info"}, {3})
    \cup {[tag |-> t, name |-> n, text |-> m] :
            t \in {"service", "short event"}, n \in {0, 1, 125}, m \in {0, 2, 125}}
    \cup {[tag |-> "extended event", items |-> is, text |-> n] :
            is \in {<<>>, << <<1, 2>> >>, << <<0, 0>>, <<3, 0>> >>, << <<100, 100>> >>},
            n \in {0, 7, 47}}
    \cup {[tag |-> "extension", audio |-> a, has |-> IF a THEN h ELSE {}, text |-> n] :
            a \in BOOLEAN, h \in {{}, {"language"}}, n \in {0, 5}}
    \cup {VBI(<<>>), VBI(<<VBIService>>), VBI(<<VBIService, VBIService>>)}

LegalDescriptors == {d \in MCDescriptors : LegalDescriptor(d)}

(* Two short lists, and one for each descriptor, between two others. *)
StreamIdentifier == [tag |-> "stream identifier"]
Short == {<<>>, <<StreamIdentifier, [tag |-> "unknown", text |-> 0]>>}
Long == {<<StreamIdentifier, d, [tag |-> "maximum bitrate"]>> : d \in LegalDescriptors}

Section(table, info, entries) == [table |-> table, info |-> info, entries |-> entries]

PATs == {Section("PAT", <<>>, [k \in 1..n |-> <<>>]) : n \in 1..2}
Tables(names, infos) ==
  {Section(t, info, es) : t \in names, info \in infos,
                          es \in UNION {[1..n -> Short] : n \in 0..2}}
MCSections ==
  PATs \cup Tables({"PMT", "NIT"}, Short) \cup Tables({"SDT", "EIT"}, {<<>>})
    \cup {Section("TOT", info, <<>>) : info \in Short}
    \cup {Section(t, <<>>, <<>>) : t \in {"TDT", "ST"}}

PSIData(sections, pointer, padded) ==
  [what |-> "PSI", sections |-> sections, pointer |-> pointer, padded |-> padded]

(* One section of each table, with descriptors wherever it has a list. *)
Full(s) ==
  /\ Len(s.entries) = (IF s.table \in {"TOT", "TDT", "ST"} THEN 0 ELSE 1)
  /\ s.table \in {"PMT", "NIT", "TOT"} => s.info # <<>>
  /\ s.table \in {"PMT", "NIT", "SDT", "EIT"} => s.entries[1] # <<>>
FullSections == {s \in MCSections : Full(s)}

(* A table with every descriptor; and every section before and after one   *)
(* of each table, as what is left of a section's parsing is its offsets.   *)
MCPSIDatas ==
  {PSIData(<<Section("PMT", ds, <<>>)>>, 0, TRUE) : ds \in Long}
    \cup {PSIData(<<Section("PMT", <<>>, <<ds>>)>>, 0, FALSE) : ds \in Long}
    \cup {PSIData(ss, p, p = 0) :
            ss \in (MCSections \X FullSections) \cup (FullSections \X MCSections),
            p \in {0, 2}}

(* Every day at its last second, and the days of 2019 at other times. *)
MCRecentTimes ==
  [date : {date \in Dates : date[1] = 119}, second : {0, 35999, 45900, 86399}]
MCTimes == [date : Dates, second : {86399}] \cup MCRecentTimes

(* Hours in two digits, with minutes and seconds of one and of two. *)
MCDurations ==
  {h * 3600 + m * 60 + s : h \in 0..99, m \in {0, 9, 10, 59}, s \in {0, 9, 10, 59}}
=============================================================================
