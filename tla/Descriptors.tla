---------------------------- MODULE Descriptors ----------------------------
(***************************************************************************)
(* descriptor.go: the bodies of the descriptors.  For each kind the code   *)
(* has a function that measures the body before it is written              *)
(* (calcDescriptor...Length, a uint8), one that writes it and one that     *)
(* parses it, each with its own list of the parts.                         *)
(*                                                                         *)
(* A descriptor is a record with its tag and, as far as the layout depends *)
(* on them, its flags (has), the lengths of its texts and the number of    *)
(* its items.  The parser knows the flags and inner lengths on the wire,   *)
(* and n, the length the descriptor was announced with.                    *)
(***************************************************************************)
EXTENDS Layout, FiniteSets

U8(n) == n % 256

Sum(ns) == FoldLeft(LAMBDA a, b : a + b, 0, ns)

(* n bytes of text; behind a byte that counts them; and as they are read   *)
(* by that byte.                                                           *)
Text(name, n) == Optional(n > 0, name, n)
Counted(name, n) == <<Part("length", 1)>> \o Text(name, n)
CountedRead(name, n) == <<Part("length", 1)>> \o Text(name, U8(n))

(* The parser takes what is left of n bytes after the parts read. *)
Rest(read, n, name) == read \o Text(name, n - Size(read))

Repeat(count, parts) == FlattenSeq([k \in 1..count |-> parts])

(* A loop that reads items of a fixed size until n bytes are reached. *)
Turns(n, size) == (n + size - 1) \div size

(* Bytes that are there when a flag says so, in the order of the code. *)
Flagged(names, has) ==
  LET there == SelectSeq(names, LAMBDA x : x \in has)
  IN  [k \in DOMAIN there |-> Part(there[k], 1)]

-----------------------------------------------------------------------------
(* The length announced. *)

AC3Flags == {"component type", "BSID", "main ID", "ASVC"}
EnhancedAC3Flags == AC3Flags \cup {"substream 1", "substream 2", "substream 3"}

calcDescriptorAC3Length(d) == U8(1 + Cardinality(d.has) + d.text)

(* MixInfoExists is a flag without a byte of its own. *)
calcDescriptorEnhancedAC3Length_mixInfo(d) == U8(1 + Cardinality(d.has) + d.text)

calcDescriptorEnhancedAC3Length(d) ==
  U8(1 + Cardinality(d.has \cap EnhancedAC3Flags) + d.text)

(* An item is the lengths of a description and of a content. *)
ItemsLength(items) == Sum([k \in DOMAIN items |-> 1 + items[k][1] + 1 + items[k][2]])

calcDescriptorExtendedEventLength(d) == U8(1 + 3 + 1 + ItemsLength(d.items) + 1 + d.text)

calcDescriptorExtensionLength(d) ==
  U8(1 + (IF d.audio THEN 1 + Bytes("language" \in d.has, 3) ELSE 0) + d.text)

(* d.items is a number where items have a fixed size, and a sequence where *)
(* they do not; a VBI service says whether its ID is a known one and how   *)
(* many descriptors it has.                                                *)
calcDescriptorLength(d) ==
  CASE d.tag = "AC3" -> calcDescriptorAC3Length(d)
    [] d.tag = "AVC video" -> 4
    [] d.tag = "component" -> U8(6 + d.text)
    [] d.tag = "content" -> U8(2 * d.items)
    [] d.tag = "data stream alignment" -> 1
    [] d.tag = "enhanced AC3" -> calcDescriptorEnhancedAC3Length(d)
    [] d.tag = "extended event" -> calcDescriptorExtendedEventLength(d)
    [] d.tag = "extension" -> calcDescriptorExtensionLength(d)
    [] d.tag = "ISO639" -> 3 + 1
    [] d.tag = "local time offset" -> U8(13 * d.items)
    [] d.tag = "maximum bitrate" -> 3
    [] d.tag = "parental rating" -> U8(4 * d.items)
    [] d.tag \in {"private data indicator", "private data specifier"} -> 4
    [] d.tag = "registration" -> U8(4 + d.text)
    [] d.tag = "service" -> U8(3 + d.name + d.text)
    [] d.tag = "short event" -> U8(3 + 1 + 1 + d.name + d.text)
    [] d.tag = "stream identifier" -> 1
    [] d.tag = "subtitling" -> U8(8 * d.items)
    [] d.tag \in {"teletext", "VBI teletext"} -> U8(5 * d.items)
    [] d.tag = "VBI data" -> U8(3 * Len(d.items))
    [] d.tag \in {"network name", "user defined", "unknown"} -> U8(d.text)

-----------------------------------------------------------------------------
(* What is written. *)

writeDescriptorAC3(d) ==
  <<Part("flags", 1)>>
    \o Flagged(<<"component type", "BSID", "main ID", "ASVC">>, d.has)
    \o Text("info", d.text)

writeDescriptorAVCVideo ==
  <<Part("profile", 1), Part("constraints", 1), Part("level", 1), Part("pictures", 1)>>

writeDescriptorComponent(d) ==
  <<Part("stream content", 1), Part("component type", 1), Part("component tag", 1),
    Part("language", 3)>> \o Text("text", d.text)

writeDescriptorDataStreamAlignment == <<Part("alignment", 1)>>

writeDescriptorMaximumBitrate == <<Part("bitrate", 3)>>

writeDescriptorPrivateDataIndicator == <<Part("indicator", 4)>>

writeDescriptorPrivateDataSpecifier == <<Part("specifier", 4)>>

writeDescriptorStreamIdentifier == <<Part("component tag", 1)>>

writeDescriptorNetworkName(d) == Text("name", d.text)

writeDescriptorUserDefined(d) == Text("user defined", d.text)

writeDescriptorUnknown(d) == Text("content", d.text)

writeDescriptorContent(d) == Repeat(d.items, <<Part("nibbles", 1), Part("user byte", 1)>>)

writeDescriptorEnhancedAC3(d) ==
  <<Part("flags", 1)>>
    \o Flagged(<<"component type", "BSID", "main ID", "ASVC",
                 "substream 1", "substream 2", "substream 3">>, d.has)
    \o Text("info", d.text)

writeDescriptorExtendedEvent(d) ==
  <<Part("numbers", 1), Part("language", 3), Part("items length", 1)>>
    \o FlattenSeq([k \in DOMAIN d.items |->
         Counted("description", d.items[k][1]) \o Counted("content", d.items[k][2])])
    \o Counted("text", d.text)

writeDescriptorExtension(d) ==
  <<Part("extension tag", 1)>>
    \o (IF d.audio
        THEN <<Part("flags", 1)>> \o Optional("language" \in d.has, "language", 3)
        ELSE <<>>)
    \o Text("content", d.text)

(* WriteBytesN makes any language three bytes long. *)
writeDescriptorISO639LanguageAndAudioType(d) == <<Part("language", 3), Part("type", 1)>>

writeDescriptorLocalTimeOffset(d) ==
  Repeat(d.items, <<Part("country", 3), Part("region", 1), Part("offset", 2),
                    Part("time of change", 5), Part("next offset", 2)>>)

writeDescriptorParentalRating(d) == Repeat(d.items, <<Part("country", 3), Part("rating", 1)>>)

writeDescriptorRegistration(d) == <<Part("format", 4)>> \o Text("info", d.text)

writeDescriptorService(d) ==
  <<Part("type", 1)>> \o Counted("provider", d.name) \o Counted("name", d.text)

writeDescriptorShortEvent(d) ==
  <<Part("language", 3)>> \o Counted("event", d.name) \o Counted("text", d.text)

writeDescriptorSubtitling(d) ==
  Repeat(d.items, <<Part("language", 3), Part("type", 1), Part("composition page", 2),
                    Part("ancillary page", 2)>>)

writeDescriptorTeletext(d) ==
  Repeat(d.items, <<Part("language", 3), Part("magazine", 1), Part("page", 1)>>)

(* A service whose ID is not a known one gets one reserved byte. *)
writeDescriptorVBIData(d) ==
  FlattenSeq([k \in DOMAIN d.items |->
    <<Part("service ID", 1), Part("length", 1)>>
      \o (IF d.items[k].known THEN Repeat(d.items[k].count, <<Part("line", 1)>>)
          ELSE <<Part("reserved", 1)>>)])

writeDescriptorBody(d) ==
  CASE d.tag = "AC3" -> writeDescriptorAC3(d)
    [] d.tag = "AVC video" -> writeDescriptorAVCVideo
    [] d.tag = "component" -> writeDescriptorComponent(d)
    [] d.tag = "content" -> writeDescriptorContent(d)
    [] d.tag = "data stream alignment" -> writeDescriptorDataStreamAlignment
    [] d.tag = "enhanced AC3" -> writeDescriptorEnhancedAC3(d)
    [] d.tag = "extended event" -> writeDescriptorExtendedEvent(d)
    [] d.tag = "extension" -> writeDescriptorExtension(d)
    [] d.tag = "ISO639" -> writeDescriptorISO639LanguageAndAudioType(d)
    [] d.tag = "local time offset" -> writeDescriptorLocalTimeOffset(d)
    [] d.tag = "maximum bitrate" -> writeDescriptorMaximumBitrate
    [] d.tag = "parental rating" -> writeDescriptorParentalRating(d)
    [] d.tag = "private data indicator" -> writeDescriptorPrivateDataIndicator
    [] d.tag = "private data specifier" -> writeDescriptorPrivateDataSpecifier
    [] d.tag = "registration" -> writeDescriptorRegistration(d)
    [] d.tag = "service" -> writeDescriptorService(d)
    [] d.tag = "short event" -> writeDescriptorShortEvent(d)
    [] d.tag = "stream identifier" -> writeDescriptorStreamIdentifier
    [] d.tag = "subtitling" -> writeDescriptorSubtitling(d)
    [] d.tag \in {"teletext", "VBI teletext"} -> writeDescriptorTeletext(d)
    [] d.tag = "VBI data" -> writeDescriptorVBIData(d)
    [] d.tag = "network name" -> writeDescriptorNetworkName(d)
    [] d.tag = "user defined" -> writeDescriptorUserDefined(d)
    [] d.tag = "unknown" -> writeDescriptorUnknown(d)

-----------------------------------------------------------------------------
(* What is read. *)

newDescriptorAC3(d, n) ==
  Rest(<<Part("flags", 1)>>
         \o Optional("component type" \in d.has, "component type", 1)
         \o Optional("BSID" \in d.has, "BSID", 1)
         \o Optional("main ID" \in d.has, "main ID", 1)
         \o Optional("ASVC" \in d.has, "ASVC", 1), n, "info")

newDescriptorAVCVideo ==
  <<Part("profile", 1), Part("constraints", 1), Part("level", 1), Part("pictures", 1)>>

newDescriptorComponent(n) ==
  Rest(<<Part("stream content", 1), Part("component type", 1), Part("component tag", 1),
         Part("language", 3)>>, n, "text")

newDescriptorDataStreamAlignment == <<Part("alignment", 1)>>

newDescriptorMaximumBitrate == <<Part("bitrate", 3)>>

newDescriptorPrivateDataIndicator == <<Part("indicator", 4)>>

newDescriptorPrivateDataSpecifier == <<Part("specifier", 4)>>

newDescriptorStreamIdentifier == <<Part("component tag", 1)>>

newDescriptorNetworkName(n) == Text("name", n)

newDescriptorContent(n) ==
  Repeat(Turns(n, 2), <<Part("nibbles", 1), Part("user byte", 1)>>)

newDescriptorEnhancedAC3(d, n) ==
  Rest(<<Part("flags", 1)>>
         \o Optional("component type" \in d.has, "component type", 1)
         \o Optional("BSID" \in d.has, "BSID", 1)
         \o Optional("main ID" \in d.has, "main ID", 1)
         \o Optional("ASVC" \in d.has, "ASVC", 1)
         \o Optional("substream 1" \in d.has, "substream 1", 1)
         \o Optional("substream 2" \in d.has, "substream 2", 1)
         \o Optional("substream 3" \in d.has, "substream 3", 1), n, "info")

(* Items are read until the items length is reached. *)
newDescriptorExtendedEvent(d) ==
  LET length == U8(ItemsLength(d.items))
      turns == {k \in DOMAIN d.items : ItemsLength(SubSeq(d.items, 1, k - 1)) < length}
  IN  <<Part("numbers", 1), Part("language", 3), Part("items length", 1)>>
        \o FlattenSeq([k \in 1..Cardinality(turns) |->
             CountedRead("description", d.items[k][1]) \o CountedRead("content", d.items[k][2])])
        \o CountedRead("text", d.text)

newDescriptorExtension(d, n) ==
  Rest(<<Part("extension tag", 1)>>
         \o Optional(d.audio, "flags", 1)
         \o Optional(d.audio /\ "language" \in d.has, "language", 3), n, "content")

newDescriptorISO639LanguageAndAudioType(n) ==
  Text("language", n - 1) \o <<Part("type", 1)>>

newDescriptorLocalTimeOffset(n) ==
  Repeat(Turns(n, 13), <<Part("country", 3), Part("region", 1), Part("offset", 2),
                         Part("time of change", 5), Part("next offset", 2)>>)

newDescriptorParentalRating(n) ==
  Repeat(Turns(n, 4), <<Part("country", 3), Part("rating", 1)>>)

newDescriptorRegistration(n) == Rest(<<Part("format", 4)>>, n, "info")

newDescriptorService_nameFirst(d) ==
  <<Part("type", 1)>> \o CountedRead("name", d.text) \o CountedRead("provider", d.name)

newDescriptorService(d) ==
  <<Part("type", 1)>> \o CountedRead("provider", d.name) \o CountedRead("name", d.text)

newDescriptorShortEvent(d) ==
  <<Part("language", 3)>> \o CountedRead("event", d.name) \o CountedRead("text", d.text)

newDescriptorSubtitling(n) ==
  Repeat(Turns(n, 8), <<Part("language", 3), Part("type", 1), Part("composition page", 2),
                        Part("ancillary page", 2)>>)

newDescriptorTeletext(n) ==
  Repeat(Turns(n, 5), <<Part("language", 3), Part("magazine", 1), Part("page", 1)>>)

(* Services are read until n is reached.  A turn of the inner loop reads a *)
(* byte if the service is a known one, and otherwise nothing: then the     *)
(* loop never ends (Spins).                                                *)
newDescriptorVBIData(d, n) ==
  LET before(k) == Sum([j \in 1..(k - 1) |-> 2 + U8(d.items[j].count)])
      turns == {k \in DOMAIN d.items : before(k) < n}
  IN  FlattenSeq([k \in 1..Cardinality(turns) |->
        <<Part("service ID", 1), Part("length", 1)>>
          \o Repeat(U8(d.items[k].count), <<Part("line", 1)>>)])

Spins(d) == d.tag = "VBI data" /\ \E k \in DOMAIN d.items : ~d.items[k].known

newDescriptorUnknown(n) == Text("content", n)

(* What the writer can express and the parser comes back from: 255 bytes   *)
(* at most, and VBI services with a known ID and one descriptor each,      *)
(* since three bytes are counted for every service.                        *)
LegalDescriptor(d) ==
  /\ Size(writeDescriptorBody(d)) <= 255
  /\ d.tag = "VBI data" =>
       \A k \in DOMAIN d.items : d.items[k].known /\ d.items[k].count = 1

(* The body parseDescriptors reads of a descriptor of n > 0 bytes. *)
newDescriptor(d, n) ==
  CASE d.tag = "AC3" -> newDescriptorAC3(d, n)
    [] d.tag = "AVC video" -> newDescriptorAVCVideo
    [] d.tag = "component" -> newDescriptorComponent(n)
    [] d.tag = "content" -> newDescriptorContent(n)
    [] d.tag = "data stream alignment" -> newDescriptorDataStreamAlignment
    [] d.tag = "enhanced AC3" -> newDescriptorEnhancedAC3(d, n)
    [] d.tag = "extended event" -> newDescriptorExtendedEvent(d)
    [] d.tag = "extension" -> newDescriptorExtension(d, n)
    [] d.tag = "ISO639" -> newDescriptorISO639LanguageAndAudioType(n)
    [] d.tag = "local time offset" -> newDescriptorLocalTimeOffset(n)
    [] d.tag = "maximum bitrate" -> newDescriptorMaximumBitrate
    [] d.tag = "parental rating" -> newDescriptorParentalRating(n)
    [] d.tag = "private data indicator" -> newDescriptorPrivateDataIndicator
    [] d.tag = "private data specifier" -> newDescriptorPrivateDataSpecifier
    [] d.tag = "registration" -> newDescriptorRegistration(n)
    [] d.tag = "service" -> newDescriptorService(d)
    [] d.tag = "short event" -> newDescriptorShortEvent(d)
    [] d.tag = "stream identifier" -> newDescriptorStreamIdentifier
    [] d.tag = "subtitling" -> newDescriptorSubtitling(n)
    [] d.tag \in {"teletext", "VBI teletext"} -> newDescriptorTeletext(n)
    [] d.tag = "VBI data" -> newDescriptorVBIData(d, n)
    [] d.tag = "network name" -> newDescriptorNetworkName(n)
    [] d.tag = "user defined" -> Text("user defined", n)
    [] d.tag = "unknown" -> newDescriptorUnknown(n)

=============================================================================
