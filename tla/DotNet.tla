-------------------------------- MODULE DotNet --------------------------------
(***************************************************************************)
(* The .NET directory and its metadata (dotnet_directory_loader.cpp,         *)
(* dotnet_directory.cpp): three regions the descriptor names, and a list of  *)
(* streams that lie in the first of them.                                    *)
(***************************************************************************)
EXTENDS Cursor

CONSTANTS
    MetadataSizes,  \* sizes of the metadata
    MaxStreams      \* streams a footer may count

VARIABLES
    given,   \* [descriptor, sizes, regions, allow, streams, buf]
    pc,      \* "descriptor", "regions", "header", "footer", "streams", "data" or "done"
    walk,    \* [pos, left, names, todo, version]
    result,  \* [loaded, streams]; a stream is [name, at, end, data, errors]
    errors

vars == <<given, pc, walk, result, errors>>

HeaderSize == 16       \* metadata_header
FooterSize == 4        \* metadata_header_footer
StreamHeaderSize == 8  \* stream_header
MaxVersionLength == 8  \* max_runtime_version_length

Regions == <<"metadata", "resources", "strong_name_signature">>
Unable == [metadata |-> "unable_to_load_metadata", resources |-> "unable_to_load_resources",
           strong_name_signature |-> "unable_to_load_strong_name_signature"]
Virtual == [metadata |-> "virtual_metadata", resources |-> "virtual_resources",
            strong_name_signature |-> "virtual_strong_name_signature"]
\* Of a region: nothing is named, it is in a section, some of it or none of it.
Places == {"empty", "inside", "virtual", "outside"}

Init ==
    /\ given \in [descriptor : BOOLEAN, same : BOOLEAN, known : BOOLEAN, regions : [1 .. 3 -> Places],
                  allow : BOOLEAN, streams : BOOLEAN,
                  buf : {[size |-> 0, physical |-> 0, virtual |-> FALSE]}]
            \cup [descriptor : {TRUE}, same : {TRUE}, known : {TRUE},
                  regions : {[i \in 1 .. 3 |-> IF i = 1 THEN "inside" ELSE "empty"]},
                  allow : BOOLEAN, streams : BOOLEAN,
                  buf : [size : MetadataSizes, physical : MetadataSizes, virtual : BOOLEAN]]
    /\ given.buf.size > 0 =>
        /\ given.buf.virtual = given.allow
        /\ given.buf.physical \in {given.buf.size, given.buf.size - 8}
    /\ pc = "descriptor"
    /\ walk = [pos |-> 0, left |-> 0, names |-> {}, todo |-> 1, version |-> 0]
    /\ result = [loaded |-> {}, streams |-> <<>>] /\ errors = {}

Buf == given.buf
LastRead == Len(result.streams)
Report(e) == errors' = errors \cup e
Fail(e) == Report({e}) /\ pc' = "done" /\ UNCHANGED <<given, walk, result>>

-----------------------------------------------------------------------------
(* load. *)

DescriptorUnread == pc = "descriptor" /\ ~given.descriptor /\ Fail("invalid_directory")
ReadDescriptor ==
    /\ pc = "descriptor" /\ given.descriptor
    /\ Report((IF given.same THEN {} ELSE {"descriptor_and_directory_sizes_do_not_match"})
              \cup (IF given.known THEN {} ELSE {"unsupported_descriptor_size"}))
    /\ pc' = "regions" /\ UNCHANGED <<given, walk, result>>

\* What may not be virtual is loaded all the same.
LoadRegion ==
    /\ pc = "regions" /\ walk.todo <= 3
    /\ LET place == given.regions[walk.todo]
           name == Regions[walk.todo] IN
       /\ Report(CASE place = "empty" -> IF name = "metadata" THEN {"empty_metadata"} ELSE {}
                   [] place = "outside" -> {Unable[name]}
                   [] place = "virtual" -> IF given.allow THEN {} ELSE {Virtual[name]}
                   [] place = "inside" -> {})
       /\ result' = IF place \in {"inside", "virtual"}
                    THEN [result EXCEPT !.loaded = @ \cup {name}] ELSE result
    /\ walk' = [walk EXCEPT !.todo = @ + 1] /\ UNCHANGED <<given, pc>>

\* parse_metadata_header is called for the metadata that were loaded.
RegionsLoaded ==
    /\ pc = "regions" /\ walk.todo = 4
    /\ pc' = IF given.buf.size > 0 THEN "header" ELSE "done"
    /\ UNCHANGED <<given, walk, result, errors>>

-----------------------------------------------------------------------------
(* parse_metadata_header. *)

HeaderUnread ==
    pc = "header" /\ ~CanRead(Buf, 0, HeaderSize) /\ Fail("unable_to_deserialize_header")

Alignment(length) == IF length % 4 = 0 THEN {} ELSE {"version_length_not_aligned"}

\* The version is read up to its null, and passed over up to its length.
ReadVersion ==
    /\ pc = "header" /\ CanRead(Buf, 0, HeaderSize)
    /\ \E length \in {0, 3, 4, MaxVersionLength, MaxVersionLength + 1} :
        \/ /\ length > MaxVersionLength
           /\ Report({"too_long_runtime_version_string"} \cup Alignment(length))
           /\ pc' = "done" /\ UNCHANGED walk
        \/ /\ length <= MaxVersionLength
           /\ \/ StringMayFail(Buf, HeaderSize, 1, length)
              \/ ~CanSeek(Buf, HeaderSize + length)
           /\ Report({"unable_to_deserialize_runtime_version"} \cup Alignment(length))
           /\ pc' = "done" /\ UNCHANGED walk
        \/ /\ length <= MaxVersionLength /\ CanSeek(Buf, HeaderSize + length)
           /\ StringEnds(Buf, HeaderSize, 1, length) # {}
           /\ Report(Alignment(length))
           /\ walk' = [walk EXCEPT !.pos = HeaderSize + length]
           /\ pc' = "footer"
    /\ UNCHANGED <<given, result>>

FooterUnread ==
    pc = "footer" /\ ~CanRead(Buf, walk.pos, FooterSize) /\ Fail("unable_to_deserialize_footer")
ReadFooter ==
    /\ pc = "footer" /\ CanRead(Buf, walk.pos, FooterSize)
    /\ IF given.streams
       THEN \E count \in 0 .. MaxStreams :
            /\ walk' = [walk EXCEPT !.pos = @ + FooterSize, !.left = count, !.version = count]
            /\ pc' = "streams"
       ELSE pc' = "done" /\ UNCHANGED walk
    /\ UNCHANGED <<given, result, errors>>

Stream(name, end, e) ==
    [name |-> name, at |-> walk.pos, end |-> end, data |-> <<>>, errors |-> e]

\* A stream that cannot be read is the last of the list, with its error.
StreamUnread ==
    /\ pc = "streams" /\ walk.left > 0
    /\ \E name \in {"none"} \cup
            (IF CanRead(Buf, walk.pos, StreamHeaderSize) THEN {"#~", "#US"} ELSE {}) :
       LET ends == StringEnds(Buf, walk.pos + StreamHeaderSize, 1, Unlimited) IN
       /\ \/ name = "none" /\ ~CanRead(Buf, walk.pos, StreamHeaderSize)
          \/ name = "none" /\ StringMayFail(Buf, walk.pos + StreamHeaderSize, 1, Unlimited)
          \/ name # "none" /\ \E end \in ends : ~CanSeek(Buf, RoundUp(end, 4))
       /\ result' = [result EXCEPT !.streams =
                Append(@, Stream(name, 0, {"unable_to_deserialize_stream_header"}))]
       /\ Report(IF name \in walk.names THEN {"duplicate_stream_names"} ELSE {})
    /\ pc' = "done" /\ UNCHANGED <<given, walk>>

ReadStream ==
    /\ pc = "streams" /\ walk.left > 0 /\ CanRead(Buf, walk.pos, StreamHeaderSize)
    /\ \E name \in {"#~", "#US"}, end \in StringEnds(Buf, walk.pos + StreamHeaderSize, 1, Unlimited) :
        /\ CanSeek(Buf, RoundUp(end, 4))
        /\ result' = [result EXCEPT !.streams = Append(@, Stream(name, RoundUp(end, 4), {}))]
        /\ Report(IF name \in walk.names THEN {"duplicate_stream_names"} ELSE {})
        /\ walk' = [walk EXCEPT !.pos = RoundUp(end, 4), !.left = @ - 1, !.names = @ \cup {name}]
    /\ pc' = "data" /\ UNCHANGED given

\* The data are a part of the metadata, in the file or not.
ReadData ==
    /\ pc = "data"
    /\ \E offset \in {0, 20, Buf.size}, size \in {0, 4} :
        result' = [result EXCEPT !.streams[LastRead] =
            IF offset + size <= Buf.size THEN [@ EXCEPT !.data = <<offset, size>>]
            ELSE [@ EXCEPT !.errors = {"unable_to_deserialize_stream_data"}]]
    /\ pc' = "streams" /\ UNCHANGED <<given, walk, errors>>

StreamsEnd ==
    pc = "streams" /\ walk.left = 0 /\ pc' = "done" /\ UNCHANGED <<given, walk, result, errors>>

Next ==
    \/ DescriptorUnread \/ ReadDescriptor \/ LoadRegion \/ RegionsLoaded
    \/ HeaderUnread \/ ReadVersion \/ FooterUnread \/ ReadFooter
    \/ StreamUnread \/ ReadStream \/ ReadData \/ StreamsEnd

-----------------------------------------------------------------------------
(* What is checked. *)

AllErrors == errors \cup UNION {result.streams[i].errors : i \in DOMAIN result.streams}

\* Nothing reported: every region that is named is loaded, and every stream that is
\* counted is there, by a name of its own, behind the one before it, with its data.
NamesDistinct ==
    "duplicate_stream_names" \in errors
    \/ \A i, j \in DOMAIN result.streams :
        result.streams[i].name = result.streams[j].name => i = j \/ result.streams[i].name = "none"
StreamsWhole ==
    pc = "done" /\ AllErrors = {} =>
        /\ result.loaded = {Regions[i] : i \in {j \in 1 .. 3 : given.regions[j] # "empty"}}
        /\ given.buf.size > 0 /\ given.streams => LastRead = walk.version
        /\ \A i \in DOMAIN result.streams : result.streams[i].data # <<>>
        /\ \A i \in 1 .. LastRead - 1 : result.streams[i].end = result.streams[i + 1].at
\* An error of a stream that is not the last is one of its data alone.
OnlyLastUnread ==
    \A i \in DOMAIN result.streams :
        "unable_to_deserialize_stream_header" \in result.streams[i].errors => i = LastRead /\ pc = "done"
MetadataWhole == NamesDistinct /\ StreamsWhole /\ OnlyLastUnread

=============================================================================
