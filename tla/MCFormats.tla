------------------------------ MODULE MCFormats ------------------------------
(***************************************************************************)
(* What is built and loaded again, the checksum and the digests of an image,  *)
(* and the readers and writers of resources, with their instances.  Each is a *)
(* specification of its own over the same five variables; a state of this one *)
(* is a state of the one of them that part names.                             *)
(***************************************************************************)
EXTENDS Integers, Sequences, FiniteSets, SequencesExt

CONSTANTS
    PartsRun,      \* the parts that are run
    MaxOrdinal, MaxSymbols, Strings, CodeRva,
    DirectoryRva, Callbacks, MaxCallbacks, RawSizes, VirtualSizes,
    Libraries, MaxLibraries, OffsetMax,
    Checksums, Offsets, MaxItems,
    PageSize, ChecksumSize, EntryFieldSize, HeaderSizes, ChecksumAt, EntryAt, SectionLists,
    OverlayBytes, SecurityBytes, HalfValues, Contents,
    ResourceSizes, BlockLengths, ValueLengths, MaxDepth, MaxInfoItems,
    TableBytes, MessageIds, EntryOffsets, EntryLengths, MaxBlocks, MaxMessages,
    PictureSizes, MaxPictures, StringCount, MaxAccelerators,
    Trees, ResourceIds, ResourceNames, MaxEdits,
    Documents, ValueTexts, NumberMax, LongMax, ProgidMax, KeyLength,
    Declarations, Attributes, ElementPrefixes, MaxElements

VARIABLES part, given, pc, walk, result, errors

vars == <<part, given, pc, walk, result, errors>>

EX == INSTANCE Exports
TL == INSTANCE Tls
BI == INSTANCE BoundImports
RI == INSTANCE Rich
IH == INSTANCE ImageHash
VI == INSTANCE VersionInfo
RF == INSTANCE ResourceFormats
RE == INSTANCE ResourceEdits
MF == INSTANCE Manifest

Init ==
    /\ part \in PartsRun
    /\ \/ part = "exports" /\ EX!Init
       \/ part = "tls" /\ TL!Init
       \/ part = "bound_imports" /\ BI!Init
       \/ part = "rich" /\ RI!Init
       \/ part = "image_hash" /\ IH!Init
       \/ part = "version_info" /\ VI!Init
       \/ part = "message_table" /\ RF!MessagesInit
       \/ part = "resource_formats" /\ RF!Init
       \/ part = "resource_edits" /\ RE!Init
       \/ part = "manifest" /\ MF!Init
       \/ part = "manifest_values" /\ MF!ValuesInit
       \/ part = "manifest_names" /\ MF!NamesInit

Next ==
    /\ \/ part = "exports" /\ EX!Next
       \/ part = "tls" /\ TL!Next
       \/ part = "bound_imports" /\ BI!Next
       \/ part = "rich" /\ RI!Next
       \/ part = "image_hash" /\ IH!Next
       \/ part = "version_info" /\ VI!Next
       \/ part = "message_table" /\ RF!MessagesNext
       \/ part = "resource_formats" /\ RF!Next
       \/ part = "resource_edits" /\ RE!Next
       \/ part = "manifest" /\ MF!Next
       \/ part = "manifest_values" /\ MF!ValuesNext
       \/ part = "manifest_names" /\ MF!NamesNext
    /\ UNCHANGED part

\* Loaders and builders are sequential functions that wait for nothing.
Spec == Init /\ [][Next]_vars /\ WF_vars(Next)

-----------------------------------------------------------------------------
(* What is checked. *)

\* What a builder writes is loaded back as it was given, and is as long as
\* get_built_size says, where the caller has set the counts that editing the
\* lists does not.
Rebuilt ==
    pc = "done" =>
        /\ part = "exports" /\ EX!IsDescribed => EX!LoadedBack /\ EX!SizeIsPredicted
        /\ part = "tls" => /\ TL!LoadedBack /\ TL!SizeIsPredicted
                           /\ result.callbacks # <<>> => TL!KeptInPlace
        /\ part = "bound_imports" /\ BI!IsDescribed => BI!LoadedBack /\ BI!SizeIsPredicted
        /\ part = "rich" => (RI!ChecksumApart => RI!LoadedBack) /\ RI!SizeIsPredicted

\* What is read of a resource about which nothing is reported is all that is there, what
\* is written of it reads as the same, and every way to an entry of the tree of the
\* resources leads to one entry.  The exception is a message table: its messages are those
\* of the first blocks up to the limit, because reading stops without an error when they
\* reach exactly the limit (message_table_reader.cpp:248).  A digest is of every byte that it has to be of, once,
\* and the checksum is the one that the format defines.
FormatsWhole ==
    /\ part = "image_hash" => IH!DigestsWhole /\ IH!ChecksumOfFile
    /\ part = "version_info" => VI!VersionWhole
    /\ part = "message_table" => RF!MessagesRead
    /\ part = "resource_formats" => RF!FormatsKept
    /\ part = "resource_edits" => RE!TreeKept
    /\ part = "manifest" => MF!ManifestTaken
    /\ part = "manifest_values" => MF!ValuesRead
    /\ part = "manifest_names" => MF!NamesScoped /\ MF!TakenWhole

\* The README of the library says that exports, bound imports and TLS can be
\* modified: what was added to a list is there when the directory is loaded again,
\* and what was loaded and not touched is written where it was.
EditsSurvive ==
    pc = "done" =>
        /\ part = "tls" => TL!KeptInPlace
        /\ part = "exports" => EX!LoadedBack
        /\ part = "bound_imports" => BI!LoadedBack

\* Every load and every build ends.
LoadsEnd == <>(pc \in {"done", "undefined", "throws", "overflow"})

-----------------------------------------------------------------------------
(* The instance. *)

MCParts == {"exports", "tls", "bound_imports", "rich", "image_hash", "version_info",
            "message_table", "resource_formats", "resource_edits", "manifest",
            "manifest_values", "manifest_names"}
MCChecksums == {<<"k", "y">>, <<"h", "y">>, <<"c", "h">>, <<"c", "c">>, <<"c", "y">>, <<"i", "c">>}
Section(at, size) == [at |-> at, size |-> size]
MCSectionLists ==
    {<<>>, <<Section(3, 4), Section(0, 3)>>, <<Section(0, 8), Section(9, 9)>>,
     <<Section(0, 4), Section(0, 0), Section(6, 2)>>}
MCContents == [1 .. 3 -> {0, 3, 14, 15}]

\* Trees with directories that loop, entries that hold nothing, and keys that are there twice.
Entry(in, key, holds) == [in |-> in, key |-> key, holds |-> holds, value |-> "loaded"]
MCTrees ==
    {<<>>, <<Entry(0, "one", "loop")>>, <<Entry(0, "one", "data")>>,
     <<Entry(0, "one", "directory"), Entry(0, "one", "directory"), Entry(1, "none", "directory"),
       Entry(1, "name", "directory"), Entry(1, "name", "data"), Entry(2, "two", "directory"),
       Entry(3, "one", "data"), Entry(4, "two", "nothing"), Entry(4, "two", "data"), Entry(6, "one", "data")>>,
     <<Entry(0, "one", "directory"), Entry(0, "two", "nothing"), Entry(1, "one", "nothing"), Entry(1, "name", "directory"),
       Entry(4, "none", "data"), Entry(4, "one", "data"), Entry(4, "two", "directory")>>}

\* Manifests: the head of the assembly, or one of its other elements with what may be in it,
\* alone and behind one of the same name.
Element(ns, name, attrs, text, kids) ==
    [ns |-> ns, name |-> name, attrs |-> attrs, text |-> text, kids |-> kids]
With(ns, name, kids) == Element(ns, name, {}, "", kids)
Told(ns, name, text) == Element(ns, name, {}, text, <<>>)
V1(name, attrs) == Element("asmv1", name, attrs, "", <<>>)
Named == V1("assemblyIdentity", {"type", "name", "version"})
Other == V1("other", {})
UpTo2(S) == {<<>>} \cup {<<a>> : a \in S} \cup {<<a, b>> : a, b \in S}
Behind(S, plain) == {<<a>> : a \in S} \cup {<<plain, a>> : a \in S}
Document(version, kids) == [root |-> TRUE, assembly |-> TRUE, version |-> version, kids |-> kids]
Heads == UpTo2({V1("noInherit", {}), V1("noInheritable", {}), Named,
                V1("assemblyIdentity", {"type"}), Other})
Systems == {Element("compatibility.v1", "supportedOS", a, "", <<>>) : a \in {{}, {"Id"}}}
           \cup {Element("compatibility.v1", "maxversiontested", {"Id"}, "", <<>>)}
App(kids) == With("compatibility.v1", "application", kids)
Compats == {With("compatibility.v1", "compatibility", k) :
               k \in {<<App(s)>> : s \in UpTo2(Systems)} \cup {<<>>, <<App(<<>>), App(<<>>)>>}}
Dependents == {With("asmv1", "dependentAssembly", k) :
                  k \in {<<>>, <<Named>>, <<Other, Named>>, <<Named, Named>>}}
Dependencies == {With("asmv1", "dependency", k) : k \in UpTo2(Dependents)}
OneDependency == With("asmv1", "dependency", <<With("asmv1", "dependentAssembly", <<Named>>)>>)
Class(progids) == Element("asmv1", "comClass", {"clsid"}, "",
                          [i \in DOMAIN progids |-> Told("asmv1", "progid", progids[i])])
OfFile == {V1("typelib", {}), V1("typelib", {"tlbid", "version", "helpdir"}),
           Told("asmv1", "windowClass", ""), Told("asmv1", "windowClass", "name"),
           V1("comInterfaceProxyStub", {"iid"}), Class(<<"id", "">>), Class(<<"id">>)}
Files == {Element("asmv1", "file", {"name"}, "", k) : k \in UpTo2(OfFile)}
OfSettings == {Told("2005", "autoElevate", t) : t \in {"true", "false", "name"}}
              \cup {Told("2016", "dpiAwareness", "name"), Told("2013", "autoElevate", "true")}
Setting(kids) == With("asmv3", "windowsSettings", kids)
Apps == {With("asmv3", "application", <<Setting(s)>>) : s \in UpTo2(OfSettings)}
        \cup {With("asmv3", "application", k) : k \in {<<>>, <<Setting(<<>>), Setting(<<>>)>>}}
Levels == {Element(ns, "requestedExecutionLevel", a, "", <<>>) :
              ns \in {"asmv2", "asmv3"}, a \in {{"level"}, {"level", "uiAccess"}}}
Trusts ==
    {With("asmv2", "trustInfo", <<With("asmv3", "security", <<With("asmv2", "requestedPrivileges", k)>>)>>) :
        k \in UpTo2(Levels)}
    \cup {With(ns, "trustInfo", k) : ns \in {"asmv2", "asmv3"},
             k \in {<<>>, <<With("asmv2", "security", <<>>), With("asmv3", "security", <<>>)>>}}
Flat == {Told("asmv1", "description", t) : t \in {"", "name"}}
        \cup {V1("comInterfaceExternalProxyStub", {"iid"}), Other}
        \cup {Element("msix.v1", "msix", a, "", <<>>) :
                 a \in {{}, {"publisher", "packageName", "applicationId"}}}
MCDocuments ==
    {[Document("1.0", <<Named>>) EXCEPT !.root = r, !.assembly = FALSE] : r \in BOOLEAN}
    \cup {Document(v, h \o t) : v \in {"absent", "1.0", "2.0"}, h \in Heads, t \in {<<>>, <<Named>>}}
    \cup {Document("1.0", <<Named>> \o k) :
             k \in Behind(Compats, With("compatibility.v1", "compatibility", <<>>))
                   \cup Behind(Dependencies, OneDependency)
                   \cup Behind(Files, V1("file", {})) \cup Behind(Apps, With("asmv3", "application", <<>>))
                   \cup Behind(Trusts, With("asmv3", "trustInfo", <<>>)) \cup UpTo2(Flat)}

\* Texts of values: parts of each kind with delimiters between them, before and behind; a GUID
\* with one wrong character; digits of bytes; numbers at their limits.
Text(what, there, text) == [what |-> what, there |-> there, text |-> text]
Joined(delimiter, S, n) ==
    {<<>>} \cup UNION {{FlattenSeq([i \in 1..2 * k - 1 |->
                           IF i % 2 = 0 THEN <<delimiter>> ELSE f[(i + 1) \div 2]]) : f \in [1..k -> S]} : k \in 1..n}
Numerals == {<<>>, <<"2", "6">>, <<"2", "9">>}
Names == {<<>>, <<"a">>, <<"1">>, <<"x", "0">>, <<"-">>}
Words == {<<>>, <<" ", "HIDDEN">>, <<"control", " ">>, <<"system">>, <<"unaware">>, <<"x", "hidden">>, <<"static">>}
Guid == [i \in 1..38 |-> IF i = 1 THEN "{" ELSE IF i = 38 THEN "}"
                         ELSE IF i \in {10, 15, 20, 25} THEN "-" ELSE "a"]
GuidTexts == {<<>>, Tail(Guid), Guid \o <<"}">>, SubSeq(Guid, 2, 37)}
             \cup {[Guid EXCEPT ![i] = c] : i \in DOMAIN Guid, c \in {"0", "-", "x"}}
Digits(n) == UNION {[1..k -> {"0", "2", "a", "x"}] : k \in 0..n}
MCTexts ==
    {Text("full_version", TRUE, t) : t \in Joined(".", Numerals, 5)}
    \cup {Text("short_version", TRUE, t) : t \in Joined(".", Numerals \cup {<<"-", "1">>}, 3)}
    \cup {Text("progid", there, t) : there \in BOOLEAN, t \in Joined(".", Names, 4)}
    \cup {Text("guid", TRUE, t) : t \in GuidTexts}
    \cup {Text(what, TRUE, t) : what \in {"dpi", "misc_status", "flags"}, t \in Joined(",", Words, 3)}
    \cup {Text(what, TRUE, t) : what \in {"key", "hash", "resource_id", "size", "num_methods"}, t \in Digits(5)}
    \cup {Text(what, there, <<t>>) : there \in BOOLEAN,
             what \in {"type", "architecture", "level", "ui_access", "language", "code_page", "dpi_aware",
                      "heap_type", "threading_model", "hash_algorithm", "versioned"},
             t \in {"WIN32", "win32", "*", "en-us", "true", "Yes", "BOTH"}}
    \cup {Text("systems", TRUE, t) : t \in UNION {[1..n -> {"vista", "10", "x"}] : n \in 1..3}}

\* What elements declare, wrongly in the last four.
Alias(alias, ns) == [alias |-> alias, ns |-> ns]
NameIn(prefix, local) == [prefix |-> prefix, local |-> local]
MCDeclarations ==
    {<<>>, <<Alias("-", "u")>>, <<Alias("p", "u"), Alias("-", "v")>>, <<Alias("p", "v"), Alias("q", "v")>>,
     <<Alias("p", "u"), Alias("p", "v")>>, <<Alias("-", "")>>, <<Alias("", "u")>>,
     <<Alias("-", "u"), Alias("-", "v")>>}
MCAttributes ==
    {<<>>, <<NameIn("p", "a"), NameIn("-", "a"), NameIn("q", "a")>>, <<NameIn("-", "a:a")>>}

Built == {"exports", "tls", "bound_imports"}

=============================================================================
