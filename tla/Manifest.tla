------------------------------ MODULE Manifest ------------------------------
(***************************************************************************)
(* The reading of an application manifest: parse_manifest.  Each of its       *)
(* loaders looks the children of an element up by namespace and name, takes   *)
(* them in the order they stand in, and reports an element that is missing,   *)
(* that is there twice or that is not where it has to be.                     *)
(***************************************************************************)
EXTENDS Integers, Sequences, FiniteSets, SequencesExt

CONSTANTS
    Documents,   \* [root, assembly, version, kids]; an element is [ns, name, attrs, text, kids]
    ValueTexts,       \* what is written in an element, [what, there, text]; text is a sequence of characters
    NumberMax,   \* the largest number of 16 bits
    LongMax,     \* the largest number of 64 bits
    ProgidMax,   \* the largest length of a progid
    KeyLength,   \* the digits of a public key token
    Declarations,     \* what an element declares: sequences of [alias, ns], "-" for the default
    Attributes,       \* and its other attributes: sequences of names [prefix, local]
    ElementPrefixes,  \* of the names of elements; "-" for none
    MaxElements       \* bounds the elements

VARIABLES
    given,   \* a document
    pc,      \* the loader that is next, or "done"; of names "node" or "done"
    walk,    \* of names [frames: the elements that are open, layers, mapping, defaults];
             \* [inherited: has_no_inherit, left: elements to read, inner: of one of them, at]
    result,  \* [taken: what is stored, in order, inherit]; of names the elements:
             \* [in, declares, prefix, ns, attributes]
    errors   \* {<<error, element>>}

vars == <<given, pc, walk, result, errors>>

\* An element is named by the way to it from assembly: the numbers of its siblings.
Element(at) == FoldLeft(LAMBDA e, i : e.kids[i], given, at)

\* first_child and each next_child behind it.
Found(at, ns, name) ==
    LET kids == Element(at).kids
    IN  SelectSeq([i \in 1..Len(kids) |-> Append(at, i)],
                  LAMBDA p : kids[Last(p)].ns = ns /\ kids[Last(p)].name = name)

NodeIndex(at) == Last(at) - 1

\* read_attribute with an error for its absence.
Required ==
    [identity |-> {"type", "name", "version"}, file |-> {"name"}, com_class |-> {"clsid"},
     typelib |-> {"tlbid", "version", "helpdir"}, stub |-> {"iid"},
     msix |-> {"publisher", "packageName", "applicationId"}, level |-> {"level", "uiAccess"}]

Lacking(as, at) ==
    {<<"absent_" \o name, at>> : name \in Required[as] \ Element(at).attrs}

Stored(as, ats) == [i \in DOMAIN ats |-> [as |-> as, at |-> ats[i]]]

Several(error, ats) == IF Len(ats) > 1 THEN {<<error, Head(ats)>>} ELSE {}

Keep(stored, reported) ==
    /\ result' = [result EXCEPT !.taken = @ \o stored]
    /\ errors' = errors \cup reported
    /\ UNCHANGED given

Go(to, left) == pc' = to /\ walk' = [walk EXCEPT !.left = left, !.inner = <<>>, !.at = <<>>]

Init ==
    /\ given \in Documents
    /\ pc = "assembly" /\ result = [taken |-> <<>>, inherit |-> "none"] /\ errors = {}
    /\ walk = [inherited |-> FALSE, left |-> <<>>, inner |-> <<>>, at |-> <<>>]

-----------------------------------------------------------------------------
(* The assembly, noInherit and the identity. *)

EmptyManifest ==
    /\ pc = "assembly" /\ ~(given.root /\ given.assembly)
    /\ Keep(<<>>, {<<"empty_manifest", <<>>>>}) /\ Go("done", <<>>)

ManifestVersion ==
    /\ pc = "assembly" /\ given.root /\ given.assembly
    /\ Keep(<<>>,
            (IF given.version = "absent" THEN {<<"absent_manifest_version", <<>>>>} ELSE {})
            \cup (IF given.version # "1.0" THEN {<<"invalid_manifest_version", <<>>>>} ELSE {}))
    /\ Go("no_inherit", <<>>)

NoInherits == Found(<<>>, "asmv1", "noInherit") \o Found(<<>>, "asmv1", "noInheritable")

SeveralNoInherit ==
    /\ pc = "no_inherit" /\ Len(NoInherits) # 1
    /\ Keep(<<>>, Several("multiple_no_inherit_elements", NoInherits))
    /\ Go("identity", <<>>)

NoInherit ==
    /\ pc = "no_inherit" /\ Len(NoInherits) = 1
    /\ LET at == Head(NoInherits)
           first == NodeIndex(at) = 0
       IN  /\ result' = [result EXCEPT !.inherit = Element(at).name]
           /\ errors' = errors \cup
                (IF first THEN {} ELSE {<<"no_inherit_element_not_first", at>>})
           /\ walk' = [walk EXCEPT !.inherited = first]
    /\ pc' = "identity" /\ UNCHANGED given

Identities == Found(<<>>, "asmv1", "assemblyIdentity")

NoIdentity ==
    /\ pc = "identity" /\ Identities = <<>>
    /\ Keep(<<>>, {<<"absent_assembly_identity", <<>>>>})
    /\ Go("compatibility", <<>>)

Identity ==
    /\ pc = "identity" /\ Identities # <<>>
    /\ LET at == Head(Identities)
       IN  Keep(Stored("identity", <<at>>),
                Several("multiple_assembly_identities", Identities) \cup Lacking("identity", at)
                \cup IF NodeIndex(at) = (IF walk.inherited THEN 1 ELSE 0) THEN {}
                     ELSE {<<"invalid_assembly_identity_element_position", at>>})
    /\ Go("compatibility", <<>>)

-----------------------------------------------------------------------------
(* Compatibility and the dependencies. *)

Compatibilities == Found(<<>>, "compatibility.v1", "compatibility")
Applications ==
    IF Compatibilities = <<>> THEN <<>>
    ELSE Found(Head(Compatibilities), "compatibility.v1", "application")
ToDependencies == Go("dependencies", Found(<<>>, "asmv1", "dependency"))

NoCompatibility ==
    /\ pc = "compatibility" /\ Applications = <<>>
    /\ Keep(<<>>, Several("multiple_compatibility_elements", Compatibilities))
    /\ ToDependencies

\* The first application is read; whether there is another is not looked at.
Compatibility ==
    /\ pc = "compatibility" /\ Applications # <<>>
    /\ LET within(name) == Found(Head(Applications), "compatibility.v1", name)
           named(ats) == SelectSeq(ats, LAMBDA at : "Id" \in Element(at).attrs)
           tested == within("maxversiontested")
       IN  Keep(Stored("supported_os", named(within("supportedOS")))
                    \o Stored("max_tested", named(SelectSeq(tested, LAMBDA at : at = tested[1]))),
                Several("multiple_compatibility_elements", Compatibilities)
                \cup Several("multiple_maxversiontested_elements", tested))
    /\ ToDependencies

\* The assemblies that the dependency names.
Dependent(at) == Found(at, "asmv1", "dependentAssembly")

NextDependency(left) == [walk EXCEPT !.left = left, !.inner = <<>>, !.at = <<>>]

\* Faulty: the loop goes on without the next element.
EmptyDependencyStuck ==
    /\ pc = "dependencies" /\ walk.left # <<>> /\ walk.inner = <<>>
    /\ Dependent(Head(walk.left)) = <<>>
    /\ Keep(<<>>, {<<"invalid_dependencies", Head(walk.left)>>})
    /\ UNCHANGED <<walk, pc>>

EmptyDependency ==
    /\ pc = "dependencies" /\ walk.left # <<>> /\ walk.inner = <<>>
    /\ Dependent(Head(walk.left)) = <<>>
    /\ Keep(<<>>, {<<"invalid_dependencies", Head(walk.left)>>})
    /\ walk' = NextDependency(Tail(walk.left)) /\ UNCHANGED pc

Dependency ==
    /\ pc = "dependencies" /\ walk.left # <<>> /\ walk.inner = <<>>
    /\ Dependent(Head(walk.left)) # <<>>
    /\ walk' = [walk EXCEPT !.inner = Dependent(Head(walk.left))]
    /\ UNCHANGED <<given, pc, result, errors>>

\* The assemblies behind it in the dependency are not read.
UnidentifiedDependency ==
    /\ pc = "dependencies" /\ walk.inner # <<>>
    /\ Found(Head(walk.inner), "asmv1", "assemblyIdentity") = <<>>
    /\ Keep(<<>>, {<<"invalid_dependencies", Head(walk.inner)>>})
    /\ walk' = NextDependency(Tail(walk.left)) /\ UNCHANGED pc

DependentAssembly ==
    /\ pc = "dependencies" /\ walk.inner # <<>>
    /\ LET ids == Found(Head(walk.inner), "asmv1", "assemblyIdentity")
       IN  /\ ids # <<>>
           /\ Keep(Stored("dependency", <<Head(ids)>>),
                   Several("multiple_assembly_identities", ids)
                   \cup Lacking("identity", Head(ids))
                   \cup IF NodeIndex(Head(ids)) = 0 THEN {}
                        ELSE {<<"invalid_dependend_assembly_element_position", Head(ids)>>})
    /\ walk' = IF Len(walk.inner) > 1 THEN [walk EXCEPT !.inner = Tail(@)]
               ELSE NextDependency(Tail(walk.left))
    /\ UNCHANGED pc

DependenciesEnd ==
    /\ pc = "dependencies" /\ walk.left = <<>>
    /\ Keep(<<>>, {}) /\ Go("files", Found(<<>>, "asmv1", "file"))

-----------------------------------------------------------------------------
(* Files: what each of their lists takes and reports. *)

Blank(error, ats) == {<<error, at>> : at \in {p \in ToSet(ats) : Element(p).text = ""}}
AllLacking(as, ats) == UNION {Lacking(as, at) : at \in ToSet(ats)}

Progids(file) ==
    FlattenSeq([i \in DOMAIN Found(file, "asmv1", "comClass") |->
                   Found(Found(file, "asmv1", "comClass")[i], "asmv1", "progid")])

File ==
    /\ pc = "files" /\ walk.left # <<>>
    /\ LET file == Head(walk.left)
           within(name) == Found(file, "asmv1", name)
       IN  Keep(Stored("file", <<file>>)
                    \o Stored("com_class", within("comClass")) \o Stored("progid", Progids(file))
                    \o Stored("typelib", within("typelib"))
                    \o Stored("window_class", within("windowClass"))
                    \o Stored("stub", within("comInterfaceProxyStub")),
                Lacking("file", file) \cup AllLacking("com_class", within("comClass"))
                    \cup Blank("empty_progids", Progids(file))
                    \cup AllLacking("typelib", within("typelib"))
                    \cup Blank("empty_window_class", within("windowClass"))
                    \cup AllLacking("stub", within("comInterfaceProxyStub")))
    /\ walk' = [walk EXCEPT !.left = Tail(@)] /\ UNCHANGED pc

FilesEnd ==
    /\ pc = "files" /\ walk.left = <<>>
    /\ Keep(<<>>, {}) /\ Go("settings", <<>>)

-----------------------------------------------------------------------------
(* windowsSettings. *)

\* The options, each in the namespace of the year that brought it.
BoolOptions ==
    [autoElevate |-> "2005", disableTheming |-> "2005", disableWindowFiltering |-> "2011",
     gdiScaling |-> "2017", highResolutionScrollingAware |-> "2013",
     ultraHighResolutionScrollingAware |-> "2013", longPathAware |-> "2016",
     printerDriverIsolation |-> "2011"]
Options ==
    [activeCodePage |-> "2019", dpiAware |-> "2005", dpiAwareness |-> "2016", heapType |-> "2020"]

AppElements == Found(<<>>, "asmv3", "application")
WindowsSettings ==
    IF AppElements = <<>> THEN <<>> ELSE Found(Head(AppElements), "asmv3", "windowsSettings")

\* load_bool_option of every option: one that is there twice is not taken, and neither is "false".
BoolOptionsTaken(at) ==
    LET of(o) == Found(at, BoolOptions[o], o)
    IN  [stored |-> SetToSeq({of(o)[1] : o \in {x \in DOMAIN BoolOptions :
                        Len(of(x)) = 1 /\ Element(of(x)[1]).text = "true"}}),
         reported |-> UNION {Several("multiple_elements", of(o)) : o \in DOMAIN BoolOptions}
            \cup {<<"invalid_value", of(o)[1]>> : o \in {x \in DOMAIN BoolOptions :
                    Len(of(x)) = 1 /\ Element(of(x)[1]).text \notin {"true", "false"}}}]

\* load_option of every option.
OptionsTaken(at) ==
    LET of(o) == Found(at, Options[o], o)
    IN  [stored |-> SetToSeq({of(o)[1] : o \in {x \in DOMAIN Options : Len(of(x)) = 1}}),
         reported |-> UNION {Several("multiple_elements", of(o)) : o \in DOMAIN Options}]

SettingsReported ==
    Several("multiple_application_elements", AppElements)
    \cup Several("multiple_windows_settings_elements", WindowsSettings)

NoSettings ==
    /\ pc = "settings" /\ WindowsSettings = <<>>
    /\ Keep(<<>>, SettingsReported) /\ Go("description", <<>>)

Settings ==
    /\ pc = "settings" /\ WindowsSettings # <<>>
    /\ LET bool == BoolOptionsTaken(Head(WindowsSettings))
           other == OptionsTaken(Head(WindowsSettings))
       IN  Keep(Stored("option", bool.stored \o other.stored),
                SettingsReported \cup bool.reported \cup other.reported)
    /\ Go("description", <<>>)

-----------------------------------------------------------------------------
(* The description, the stubs, msix and trustInfo. *)

Description ==
    /\ pc = "description"
    /\ Keep(Stored("description", SelectSeq(Found(<<>>, "asmv1", "description"),
                                            LAMBDA at : Element(at).text # "")), {})
    /\ Go("stubs", <<>>)

ExternalStubs ==
    /\ pc = "stubs"
    /\ LET stubs == Found(<<>>, "asmv1", "comInterfaceExternalProxyStub")
       IN  Keep(Stored("external_stub", stubs), AllLacking("stub", stubs))
    /\ Go("msix", <<>>)

MsixIdentity ==
    /\ pc = "msix"
    /\ LET msix == Found(<<>>, "msix.v1", "msix")
       IN  IF Len(msix) = 1 THEN Keep(Stored("msix", msix), Lacking("msix", msix[1]))
           ELSE Keep(<<>>, Several("multiple_msix_elements", msix))
    /\ Go("trust", <<"trustInfo", "security", "requestedPrivileges", "requestedExecutionLevel">>)

\* get_child_elem: walk.at is the element that is reached, walk.left the names that are left.
TrustChildren ==
    Found(walk.at, "asmv2", Head(walk.left)) \o Found(walk.at, "asmv3", Head(walk.left))

TrustEnds ==
    /\ pc = "trust" /\ walk.left # <<>> /\ Len(TrustChildren) # 1
    /\ Keep(<<>>, Several("multiple_" \o Head(walk.left), TrustChildren))
    /\ Go("done", <<>>)

TrustChild ==
    /\ pc = "trust" /\ walk.left # <<>> /\ Len(TrustChildren) = 1
    /\ walk' = [walk EXCEPT !.left = Tail(@), !.at = TrustChildren[1]]
    /\ UNCHANGED <<given, pc, result, errors>>

ExecutionLevel ==
    /\ pc = "trust" /\ walk.left = <<>>
    /\ Keep(Stored("level", <<walk.at>>), Lacking("level", walk.at))
    /\ Go("done", <<>>)

Next ==
    \/ EmptyManifest \/ ManifestVersion \/ SeveralNoInherit \/ NoInherit
    \/ NoIdentity \/ Identity \/ NoCompatibility \/ Compatibility
    \/ EmptyDependency \/ Dependency \/ UnidentifiedDependency \/ DependentAssembly
    \/ DependenciesEnd \/ File \/ FilesEnd \/ NoSettings \/ Settings
    \/ Description \/ ExternalStubs \/ MsixIdentity
    \/ TrustEnds \/ TrustChild \/ ExecutionLevel

-----------------------------------------------------------------------------
(* What is checked: against what the elements of the document are by their place in it. *)

Grown(ats) == UNION {{Append(at, i) : i \in DOMAIN Element(at).kids} : at \in ats}
Ats == LET one == Grown({<<>>})
           two == Grown(one)
           three == Grown(two)
       IN  one \cup two \cup three \cup Grown(three)

Names(at) == [i \in DOMAIN at |-> Element(SubSeq(at, 1, i)).name]

\* The places of a manifest: the names on the way there, the namespace of each of them, and
\* the kind of what stands there.
Place(names, ns, as) == [names |-> names, ns |-> ns, as |-> as]
In1(names, as) == Place(names, [i \in DOMAIN names |-> {"asmv1"}], as)
Compat(names, as) == Place(names, [i \in DOMAIN names |-> {"compatibility.v1"}], as)
Trust(names, as) == Place(names, [i \in DOMAIN names |-> {"asmv2", "asmv3"}], as)
Level == <<"trustInfo", "security", "requestedPrivileges", "requestedExecutionLevel">>
Places ==
    {In1(<<"assemblyIdentity">>, "identity"), In1(<<"description">>, "description"),
     In1(<<"comInterfaceExternalProxyStub">>, "external_stub"),
     In1(<<"dependency", "dependentAssembly", "assemblyIdentity">>, "dependency"),
     In1(<<"file">>, "file"), In1(<<"file", "comClass">>, "com_class"),
     In1(<<"file", "comClass", "progid">>, "progid"), In1(<<"file", "typelib">>, "typelib"),
     In1(<<"file", "windowClass">>, "window_class"),
     In1(<<"file", "comInterfaceProxyStub">>, "stub"), Place(<<"msix">>, <<{"msix.v1"}>>, "msix"),
     Compat(<<"compatibility", "application", "supportedOS">>, "supported_os"),
     Compat(<<"compatibility", "application", "maxversiontested">>, "max_tested"),
     Trust(Level, "level")}
    \cup {Place(<<"application", "windowsSettings", o>>, <<{"asmv3"}, {"asmv3"}, {BoolOptions[o]}>>,
                "option") : o \in DOMAIN BoolOptions}
    \cup {Place(<<"application", "windowsSettings", o>>, <<{"asmv3"}, {"asmv3"}, {Options[o]}>>,
                "option") : o \in DOMAIN Options}
IsAt(at, place) ==
    /\ Names(at) = place.names
    /\ \A i \in DOMAIN at : Element(SubSeq(at, 1, i)).ns \in place.ns[i]

\* It says something: an option that says false says nothing, like a supported system with no id.
Says(at, as) ==
    /\ as \in {"supported_os", "max_tested"} => "Id" \in Element(at).attrs
    /\ as = "description" => Element(at).text # ""
    /\ as = "option" /\ Last(Names(at)) \in DOMAIN BoolOptions => Element(at).text = "true"
OfFirstApplication(at) ==
    Names(at)[1] = "compatibility" =>
        ~\E i \in 1..at[2] - 1 : /\ Element(<<at[1], i>>).ns = "compatibility.v1"
                                 /\ Element(<<at[1], i>>).name = "application"

\* In a manifest of which nothing is reported, everything that has a place there and says
\* something is stored, once, as what it is.
EverythingTaken ==
    pc = "done" /\ errors = {} =>
        /\ \A p \in Places, at \in Ats :
              IsAt(at, p) /\ Says(at, p.as) /\ OfFirstApplication(at) =>
                  [as |-> p.as, at |-> at] \in ToSet(result.taken)
        /\ IsInjective(result.taken)

\* Nothing else is stored, in any manifest, and the elements of a list keep their order.
NothingInvented ==
    /\ \A t \in ToSet(result.taken) : \E p \in Places : p.as = t.as /\ IsAt(t.at, p)
    /\ \A i, j \in DOMAIN result.taken :
          i < j /\ result.taken[i].as = result.taken[j].as /\ result.taken[i].as # "option" =>
              \E k \in DOMAIN result.taken[i].at :
                 /\ SubSeq(result.taken[i].at, 1, k - 1) = SubSeq(result.taken[j].at, 1, k - 1)
                 /\ result.taken[i].at[k] < result.taken[j].at[k]

\* What manifests have to be like: the elements that say how the assembly is inherited and what
\* it is called are the first ones, and of what can be there once there is one.
InPlace ==
    /\ Len(Identities) = 1 /\ Len(NoInherits) <= 1
    /\ NoInherits \in {<<>>, <<<<1>>>>} /\ Identities = <<<<Len(NoInherits) + 1>>>>
Single == {"max_tested", "msix", "level", "option"}
AreSingle ==
    /\ \A p \in {q \in Places : q.as \in Single} :
          Cardinality({at \in Ats : IsAt(at, p) /\ OfFirstApplication(at)}) <= 1
    /\ Len(Compatibilities) <= 1 /\ Len(AppElements) <= 1 /\ Len(WindowsSettings) <= 1

\* A manifest of which nothing is reported is like that.
MisplacedReported ==
    pc = "done" /\ errors = {} => InPlace /\ AreSingle
ManifestTaken == EverythingTaken /\ NothingInvented /\ MisplacedReported
-----------------------------------------------------------------------------
(***************************************************************************)
(* The values of what was read: accessors that take a text apart.  given is  *)
(* the text and what it is asked for, walk [off, index] is where the next    *)
(* part begins, 0 behind the last one, and the number of parts so far,       *)
(* result what was read of them, [numbers, words, pieces].                   *)
(***************************************************************************)

ValuesInit ==
    /\ given \in ValueTexts /\ errors = {}
    /\ walk = [off |-> IF given.text = <<>> THEN 0 ELSE 1, index |-> 0]
    /\ pc = IF given.there THEN "part" ELSE "done"
    /\ result = [numbers |-> <<>>, words |-> IF given.what = "versioned" /\ ~given.there THEN {"yes"} ELSE {},
                 pieces |-> <<>>]

Asked(what) == pc = "part" /\ given.what \in what
Refuse(error) == pc' = "done" /\ errors' = {error} /\ UNCHANGED <<given, walk, result>>
Answer == pc' = "done" /\ UNCHANGED <<given, walk, result, errors>>

\* for_each_part: up to the next delimiter; one at the end has an empty part behind it.
Delimiter == IF given.what \in {"dpi", "misc_status", "flags"} THEN "," ELSE "."
DelimitersFrom(off) == {i \in off..Len(given.text) : given.text[i] = Delimiter}
Part ==
    LET next == DelimitersFrom(walk.off)
    IN  SubSeq(given.text, walk.off, IF next = {} THEN Len(given.text) ELSE Min(next) - 1)
Behind(off) == IF DelimitersFrom(off) = {} THEN 0 ELSE Min(DelimitersFrom(off)) + 1
IsPart(what) == Asked(what) /\ walk.off # 0
NoParts(what) == Asked(what) /\ walk.off = 0
AfterPart ==
    /\ walk' = [off |-> Behind(walk.off), index |-> walk.index + 1]
    /\ UNCHANGED <<given, pc, errors>>

\* from_chars: digits and nothing else, of a number that fits.
DigitOf == [d \in {"0", "1", "2", "6", "9", "a"} |->
              CASE d = "0" -> 0 [] d = "1" -> 1 [] d = "2" -> 2 [] d = "6" -> 6 [] d = "9" -> 9 [] d = "a" -> 10]
Digits(base) == {d \in DOMAIN DigitOf : DigitOf[d] < base}
NumberOf(s, base) == FoldLeft(LAMBDA n, d : n * base + DigitOf[d], 0, s)
IsNumber(s, base, max) ==
    s # <<>> /\ ToSet(s) \subseteq Digits(base) /\ NumberOf(s, base) <= max

-----------------------------------------------------------------------------
(* parse_version_impl, com_progid::parse, parse_guid. *)

VersionParts == [full_version |-> 4, short_version |-> 2]

VersionNumber ==
    /\ IsPart(DOMAIN VersionParts)
    /\ walk.index < VersionParts[given.what] /\ IsNumber(Part, 10, NumberMax)
    /\ result' = [result EXCEPT !.numbers = Append(@, NumberOf(Part, 10))]
    /\ AfterPart
NoVersionNumber ==
    /\ IsPart(DOMAIN VersionParts)
    /\ walk.index >= VersionParts[given.what] \/ ~IsNumber(Part, 10, NumberMax)
    /\ Refuse("invalid_version_string")
VersionEnds ==
    /\ NoParts(DOMAIN VersionParts) /\ walk.index = VersionParts[given.what]
    /\ Answer
VersionTooShort ==
    /\ NoParts(DOMAIN VersionParts) /\ walk.index # VersionParts[given.what]
    /\ Refuse("invalid_version_string")

ProgidPart ==
    /\ IsPart({"progid"}) /\ walk.index < 2
    /\ result' = [result EXCEPT !.pieces = Append(@, Part)]
    /\ AfterPart
\* The version is all that is left, and has no dot when it is valid.
ProgidVersion ==
    /\ IsPart({"progid"}) /\ walk.index = 2
    /\ result' = [result EXCEPT !.pieces = Append(@, SubSeq(given.text, walk.off, Len(given.text)))]
    /\ walk' = [walk EXCEPT !.off = 0] /\ UNCHANGED <<given, pc, errors>>

ProgidChars == {"a", "x", "0", "1"}
\* is_valid: a part that was not read is empty.
IsValidProgid(pieces) ==
    /\ Len(pieces) >= 2 /\ \A i \in DOMAIN pieces : pieces[i] # <<>> /\ ToSet(pieces[i]) \subseteq ProgidChars
    /\ FoldLeft(LAMBDA n, s : n + Len(s), Len(pieces) - 1, pieces) <= ProgidMax
    /\ pieces[1][1] \notin DOMAIN DigitOf \ {"a"}
ProgidEnds == NoParts({"progid"}) /\ IsValidProgid(result.pieces) /\ Answer
NoProgid == NoParts({"progid"}) /\ ~IsValidProgid(result.pieces) /\ Refuse("invalid_com_progid")

\* The bytes of each part, and whether a dash has to be behind it.
GuidParts ==
    <<[bytes |-> 4, dash |-> TRUE], [bytes |-> 2, dash |-> TRUE], [bytes |-> 2, dash |-> TRUE],
      [bytes |-> 1, dash |-> FALSE], [bytes |-> 1, dash |-> TRUE]>>
    \o [i \in 1..6 |-> [bytes |-> 1, dash |-> FALSE]]
GuidLength == 36
InGuid == given.what = "guid" /\ given.text # <<>> /\ Len(given.text) = GuidLength + 2
          /\ given.text[1] = "{" /\ Last(given.text) = "}"
\* The first part begins behind the bracket.
GuidAt == IF walk.index = 0 THEN 2 ELSE walk.off
GuidPartStands ==
    LET p == GuidParts[walk.index + 1]
        end == GuidAt + 2 * p.bytes
    IN  /\ ToSet(SubSeq(given.text, GuidAt, end - 1)) \subseteq Digits(16)
        /\ p.dash => given.text[end] = "-"
GuidPart ==
    /\ Asked({"guid"}) /\ InGuid /\ walk.index < Len(GuidParts) /\ GuidPartStands
    /\ LET p == GuidParts[walk.index + 1]
       IN  walk' = [off |-> GuidAt + 2 * p.bytes + (IF p.dash THEN 1 ELSE 0), index |-> walk.index + 1]
    /\ result' = [result EXCEPT !.pieces =
                    Append(@, SubSeq(given.text, GuidAt, GuidAt + 2 * GuidParts[walk.index + 1].bytes - 1))]
    /\ UNCHANGED <<given, pc, errors>>
NoGuid ==
    /\ Asked({"guid"})
    /\ ~(InGuid /\ (walk.index < Len(GuidParts) => GuidPartStands))
    /\ Refuse("invalid_guid")
GuidEnds == Asked({"guid"}) /\ InGuid /\ walk.index = Len(GuidParts) /\ Answer

-----------------------------------------------------------------------------
(* Lists of words, words, digits of bytes, and numbers. *)

Capitals == [HIDDEN |-> "hidden", WIN32 |-> "win32", Yes |-> "yes", BOTH |-> "both"]
Lowered(c) == IF c \in DOMAIN Capitals THEN Capitals[c] ELSE c
\* A part without the spaces around it.
Trimmed(s) ==
    LET told == {i \in DOMAIN s : s[i] # " "}
    IN  IF told = {} THEN <<>> ELSE SubSeq(s, Min(told), Max(told))
ListWords == [dpi |-> {"system", "unaware"}, misc_status |-> {"static", "alignable"}, flags |-> {"control", "hidden"}]
WordOf(s) == LET t == Trimmed(s) IN IF Len(t) = 1 THEN Lowered(t[1]) ELSE "unknown"
IsListed(s) == WordOf(s) \in ListWords[given.what]

Flag ==
    /\ IsPart({"misc_status", "flags"})
    /\ result' = [result EXCEPT !.words = @ \cup {IF IsListed(Part) THEN WordOf(Part) ELSE "unknown"}]
    /\ AfterPart
DpiPassed == IsPart({"dpi"}) /\ ~IsListed(Part) /\ UNCHANGED result /\ AfterPart
\* The first one that is known counts.
DpiRecognized ==
    /\ IsPart({"dpi"}) /\ IsListed(Part)
    /\ result' = [result EXCEPT !.words = {WordOf(Part)}]
    /\ walk' = [walk EXCEPT !.off = 0] /\ UNCHANGED <<given, pc, errors>>
ListEnds == NoParts(DOMAIN ListWords) /\ Answer

\* Two digits make a byte; the text of a key has one length, the text of a hash any that is even.
HexFits == IF given.what = "key" THEN Len(given.text) = KeyLength ELSE Len(given.text) % 2 = 0
ByteAt == SubSeq(given.text, 2 * walk.index + 1, 2 * walk.index + 2)
HexLeft == HexFits /\ 2 * walk.index < Len(given.text)
HexByte ==
    /\ Asked({"key", "hash"}) /\ HexLeft /\ ToSet(ByteAt) \subseteq Digits(16)
    /\ result' = [result EXCEPT !.numbers = Append(@, NumberOf(ByteAt, 16))]
    /\ walk' = [walk EXCEPT !.index = @ + 1] /\ UNCHANGED <<given, pc, errors>>
NoHex ==
    /\ Asked({"key", "hash"})
    /\ ~HexFits \/ (HexLeft /\ ~(ToSet(ByteAt) \subseteq Digits(16)))
    /\ Refuse("invalid_hex_string")
HexEnds == Asked({"key", "hash"}) /\ HexFits /\ ~HexLeft /\ Answer

\* Words that are compared as they are written, and words of which case does not matter; "*" is
\* any processor, and the neutral language.
ExactWords ==
    [type |-> {"win32"}, architecture |-> {"x86", "amd64", "arm", "arm64", "*"},
     level |-> {"asInvoker", "requireAdministrator", "highestAvailable"}, ui_access |-> {"true", "false"}]
AnyCaseWords ==
    [language |-> {"*", "en-us"}, code_page |-> {"utf-8", "legacy", "en-us"},
     dpi_aware |-> {"true", "false", "true/pm", "per monitor"}, heap_type |-> {"segmentheap"},
     threading_model |-> {"neutral", "apartment", "free", "both"}, hash_algorithm |-> {"sha1", "sha256"},
     versioned |-> {"yes", "no"}]
Meant ==
    IF given.what \in DOMAIN ExactWords THEN ToSet(given.text) \cap ExactWords[given.what]
    ELSE {Lowered(c) : c \in ToSet(given.text)} \cap AnyCaseWords[given.what]
Word ==
    /\ Asked(DOMAIN ExactWords \cup DOMAIN AnyCaseWords)
    /\ given.what = "versioned" => Meant # {}
    /\ result' = [result EXCEPT !.words = IF Meant = {} THEN {"unknown"} ELSE Meant]
    /\ pc' = "done" /\ UNCHANGED <<given, walk, errors>>
NoBool == Asked({"versioned"}) /\ Meant = {} /\ Refuse("invalid_bool_string")

\* The list of supported systems: here each character is the identifier of one.
Systems == {"vista", "7", "8", "8.1", "10"}
SystemsListed ==
    /\ Asked({"systems"})
    /\ result' = [result EXCEPT !.words =
                    {IF g \in Systems THEN g ELSE "unsupported" : g \in ToSet(given.text)}]
    /\ pc' = "done" /\ UNCHANGED <<given, walk, errors>>

Numbers == [resource_id |-> [base |-> 16, max |-> NumberMax], size |-> [base |-> 10, max |-> LongMax],
            num_methods |-> [base |-> 10, max |-> LongMax]]
NumberRead ==
    /\ Asked(DOMAIN Numbers)
    /\ LET n == Numbers[given.what]
       IN  /\ IsNumber(given.text, n.base, n.max)
           /\ result' = [result EXCEPT !.numbers = <<NumberOf(given.text, n.base)>>]
    /\ pc' = "done" /\ UNCHANGED <<given, walk, errors>>
NoNumber ==
    /\ Asked(DOMAIN Numbers)
    /\ ~IsNumber(given.text, Numbers[given.what].base, Numbers[given.what].max)
    /\ Refuse("invalid_number")

ValuesNext ==
    \/ VersionNumber \/ NoVersionNumber \/ VersionEnds \/ VersionTooShort
    \/ ProgidPart \/ ProgidVersion \/ ProgidEnds \/ NoProgid
    \/ GuidPart \/ NoGuid \/ GuidEnds
    \/ Flag \/ DpiPassed \/ DpiRecognized \/ ListEnds
    \/ HexByte \/ NoHex \/ HexEnds \/ NumberRead \/ NoNumber
    \/ Word \/ NoBool \/ SystemsListed

-----------------------------------------------------------------------------
(* What is checked of values: against the whole text and where its delimiters are. *)

Cuts == {0, Len(given.text) + 1} \cup DelimitersFrom(1)
\* What stands between two neighbouring delimiters.
Pieces == {SubSeq(given.text, i + 1, Min({j \in Cuts : j > i}) - 1) : i \in Cuts \ {Max(Cuts)}}
PieceBefore(cut) == SubSeq(given.text, Max({j \in Cuts : j < cut}) + 1, cut - 1)

\* A version is taken if it is its numbers with dots between them, and no other text is.
VersionIsText ==
    LET written == Cuts \ {0}
        at(k) == CHOOSE c \in written : Cardinality({d \in written : d < c}) = k - 1
    IN  /\ errors = {} <=> /\ Cardinality(written) = VersionParts[given.what]
                           /\ \A s \in Pieces : IsNumber(s, 10, NumberMax)
        /\ errors = {} => \A k \in DOMAIN result.numbers :
                             result.numbers[k] = NumberOf(PieceBefore(at(k)), 10)

\* A progid that is taken says all of its text, in letters and digits.
ProgidIsText ==
    /\ errors = {} <=> /\ Cardinality(Cuts) \in {3, 4} /\ Len(given.text) <= ProgidMax
                       /\ \A s \in Pieces : s # <<>> /\ ToSet(s) \subseteq ProgidChars
                       /\ given.text[1] \in {"a", "x"}
    /\ errors = {} => given.text = FoldLeft(LAMBDA t, s : t \o <<".">> \o s, result.pieces[1], Tail(result.pieces))

\* A GUID that is taken has its dashes where they belong and no other character but digits.
GuidDashes == {10, 15, 20, 25}
GuidIsText ==
    /\ errors = {} <=> /\ Len(given.text) = GuidLength + 2
                       /\ given.text[1] = "{" /\ Last(given.text) = "}"
                       /\ \A i \in 2..GuidLength + 1 :
                             IF i \in GuidDashes THEN given.text[i] = "-" ELSE given.text[i] \in Digits(16)
    /\ errors = {} => FlattenSeq(result.pieces) = SelectSeq(SubSeq(given.text, 2, GuidLength + 1),
                                                            LAMBDA c : c # "-")

\* Each part of a list counts, an empty one too; of the DPI awareness the first that is known.
ListIsText ==
    LET known == {c \in Cuts \ {0} : IsListed(PieceBefore(c))}
        unknown == \E s \in Pieces : ~IsListed(s)
    IN  IF given.text = <<>> THEN result.words = {}
        ELSE IF given.what = "dpi"
             THEN result.words = IF known = {} THEN {} ELSE {WordOf(PieceBefore(Min(known)))}
             ELSE result.words = {WordOf(PieceBefore(c)) : c \in known} \cup (IF unknown THEN {"unknown"} ELSE {})

HexIsText ==
    /\ errors = {} <=> /\ given.what = "key" => Len(given.text) = KeyLength
                       /\ Len(given.text) % 2 = 0 /\ ToSet(given.text) \subseteq Digits(16)
    /\ errors = {} => /\ 2 * Len(result.numbers) = Len(given.text)
                      /\ \A i \in DOMAIN given.text :
                            DigitOf[given.text[i]] = (result.numbers[(i + 1) \div 2] \div (IF i % 2 = 1 THEN 16 ELSE 1)) % 16

\* The value of a text is the one its characters say, and a text that says none is refused.
ValuesRead ==
    pc = "done" /\ given.there =>
        CASE given.what \in DOMAIN VersionParts -> VersionIsText
          [] given.what = "progid" -> ProgidIsText
          [] given.what = "guid" -> GuidIsText
          [] given.what \in DOMAIN ListWords -> ListIsText
          [] given.what \in {"key", "hash"} -> HexIsText
          [] given.what \in DOMAIN Numbers -> errors = {} <=> result.numbers # <<>>
          [] OTHER -> errors = {} <=> result.words # {}

-----------------------------------------------------------------------------
(***************************************************************************)
(* The elements of a manifest and the namespaces of their names: the tree     *)
(* that pugixml_manifest_accessor makes of a document.  A namespace that an   *)
(* element declares is pushed for what is inside of it and popped behind it.  *)
(* The document is chosen as it is walked (NamesInit, NamesNext).             *)
(***************************************************************************)

\* A name with its namespace left out: what has no namespace at all has this one.
Unbound == "unbound"
Aliases == {a.alias : a \in UNION {ToSet(d) : d \in Declarations}} \ {"-", ""}

\* An element that is open: its number, 0 for the document, and how many elements are in it.
Frame(node, attrs) ==
    [node |-> node, attrs |-> attrs, children |-> 0, declared |-> FALSE, begun |-> FALSE]
Top == Last(walk.frames)
InDocument == Top.node = 0

NamesInit ==
    /\ given = <<>>
    /\ pc = "node" /\ result = <<>> /\ errors = {}
    /\ walk = [frames |-> <<Frame(0, <<>>)>>, layers |-> <<>>,
               mapping |-> [a \in Aliases |-> <<>>], defaults |-> <<"">>]

Invalid ==
    /\ errors' = errors \cup {"invalid_xml"} /\ pc' = "done"

\* What is not an element.
Begun == [walk EXCEPT !.frames[Len(walk.frames)].begun = TRUE]

\* Text and comments count in front of the declaration of the document only.
Text ==
    /\ pc = "node" /\ InDocument /\ ~Top.begun
    /\ walk' = Begun /\ UNCHANGED <<given, pc, result, errors>>

Instruction ==
    /\ pc = "node" /\ Invalid /\ UNCHANGED <<given, walk, result>>

Declaration ==
    /\ pc = "node"
    /\ IF InDocument /\ ~Top.declared /\ ~Top.begun
       THEN /\ walk' = [Begun EXCEPT !.frames[1].declared = TRUE]
            /\ UNCHANGED <<pc, errors>>
       ELSE Invalid /\ UNCHANGED walk
    /\ UNCHANGED <<given, result>>

-----------------------------------------------------------------------------
(* namespace_registry. *)

\* push_namespace and set_default of what an element declares, on a layer of its own.
Declarable(declares) ==
    /\ \A i \in DOMAIN declares : declares[i].alias # "" /\ declares[i].ns # ""
    /\ \A i, j \in DOMAIN declares : declares[i].alias = declares[j].alias => i = j
Layer(declares) == {declares[i].alias : i \in DOMAIN declares}
Given(declares, alias) == (CHOOSE d \in ToSet(declares) : d.alias = alias).ns
Pushed(declares) ==
    [walk EXCEPT !.layers = Append(@, Layer(declares)),
                 !.mapping = [a \in Aliases |-> IF a \in Layer(declares)
                                                THEN Append(@[a], Given(declares, a)) ELSE @[a]],
                 !.defaults = IF "-" \in Layer(declares)
                              THEN Append(@, Given(declares, "-")) ELSE @]

\* pop_namespaces
Popped ==
    [walk EXCEPT !.layers = Front(@),
                 !.mapping = [a \in Aliases |-> IF a \in Last(walk.layers) THEN Front(@[a]) ELSE @[a]],
                 !.defaults = IF "-" \in Last(walk.layers) THEN Front(@) ELSE @]

\* get_current_namespace
Current(registry, alias) ==
    IF alias \in Aliases /\ registry.mapping[alias] # <<>> THEN Last(registry.mapping[alias])
    ELSE Unbound

\* get_ns_name: attributes do not inherit the default.
ElementNs(registry, prefix) ==
    IF prefix = "-" THEN Last(registry.defaults) ELSE Current(registry, prefix)
AttributeNs(registry, prefix) == IF prefix = "-" THEN "" ELSE Current(registry, prefix)
WellFormed(local) == local \notin {"", "a:a"}

-----------------------------------------------------------------------------
(* load_node. *)

SecondRoot == pc = "node" /\ InDocument /\ Top.children = 1 /\ Instruction

BadDeclaration(declares) ==
    /\ pc = "node" /\ (InDocument => Top.children = 0)
    /\ ~Declarable(declares)
    /\ Invalid /\ UNCHANGED <<given, walk, result>>

OpenElement(declares, prefix, attrs) ==
    /\ pc = "node" /\ (InDocument => Top.children = 0) /\ Len(result) < MaxElements
    /\ Declarable(declares)
    /\ \E registry \in {Pushed(declares)} :
        LET ns == ElementNs(registry, prefix)
        IN  /\ result' = Append(result, [in |-> Top.node, declares |-> declares, prefix |-> prefix,
                                         ns |-> ns, attributes |-> <<>>])
            /\ IF ns = Unbound THEN Invalid ELSE UNCHANGED <<pc, errors>>
            /\ walk' = [registry EXCEPT
                          !.frames = Append([@ EXCEPT ![Len(@)].begun = TRUE, ![Len(@)].children = @ + 1],
                                            Frame(Len(result) + 1, attrs))]
    /\ UNCHANGED given

\* The attributes of an element are taken behind its children.
CloseElement ==
    /\ pc = "node" /\ ~InDocument
    /\ LET taken == [i \in DOMAIN Top.attrs |->
                        [prefix |-> Top.attrs[i].prefix, local |-> Top.attrs[i].local,
                         ns |-> AttributeNs(walk, Top.attrs[i].prefix)]]
           bad(i) == \/ taken[i].ns = Unbound \/ ~WellFormed(taken[i].local)
                     \/ \E j \in 1..i - 1 : taken[j].ns = taken[i].ns /\ taken[j].local = taken[i].local
       IN  /\ IF \E i \in DOMAIN taken : bad(i) THEN Invalid ELSE UNCHANGED <<pc, errors>>
           /\ result' = [result EXCEPT ![Top.node].attributes = taken]
    /\ walk' = [Popped EXCEPT !.frames = Front(@)]
    /\ UNCHANGED given

CloseDocument ==
    /\ pc = "node" /\ InDocument
    /\ errors' = errors \cup (IF Top.children = 0 THEN {"invalid_xml"}
                              ELSE IF Top.declared THEN {} ELSE {"absent_declaration"})
    /\ pc' = "done" /\ UNCHANGED <<given, walk, result>>

NamesNext ==
    \/ Text \/ Instruction \/ Declaration \/ SecondRoot
    \/ \E declares \in Declarations :
        \/ BadDeclaration(declares)
        \/ \E prefix \in ElementPrefixes, attrs \in Attributes : OpenElement(declares, prefix, attrs)
    \/ CloseElement \/ CloseDocument

-----------------------------------------------------------------------------
(* What is checked of the names. *)

\* What an alias means in an element: what the nearest element around it, the element itself
\* first, declares it to be.
Around(n) == {m \in 1..n : \E k \in 0..MaxElements :
                 m = FoldLeft(LAMBDA at, i : IF at = 0 THEN 0 ELSE result[at].in, n, [i \in 1..k |-> i])}
Declaring(n, alias) == {m \in Around(n) : alias \in Layer(result[m].declares)}
MeantThere(n, alias, otherwise) ==
    IF Declaring(n, alias) = {} THEN otherwise
    ELSE Given(result[CHOOSE m \in Declaring(n, alias) : \A o \in Declaring(n, alias) : o <= m].declares, alias)

\* Every name means what the elements around it declare, whatever was declared and closed
\* before it, and a name is called invalid only if none of them declares its alias.
NamesScoped ==
    \A n \in DOMAIN result :
        /\ result[n].ns = MeantThere(n, result[n].prefix, IF result[n].prefix = "-" THEN "" ELSE Unbound)
        /\ \A a \in ToSet(result[n].attributes) :
              a.ns = IF a.prefix = "-" THEN "" ELSE MeantThere(n, a.prefix, Unbound)

\* Of a document that is taken no element and no name is left out.
TakenWhole ==
    pc = "done" /\ "invalid_xml" \notin errors =>
        /\ Len(result) > 0 /\ walk.frames[1].children = 1
        /\ \A n \in DOMAIN result : result[n].ns # Unbound
        /\ walk.defaults = <<"">> /\ \A a \in Aliases : walk.mapping[a] = <<>>

=============================================================================
