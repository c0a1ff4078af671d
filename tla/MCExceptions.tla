---------------------------- MODULE MCExceptions -----------------------------
(***************************************************************************)
(* exceptions::load (exception_directory_loader.cpp) and what a caller does  *)
(* with the unwind data it holds.  The three loaders run one after the other *)
(* and each looks at the machine type; an amd64 image with ARM64X metadata   *)
(* has a directory for two of them.                                          *)
(***************************************************************************)
EXTENDS X64Unwind, ArmUnwind, BitFields

CONSTANTS
    Images,      \* [machine, is64bit, directory, chpe]
    EditedWords, \* kinds of words a caller edits: <<family, name>>
    LeftOut      \* setters that are not called: <<kind of word, accessor>>

VARIABLES
    stage,   \* "x64", "arm64", "arm": the loader at work; "loaded"; "words"; "counts"
    image,
    kind,    \* the kind of word that is edited
    word     \* its bits

wordVars == <<kind, word>>
vars == <<stage, image, x64Vars, armVars, wordVars, countVars>>

-----------------------------------------------------------------------------
(* Which loader has which directory.  It is the one of the data directories *)
(* for the machine of the loader; for ARM64 on amd64 that of the metadata.  *)

Absent == [rva |-> 0, size |-> 0, entries |-> <<>>]

X64Directory(i) ==
    IF i.is64bit /\ i.machine = "amd64" THEN i.directory ELSE Absent

Arm64Directory(i) ==
    IF ~i.is64bit THEN Absent
    ELSE IF i.machine = "arm64" THEN i.directory
    ELSE IF i.machine = "amd64" THEN i.chpe ELSE Absent

ArmDirectory(i) ==
    IF ~i.is64bit /\ i.machine = "armnt" THEN i.directory ELSE Absent

\* A loader begins with its directory, or returns when it has none.
ArmBegins(directory) ==
    /\ armDir' = directory /\ armRva' = directory.rva
    /\ armPc' = IF directory.rva = 0 THEN "done" ELSE "directory"
    /\ armFunctions' = <<>> /\ armPos' = 0 /\ armErrors' = {}

\* What the loaders are given is a directory, or none.
ASSUME ImagesAssumption ==
    /\ {X64Directory(i) : i \in Images} \subseteq X64Directories \cup {Absent}
    /\ {Arm64Directory(i) : i \in Images} \subseteq ArmDirectories \cup {Absent}
    /\ {ArmDirectory(i) : i \in Images} \subseteq ArmDirectories \cup {Absent}

-----------------------------------------------------------------------------
(* Initial states: an image before its load, a word, a header. *)

\* The word a code begins as: the matcher in its first byte (init).
FirstByteBits(n) == {p \in 0 .. 7 : (n \div 2 ^ (7 - p)) % 2 = 1}
ShapesOf(family) == IF family = "arm64" THEN Arm64Shapes ELSE AllArmShapes
Matcher(k) ==
    IF k[1] \notin {"arm", "arm64"} THEN {} ELSE FirstByteBits(Min(ShapesOf(k[1])[k[2]].first))

\* A loaded word may have any bits behind the matcher: none of them is set, or
\* all are.
AllOnes(k) == Matcher(k) \cup UNION {Positions(Fields(k)[a]) : a \in Accessors(k)}

\* Every second one of them.
Striped(k) == Matcher(k) \cup {p \in AllOnes(k) : p % 2 = 0}

NoImage == [machine |-> "i386", is64bit |-> FALSE, directory |-> Absent, chpe |-> Absent]
IdleLoad ==
    /\ image = NoImage
    /\ x64Dir = Absent /\ x64Pc = "done" /\ x64Rva = 0 /\ x64Functions = <<>>
    /\ x64Slot = 0 /\ x64Errors = {}
    /\ armDir = Absent /\ armPc = "done" /\ armRva = 0 /\ armFunctions = <<>>
    /\ armPos = 0 /\ armErrors = {}
IdleWord == kind = <<"words", "arm_record">> /\ word = {}
IdleCounts ==
    /\ baseEpilogs = 0 /\ baseWords = 0 /\ extEpilogs = 0 /\ extWords = 0
    /\ countCall = <<"none", 0>>

Init ==
    \/ /\ stage = "x64" /\ image \in Images
       /\ x64Dir = X64Directory(image) /\ x64Rva = x64Dir.rva
       /\ x64Pc = IF x64Dir = Absent THEN "done" ELSE "directory"
       /\ x64Functions = <<>> /\ x64Slot = 0 /\ x64Errors = {}
       /\ armDir = Absent /\ armPc = "done" /\ armRva = 0 /\ armFunctions = <<>>
       /\ armPos = 0 /\ armErrors = {}
       /\ IdleWord /\ IdleCounts
    \/ /\ stage = "words" /\ kind \in EditedWords
       /\ word \in {Matcher(kind), AllOnes(kind), Striped(kind)}
       /\ IdleLoad /\ IdleCounts
    \/ /\ stage = "counts" /\ CountsInit
       /\ IdleLoad /\ IdleWord

-----------------------------------------------------------------------------
(* Actions. *)

LoadX64 == stage = "x64" /\ X64Load /\ UNCHANGED <<stage, image, armVars>>
LoadArm == stage \in {"arm64", "arm"} /\ ArmLoad /\ UNCHANGED <<stage, image, x64Vars>>

ThenArm64 ==
    /\ stage = "x64" /\ x64Pc = "done"
    /\ stage' = "arm64" /\ ArmBegins(Arm64Directory(image))
    /\ UNCHANGED <<image, x64Vars>>

\* No image has a directory for both: the one of ARM64 is kept.
ThenArm ==
    /\ stage = "arm64" /\ armPc = "done"
    /\ stage' = "arm"
    /\ IF ArmDirectory(image) = Absent THEN UNCHANGED armVars
       ELSE ArmBegins(ArmDirectory(image))
    /\ UNCHANGED <<image, x64Vars>>

Loaded ==
    /\ stage = "arm" /\ armPc = "done"
    /\ stage' = "loaded"
    /\ UNCHANGED <<image, x64Vars, armVars>>

\* Values a caller may give: those at the borders of what is accepted.
HighestAccepted(f) ==
    LET all == Largest(f) * f.scale + f.bias IN
    IF all <= f.top THEN all ELSE f.top - ((f.top - f.bias) % f.scale)

Samples(f) ==
    CASE f.rule = "number" ->
            {f.bias, HighestAccepted(f), HighestAccepted(f) + 1, HighestAccepted(f) + f.scale}
            \cup (IF f.bias > 0 THEN {f.bias - 1} ELSE {})
            \cup (IF f.top < NoLimit THEN {f.top + 1} ELSE {})
      [] f.rule = "from r4" -> {{4}, 4 .. 7, {4, LR}, 4 .. 8, {4, 6}, {5}}
      [] f.rule = "from r8" -> {4 .. 8, 4 .. 11, 4 .. 8 \cup {LR}, 4 .. 7, 4 .. 12}
      [] f.rule = "from d8" -> {{8}, 8 .. 15, 8 .. 16, {8, 10}, 7 .. 8}
      [] f.rule = "low registers" -> {{}, 0 .. 7, {0, LR}, {7, LR}, {8}}
      [] IsRange(f) -> {<<n + RangeDelta(f), m + RangeDelta(f)>> : n \in {0, 15}, m \in {0, 15, 16}}
      [] f.rule = "signed offset" -> {0, 8, 16, 63 * 16, 64 * 16, 65 * 16}
      [] f.rule = "none or more than one" -> {0, 1, 2, 8, 9}
      [] f.rule = "unwind flags" -> 0 .. 7
      [] f.rule = "saved registers" -> {"integer", "floating_point", "none"}
      [] f.rule = "last register" -> {3, 4, 8, 11, 14, 15}
      [] f.rule = "stack adjust" -> {0, 4, 4 * 1008, 4 * 1011, 4 * 1012, 2}
      [] f.rule = "extended" -> {0, 1, Largest(f)}
      [] f.rule = "power of two" -> {0, 1, 2, 3, 8, 16}
      [] f.rule = "stride" -> {0, 1, 15, 16}
      [] f.rule = "read only" -> {0}
      [] f.rule = "stack adjust flags" -> {<<1, TRUE, FALSE>>, <<4, TRUE, TRUE>>, <<2, FALSE, FALSE>>}

Setters(k) == {a \in Accessors(k) : <<k, a>> \notin LeftOut}

\* A setter takes the value, or throws and leaves the word alone.
SetField ==
    /\ stage = "words"
    /\ \E a \in Setters(kind) : \E v \in Samples(Fields(kind)[a]) :
        /\ Accepts(word, Fields(kind)[a], v)
        /\ word' = Written(word, Fields(kind)[a], v)
    /\ UNCHANGED kind

SetCount == stage = "counts" /\ CountsNext

Next ==
    \/ /\ LoadX64 \/ LoadArm \/ ThenArm64 \/ ThenArm \/ Loaded
       /\ UNCHANGED <<wordVars, countVars>>
    \/ SetField /\ UNCHANGED <<stage, image, x64Vars, armVars, countVars>>
    \/ SetCount /\ UNCHANGED <<stage, image, x64Vars, armVars, wordVars>>

\* A load is a sequential function that waits for nothing.
Fairness == WF_vars(/\ LoadX64 \/ LoadArm \/ ThenArm64 \/ ThenArm \/ Loaded
                    /\ UNCHANGED <<wordVars, countVars>>)

Spec == Init /\ [][Next]_vars /\ Fairness

-----------------------------------------------------------------------------
(* What is checked. *)

\* Accessors that show the same bits by design: the kind of the saved registers
\* and the last of them, the stack adjustment and its flags, the sign of an
\* offset and the offset, the meta of a relocation and the parts of it.
Sharing == {{"last_saved_register", "saved_registers"}, {"stack_adjust", "stack_adjust_flags"},
            {"negative_offset", "offset"}}
           \cup {{"meta", part} : part \in {"type", "size", "multiplier", "sign"}}

\* A setter of unwind data sets its field and no other, whatever the word is
\* so far: every other accessor still reads what it read, a code still begins
\* with a byte of its own, and its fields are in the slots the loader takes for
\* a code of its kind.
FieldsIndependent ==
    stage = "words" =>
        \A a \in Setters(kind) : \A v \in Samples(Fields(kind)[a]) :
            LET F == Fields(kind)
                written == Written(word, F[a], v)
            IN Accepts(word, F[a], v) =>
                /\ Value(written, F[a]) = v
                /\ \A b \in Accessors(kind) \ {a} : {a, b} \notin Sharing =>
                        Value(written, F[b]) = Value(word, F[b])
                /\ kind[1] \in {"arm", "arm64"} =>
                        MapThenSumSet(LAMBDA p : 2 ^ (7 - p), written \cap 0 .. 7)
                            \in ShapesOf(kind[1])[kind[2]].first
                /\ kind[1] = "x64" /\ kind[2] \in DOMAIN NodeCount =>
                        F[a].to < 16 * (1 + NodeCount[kind[2]])

\* The codes that were read are those the bytes hold, one behind the other.
CodesTile == ArmCodesTile /\ X64CodesTile

\* What is behind the codes is read from behind the codes.
BehindCodesFound == ArmHandlerBehindCodes /\ X64BehindFound

\* A load ends, unless a chain of unwind information is longer than the stack
\* or an unsupported code is the first of its record.
EveryLoadEnds ==
    stage = "x64" ~> \/ stage = "loaded"
                     \/ x64Pc = "exhausted" /\ ~ChainsEnd
                     \/ armPc = "undefined"

-----------------------------------------------------------------------------
(* The instance. *)

UpTo(S, n) == UNION {[1 .. m -> S] : m \in 0 .. n}
None == [rva |-> 0, size |-> 0, entries |-> <<>>]

\* x64: unwind information that varies in its codes, in what follows them and
\* in how it is chained.
UnwindInfo(version, slots, flags, behind) ==
    [head |-> TRUE, aligned |-> TRUE, version |-> version, slots |-> slots, complete |-> TRUE, flags |-> flags,
     behind |-> behind, target |-> TRUE, records |-> 0, readable |-> 1]
Plain1 == UnwindInfo(1, <<"push_nonvol">>, {}, "unread")

SlotCodes == {"push_nonvol", "push_machframe", "alloc_large_1", "alloc_large_2", "spare",
              "set_fpreg", "unknown"}
CodeInfos ==
    {UnwindInfo(v, slots, {"ehandler"}, "handler") : v \in {1, 2}, slots \in UpTo(SlotCodes, 3)}
    \cup {UnwindInfo(2, slots, {"ehandler"}, "handler") :
            slots \in [1 .. 4 -> {"set_fpreg", "set_fpreg_large", "epilog"}]}
BehindInfos ==
    {[UnwindInfo(1, slots, flags, behind) EXCEPT
        !.complete = complete, !.target = target, !.records = records, !.readable = readable] :
        slots \in {<<>>, <<"alloc_small">>, <<"unknown", "alloc_small">>},
        flags \in SUBSET Flags \ {{"chaininfo"}}, behind \in {"handler", "unread"},
        complete \in BOOLEAN, target \in BOOLEAN, records \in {0, 1, 3}, readable \in 0 .. 3}
ChainInfos ==
    {UnwindInfo(1, slots, {"chaininfo"}, behind) :
        slots \in {<<"push_nonvol">>, <<"alloc_large_1", "alloc_small">>},
        behind \in {"a", "b", "c", "unread", "zero"}} \cup {Plain1}

X64At(rva, size, entries, infos) ==
    [rva |-> rva, size |-> size, entries |-> entries, infos |-> infos]
SomeX64 == X64At(1, 12, <<"a">>, [a |-> Plain1])
X64Catalog ==
    {X64At(4, 12, <<"a">>, [a |-> i]) : i \in CodeInfos \cup BehindInfos}
    \cup {X64At(4, 24, <<"a", "b">>, [a |-> i, b |-> j, c |-> [k EXCEPT !.aligned = FALSE]]) :
            i \in ChainInfos, j \in ChainInfos, k \in ChainInfos}
    \cup {X64At(rva, size, entries, [a |-> Plain1]) :
            rva \in {1, 4, 90}, size \in {0, 11, 12, 24, 30},
            entries \in [1 .. 2 -> {"a", "zero", "unread"}]}
    \cup {SomeX64, X64At(1, 12, <<"a">>, [a |-> [Plain1 EXCEPT !.head = FALSE]])}

\* ARM: records that vary in their codes, in their headers and their ends.
ArmRecord(words, single, bytes, readable) ==
    [entry |-> "record", epilogs |-> 1, words |-> words, extEpilogs |-> 0, extWords |-> 0, single |-> single,
     handler |-> TRUE, target |-> TRUE, offsets |-> <<4, 2, 8>>, bytes |-> bytes,
     readable |-> readable]
OnePacked == [ArmRecord(1, TRUE, <<>>, 0) EXCEPT !.entry = "packed"]
OneUnread == [OnePacked EXCEPT !.entry = "unread"]
CodeBytes == 0 .. 5
Fill(bytes) == bytes \o <<1, 1, 1, 1>>
CodeRecords ==
    {ArmRecord(1, TRUE, bytes, 12) : bytes \in [1 .. 4 -> CodeBytes]}
    \cup {ArmRecord(2, TRUE, <<3, 1>> \o bytes \o <<2, 3>>, 16) : bytes \in [1 .. 4 -> CodeBytes]}
HeaderRecords ==
    {[ArmRecord(1, single, <<2, 1, 1, 0>>, readable) EXCEPT !.epilogs = e, !.words = w,
        !.extEpilogs = 3, !.extWords = ew, !.handler = h, !.target = t] :
        single \in BOOLEAN, readable \in {3, 4, 7, 8, 9, 12, 20, 28},
        e \in {0, 2}, w \in {0, 1}, ew \in {0, 1}, h \in BOOLEAN, t \in BOOLEAN}

ArmAt(rva, size, entries) == [rva |-> rva, size |-> size, entries |-> entries]
SomeArm == ArmAt(1, 8, <<OnePacked>>)
ArmCatalog ==
    {ArmAt(1, 16, <<r, OnePacked>>) : r \in CodeRecords}
    \cup {ArmAt(1, 8, <<r>>) : r \in HeaderRecords \cup {OnePacked}}
    \cup {ArmAt(rva, size, entries) : rva \in {1, 90}, size \in {0, 7, 8, 16, 20},
            entries \in [1 .. 2 -> {OnePacked, OneUnread}]}

Machine(machine, is64bit, directory, chpe) ==
    [machine |-> machine, is64bit |-> is64bit, directory |-> directory, chpe |-> chpe]
ImageCatalog ==
    {Machine("amd64", TRUE, d, None) : d \in X64Catalog}
    \cup {Machine("arm64", TRUE, d, None) : d \in ArmCatalog}
    \cup {Machine("amd64", TRUE, SomeX64, SomeArm), Machine("armnt", FALSE, SomeArm, None),
          Machine("i386", FALSE, SomeArm, None), Machine("armnt", TRUE, SomeArm, None)}

AllWords == UNION {{<<family, name>> : name \in DOMAIN Words[family]} : family \in DOMAIN Words}

\* The setters that change other bits than those of their field.  No setter of
\* the last two words is right; of the first one it is a single one.
ArmPacked == <<"words", "arm_packed">>
WrongWords == {<<"words", "extended_header">>, <<"load_config", "guard_flags">>}
RightWords == AllWords \ WrongWords
WrongSetters == {<<ArmPacked, "saved_registers">>}
PackedWords == {ArmPacked} \cup WrongWords
CountValues == {0, 1, 3, 4, 7, 8, 9}

=============================================================================
