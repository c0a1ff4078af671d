------------------------------ MODULE ArmUnwind ------------------------------
(***************************************************************************)
(* Loading of the exception directory of ARM and ARM64 images               *)
(* (arm_common_exception_directory_loader.h): a table of entries of eight   *)
(* bytes, each with packed unwind data or a reference to a record with       *)
(* epilog scopes and unwind codes.                                           *)
(*                                                                           *)
(* The epilog count and the number of code words of a record that a caller   *)
(* edits are in the main header when both fit there, else in the extended    *)
(* header, which exists exactly when both numbers in the main header are     *)
(* zero (arm_common_unwind_info-inl.h).                                       *)
(*                                                                           *)
(* A record is read byte by byte: header, extended header, scopes, codes,   *)
(* handler.  A code byte is told by what decides on how it is read: zero,    *)
(* the number of bytes of the code it begins, or unsupported.                *)
(***************************************************************************)
EXTENDS Integers, Sequences, FiniteSets

CONSTANTS
    \* Directories: [rva, size, entries].  The field entry of an entry is
    \* "packed", "unread" or "record"; the others say what the record is.
    ArmDirectories,
    \* Largest RVA.
    MaxRva,
    MaxBaseEpilogs,   \* largest count in the main header
    MaxBaseWords,
    Counts            \* counts a caller sets

Zero == 0
Unsupported == 5

RecordType ==
    [entry : {"packed", "unread", "record"}, epilogs : Nat, words : Nat, extEpilogs : Nat, extWords : Nat,
     single : BOOLEAN, handler : BOOLEAN, target : BOOLEAN, offsets : Seq(Nat),
     bytes : Seq(0 .. 5), readable : Nat]

VARIABLES
    armDir,      \* the directory that is loaded
    armPc,       \* where the load is
    armRva,      \* current_rva of the directory
    armFunctions,\* runtime_function_list
    armPos,      \* current_rva within a record, from its begin
    armErrors,   \* errors of the directory
    baseEpilogs, baseWords,  \* main_header_ of a record that is edited
    extEpilogs, extWords,    \* main_extended_header_
    countCall    \* the setter that was called last

armVars == <<armDir, armPc, armRva, armFunctions, armPos, armErrors>>
countVars == <<baseEpilogs, baseWords, extEpilogs, extWords, countCall>>

WordSize == 4
EntrySize == 8

ASSUME CountsAssumption ==
    /\ MaxBaseEpilogs \in Nat /\ MaxBaseWords \in Nat
    /\ Counts \subseteq Nat

-----------------------------------------------------------------------------
(* The record: what its header says. *)

HasExtended(r) == r.epilogs = 0 /\ r.words = 0
EpilogCount(r) == IF HasExtended(r) THEN r.extEpilogs ELSE r.epilogs
CodeWords(r) == IF HasExtended(r) THEN r.extWords ELSE r.words
HeaderSize(r) == IF HasExtended(r) THEN 2 * WordSize ELSE WordSize

ScopeCount(r) == IF r.single THEN 0 ELSE EpilogCount(r)
CodesBegin(r) == HeaderSize(r) + WordSize * ScopeCount(r)
CodesEnd(r) == CodesBegin(r) + WordSize * CodeWords(r)

\* What the file has at a position behind the begin of the codes.
CodeByte(r, pos) == r.bytes[pos - CodesBegin(r) + 1]

\* A record has the scopes its header tells of, read or not; and a directory the
\* entries its size tells of.
ArmDirectoryType ==
    {d \in [rva : 1 .. MaxRva, size : 0 .. MaxRva, entries : Seq(RecordType)] :
        /\ d.size < EntrySize * (Len(d.entries) + 1)
        /\ \A i \in DOMAIN d.entries :
            d.entries[i].entry = "record" => ScopeCount(d.entries[i]) <= Len(d.entries[i].offsets)}

ASSUME ArmDirectoriesAssumption ==
    MaxRva \in Nat /\ \A d \in ArmDirectories : d \in ArmDirectoryType

Function(unwind) ==
    [unwind |-> unwind, scopes |-> <<>>, codes |-> <<>>, handlerAt |-> -1, errors |-> {}]

\* Scopes are ordered when none begins before the highest begin so far.
Unordered(offsets) ==
    \E i \in DOMAIN offsets : \E j \in 1 .. i - 1 : offsets[i] < offsets[j]

-----------------------------------------------------------------------------
(* The directory. *)

ArmInit(directories) ==
    /\ armDir \in directories
    /\ armPc = "directory"
    /\ armRva = armDir.rva
    /\ armFunctions = <<>>
    /\ armPos = 0
    /\ armErrors = {}

LastRva == armDir.rva + armDir.size
LastValidRva == LastRva - EntrySize

\* Sizes whose sum or difference leaves the 32 bits end the load.
SizeChecked ==
    /\ armPc = "directory"
    /\ IF LastRva > MaxRva \/ LastValidRva < 0
       THEN armPc' = "done" /\ armErrors' = {"invalid_directory_size"}
       ELSE armPc' = "entry" /\ UNCHANGED armErrors
    /\ UNCHANGED <<armDir, armRva, armFunctions, armPos>>

EntryIndex == (armRva - armDir.rva) \div EntrySize + 1
Record == armDir.entries[EntryIndex]

\* An entry whose bytes cannot be read stays in the list and ends the walk.
EntryUnread ==
    /\ armPc = "entry" /\ armRva <= LastValidRva
    /\ Record.entry = "unread"
    /\ armFunctions' = Append(armFunctions,
        [Function("none") EXCEPT !.errors = {"invalid_runtime_function_entry"}])
    /\ armPc' = "end"
    /\ UNCHANGED <<armDir, armRva, armPos, armErrors>>

PackedEntry ==
    /\ armPc = "entry" /\ armRva <= LastValidRva
    /\ Record.entry = "packed"
    /\ armFunctions' = Append(armFunctions, Function("packed"))
    /\ armRva' = armRva + EntrySize
    /\ UNCHANGED <<armDir, armPc, armPos, armErrors>>

RecordEntry ==
    /\ armPc = "entry" /\ armRva <= LastValidRva
    /\ Record.entry = "record"
    /\ armFunctions' = Append(armFunctions, Function("record"))
    /\ armPos' = 0
    /\ armPc' = "header"
    /\ UNCHANGED <<armDir, armRva, armErrors>>

EndOfEntries ==
    /\ armPc = "end" \/ (armPc = "entry" /\ armRva > LastValidRva)
    /\ armErrors' = armErrors \cup
        IF armRva # LastRva THEN {"unmatched_directory_size"} ELSE {}
    /\ armPc' = "done"
    /\ UNCHANGED <<armDir, armRva, armFunctions, armPos>>

-----------------------------------------------------------------------------
(* One record. *)

Current == armFunctions[Len(armFunctions)]
UpdateCurrent(f) == armFunctions' = [armFunctions EXCEPT ![Len(armFunctions)] = f]
WithErrors(errors) == [Current EXCEPT !.errors = @ \cup errors]
CanRead(size) == armPos + size <= Record.readable

RecordDone == armPc' = "entry" /\ armRva' = armRva + EntrySize

\* Any exception within the record ends it; the directory goes on.
RecordFails(errors) ==
    /\ UpdateCurrent(WithErrors(errors \cup {"invalid_extended_unwind_info"}))
    /\ RecordDone
    /\ UNCHANGED <<armDir, armPos, armErrors>>

Header ==
    /\ armPc = "header"
    /\ IF CanRead(HeaderSize(Record))
       THEN /\ armPos' = HeaderSize(Record) /\ armPc' = "scopes"
            /\ UNCHANGED <<armDir, armRva, armFunctions, armErrors>>
       ELSE RecordFails({})

Scope ==
    /\ armPc = "scopes" /\ Len(Current.scopes) < ScopeCount(Record)
    /\ IF CanRead(WordSize)
       THEN /\ UpdateCurrent([Current EXCEPT
                    !.scopes = Append(@, Record.offsets[Len(@) + 1])])
            /\ armPos' = armPos + WordSize
            /\ UNCHANGED <<armDir, armPc, armRva, armErrors>>
       ELSE RecordFails({})

ScopesRead ==
    /\ armPc = "scopes" /\ Len(Current.scopes) = ScopeCount(Record)
    /\ UpdateCurrent(WithErrors(
        IF Unordered(Current.scopes) THEN {"unordered_epilog_scopes"} ELSE {}))
    /\ armPc' = "codes"
    /\ UNCHANGED <<armDir, armRva, armPos, armErrors>>

-----------------------------------------------------------------------------
(* Unwind codes.  A code in the list is [at, length]: the position its bytes *)
(* were read from.                                                           *)

CodesLeft == armPc = "codes" /\ armPos < CodesEnd(Record)

CodeUnread ==
    /\ CodesLeft /\ ~CanRead(1)
    /\ RecordFails({})

\* A zero byte fills the rest of the words.
Filler ==
    /\ CodesLeft /\ CanRead(1) /\ CodeByte(Record, armPos) = Zero
    /\ armPos' = CodesEnd(Record)
    /\ UNCHANGED <<armDir, armPc, armRva, armFunctions, armErrors>>

\* Faulty: the position stays behind the zero byte.
FillerStays ==
    /\ CodesLeft /\ CanRead(1) /\ CodeByte(Record, armPos) = Zero
    /\ armPos' = armPos + 1 /\ armPc' = "handler"
    /\ UNCHANGED <<armDir, armRva, armFunctions, armErrors>>

\* The rest of the bytes of the code that is the last of the list.
RestRead(codes, length, errors) ==
    LET filled == [codes EXCEPT ![Len(codes)] = [at |-> armPos, length |-> length]] IN
    IF armPos + length <= CodesEnd(Record) /\ CanRead(length)
    THEN /\ UpdateCurrent([WithErrors(errors) EXCEPT !.codes = filled])
         /\ armPos' = armPos + length
         /\ UNCHANGED <<armDir, armPc, armRva, armErrors>>
    ELSE /\ UpdateCurrent([WithErrors(errors \cup
                {"invalid_uwop_code", "invalid_extended_unwind_info"}) EXCEPT !.codes = filled])
         /\ RecordDone
         /\ UNCHANGED <<armDir, armPos, armErrors>>

Code ==
    /\ CodesLeft /\ CanRead(1)
    /\ CodeByte(Record, armPos) \in 1 .. 4
    /\ LET length == CodeByte(Record, armPos) IN
       RestRead(Append(Current.codes, [at |-> armPos, length |-> length]), length, {})

\* A byte no code matches is read into the code before it, of whatever
\* length that is.
UnsupportedCode ==
    /\ CodesLeft /\ CanRead(1)
    /\ CodeByte(Record, armPos) = Unsupported
    /\ Current.codes # <<>>
    /\ RestRead(Current.codes, Current.codes[Len(Current.codes)].length, {"invalid_uwop_code"})

\* Without a code before it the last element of an empty list is used:
\* undefined.  What the load does then is not modelled further.
UnsupportedFirst ==
    /\ CodesLeft /\ CanRead(1)
    /\ CodeByte(Record, armPos) = Unsupported
    /\ Current.codes = <<>>
    /\ armPc' = "undefined"
    /\ UNCHANGED <<armDir, armRva, armFunctions, armPos, armErrors>>

CodesRead ==
    /\ armPc = "codes" /\ armPos >= CodesEnd(Record)
    /\ armPc' = "handler"
    /\ UNCHANGED <<armDir, armRva, armFunctions, armPos, armErrors>>

Handler ==
    /\ armPc = "handler"
    /\ IF ~Record.handler THEN UNCHANGED armFunctions
       ELSE IF ~CanRead(WordSize)
       THEN UpdateCurrent(WithErrors({"invalid_exception_handler"}))
       ELSE UpdateCurrent([WithErrors(
                IF Record.target THEN {} ELSE {"invalid_exception_handler_rva"})
                EXCEPT !.handlerAt = armPos])
    /\ RecordDone
    /\ UNCHANGED <<armDir, armPos, armErrors>>

ArmLoad ==
    \/ SizeChecked \/ EntryUnread \/ PackedEntry \/ RecordEntry \/ EndOfEntries
    \/ Header \/ Scope \/ ScopesRead
    \/ CodeUnread \/ Filler \/ Code \/ UnsupportedCode \/ UnsupportedFirst \/ CodesRead
    \/ Handler

-----------------------------------------------------------------------------
(* The counts of a record that a caller edits. *)

has_extended_main_header == baseEpilogs = 0 /\ baseWords = 0
get_epilog_count == IF has_extended_main_header THEN extEpilogs ELSE baseEpilogs
get_code_words == IF has_extended_main_header THEN extWords ELSE baseWords

\* Any header a file may hold.  The loader reads the extended header only when
\* it exists.
CountsInit ==
    /\ baseEpilogs \in Counts /\ baseEpilogs <= MaxBaseEpilogs
    /\ baseWords \in Counts /\ baseWords <= MaxBaseWords
    /\ extEpilogs \in Counts \cup {0} /\ extWords \in Counts \cup {0}
    /\ ~has_extended_main_header => extEpilogs = 0 /\ extWords = 0
    /\ countCall = <<"none", 0>>

Put(be, bw, ee, ew) ==
    baseEpilogs' = be /\ baseWords' = bw /\ extEpilogs' = ee /\ extWords' = ew

\* Faulty: the code words stay in the main header when the count leaves it.
set_epilog_count_alone(count) ==
    /\ countCall' = <<"set_epilog_count", count>>
    /\ IF count > MaxBaseEpilogs THEN Put(0, baseWords, count, extWords)
       ELSE Put(count, baseWords, 0, extWords)

set_epilog_count(count) ==
    /\ countCall' = <<"set_epilog_count", count>>
    /\ IF count > MaxBaseEpilogs THEN Put(0, 0, count, get_code_words)
       ELSE IF get_code_words <= MaxBaseWords THEN Put(count, get_code_words, 0, extWords)
       ELSE Put(0, baseWords, count, extWords)

set_code_words(count) ==
    /\ countCall' = <<"set_code_words", count>>
    /\ IF count > MaxBaseWords THEN Put(0, 0, get_epilog_count, count)
       ELSE IF get_epilog_count <= MaxBaseEpilogs THEN Put(get_epilog_count, count, extEpilogs, 0)
       ELSE Put(baseEpilogs, 0, extEpilogs, count)

CountsNext == \E count \in Counts : set_epilog_count(count) \/ set_code_words(count)

\* What an extended header that is not in use may still hold: nothing, or the
\* number that has since moved to the main header.
LeftBehind ==
    ~has_extended_main_header =>
        extEpilogs \in {0, baseEpilogs} /\ extWords \in {0, baseWords}

CountsSpec == CountsInit /\ [][CountsNext]_countVars

-----------------------------------------------------------------------------
(* What is checked. *)

RecordOf(i) == armDir.entries[i]

\* The handler of a record is read right behind the last of its code words,
\* whatever the codes are: fillers, codes of several bytes, unsupported ones.
ArmHandlerBehindCodes ==
    \A i \in DOMAIN armFunctions :
        armFunctions[i].handlerAt # -1 => armFunctions[i].handlerAt = CodesEnd(RecordOf(i))

\* Where the first j codes of a function end.
EndOfCode(r, codes, j) == IF j = 0 THEN CodesBegin(r) ELSE codes[j].at + codes[j].length
Adjacent(r, codes) == \A j \in DOMAIN codes : codes[j].at = EndOfCode(r, codes, j - 1)
BehindLast(r, codes) == EndOfCode(r, codes, Len(codes))
Filled(r, codes) == BehindLast(r, codes) < CodesEnd(r) /\ CodeByte(r, BehindLast(r, codes)) = Zero

\* The codes are in order: none begins before the one in front of it ends, or
\* behind the code words, and only the last one may reach beyond them.
InOrder(r, codes) ==
    \A j \in DOMAIN codes :
        /\ codes[j].at >= EndOfCode(r, codes, j - 1) /\ codes[j].at < CodesEnd(r)
        /\ j < Len(codes) => EndOfCode(r, codes, j) <= CodesEnd(r)

\* Each is as long as its first byte says.
Spelled(r, codes) == \A j \in DOMAIN codes : codes[j].length = CodeByte(r, codes[j].at)

ArmInTurn(i) == i = Len(armFunctions) /\ armPc \notin {"entry", "end", "done"}

\* Whatever errors a record has, its codes are in order.  Unless it has the error of
\* a code that is not supported or does not fit, they follow each other from
\* the first code byte on, none of them lost or overwritten; and unless the
\* record could not be read to its end, nothing but filler is between the last
\* of them and the end of the code words.
ArmCodesTile ==
    \A i \in DOMAIN armFunctions :
        LET f == armFunctions[i]
            r == RecordOf(i)
        IN f.unwind = "record" =>
            /\ InOrder(r, f.codes)
            /\ "invalid_uwop_code" \notin f.errors =>
                    /\ Adjacent(r, f.codes) /\ Spelled(r, f.codes)
                    /\ \/ ArmInTurn(i) \/ "invalid_extended_unwind_info" \in f.errors
                       \/ BehindLast(r, f.codes) = CodesEnd(r) \/ Filled(r, f.codes)

\* A directory that is loaded without an error of its own has a function for
\* each of its entries.
ArmEntriesLoaded ==
    armPc = "done" /\ armErrors = {} =>
        armDir.size = EntrySize * Cardinality({i \in DOMAIN armFunctions :
            "invalid_runtime_function_entry" \notin armFunctions[i].errors})

\* A setter sets its number and keeps the other one, whichever of the headers
\* the two are in before and afterwards, and whatever an extended header that
\* was not in use still holds.
CountsKept ==
    /\ countCall'[1] = "set_epilog_count" =>
        get_epilog_count' = countCall'[2] /\ get_code_words' = get_code_words
    /\ countCall'[1] = "set_code_words" =>
        get_code_words' = countCall'[2] /\ get_epilog_count' = get_epilog_count

CountsIndependent == [][CountsKept]_countVars

=============================================================================
