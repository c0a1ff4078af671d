------------------------------ MODULE X64Unwind ------------------------------
(***************************************************************************)
(* Loading of the exception directory of x64 images                         *)
(* (x64_exception_directory_loader.cpp): a table of entries of twelve bytes, *)
(* each with a reference to unwind information: codes in slots of two bytes, *)
(* then a further entry (chained), or an exception handler.                  *)
(***************************************************************************)
EXTENDS Integers, Sequences, FiniteSets

CONSTANTS
    \* Directories: [rva, size, entries, infos].  An entry is "unread",
    \* "zero" or the name of its unwind information; infos maps names to what
    \* is there (InfoType).
    X64Directories,
    X64MaxRva,
    max_c_specific_records,
    \* Depth of the recursion at which the stack of the program ends.
    StackDepth

Flags == {"chaininfo", "ehandler", "uhandler"}

\* head: whether its head can be read; aligned: whether it is on a border of
\* double words, and with it what is behind its codes; slots: code names, a slot of a node holds whatever code its bytes spell;
\* complete: the bytes of all slots can be read; behind: the entry, "handler"
\* or "unread" that is there when the slots are skipped correctly.
InfoType ==
    [head : BOOLEAN, aligned : BOOLEAN, version : Nat, slots : Seq(STRING), complete : BOOLEAN, flags : SUBSET Flags,
     behind : STRING, target : BOOLEAN, records : Nat, readable : Nat]

X64EntrySize == 12

\* A directory has the entries its size tells of, and what entries name.
IsX64Directory(d) ==
    /\ d.rva \in 1 .. X64MaxRva /\ d.size \in 0 .. X64MaxRva
    /\ d.entries \in Seq({"unread", "zero"} \cup DOMAIN d.infos)
    /\ d.size < X64EntrySize * (Len(d.entries) + 1)
    /\ \A name \in DOMAIN d.infos :
        /\ d.infos[name] \in InfoType
        /\ d.infos[name].flags = {"chaininfo"} =>
                d.infos[name].behind \in {"unread", "zero"} \cup DOMAIN d.infos

ASSUME X64DirectoriesAssumption ==
    /\ X64MaxRva \in Nat /\ max_c_specific_records \in Nat /\ StackDepth \in Nat \ {0}
    /\ \A d \in X64Directories : IsX64Directory(d)

VARIABLES
    x64Dir,        \* the directory that is loaded
    x64Pc,         \* where the load is
    x64Rva,        \* current_rva of the directory
    x64Functions,  \* runtime_function_list, each a sequence: the chain
    x64Slot,       \* slots of unwind codes that are read
    x64Errors      \* errors of the directory

x64Vars == <<x64Dir, x64Pc, x64Rva, x64Functions, x64Slot, x64Errors>>

HeadSize == 4
SlotSize == 2

-----------------------------------------------------------------------------
(* Unwind codes: the slots behind the first one of a code. *)

NodesOfFrameCodes ==
    [push_nonvol |-> 0, alloc_large_1 |-> 1, alloc_large_2 |-> 2, alloc_small |-> 0,
     set_fpreg |-> 0, save_nonvol |-> 1, save_nonvol_far |-> 2]
\* The type of an epilog code has no node, so that it takes one slot; the comment
\* above the type says "(2 slots)" of it (x64_exception_directory.h:246).
NodesOfOtherCodes ==
    [epilog |-> 0, spare |-> 2, save_xmm128 |-> 1, save_xmm128_far |-> 2,
     push_machframe |-> 0, set_fpreg_large |-> 2]
NodeCount ==
    [code \in DOMAIN NodesOfFrameCodes \cup DOMAIN NodesOfOtherCodes |->
        IF code \in DOMAIN NodesOfFrameCodes THEN NodesOfFrameCodes[code]
        ELSE NodesOfOtherCodes[code]]

\* Version 1 has other codes in the place of these two, which are not read.
Nodes(code, version) ==
    IF code \notin DOMAIN NodeCount \/ (code \in {"epilog", "spare"} /\ version < 2) THEN -1
    ELSE NodeCount[code]

Known(code, version) == Nodes(code, version) # -1

RuntimeFunction(info) ==
    [info |-> info, codes |-> <<>>, extra |-> "none", behindAt |-> -1, scopes |-> 0,
     errors |-> {}]

\* A function begins with the error of its address.
FunctionAt(info, aligned) ==
    [RuntimeFunction(info) EXCEPT
        !.errors = IF aligned THEN {} ELSE {"unaligned_runtime_function_entry"}]

-----------------------------------------------------------------------------
(* The directory. *)

X64Init(directories) ==
    /\ x64Dir \in directories
    /\ x64Pc = "directory"
    /\ x64Rva = x64Dir.rva
    /\ x64Functions = <<>>
    /\ x64Slot = 0
    /\ x64Errors = {}

X64LastRva == x64Dir.rva + x64Dir.size
X64LastValidRva == X64LastRva - X64EntrySize
X64EntryIndex == (x64Rva - x64Dir.rva) \div X64EntrySize + 1
X64Entry == x64Dir.entries[X64EntryIndex]

X64SizeChecked ==
    /\ x64Pc = "directory"
    /\ IF X64LastRva > X64MaxRva \/ X64LastValidRva < 0
       THEN x64Pc' = "done" /\ x64Errors' = {"invalid_directory_size"}
       ELSE x64Pc' = "entry" /\ UNCHANGED x64Errors
    /\ UNCHANGED <<x64Dir, x64Rva, x64Functions, x64Slot>>

X64Aligned == x64Rva % 4 = 0

X64EntriesLeft == x64Pc = "entry" /\ x64Rva <= X64LastValidRva

X64EntryUnread ==
    /\ X64EntriesLeft /\ X64Entry = "unread"
    /\ x64Functions' = Append(x64Functions,
        <<[FunctionAt("none", X64Aligned) EXCEPT
            !.errors = @ \cup {"invalid_runtime_function_entry"}]>>)
    /\ x64Pc' = "end"
    /\ UNCHANGED <<x64Dir, x64Rva, x64Slot, x64Errors>>

\* Faulty: an entry of zeros is not passed.
X64EntryZeroAgain ==
    /\ X64EntriesLeft /\ X64Entry = "zero"
    /\ UNCHANGED x64Vars

\* An entry of zeros is not kept.
X64EntryZero ==
    /\ X64EntriesLeft /\ X64Entry = "zero"
    /\ x64Rva' = x64Rva + X64EntrySize
    /\ UNCHANGED <<x64Dir, x64Pc, x64Functions, x64Slot, x64Errors>>

X64EntryRead ==
    /\ X64EntriesLeft /\ X64Entry \notin {"unread", "zero"}
    /\ x64Functions' = Append(x64Functions, <<FunctionAt(X64Entry, X64Aligned)>>)
    /\ x64Pc' = "info"
    /\ UNCHANGED <<x64Dir, x64Rva, x64Slot, x64Errors>>

X64EndOfEntries ==
    /\ x64Pc = "end" \/ (x64Pc = "entry" /\ x64Rva > X64LastValidRva)
    /\ x64Errors' = x64Errors \cup
        IF x64Rva # X64LastRva THEN {"unmatched_directory_size"} ELSE {}
    /\ x64Pc' = "done"
    /\ UNCHANGED <<x64Dir, x64Rva, x64Functions, x64Slot>>

-----------------------------------------------------------------------------
(* One function: the innermost of the recursion is the last of the chain. *)

Chain == x64Functions[Len(x64Functions)]
Innermost == Chain[Len(Chain)]
Info == x64Dir.infos[Innermost.info]
UpdateInnermost(f) ==
    x64Functions' = [x64Functions EXCEPT ![Len(x64Functions)][Len(Chain)] = f]
FunctionWith(errors) == [Innermost EXCEPT !.errors = @ \cup errors]

\* The innermost call returns true, and so do those it was made from: nothing
\* follows the call in any of them.
Returns == x64Pc' = "entry" /\ x64Rva' = x64Rva + X64EntrySize

AlignmentErrors == IF Info.aligned THEN {} ELSE {"unaligned_unwind_info"}

InfoRead ==
    /\ x64Pc = "info"
    /\ x64Slot' = 0
    /\ IF ~Info.head
       THEN /\ UpdateInnermost(FunctionWith(AlignmentErrors \cup {"invalid_unwind_info"}))
            /\ Returns
       ELSE /\ UpdateInnermost(FunctionWith(AlignmentErrors))
            /\ x64Pc' = "codes" /\ UNCHANGED x64Rva
    /\ UNCHANGED <<x64Dir, x64Errors>>

\* The bytes of all slots are fetched before the first code is read.
CodesUnread ==
    /\ x64Pc = "codes" /\ x64Slot = 0 /\ Info.slots # <<>> /\ ~Info.complete
    /\ UpdateInnermost(FunctionWith({"invalid_unwind_info"})) /\ Returns
    /\ UNCHANGED <<x64Dir, x64Slot, x64Errors>>

SlotsLeft == x64Pc = "codes" /\ Info.complete /\ x64Slot < Len(Info.slots)
NextCode == Info.slots[x64Slot + 1]

UnknownCode ==
    /\ SlotsLeft /\ ~Known(NextCode, Info.version)
    /\ UpdateInnermost(FunctionWith({"unknown_unwind_code"}))
    /\ x64Pc' = "behind"
    /\ UNCHANGED <<x64Dir, x64Rva, x64Slot, x64Errors>>

Pushes(codes) == \E i \in DOMAIN codes : codes[i].code = "push_nonvol"

OrderErrors(code) ==
    IF Pushes(Innermost.codes) /\ code \notin {"push_nonvol", "push_machframe"}
    THEN {"push_nonvol_uwop_out_of_order"} ELSE {}

\* Faulty: the nodes of a code are not counted.
UnwindCodeAlone ==
    /\ SlotsLeft /\ Known(NextCode, Info.version)
    /\ UpdateInnermost([FunctionWith(OrderErrors(NextCode)) EXCEPT !.codes =
            Append(@, [code |-> NextCode, slot |-> x64Slot, loaded |-> TRUE])])
    /\ x64Slot' = x64Slot + 1
    /\ UNCHANGED <<x64Dir, x64Pc, x64Rva, x64Errors>>

\* A code whose nodes are not all there is kept, without its descriptor.
UnwindCode ==
    /\ SlotsLeft /\ Known(NextCode, Info.version)
    /\ LET size == Nodes(NextCode, Info.version) + 1
           fits == x64Slot + size <= Len(Info.slots)
           codes == Append(Innermost.codes,
                           [code |-> NextCode, slot |-> x64Slot, loaded |-> fits])
       IN /\ UpdateInnermost([FunctionWith(OrderErrors(NextCode) \cup
                IF fits THEN {} ELSE {"invalid_unwind_slot_count"}) EXCEPT !.codes = codes])
          /\ x64Slot' = IF fits THEN x64Slot + size ELSE Len(Info.slots)
    /\ UNCHANGED <<x64Dir, x64Pc, x64Rva, x64Errors>>

Codes(code) == \E i \in DOMAIN Innermost.codes : Innermost.codes[i].code = code

EndOfCodes ==
    /\ x64Pc = "codes" /\ x64Slot = Len(Info.slots)
    /\ UpdateInnermost(FunctionWith(
        IF Codes("set_fpreg") /\ Codes("set_fpreg_large")
        THEN {"both_set_fpreg_types_used"} ELSE {}))
    /\ x64Pc' = "behind"
    /\ UNCHANGED <<x64Dir, x64Rva, x64Slot, x64Errors>>

\* Faulty: what was read is skipped instead.
BehindRead == HeadSize + SlotSize * x64Slot

\* What follows the codes is behind all slots, of an even number, however
\* many of them were read.
Padded(count) == count + (count % 2)
BehindCodes == HeadSize + SlotSize * Padded(Len(Info.slots))

\* What a read at a position behind the head finds.
At(position) ==
    IF position = HeadSize + SlotSize * Padded(Len(Info.slots)) THEN Info.behind ELSE "unread"

NothingBehind ==
    /\ x64Pc = "behind" /\ Info.flags = {}
    /\ Returns
    /\ UNCHANGED <<x64Dir, x64Functions, x64Slot, x64Errors>>

FlagsDisagree ==
    /\ x64Pc = "behind" /\ "chaininfo" \in Info.flags /\ Info.flags # {"chaininfo"}
    /\ UpdateInnermost(FunctionWith({"invalid_unwind_info_flags"})) /\ Returns
    /\ UNCHANGED <<x64Dir, x64Slot, x64Errors>>

\* The call for the chained entry.  It is not bounded: unwind_chain_limit is
\* used nowhere, so that a cycle ends with the stack.
Chained ==
    /\ x64Pc = "behind" /\ Info.flags = {"chaininfo"}
    /\ LET entry == At(BehindCodes)
           invalid == entry \in {"unread", "zero"}
           outer == [Innermost EXCEPT
                !.extra = "chained", !.behindAt = BehindCodes,
                !.errors = @ \cup IF invalid
                    THEN {"invalid_chained_runtime_function_entry"} ELSE {}]
           chain == [Chain EXCEPT ![Len(Chain)] = outer]
                    \o <<FunctionAt(IF invalid THEN "none" ELSE entry, Info.aligned)>>
       IN IF ~invalid /\ Len(Chain) = StackDepth
          THEN x64Pc' = "exhausted" /\ UNCHANGED <<x64Rva, x64Functions>>
          ELSE /\ x64Functions' = [x64Functions EXCEPT ![Len(x64Functions)] = chain]
               /\ IF invalid THEN Returns ELSE x64Pc' = "info" /\ UNCHANGED x64Rva
    /\ UNCHANGED <<x64Dir, x64Slot, x64Errors>>

HandlerFlags == Info.flags # {} /\ "chaininfo" \notin Info.flags

HandlerUnread ==
    /\ x64Pc = "behind" /\ HandlerFlags /\ At(BehindCodes) = "unread"
    /\ UpdateInnermost(FunctionWith({"invalid_exception_handler_rva"})) /\ Returns
    /\ UNCHANGED <<x64Dir, x64Slot, x64Errors>>

\* The handler, and for an exception handler that is nothing else the scope
\* table: a count, at most max_c_specific_records of its records, as far as
\* they can be read (readable counts the words that can: the count is one).
CSpecific == Info.flags = {"ehandler"}
WantedRecords == IF Info.records < max_c_specific_records THEN Info.records
                 ELSE max_c_specific_records

ScopeErrors ==
    IF ~CSpecific THEN {}
    ELSE IF Info.readable = 0 THEN {"invalid_c_specific_handler_record_count"}
    ELSE IF Info.readable - 1 < WantedRecords THEN {"invalid_c_specific_handler_record"} ELSE {}

ScopesKept ==
    IF ~CSpecific \/ Info.readable = 0 THEN 0
    ELSE IF Info.readable - 1 < WantedRecords THEN Info.readable - 1 ELSE WantedRecords

HandlerRead ==
    /\ x64Pc = "behind" /\ HandlerFlags /\ At(BehindCodes) # "unread"
    /\ UpdateInnermost([FunctionWith(ScopeErrors \cup
            IF Info.target THEN {} ELSE {"invalid_exception_handler_rva"})
            EXCEPT !.extra = "handler", !.behindAt = BehindCodes, !.scopes = ScopesKept])
    /\ Returns
    /\ UNCHANGED <<x64Dir, x64Slot, x64Errors>>

X64Load ==
    \/ X64SizeChecked \/ X64EntryUnread \/ X64EntryZero \/ X64EntryRead \/ X64EndOfEntries
    \/ InfoRead \/ CodesUnread \/ UnknownCode \/ UnwindCode \/ EndOfCodes
    \/ NothingBehind \/ FlagsDisagree \/ Chained \/ HandlerUnread \/ HandlerRead

-----------------------------------------------------------------------------
(* What is checked. *)

AllFunctions ==
    UNION {{x64Functions[i][j] : j \in DOMAIN x64Functions[i]} : i \in DOMAIN x64Functions}

\* The slots that a code takes with its nodes, as the comments of the header tell
\* them (of a spare code they tell nothing: it is that of its type).
CodesOfOneSlot == {"push_nonvol", "alloc_small", "set_fpreg", "push_machframe"}
CodesOfTwoSlots == {"alloc_large_1", "save_nonvol", "save_xmm128", "epilog"}
CodesOfThreeSlots ==
    {"alloc_large_2", "save_nonvol_far", "spare", "save_xmm128_far", "set_fpreg_large"}
SlotsOf(code) ==
    IF code \in CodesOfOneSlot THEN 1 ELSE IF code \in CodesOfTwoSlots THEN 2 ELSE 3
CodesOf(version) ==
    (CodesOfOneSlot \cup CodesOfTwoSlots \cup CodesOfThreeSlots)
        \ IF version < 2 THEN {"epilog", "spare"} ELSE {}

\* The slot at which the first j codes end.  Of an epilog code it is not used: the
\* comment and the type disagree.
SlotBehind(codes, j) == IF j = 0 THEN 0 ELSE codes[j].slot + SlotsOf(codes[j].code)
BehindEpilog(codes, j) == j # 0 /\ codes[j].code = "epilog"

\* Each code is what its slot holds and begins where the one before ends; it is
\* loaded if its nodes are there.
SlotsInOrder(info, codes) ==
    \A j \in DOMAIN codes :
        /\ codes[j].slot < Len(info.slots) /\ codes[j].code = info.slots[codes[j].slot + 1]
        /\ IF BehindEpilog(codes, j - 1) THEN codes[j].slot > codes[j - 1].slot
           ELSE codes[j].slot = SlotBehind(codes, j - 1)
        /\ codes[j].loaded <=>
                BehindEpilog(codes, j) \/ SlotBehind(codes, j) <= Len(info.slots)

\* The codes end with the slots, beyond them, or in front of a code that is none of
\* the version: the errors say which.
SlotsEnd(info, codes, errors) ==
    LET behind == SlotBehind(codes, Len(codes)) IN
    IF BehindEpilog(codes, Len(codes)) THEN "invalid_unwind_slot_count" \notin errors
    ELSE IF "unknown_unwind_code" \in errors
    THEN behind < Len(info.slots) /\ info.slots[behind + 1] \notin CodesOf(info.version)
    ELSE IF "invalid_unwind_slot_count" \in errors THEN behind > Len(info.slots)
    ELSE behind = Len(info.slots)

X64InTurn(i, j) ==
    x64Pc \in {"info", "codes"} /\ i = Len(x64Functions) /\ j = Len(x64Functions[i])
WithoutCodes(f) == f.info = "none" \/ "invalid_unwind_info" \in f.errors

\* Whatever errors a function has, its codes are those its slots hold, one behind
\* the other; none is read out of the node of another one, none lacks nodes
\* that are there, and a list that ends early says so.
X64CodesTile ==
    \A i \in DOMAIN x64Functions : \A j \in DOMAIN x64Functions[i] :
        LET f == x64Functions[i][j]
            info == x64Dir.infos[f.info]
        IN /\ SlotsInOrder(info, f.codes)
           /\ X64InTurn(i, j) \/ WithoutCodes(f) \/ SlotsEnd(info, f.codes, f.errors)

\* An entry or a handler that the file has behind its unwind codes is found,
\* even when a code is unknown or lacks slots; and what is found last in a
\* chain is not the error of an entry.
X64BehindFound ==
    \A f \in AllFunctions :
        f.extra \in {"chained", "handler"} =>
            LET info == x64Dir.infos[f.info] IN
            "invalid_chained_runtime_function_entry" \in f.errors
                <=> f.extra = "chained" /\ info.behind \in {"unread", "zero"}

\* Directories whose chains end.
EndsWithin(d, depth) ==
    LET Chains(name) == d.infos[name].head /\ d.infos[name].flags = {"chaininfo"}
        ends[n \in 0 .. depth] ==
            {"unread", "zero"} \cup {name \in DOMAIN d.infos :
                Chains(name) => n > 0 /\ d.infos[name].behind \in ends[n - 1]}
    IN ends[depth]

ChainsEnd ==
    \A i \in DOMAIN x64Dir.entries :
        x64Dir.entries[i] \in EndsWithin(x64Dir, StackDepth - 1)

=============================================================================
