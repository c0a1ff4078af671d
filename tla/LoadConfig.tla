----------------------------- MODULE LoadConfig -----------------------------
(***************************************************************************)
(* load_config::load (load_config_directory_loader.cpp): the size of the     *)
(* descriptor tells its version, and each part of that version or an older   *)
(* one is loaded, the newest first.  Most parts are a table of addresses     *)
(* behind a pointer and a number; dynamic relocations are in a module of     *)
(* their own.  What the image holds is chosen when it is read.               *)
(*                                                                           *)
(* Sizes of the descriptor are counted in halves of its groups of fields:    *)
(* the first half of a group holds its pointer, the second one its number or *)
(* its flags.                                                                *)
(***************************************************************************)
EXTENDS Integers, Sequences

CONSTANTS
    VaMax,       \* the largest address
    MaxEntries,  \* max_ehcont_targets and the other limits
    Rvas,        \* addresses a table may hold
    Headers      \* [part, size, va, number, extra, is64, flags, machine, wanted]

VARIABLES
    given,   \* the image, the options, and the one part its descriptor has
    pc,      \* the part that is looked at, "entries" or "hashes" of it, or "done"
    walk,    \* where the loader is in the table
    result,  \* the entries of the table
    errors

vars == <<given, pc, walk, result, errors>>

-----------------------------------------------------------------------------
(* Versions. *)

Groups == <<"base", "seh", "cf_guard", "code_integrity", "cf_guard_ex", "hybrid_pe",
            "rf_guard", "rf_guard_ex", "enclave", "volatile_metadata", "eh_guard",
            "xf_guard", "cast_guard", "memcpy_guard">>
WholeSize == 2 * Len(Groups)

\* get_version and set_version
GetVersion(size) ==
    IF size > 2 * (Len(Groups) - 1) THEN Len(Groups)
    ELSE CHOOSE i \in 1 .. Len(Groups) : size <= 2 * i /\ (i = 1 \/ size > 2 * (i - 1))
SetVersion(version) == 2 * version

\* The parts in the order of load_impl, and the groups their fields are in.
Parts == <<"memcpy_pointer", "cast_guard", "xf_guard", "ehcont", "volatile_access",
           "volatile_range", "enclave", "chpe", "export_suppression", "longjump",
           "cf_functions", "safeseh", "lock_prefix", "security_cookie">>
GroupOf ==
    [memcpy_pointer |-> 14, cast_guard |-> 13, xf_guard |-> 12, ehcont |-> 11,
     volatile_access |-> 10, volatile_range |-> 10, enclave |-> 9, chpe |-> 6,
     export_suppression |-> 5, longjump |-> 5, cf_functions |-> 3, safeseh |-> 2,
     lock_prefix |-> 1, security_cookie |-> 1]
\* The newest part that is not newer than the version.
FirstPart(version) ==
    Parts[CHOOSE i \in DOMAIN Parts :
            /\ GroupOf[Parts[i]] <= version
            /\ \A j \in 1 .. i - 1 : GroupOf[Parts[j]] > version]
Following(p) ==
    LET i == CHOOSE i \in DOMAIN Parts : Parts[i] = p
    IN IF i = Len(Parts) THEN "done" ELSE Parts[i + 1]

\* A part of a group that the size cuts off reads as zeros (deserialize_until).
HasPointer(p) == given.size >= 2 * GroupOf[p] - 1
HasNumber(p) == given.size >= 2 * GroupOf[p]
Va(p) == IF given.part = p /\ HasPointer(p) THEN given.va ELSE 0
BehindMetadata == {"chpe", "enclave", "volatile_access", "volatile_range"}
Number(p) == IF p \in BehindMetadata \/ HasNumber(p) THEN given.number ELSE 0
GuardFlags == IF HasNumber("cf_functions") THEN given.flags ELSE {}

-----------------------------------------------------------------------------
(* Kinds of parts. *)

CfTables == {"cf_functions", "export_suppression", "longjump"}
Pointers == {"memcpy_pointer", "cast_guard", "xf_guard", "security_cookie"}
VolatileTables == {"volatile_access", "volatile_range"}
Tables == {Parts[i] : i \in DOMAIN Parts} \ Pointers
Sorted == CfTables \cup {"ehcont"}
TargetsChecked == {"ehcont", "chpe"}

PresentFlag(p) ==
    CASE p = "cf_functions" -> "cf_function_table_present"
      [] p = "export_suppression" -> "cf_export_suppression_info_present"
      [] OTHER -> "cf_longjump_table_present"

PointerSize == IF given.is64 THEN 8 ELSE 4
EntrySize(p) ==
    CASE p \in CfTables \cup {"enclave"} -> 4 + given.extra
      [] p \in {"chpe", "volatile_range"} -> 8
      [] p = "lock_prefix" -> PointerSize
      [] OTHER -> 4

CfInstrumented == {"guard_cf", "cf_instrumented"} \subseteq GuardFlags

\* The early returns of the loading functions.
Looked(p) ==
    /\ given.wanted /\ Va(p) # 0
    /\ p = "safeseh" => ~given.is64 /\ "no_seh" \notin given.flags
    /\ p \in CfTables => CfInstrumented /\ PresentFlag(p) \in GuardFlags

EntryCount(p) ==
    IF p \in VolatileTables THEN Number(p) \div EntrySize(p) ELSE Number(p)

\* The whole table has addresses; tables that check it stop when it has not.
Fits(p) == p \in CfTables \cup {"safeseh", "chpe"} =>
    Va(p) + Number(p) * EntrySize(p) <= VaMax

Clamped(p) == p # "lock_prefix" /\ EntryCount(p) > MaxEntries

-----------------------------------------------------------------------------
(* Up to the first entry of a table. *)

Outside == [at |-> 0, left |-> 0, prev |-> 0, sorted |-> TRUE]
IsHeader(h) ==
    /\ h.part \in DOMAIN GroupOf
    /\ h.size \in Nat /\ h.va \in Nat /\ h.number \in Nat /\ h.extra \in Nat
Init ==
    /\ given \in Headers
    /\ pc = "descriptor" /\ walk = Outside /\ result = <<>> /\ errors = {}

Report(es) == errors' = errors \cup es
Leave(p) == pc' = Following(p) /\ UNCHANGED <<given, walk, result>>

\* load_size_and_descriptor
ReadDescriptor ==
    /\ pc = "descriptor"
    /\ \/ pc' = FirstPart(GetVersion(given.size)) /\ UNCHANGED errors
       \/ pc' = "done" /\ Report({"invalid_load_config_directory"})
    /\ UNCHANGED <<given, walk, result>>

\* validate_va
ValidatePointer ==
    /\ pc \in Pointers
    /\ \/ Va(pc) # 0 /\ Report({"invalid_va"})
       \/ UNCHANGED errors
    /\ Leave(pc)

\* load_cf_guard looks at two more pointers before it looks for its table.
PointersBefore(p) ==
    IF p = "cf_functions" /\ given.wanted /\ CfInstrumented THEN {{}, {"invalid_va"}} ELSE {{}}

NoTable ==
    /\ pc \in Tables /\ ~Looked(pc)
    /\ \E es \in PointersBefore(pc) : Report(es)
    /\ Leave(pc)

UnknownMachine == pc = "chpe" /\ given.machine \notin {"arm64", "amd64", "chpe_x86"}

\* The structure between the pointer and the table cannot be read.
NoMetadata ==
    /\ pc \in BehindMetadata /\ Looked(pc)
    /\ Report({IF UnknownMachine THEN "unknown_chpe_metadata_type" ELSE "invalid_metadata"})
    /\ Leave(pc)

\* No table behind the metadata, or the table does not fit.
NoEntries ==
    /\ pc \in Tables /\ Looked(pc) /\ ~UnknownMachine
    /\ \/ ~Fits(pc) /\ Report({"invalid_table_size"})
       \/ pc \in VolatileTables /\ Number(pc) = 0 /\ UNCHANGED errors
    /\ Leave(pc)

Unaligned(p) == p \in VolatileTables /\ Number(p) % EntrySize(p) # 0

BeginTable ==
    /\ pc \in Tables /\ Looked(pc) /\ Fits(pc) /\ ~UnknownMachine
    /\ pc \in VolatileTables => Number(pc) # 0
    /\ walk' = [at |-> Va(pc), left |-> IF Clamped(pc) THEN MaxEntries ELSE EntryCount(pc),
                prev |-> 0, sorted |-> TRUE]
    /\ pc' = "entries"
    /\ \E es \in PointersBefore(pc) :
        Report(es \cup (IF Clamped(pc) THEN {"invalid_count"} ELSE {})
                  \cup (IF Unaligned(pc) THEN {"unaligned_size"} ELSE {}))
    /\ UNCHANGED <<given, result>>

-----------------------------------------------------------------------------
(* Entries. *)

Part == given.part
MoreEntries == pc = "entries" /\ (walk.left > 0 \/ Part = "lock_prefix")

\* The table ends here.  Hashes are looked for in whatever was read of it.
HashesWanted == Part = "cf_functions" /\ {"load_hashes", "xfg_enabled"} \subseteq GuardFlags
EndTable(es) ==
    /\ pc' = IF HashesWanted THEN "hashes" ELSE Following(Part)
    /\ walk' = [Outside EXCEPT !.left = IF HashesWanted THEN Len(result') ELSE 0]
    /\ Report(es)
    /\ UNCHANGED given

EntryUnread ==
    /\ MoreEntries
    /\ UNCHANGED result
    /\ EndTable({"invalid_table"})

\* load_lock_prefix_table stops at a zero.
LastPrefix ==
    /\ MoreEntries /\ Part = "lock_prefix"
    /\ UNCHANGED result
    /\ EndTable({})

\* Faulty: an entry is compared with none before it.
SortedWithNone(rva) == walk.sorted /\ (Part \in CfTables => rva >= 0)

\* Whether the entries are sorted so far.  The code of ehcont never sets prev.
SortedWith(rva) == walk.sorted /\ (Part \in CfTables => rva >= walk.prev)

\* Additional bytes that cannot be read end a CF table; the entry stays.
ExtraUnread ==
    /\ MoreEntries /\ Part \in CfTables /\ given.extra > 0
    /\ \E rva \in Rvas :
        result' = Append(result, [rva |-> rva, at |-> walk.at, xfg |-> FALSE, notes |-> {}])
    /\ EndTable({"invalid_table"})

\* What is found wrong with an entry that stays in the table.
Notes ==
    CASE Part = "enclave" -> SUBSET {"invalid_extra_data", "invalid_name"}
      [] Part \in TargetsChecked -> {{}, {"invalid_target"}}
      [] OTHER -> {{}}

ReadEntry ==
    /\ MoreEntries
    /\ walk.at + EntrySize(Part) <= VaMax
    /\ \E rva \in Rvas, xfg \in BOOLEAN, notes \in Notes :
        /\ xfg => Part = "cf_functions" /\ given.extra > 0
        /\ "invalid_extra_data" \in notes => given.extra > 0
        /\ result' = Append(result, [rva |-> rva, at |-> walk.at, xfg |-> xfg, notes |-> notes])
        /\ walk' = [at |-> walk.at + EntrySize(Part), left |-> walk.left - 1,
                    prev |-> rva, sorted |-> SortedWith(rva)]
        /\ Report(IF Part = "ehcont" THEN notes ELSE {})
    /\ UNCHANGED <<given, pc>>

AllRead ==
    /\ pc = "entries" /\ Part # "lock_prefix" /\ walk.left = 0
    /\ UNCHANGED result
    /\ EndTable(IF Part \in Sorted /\ ~walk.sorted THEN {"unsorted_table"} ELSE {})

-----------------------------------------------------------------------------
(* Hashes before the functions of the CF table (the end of load_cf_guard). *)

HashSize == 8

\* Faulty: stays at a function without a hash.
ReadHashStays ==
    /\ pc = "hashes" /\ walk.left > 0
    /\ LET i == Len(result) - walk.left + 1 IN
       \E note \in {"hash", "invalid_hash"} :
          /\ result' = IF result[i].xfg THEN [result EXCEPT ![i].notes = @ \cup {note}] ELSE result
          /\ walk' = IF result[i].xfg THEN [walk EXCEPT !.left = @ - 1] ELSE walk
    /\ UNCHANGED <<given, pc, errors>>

\* walk.left counts the entries that are still to be looked at.
ReadHash ==
    /\ pc = "hashes" /\ walk.left > 0
    /\ LET i == Len(result) - walk.left + 1 IN
       IF ~result[i].xfg THEN UNCHANGED result
       ELSE \E note \in {"hash", "invalid_hash"} :
            /\ result[i].rva < HashSize => note = "invalid_hash"
            /\ result' = [result EXCEPT ![i].notes = @ \cup {note}]
    /\ walk' = [walk EXCEPT !.left = @ - 1]
    /\ UNCHANGED <<given, pc, errors>>

HashesRead ==
    /\ pc = "hashes" /\ walk.left = 0
    /\ pc' = Following(Part)
    /\ UNCHANGED <<given, walk, result, errors>>

Next ==
    \/ ReadDescriptor \/ ValidatePointer \/ NoTable \/ NoMetadata \/ NoEntries
    \/ BeginTable \/ EntryUnread \/ LastPrefix \/ ExtraUnread \/ ReadEntry \/ AllRead
    \/ ReadHash \/ HashesRead

-----------------------------------------------------------------------------
(* What is checked. *)

\* A part that the descriptor names is either loaded whole, or something is
\* reported: no entry is missing, each is read from its own place in the table,
\* and tables that must be sorted are (all but that of ehcont).
TableWhole ==
    pc = "done" /\ errors = {} /\ Part \in Tables /\ Looked(Part) =>
        /\ Part # "lock_prefix" => Len(result) = EntryCount(Part)
        /\ \A i \in DOMAIN result : result[i].at = given.va + (i - 1) * EntrySize(Part)
        /\ Part \in CfTables =>
            \A i, j \in DOMAIN result : i < j => result[i].rva <= result[j].rva

\* No table is longer than the limit, and none goes round the last address.
TableBounded ==
    /\ Part # "lock_prefix" => Len(result) <= MaxEntries
    /\ \A i \in DOMAIN result : result[i].at + EntrySize(Part) <= VaMax

\* A version that is set is the version that is read.
VersionKept == \A v \in DOMAIN Groups : GetVersion(SetVersion(v)) = v

=============================================================================
