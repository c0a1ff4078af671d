------------------------- MODULE DynamicRelocations -------------------------
(***************************************************************************)
(* The walk over the dynamic relocation table of the load configuration      *)
(* (load_dynamic_relocation_table of load_config_directory_loader.cpp).      *)
(* A table holds relocations, a relocation holds blocks, a block holds       *)
(* fixups; the blocks of function overrides hold overrides with blocks of    *)
(* their own.  Each of them says how long it is, and each loader has its own *)
(* cursor and its own ends.  What the image holds is chosen when it is read. *)
(***************************************************************************)
EXTENDS Integers, Sequences, FiniteSets, FiniteSetsExt

CONSTANTS
    TableSizes,   \* sizes of the table
    ReachSizes,   \* sizes a relocation may give for its blocks
    BlockSizes,   \* sizes a block may have
    SmallSizes,   \* sizes of headers, of lists of addresses and of copied data
    RvaMax        \* the largest address

VARIABLES
    given,   \* [section, offset, table, size]: what the descriptor and the table say
    pc,      \* "section", "table", "walk", "bdd", "undefined" or "done"
    walk,    \* [at, frames, reach]: the cursor, what it is in, and the end of what was read
    result,  \* whether the cursor passed over bytes that were not read
    errors

vars == <<given, pc, walk, result, errors>>

-----------------------------------------------------------------------------
(* Sizes of the structures. *)

TableHeader == 8
BlockHeader == 8
StructSize == IF given.version = 1 THEN 12 ELSE 24
OverrideHeader == 4
OverrideSize == 16
BddHeader == 8
BddEntry == 8

\* Lists of blocks, and the fixups in them.
FixupSize == [import_control_transfer |-> 4, indir_control_transfer |-> 2,
              switchtable_branch |-> 2, rf_fixup |-> 2, override_fixup |-> 2, arm64x |-> 2]

V1Symbols == {"import_control_transfer", "indir_control_transfer", "switchtable_branch",
              "arm64x", "function_override", "unknown"}
V2Symbols == {"rf_prologue", "rf_epilogue", "unknown"}

-----------------------------------------------------------------------------
(* The stack of what the cursor is in: [kind, list, end].  "relocations" is the  *)
(* table, "list" a list of blocks, "block" one of them, "overrides" the          *)
(* overrides of a block; list names the fixups.                                  *)

Frame(kind, list, end) == [kind |-> kind, list |-> list, end |-> end]

Top == walk.frames[Len(walk.frames)]
Room == Top.end - walk.at
In(kind) == pc = "walk" /\ walk.frames # <<>> /\ Top.kind = kind

Report(e) == errors' = errors \cup {e}
NoReport == UNCHANGED errors

Move(n) == walk' = [walk EXCEPT !.at = @ + n, !.reach = Max({@, walk.at + n})]

\* The inner walk is over: the cursor of the outer one is behind it.
Popped(w) == [w EXCEPT !.at = w.frames[Len(w.frames)].end, !.frames = SubSeq(@, 1, Len(@) - 1)]

\* A cursor that is set to an end passes over what was not read.
Leave(w) ==
    /\ walk' = Popped(w)
    /\ result' = (result \/ w.frames[Len(w.frames)].end # w.at)

\* Behind n bytes that are read begins a frame.
Enter(n, frame) ==
    walk' = [at |-> walk.at + n, frames |-> Append(walk.frames, frame),
             reach |-> Max({walk.reach, walk.at + n})]

-----------------------------------------------------------------------------
(* The table. *)

Init ==
    /\ given \in [section : {"none", "invalid", "valid"}, offset : {"inside", "outside"},
                  version : 1 .. 3, size : TableSizes]
    /\ pc = "section"
    /\ walk = [at |-> 0, frames |-> <<>>, reach |-> 0] /\ result = FALSE /\ errors = {}

NoSection ==
    /\ pc = "section"
    /\ \/ given.section = "none" /\ NoReport
       \/ given.section = "invalid" /\ Report("invalid_section_index")
       \/ given.section = "valid" /\ given.offset = "outside" /\ Report("invalid_section_offset")
    /\ pc' = "done" /\ UNCHANGED <<given, walk, result>>

\* The table is reset, and what was in it is used.
TableUnread ==
    /\ pc = "section" /\ given.section = "valid" /\ given.offset = "inside"
    /\ pc' = "undefined" /\ Report("invalid_dynamic_relocation_table")
    /\ UNCHANGED <<given, walk, result>>

TableRead ==
    /\ pc = "section" /\ given.section = "valid" /\ given.offset = "inside"
    /\ LET table == Frame("relocations", "none", TableHeader + given.size) IN
       IF given.version > 2
       THEN pc' = "done" /\ Report("unknown_table_version") /\ UNCHANGED walk
       ELSE IF table.end > RvaMax
       THEN pc' = "done" /\ Report("invalid_table_size") /\ UNCHANGED walk
       ELSE pc' = "walk" /\ NoReport /\ Enter(TableHeader, table)
    /\ UNCHANGED <<given, result>>

-----------------------------------------------------------------------------
(* Relocations: load_dynamic_relocation_struct and the two lists of them. *)

RelocationsDone ==
    /\ In("relocations") /\ Room = 0
    /\ pc' = "done" /\ walk' = Popped(walk)
    /\ UNCHANGED <<given, result, errors>>

RelocationUnread ==
    /\ In("relocations") /\ Room > 0
    /\ Report(IF Room < StructSize THEN "invalid_dynamic_relocation_size"
              ELSE "invalid_dynamic_relocation_entry")
    /\ pc' = "done" /\ Leave(walk) /\ UNCHANGED given

BlocksOf(symbol, end) == Frame("list", symbol, end)

RelocationV1 ==
    /\ In("relocations") /\ given.version = 1 /\ Room >= StructSize
    /\ \E symbol \in V1Symbols, size \in ReachSizes :
        LET end == walk.at + StructSize + size IN
        \/ /\ end > Top.end
           /\ Report("invalid_header_size") /\ pc' = "done" /\ Leave(walk)
        \/ /\ end <= Top.end /\ symbol = "unknown"
           /\ Report("unknown_symbol") /\ Move(StructSize + size) /\ UNCHANGED <<pc, result>>
        \/ /\ end <= Top.end /\ symbol # "unknown"
           /\ Enter(StructSize, BlocksOf(symbol, end)) /\ NoReport /\ UNCHANGED <<pc, result>>
    /\ UNCHANGED given

\* The bytes the header of a prologue or an epilogue needs: its own fields,
\* then bytes, or descriptors of a size and the bit map with their numbers.
CeilDiv(n, d) == (n + d - 1) \div d
BitWidth(n) == Cardinality({k \in 0 .. n : 2 ^ k <= n})
PrologueNeeds(count) == 1 + count
EpilogueNeeds(count, element, epilogues) ==
    8 + (count * element) + CeilDiv(BitWidth(count) * epilogues, 8)

\* load_relocations_header: the header can be read, and it is in its room.
HeaderNeeds ==
    {[symbol |-> "rf_prologue", bytes |-> PrologueNeeds(n)] : n \in SmallSizes}
    \cup {[symbol |-> "rf_epilogue", bytes |-> EpilogueNeeds(n, e, m)] :
            n \in SmallSizes, e \in {2, 3}, m \in {0, 9}}

RelocationV2 ==
    /\ In("relocations") /\ given.version = 2 /\ Room >= StructSize
    /\ \E header \in {StructSize - 1} \cup {StructSize + n : n \in SmallSizes \cup {16}},
          size \in ReachSizes :
        LET headerEnd == walk.at + header
            end == headerEnd + size
        IN
        \/ /\ header < StructSize \/ headerEnd > Top.end
           /\ Report("invalid_header_size") /\ pc' = "done" /\ Leave(walk)
        \/ /\ header >= StructSize /\ headerEnd <= Top.end /\ end > Top.end
           /\ Report("invalid_fixup_info_size") /\ pc' = "done" /\ Leave(walk)
        \/ /\ header >= StructSize /\ end <= Top.end
           /\ Report("invalid_prologue_or_epilogue_or_symbol")
           /\ walk' = [walk EXCEPT !.at = end] /\ UNCHANGED <<pc, result>>
        \/ /\ header >= StructSize /\ end <= Top.end
           /\ \E needs \in HeaderNeeds :
                /\ StructSize + needs.bytes <= header
                /\ walk' = [at |-> headerEnd,
                            frames |-> Append(walk.frames, BlocksOf("rf_fixup", end)),
                            reach |-> Max({walk.reach, walk.at + StructSize + needs.bytes})]
           /\ NoReport /\ UNCHANGED <<pc, result>>
    /\ UNCHANGED given

-----------------------------------------------------------------------------
(* Lists of blocks (load_base_relocation). *)

\* Behind the blocks of an override comes what its BDD says.
AfterList(w) ==
    IF \E i \in DOMAIN w.frames : i < Len(w.frames) /\ w.frames[i].kind = "overrides"
    THEN "bdd" ELSE "walk"

ListDone ==
    /\ In("list") /\ Room = 0
    /\ pc' = AfterList(walk) /\ Leave(walk)
    /\ UNCHANGED <<given, errors>>

BlockUnread ==
    /\ In("list") /\ Room > 0
    /\ Report(IF Room < BlockHeader THEN "invalid_base_relocation_size"
              ELSE "invalid_base_relocation")
    /\ pc' = AfterList(walk) /\ Leave(walk) /\ UNCHANGED given

BlockSizeInvalid ==
    /\ In("list") /\ Room >= BlockHeader
    /\ \E size \in BlockSizes : size > Room \/ size < BlockHeader
    /\ Report("invalid_base_relocation_size")
    /\ pc' = AfterList(walk) /\ Leave(walk) /\ UNCHANGED given

\* An unaligned block is reported and loaded.
AlignmentNoted ==
    IF walk.at % 4 # 0 THEN Report("unaligned_dynamic_relocation_block") ELSE NoReport

\* Faulty: the size of a block is not compared with the room there is.
BlockBeginsUnchecked ==
    /\ In("list") /\ Top.list # "function_override" /\ Room >= BlockHeader
    /\ \E size \in BlockSizes :
        /\ size >= BlockHeader
        /\ Enter(BlockHeader, Frame("block", Top.list, walk.at + size))
    /\ AlignmentNoted /\ UNCHANGED <<given, pc, result>>

BlockBegins ==
    /\ In("list") /\ Top.list # "function_override" /\ Room >= BlockHeader
    /\ \E size \in BlockSizes :
        /\ size >= BlockHeader /\ size <= Room
        /\ Enter(BlockHeader, Frame("block", Top.list, walk.at + size))
    /\ AlignmentNoted /\ UNCHANGED <<given, pc, result>>

-----------------------------------------------------------------------------
(* Fixups of a block. *)

Size == FixupSize[Top.list]

\* check_fixup_end_block_rva, after a fixup that cannot be read as well.
BlockEnds ==
    /\ In("block")
    /\ \/ Room < Size /\ (IF Room # 0 THEN Report("invalid_block_size") ELSE NoReport)
       \/ Room >= Size /\ errors' = errors \cup {"invalid_block", "invalid_block_size"}
    /\ Leave(walk) /\ UNCHANGED <<given, pc>>

\* A fixup, or behind the first one a zero that aligns the block and is not kept.
FixupRead ==
    /\ In("block") /\ Room >= Size
    /\ Move(Size)
    /\ UNCHANGED <<given, pc, result, errors>>

\* Some ARM64X fixups have data behind them.  Data that do not fit or cannot be
\* read are reported, and the cursor stays before them.
Arm64xData ==
    /\ In("block") /\ Top.list = "arm64x" /\ Room >= Size
    /\ \E data \in {1, 2, 4, 8} :
        \/ Size + data <= Room /\ Move(Size + data) /\ NoReport
        \/ Move(Size) /\ Report("invalid_arm64x_data")
    /\ UNCHANGED <<given, pc, result>>

Arm64xUnknown ==
    /\ In("block") /\ Top.list = "arm64x" /\ Room >= Size
    /\ Report("unknown_arm64x_relocation_type")
    /\ walk' = [walk EXCEPT !.at = Top.end, !.reach = Max({@, walk.at + Size})]
    /\ UNCHANGED <<given, pc, result>>

-----------------------------------------------------------------------------
(* Blocks of function overrides. *)

\* The rest of the list is left when the header of a block is wrong.
OverrideHeaderInvalid ==
    /\ In("list") /\ Top.list = "function_override" /\ Room >= BlockHeader
    /\ \E size \in BlockSizes : size >= BlockHeader /\ size <= Room
    /\ errors' \in {errors \cup {e} : e \in {"invalid_func_override_fixup",
                                             "invalid_func_override_size"}}
    /\ pc' = "walk" /\ Leave(walk) /\ UNCHANGED given

\* What is behind the overrides belongs to the BDD.
OverrideBlockBegins ==
    /\ In("list") /\ Top.list = "function_override" /\ Room >= BlockHeader
    /\ \E size \in BlockSizes, overrides \in SmallSizes :
        /\ size <= Room
        /\ BlockHeader + OverrideHeader + overrides <= size
        /\ LET begin == walk.at + BlockHeader + OverrideHeader
               block == Frame("override_block", "override_fixup", walk.at + size)
               list == Frame("overrides", "override_fixup", begin + overrides)
           IN walk' = [at |-> begin, frames |-> walk.frames \o <<block, list>>,
                       reach |-> Max({walk.reach, begin})]
    /\ AlignmentNoted /\ UNCHANGED <<given, pc, result>>

\* The cursor goes to the end of the block, over the BDD region.
OverridesDone ==
    /\ In("overrides") /\ Room < OverrideSize
    /\ IF Room # 0 THEN Report("invalid_func_override_size") ELSE NoReport
    /\ walk' = Popped(Popped(walk)) /\ result' = (result \/ Room # 0)
    /\ UNCHANGED <<given, pc>>

OverrideInvalid ==
    /\ In("overrides") /\ Room >= OverrideSize
    /\ errors' \in {errors \cup {e} :
            e \in {"invalid_func_override", "invalid_func_override_rvas",
                   "invalid_func_override_rvas_size", "invalid_base_relocation_size"}}
    /\ walk' = Popped(Popped(walk)) /\ result' = TRUE
    /\ UNCHANGED <<given, pc>>

OverrideRead ==
    /\ In("overrides") /\ Room >= OverrideSize
    /\ \E rvas \in SmallSizes, blocks \in BlockSizes \cup {0} :
        /\ rvas % 4 = 0
        /\ OverrideSize + rvas + blocks <= Room
        /\ Enter(OverrideSize + rvas,
                 Frame("list", "override_fixup", walk.at + OverrideSize + rvas + blocks))
    /\ UNCHANGED <<given, pc, result, errors>>

\* load_bdd_info reads beside the cursor: from the end of the overrides up to the
\* end of the block.
OverridesEnd == Top.end
OverrideBlockEnd == walk.frames[Len(walk.frames) - 1].end

BddInvalid ==
    /\ pc = "bdd"
    /\ errors' \in {errors \cup {e} : e \in {"invalid_bdd_info_entry", "unknown_bdd_version",
                                             "invalid_bdd_dynamic_relocations"}}
    /\ pc' = "walk" /\ UNCHANGED <<given, walk, result>>

BddRead ==
    /\ pc = "bdd"
    /\ \E offset \in SmallSizes, size \in SmallSizes :
        LET begin == OverridesEnd + offset + BddHeader
            remaining == Min({OverrideBlockEnd - begin, size})
            left == remaining % BddEntry
        IN /\ begin <= OverrideBlockEnd
           /\ walk' = [walk EXCEPT !.reach = Max({@, begin + remaining - left})]
           /\ IF left # 0 THEN Report("invalid_bdd_info_size") ELSE NoReport
    /\ pc' = "walk" /\ UNCHANGED <<given, result>>

Next ==
    \/ NoSection \/ TableUnread \/ TableRead
    \/ RelocationsDone \/ RelocationUnread \/ RelocationV1 \/ RelocationV2
    \/ ListDone \/ BlockUnread \/ BlockSizeInvalid \/ BlockBegins
    \/ BlockEnds \/ FixupRead \/ Arm64xData \/ Arm64xUnknown
    \/ OverrideHeaderInvalid \/ OverrideBlockBegins \/ OverridesDone \/ OverrideInvalid
    \/ OverrideRead \/ BddInvalid \/ BddRead

-----------------------------------------------------------------------------
(* What is checked. *)

\* The cursor is inside everything it is in, each inside the one around it, and
\* no read ever went past the end of the table.
FramesNested ==
    /\ \A i \in DOMAIN walk.frames :
        /\ walk.at <= walk.frames[i].end
        /\ i > 1 => walk.frames[i].end <= walk.frames[i - 1].end
    /\ pc = "walk" /\ walk.frames # <<>> => walk.reach <= walk.frames[1].end

\* Whatever the walk passes over without reading it is reported.
NothingPassedOver == result => errors # {}

=============================================================================
