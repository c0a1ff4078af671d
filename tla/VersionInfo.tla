----------------------------- MODULE VersionInfo -----------------------------
(***************************************************************************)
(* The version information of a file: the tree of blocks that                *)
(* version_info_from_resource reads (version_info_reader.cpp), and the       *)
(* tables of strings and translations that get_version_info takes from a     *)
(* tree (version_info.cpp).  What is read is chosen when it is read.         *)
(***************************************************************************)
EXTENDS Cursor, SequencesExt

CONSTANTS
    ResourceSizes,   \* sizes of the resource
    BlockLengths,    \* lengths in the descriptor of a block,
    ValueLengths,    \* and lengths of its value
    MaxDepth,        \* max_depth
    MaxInfoItems     \* bounds the children of the tree that is interpreted

VARIABLES
    given,   \* [of, buf, base, ignore] or [of]
    pc,      \* "block", "value", "children", "returned", "info", "tables", "strings", "var", "done"
    walk,    \* blocks: [pos, frames, block]; tables: what is being read
    result,  \* the blocks, in the order they are begun, or the tables
    errors

vars == <<given, pc, walk, result, errors>>

DescriptorSize == 6
ValueTypes == {"binary", "text", "unknown"}

\* A block that is read: where, how long it says it is, and what of that is left.
NoBlock == [at |-> 0, length |-> 0, left |-> 0, value |-> 0, type |-> "binary"]

\* frames are the blocks whose children are read: where these begin and end, what is
\* left of the block by its own count, and where it and its current child began.
Frame(from, end, left, at) == [from |-> from, end |-> end, left |-> left, at |-> at]

NoTables == [languages |-> {}, strings |-> {}, translations |-> {}]

InitBlocks ==
    /\ given \in [of : {"blocks"}, base : {0, 2}, ignore : BOOLEAN,
                  buf : [size : ResourceSizes, physical : ResourceSizes, virtual : BOOLEAN]]
    /\ given.buf.physical \in {given.buf.size, Max({0} \cup {n \in ResourceSizes : n < given.buf.size})}
    /\ given.buf.virtual => given.buf.physical # given.buf.size
    /\ pc = "block" /\ walk = [pos |-> 0, frames |-> <<>>, block |-> NoBlock] /\ result = <<>>

InitInfo ==
    /\ given = [of |-> "info"]
    /\ pc = "info" /\ result = NoTables
    /\ walk = [tables |-> FALSE, translations |-> FALSE, language |-> "none", left |-> MaxInfoItems,
               offered |-> 0, pairs |-> 0, found |-> "none"]

Init == errors = {} /\ (InitBlocks \/ InitInfo)

-----------------------------------------------------------------------------
(* The tree of blocks. *)

Depth == Len(walk.frames)
Top == walk.frames[Depth]

\* A child is read in a buffer that ends where its parent's bytes do.
Here ==
    IF Depth = 0 THEN given.buf
    ELSE [given.buf EXCEPT !.size = Top.end, !.physical = Min({@, Top.end})]

PaddingAt(pos) == RoundUp(given.base + pos, 4) - (given.base + pos)

Excess(pos) ==
    IF ~given.ignore /\ pos # given.buf.size THEN {"excessive_data_in_buffer"} ELSE {}

\* A block that fails ends the whole; the children of the root were not passed over.
Fail(found) ==
    /\ errors' = errors \cup found
                 \cup Excess(IF Depth = 0 THEN walk.pos ELSE walk.frames[1].from)
    /\ pc' = "done" /\ UNCHANGED <<given, walk, result>>

Misaligned == IF PaddingAt(walk.pos) # 0 THEN {"unaligned_version_info_block"} ELSE {}

BlockUnread ==
    /\ pc = "block" /\ ~CanRead(Here, walk.pos, DescriptorSize)
    /\ Fail(Misaligned \cup {"buffer_read_error"})

BlockTooShort ==
    /\ pc = "block" /\ CanRead(Here, walk.pos, DescriptorSize)
    /\ \E length \in BlockLengths : length < DescriptorSize
    /\ Fail(Misaligned \cup {"invalid_block_length"})

KeyUnread ==
    /\ pc = "block" /\ CanRead(Here, walk.pos, DescriptorSize)
    /\ \E length \in BlockLengths :
        /\ length >= DescriptorSize
        /\ StringMayFail(Here, walk.pos + DescriptorSize, 2, length - DescriptorSize)
    /\ Fail(Misaligned \cup {"key_read_error"})

\* A block without a value gets an empty one of its type, and goes on if it has none.
Begin ==
    /\ pc = "block" /\ CanRead(Here, walk.pos, DescriptorSize)
    /\ \E length \in BlockLengths, value \in ValueLengths, type \in ValueTypes :
       /\ length >= DescriptorSize
       /\ \E key \in StringEnds(Here, walk.pos + DescriptorSize, 2, length - DescriptorSize) :
            /\ walk' = [walk EXCEPT !.pos = key,
                            !.block = [at |-> walk.pos, length |-> length, value |-> value, type |-> type,
                                       left |-> length - (key - walk.pos)]]
            /\ result' = Append(result, [at |-> walk.pos, length |-> length, end |-> 0])
            /\ errors' = errors \cup Misaligned
                         \cup (IF value = 0 /\ type = "unknown" THEN {"unknown_value_type"} ELSE {})
    /\ pc' = "value" /\ UNCHANGED given

Block == walk.block

\* align_buffer: the padding is counted against the block and passed over.
CanAlign(left) ==
    LET padding == PaddingAt(walk.pos)
    IN padding <= left /\ CanSeek(Here, walk.pos + padding)

Returned(pos, block, found) ==
    /\ walk' = [walk EXCEPT !.pos = pos, !.block = block]
    /\ errors' = errors \cup found
    /\ pc' = "returned" /\ UNCHANGED <<given, result>>

NothingLeft ==
    /\ pc = "value" /\ Block.left = 0
    /\ IF Block.value # 0 THEN Fail({"invalid_value_length"})
       ELSE Returned(walk.pos, Block, {})

NoValue ==
    /\ pc = "value" /\ Block.left > 0 /\ Block.value = 0
    /\ pc' = "children" /\ UNCHANGED <<given, walk, result, errors>>

\* The length of a text counts its characters.
ValueSize == IF Block.type = "text" THEN 2 * Block.value ELSE Block.value

ValueRefused ==
    /\ pc = "value" /\ Block.left > 0 /\ Block.value > 0
    /\ LET at == walk.pos + PaddingAt(walk.pos) IN
       \/ ~CanAlign(Block.left) /\ Fail({"buffer_read_error"})
       \/ CanAlign(Block.left) /\
          \/ /\ ValueSize > Block.left - PaddingAt(walk.pos) /\ Fail({"invalid_value_length"})
          \/ /\ ValueSize <= Block.left - PaddingAt(walk.pos)
             /\ \/ Block.type = "unknown" /\ Fail({"unknown_value_type"})
                \/ /\ \/ at + ValueSize > Here.size
                      \/ Block.type = "text" /\ StringMayFail(Here, at, 2, ValueSize)
                   /\ Block.type # "unknown" /\ Fail({"value_read_error"})

\* A text that ends early is passed over to the end of its value.
ValueRead ==
    /\ pc = "value" /\ Block.left > 0 /\ Block.value > 0 /\ CanAlign(Block.left)
    /\ LET padding == PaddingAt(walk.pos)
           at == walk.pos + padding IN
       /\ ValueSize <= Block.left - padding /\ at + ValueSize <= Here.size
       /\ Block.type = "binary" \/ (Block.type = "text" /\ StringEnds(Here, at, 2, ValueSize) # {})
       /\ walk' = [walk EXCEPT !.pos = at + ValueSize,
                       !.block.left = @ - padding - ValueSize, !.block.value = 0]
    /\ pc' = "children" /\ UNCHANGED <<given, result, errors>>

\* What is left behind the value and its padding is children.
NoChildren ==
    /\ pc = "children"
    /\ \/ Block.left = 0 /\ Returned(walk.pos, Block, {})
       \/ Block.left > 0 /\
          \/ ~CanAlign(Block.left) /\ Fail({"buffer_read_error"})
          \/ /\ CanAlign(Block.left) /\ Block.left = PaddingAt(walk.pos)
             /\ Returned(walk.pos + PaddingAt(walk.pos), [Block EXCEPT !.left = 0], {})

HasChildren ==
    pc = "children" /\ Block.left > PaddingAt(walk.pos) /\ CanAlign(Block.left)
ChildrenEnd == walk.pos + Block.left

\* At the limit the children are passed over.
TooDeep ==
    /\ HasChildren /\ Depth = MaxDepth
    /\ IF CanSeek(Here, ChildrenEnd)
       THEN Returned(ChildrenEnd, [Block EXCEPT !.left = 0], {"block_tree_is_too_deep"})
       ELSE Fail({"block_tree_is_too_deep"})

ChildrenUnread ==
    /\ HasChildren /\ Depth < MaxDepth /\ ChildrenEnd > Here.size
    /\ Fail({"child_read_error"})

\* Faulty: the padding in front of the first child is taken from the buffer alone.
DescendUncounted ==
    /\ HasChildren /\ Depth < MaxDepth /\ ChildrenEnd <= Here.size
    /\ LET from == walk.pos + PaddingAt(walk.pos)
       IN walk' = [pos |-> from, block |-> NoBlock,
                   frames |-> Append(walk.frames, Frame(from, ChildrenEnd, Block.left, Block.at))]
    /\ pc' = "block" /\ UNCHANGED <<given, result, errors>>

Descend ==
    /\ HasChildren /\ Depth < MaxDepth /\ ChildrenEnd <= Here.size
    /\ LET from == walk.pos + PaddingAt(walk.pos)
           left == Block.left - PaddingAt(walk.pos)
       IN walk' = [pos |-> from, block |-> NoBlock,
                   frames |-> Append(walk.frames, Frame(from, ChildrenEnd, left, Block.at))]
    /\ pc' = "block" /\ UNCHANGED <<given, result, errors>>

\* The number of the block that begins at a place: the last of those that do.
Begun(at) == Max({i \in DOMAIN result : result[i].at = at})

\* A block is read: its parent takes it from what is left, and goes on, or ends.
RootReturned ==
    /\ pc = "returned" /\ Depth = 0
    /\ result' = [result EXCEPT ![Begun(Block.at)].end = walk.pos]
    /\ errors' = errors \cup Excess(walk.pos)
    /\ pc' = "done" /\ UNCHANGED <<given, walk>>

ChildReturned ==
    /\ pc = "returned" /\ Depth > 0
    /\ result' = [result EXCEPT ![Begun(Block.at)].end = walk.pos]
    /\ LET left == Top.left - (walk.pos - Block.at) IN
       IF walk.pos = Top.end
       THEN /\ walk' = [walk EXCEPT !.frames = Front(@), !.block = [NoBlock EXCEPT !.at = Top.at, !.left = left]]
            /\ UNCHANGED <<pc, errors>>
       ELSE IF CanAlign(left)
       THEN /\ walk' = [walk EXCEPT !.pos = @ + PaddingAt(@),
                            !.frames[Depth].left = left - PaddingAt(walk.pos), !.block = NoBlock]
            /\ pc' = "block" /\ UNCHANGED errors
       ELSE /\ errors' = errors \cup {"buffer_read_error"} \cup Excess(walk.frames[1].from)
            /\ pc' = "done" /\ UNCHANGED walk
    /\ UNCHANGED given

-----------------------------------------------------------------------------
(* get_version_info: the tables in a tree. *)

Report(e) == errors' = errors \cup {e}
Take == walk.left > 0 /\ walk' = [walk EXCEPT !.left = @ - 1]

IncorrectRoot == pc = "info" /\ walk.left = MaxInfoItems /\ Report("incorrect_root_block_key")
                 /\ pc' = "done" /\ UNCHANGED <<given, walk, result>>

FixedInfoMissing ==
    /\ pc = "info" /\ walk.left = MaxInfoItems
    /\ \E e \in {"absent_file_version_info", "file_version_info_read_error"} : Report(e)
    /\ Take /\ UNCHANGED <<given, pc, result>>

\* A child that has no key is reported; one of a key that is not known is the caller's.
OtherChild ==
    /\ pc = "info" /\ Take
    /\ Report("unknown_version_info_key") \/ UNCHANGED errors
    /\ UNCHANGED <<given, pc, result>>

StringFileInfo ==
    /\ pc = "info" /\ walk.left > 0
    /\ IF walk.tables
       THEN Report("duplicate_string_file_info") /\ Take /\ UNCHANGED <<given, pc, result>>
       ELSE /\ walk' = [walk EXCEPT !.tables = TRUE, !.left = @ - 1]
            /\ pc' = "tables" /\ UNCHANGED <<given, result, errors>>

Languages == {"neutral", "system_default", "english_us", "other"}

\* The first table of a language is taken, another is reported and left out.
RefusedTable ==
    /\ pc = "tables" /\ Take
    /\ \/ Report("invalid_string_translations")
       \/ result.languages # {} /\ Report("duplicate_string_translations")
    /\ UNCHANGED <<given, pc, result>>
StringTable ==
    /\ pc = "tables" /\ walk.left > 0
    /\ \E l \in Languages \ result.languages :
        /\ result' = [result EXCEPT !.languages = @ \cup {l}]
        /\ walk' = [walk EXCEPT !.language = l, !.left = @ - 1]
    /\ pc' = "strings" /\ UNCHANGED <<given, errors>>
TablesEnd == pc = "tables" /\ pc' = "info" /\ UNCHANGED <<given, walk, result, errors>>

Keys == {"ProductName", "FileVersion"}
Values == {"first", "second"}
Has(key) == \E s \in result.strings : s.language = walk.language /\ s.key = key

\* Of the values of a key the first is kept, and another reported.
String ==
    /\ pc = "strings" /\ walk.left > 0
    /\ walk' = [walk EXCEPT !.left = @ - 1, !.offered = @ + 1]
    /\ \/ Report("invalid_strings") /\ UNCHANGED result
       \/ \E key \in Keys, value \in Values :
          IF Has(key) THEN Report("duplicate_strings") /\ UNCHANGED result
          ELSE /\ result' = [result EXCEPT !.strings =
                                @ \cup {[language |-> walk.language, key |-> key, value |-> value]}]
               /\ UNCHANGED errors
    /\ UNCHANGED <<given, pc>>
StringsEnd == pc = "strings" /\ pc' = "tables" /\ UNCHANGED <<given, walk, result, errors>>

\* The translations are the value of the first child that has their key and a binary
\* value; other children are passed over, and their number is reported.
VarFileInfo ==
    /\ pc = "info" /\ walk.left > 0
    /\ IF walk.translations
       THEN Report("duplicate_var_file_info") /\ Take /\ UNCHANGED <<given, pc, result>>
       ELSE \E children \in 0 .. 2 :
            /\ walk' = [walk EXCEPT !.translations = TRUE, !.left = @ - 1, !.pairs = children]
            /\ errors' = IF children = 1 THEN errors ELSE errors \cup {"invalid_var_file_info_children"}
            /\ pc' = "var" /\ UNCHANGED <<given, result>>

NoTranslations ==
    /\ pc = "var" /\ walk.pairs = 0 /\ Report("absent_translations")
    /\ pc' = "info" /\ UNCHANGED <<given, walk, result>>
OtherVar ==
    /\ pc = "var" /\ walk.pairs > 0
    /\ walk' = [walk EXCEPT !.pairs = @ - 1]
    /\ Report("invalid_translations") \/ UNCHANGED errors
    /\ UNCHANGED <<given, pc, result>>
Translations ==
    /\ pc = "var" /\ walk.pairs > 0
    /\ \E read \in {<<>>, <<"neutral">>, <<"neutral", "other">>, <<"other", "other">>}, cut \in BOOLEAN :
        /\ result' = [result EXCEPT !.translations = Range(read)]
        /\ errors' = errors
              \cup (IF Cardinality(Range(read)) < Len(read) THEN {"duplicate_translations"} ELSE {})
              \cup (IF cut THEN {"invalid_translations"} ELSE {})
    /\ walk' = [walk EXCEPT !.pairs = 0] /\ pc' = "info" /\ UNCHANGED given

InfoEnds == pc = "info" /\ pc' = "look" /\ UNCHANGED <<given, walk, result, errors>>

\* get_value_by_key: in the language that is asked for, or in the first of the default
\* ones that has a table, whether that table has the key or not.
DefaultLanguages == <<"neutral", "process_default", "system_default", "english_neutral", "english_us">>
Chosen(asked) ==
    IF asked # "any" THEN {asked} \cap result.languages
    ELSE {DefaultLanguages[i] : i \in
            {i \in DOMAIN DefaultLanguages :
                /\ DefaultLanguages[i] \in result.languages
                /\ \A j \in 1 .. i - 1 : DefaultLanguages[j] \notin result.languages}}
Look ==
    /\ pc = "look"
    /\ \E asked \in Languages \cup {"any"}, key \in Keys :
       LET found == {s \in result.strings : s.language \in Chosen(asked) /\ s.key = key} IN
       walk' = [walk EXCEPT !.found =
                    IF Chosen(asked) = {} THEN "language_does_not_exist"
                    ELSE IF found = {} THEN "key_does_not_exist"
                    ELSE (CHOOSE s \in found : TRUE).value]
    /\ pc' = "done" /\ UNCHANGED <<given, result, errors>>

Next ==
    \/ BlockUnread \/ BlockTooShort \/ KeyUnread \/ Begin
    \/ NothingLeft \/ NoValue \/ ValueRefused \/ ValueRead
    \/ NoChildren \/ TooDeep \/ ChildrenUnread \/ Descend \/ RootReturned \/ ChildReturned
    \/ IncorrectRoot \/ FixedInfoMissing \/ OtherChild \/ StringFileInfo
    \/ RefusedTable \/ StringTable \/ TablesEnd \/ String \/ StringsEnd
    \/ VarFileInfo \/ NoTranslations \/ OtherVar \/ Translations \/ InfoEnds \/ Look

-----------------------------------------------------------------------------
(* What is checked. *)

\* What a block counts as left of it is what its children's buffer has left, through
\* every padding that is taken from both.
CountsAgree ==
    given.of = "blocks" /\ pc = "block" /\ Depth > 0 => Top.left = Top.end - walk.pos

\* Nothing reported: every block is as long as it says, and begins where a block may.
BlocksWhole ==
    given.of = "blocks" /\ pc = "done" /\ errors = {} =>
        /\ \A i \in DOMAIN result : /\ result[i].end = result[i].at + result[i].length
                                    /\ PaddingAt(result[i].at) = 0
        /\ given.ignore \/ result[1].end = given.buf.size
        /\ \A i, j \in DOMAIN result : i < j =>
            \/ result[j].end <= result[i].end
            \/ result[j].at >= result[i].end

\* Nothing reported: every string of the tables is kept, and there is one value of a key.
TablesWhole ==
    given.of = "info" /\ errors = {} =>
        /\ Cardinality(result.strings) = walk.offered
        /\ \A s, t \in result.strings : s.language = t.language /\ s.key = t.key => s = t
        /\ {s.language : s \in result.strings} \subseteq result.languages

VersionWhole == CountsAgree /\ BlocksWhole /\ TablesWhole

=============================================================================
