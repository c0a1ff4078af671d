--------------------------- MODULE ResourceFormats ---------------------------
(***************************************************************************)
(* The resources that are read from their bytes and written as files or as  *)
(* resources again: groups of icons and of cursors (icon_cursor_reader.cpp,  *)
(* icon_cursor_writer.cpp), bitmaps (bitmap_reader.cpp, bitmap_writer.cpp),  *)
(* string tables (packed_utf16_string.cpp) and accelerator tables.  A piece  *)
(* of data is [size, physical]: its bytes, and those that are in the file.   *)
(* Message tables (message_table_reader.cpp) are read by a walk of their own *)
(* over the same variables: MessagesInit and MessagesNext.                   *)
(***************************************************************************)
EXTENDS Cursor, SequencesExt

CONSTANTS
    PictureSizes,      \* sizes of pictures and of headers
    MaxPictures,       \* bounds the pictures of a group
    StringCount,       \* max_string_count
    MaxAccelerators,   \* max_accelerator_count
    TableBytes,        \* sizes of message tables
    MessageIds,        \* ids of messages
    EntryOffsets,      \* offsets of entries
    EntryLengths,      \* lengths of entries
    MaxBlocks,         \* max_block_count
    MaxMessages        \* max_message_count

VARIABLES
    given,   \* [of, buf, write: write_virtual_part of what is written]
    pc,      \* "begin", "pictures", "loaded", "valid", "file", "throws" or "done";
             \* of a message table "begin", "blocks", "entries" or "done"
    walk,    \* [pos, count, assigned, written]; of a message table [at: of the next
             \*  block, blocks, left: the messages that may be read, used: the ranges of
             \*  ids, pos, entries: those to read of the last block]
    result,  \* what is read, in order; blocks: [low, high, entries: [at, end, length]]
    errors

vars == <<given, pc, walk, result, errors>>

Kinds == {"icon", "cursor", "bitmap", "strings", "accelerators"}

Init ==
    /\ given \in [of : Kinds, write : BOOLEAN,
                  buf : [size : PictureSizes, physical : PictureSizes, virtual : BOOLEAN]]
    /\ given.buf.physical \in {given.buf.size, Max({0} \cup {n \in PictureSizes : n < given.buf.size})}
    /\ pc = "begin" /\ result = <<>> /\ errors = {}
    /\ walk = [pos |-> 0, count |-> 0, assigned |-> {}, written |-> <<>>]

Buf == given.buf
Of(kinds) == given.of \in kinds
Group == {"icon", "cursor"}

Throw(e) == pc' = "throws" /\ errors' = errors \cup {e} /\ UNCHANGED <<given, walk, result>>
Written(data) == IF given.write THEN data.size ELSE data.physical
InFile(from, size) == Max({0, Min({size, Buf.physical - from})})

-----------------------------------------------------------------------------
(* Icons and cursors: a header, the entries of the group, and for each entry  *)
(* the data of the icon or cursor of its number.                              *)

HeaderSize == 6
GroupEntrySize == 14
FileEntrySize == 16
HotspotSize == 4

GroupUnread ==
    /\ pc = "begin" /\ Of(Group)
    /\ \/ ~CanRead(Buf, 0, HeaderSize) /\ Throw("unable_to_read_header")
       \/ /\ CanRead(Buf, 0, HeaderSize)
          /\ \E n \in 1 .. MaxPictures : ~CanRead(Buf, HeaderSize, n * GroupEntrySize)
          /\ Throw("unable_to_read_group_entry_header")

ReadGroup ==
    /\ pc = "begin" /\ Of(Group) /\ CanRead(Buf, 0, HeaderSize)
    /\ \E n \in 0 .. MaxPictures :
        /\ n > 0 => CanRead(Buf, HeaderSize, n * GroupEntrySize)
        /\ walk' = [walk EXCEPT !.count = n]
    /\ pc' = "pictures" /\ UNCHANGED <<given, result, errors>>

PictureUnread ==
    /\ pc = "pictures" /\ Len(result) < walk.count /\ Throw("unable_to_read_data")

\* Data that are partly virtual are refused where virtual data are not read.
Picture ==
    /\ pc = "pictures" /\ Len(result) < walk.count
    /\ \E size, physical \in {0, 3, 6} :
        /\ physical <= size /\ (Buf.virtual \/ physical = size)
        /\ result' = Append(result, [size |-> size, physical |-> physical])
    /\ UNCHANGED <<given, pc, walk, errors>>

GroupLoaded ==
    /\ pc = "pictures" /\ Len(result) = walk.count
    /\ pc' = "loaded" /\ UNCHANGED <<given, walk, result, errors>>

\* The lists of a group are the caller's to change: data without an entry.
AddPicture ==
    /\ pc = "loaded" /\ Of(Group) /\ Len(result) = walk.count /\ Len(result) < MaxPictures
    /\ result' = Append(result, [size |-> 4, physical |-> 4])
    /\ UNCHANGED <<given, pc, walk, errors>>

\* What is in a hotspot and how wide and high a picture is, is chosen here.
Wrong ==
    (IF Len(result) # walk.count THEN {"different_number_of_headers_and_data"} ELSE {})
    \cup (IF Of({"cursor"}) /\ Len(result) = walk.count
             /\ \E i \in DOMAIN result : result[i].size < HotspotSize
          THEN {"invalid_hotspot"} ELSE {})
Validate ==
    /\ pc = "loaded" /\ Of(Group)
    /\ \E header \in {{}, {"invalid_header"}},
          hotspots \in IF Of({"cursor"}) /\ Len(result) = walk.count /\ result # <<>>
                       THEN SUBSET {"invalid_dimensions", "invalid_hotspot"} ELSE {{}} :
        errors' = errors \cup header \cup Wrong \cup hotspots
    /\ pc' = "valid" /\ UNCHANGED <<given, walk, result>>

\* A cursor in a file has its hotspot in the entry, and not before its bits.
InFileFormat(data) ==
    IF Of({"icon"}) THEN data
    ELSE [size |-> data.size - HotspotSize, physical |-> Max({0, data.physical - HotspotSize})]

\* The sizes of the first n pieces that are written.
Total(pictures, n) == MapThenSumSet(LAMBDA i : Written(pictures[i]), 1 .. n)

\* to_file_format: each entry has the size of its data and where they are to be.
ToFile ==
    /\ pc \in {"loaded", "valid"} /\ Of(Group)
    /\ IF Len(result) # walk.count THEN Throw("different_number_of_headers_and_data")
       ELSE IF Of({"cursor"}) /\ \E i \in DOMAIN result : result[i].size < HotspotSize
       THEN Throw("invalid_hotspot")
       ELSE \E pictures \in {[i \in DOMAIN result |-> InFileFormat(result[i])]} :
            /\ result' = pictures
            /\ walk' = [walk EXCEPT !.written =
                  [i \in DOMAIN pictures |->
                     [size |-> Written(pictures[i]),
                      offset |-> HeaderSize + FileEntrySize * Len(pictures) + Total(pictures, i - 1)]]]
            /\ pc' = "file" /\ UNCHANGED <<given, errors>>

\* write_impl: the header, of which the file may have had a part, the entries and
\* the data, one behind another; walk.pos is where the data begin.
HeaderWritten == Written([size |-> HeaderSize, physical |-> InFile(0, HeaderSize)])
WriteGroup ==
    /\ pc = "file"
    /\ walk' = [walk EXCEPT !.pos = HeaderWritten + FileEntrySize * Len(result)]
    /\ pc' = "done" /\ UNCHANGED <<given, result, errors>>

-----------------------------------------------------------------------------
(* Bitmaps: the file header is put before what the resource has. *)

FileHeaderSize == 14
InfoHeaderSize == 40
ColorSize == 4

BitmapSize == IF Buf.virtual THEN Buf.size ELSE Min({Buf.physical, Buf.size})

BitmapRefused ==
    /\ pc = "begin" /\ Of({"bitmap"})
    /\ \/ BitmapSize < InfoHeaderSize /\ Throw("invalid_buffer_size")
       \/ BitmapSize >= InfoHeaderSize /\ Throw("invalid_bitmap_header")

\* The bits are behind the table of colours, of which bit_count says how many there
\* are if the header does not.
ReadBitmap ==
    /\ pc = "begin" /\ Of({"bitmap"}) /\ BitmapSize >= InfoHeaderSize
    /\ \E used \in 0 .. 2, bit_count \in {1, 4, 24} :
       LET colors == IF used > 0 THEN used ELSE IF bit_count <= 8 THEN 2 ^ bit_count ELSE 0
       IN walk' = [walk EXCEPT !.count = colors,
                      !.pos = FileHeaderSize + InfoHeaderSize + colors * ColorSize]
    /\ result' = <<[size |-> FileHeaderSize + BitmapSize, physical |-> 0]>>
    /\ pc' = "loaded" /\ UNCHANGED <<given, errors>>

\* write_bitmap in the mode of a file.
WriteBitmap ==
    /\ pc = "loaded" /\ Of({"bitmap"})
    /\ LET info == [size |-> InfoHeaderSize, physical |-> InFile(0, InfoHeaderSize)]
           bits == [size |-> Buf.size - InfoHeaderSize,
                    physical |-> InFile(InfoHeaderSize, Buf.size - InfoHeaderSize)]
       IN walk' = [walk EXCEPT !.written = <<FileHeaderSize + Written(info) + Written(bits)>>]
    /\ pc' = "done" /\ UNCHANGED <<given, result, errors>>

-----------------------------------------------------------------------------
(* String tables: as many strings as a table has, each behind its length.  A  *)
(* string is [at, length, value: its characters that were read, physical,     *)
(* virtual].                                                                   *)

LengthSize == 2
CharSize == 2

\* Characters are read up to the first of which no byte is there, which is passed too.
CharsFrom(at, length) == Min({length, (InFile(at, length * CharSize) + 1) \div CharSize})
EndOf(at, length) ==
    LET chars == CharsFrom(at + LengthSize, length)
    IN at + LengthSize + CharSize * (IF chars < length THEN chars + 1 ELSE chars)

\* The length of a string that is not in the file is 0.
Lengths == IF InFile(walk.pos, LengthSize) = 0 THEN {0} ELSE 0 .. 2

StringUnread ==
    /\ pc = "begin" /\ Of({"strings"}) /\ Len(result) < StringCount
    /\ \E length \in Lengths :
        \/ walk.pos + LengthSize > Buf.size
        \/ EndOf(walk.pos, length) > Buf.size
        \/ ~Buf.virtual /\ walk.pos + LengthSize + length * CharSize > Min({Buf.size, Buf.physical})
    /\ Throw("buffer_read_error")

ReadString ==
    /\ pc = "begin" /\ Of({"strings"}) /\ Len(result) < StringCount
    /\ walk.pos + LengthSize <= Buf.size
    /\ \E length \in Lengths :
       LET there == InFile(walk.pos, LengthSize + length * CharSize)
           whole == LengthSize + length * CharSize
       IN /\ EndOf(walk.pos, length) <= Buf.size
          /\ Buf.virtual \/ there = whole
          /\ result' = Append(result, [at |-> walk.pos, length |-> length, physical |-> there,
                                       virtual |-> whole, value |-> CharsFrom(walk.pos + LengthSize, length)])
          /\ walk' = [walk EXCEPT !.pos = EndOf(walk.pos, length)]
    /\ UNCHANGED <<given, pc, errors>>

StringsLoaded ==
    /\ pc = "begin" /\ Of({"strings"}) /\ Len(result) = StringCount
    /\ pc' = "loaded" /\ UNCHANGED <<given, walk, result, errors>>

\* operator= takes the number of characters for their bytes.
AssignString ==
    /\ pc = "loaded" /\ Of({"strings"}) /\ walk.assigned = {}
    /\ \E i \in DOMAIN result, length \in 0 .. 2 :
        /\ result' = [result EXCEPT ![i] = [@ EXCEPT !.value = length, !.length = length,
                                                    !.physical = length + LengthSize,
                                                    !.virtual = length + LengthSize]]
        /\ walk' = [walk EXCEPT !.assigned = {i}]
    /\ UNCHANGED <<given, pc, errors>>

\* serialize: the length is that of the virtual size, the characters are written as
\* far as the physical size goes, and zeros behind them if they are asked for.
Serialized(string) ==
    LET bytes == Min({LengthSize + string.value * CharSize, Max({string.physical, 0})})
    IN [length |-> (string.virtual - LengthSize) \div CharSize,
        bytes |-> bytes + (IF given.write THEN string.virtual - string.physical ELSE 0)]

WriteStrings ==
    /\ pc = "loaded" /\ Of({"strings"})
    /\ walk' = [walk EXCEPT !.written = [i \in DOMAIN result |-> Serialized(result[i])]]
    /\ pc' = "done" /\ UNCHANGED <<given, result, errors>>

-----------------------------------------------------------------------------
(* Accelerators: up to the one that says it is the last.  Which keys it is of *)
(* is in its modifiers, without the flag of the last.                         *)

AcceleratorSize == 8

AcceleratorsEnd ==
    /\ pc = "begin" /\ Of({"accelerators"})
    /\ \/ Len(result) = MaxAccelerators /\ errors' = {"too_many_accelerators"}
       \/ /\ Len(result) < MaxAccelerators /\ ~CanRead(Buf, walk.pos, AcceleratorSize)
          /\ errors' = {"buffer_read_error"}
    /\ pc' = "done" /\ UNCHANGED <<given, walk, result>>

Accelerator ==
    /\ pc = "begin" /\ Of({"accelerators"})
    /\ Len(result) < MaxAccelerators /\ CanRead(Buf, walk.pos, AcceleratorSize)
    /\ \E last, virtkey \in BOOLEAN :
        /\ result' = Append(result, [last |-> last, code |-> IF virtkey THEN "virtual" ELSE "ascii"])
        /\ pc' = IF last THEN "done" ELSE "begin"
    /\ walk' = [walk EXCEPT !.pos = @ + AcceleratorSize] /\ UNCHANGED <<given, errors>>

Next ==
    \/ GroupUnread \/ ReadGroup \/ PictureUnread \/ Picture \/ GroupLoaded \/ AddPicture
    \/ Validate \/ ToFile \/ WriteGroup
    \/ BitmapRefused \/ ReadBitmap \/ WriteBitmap
    \/ StringUnread \/ ReadString \/ StringsLoaded \/ AssignString \/ WriteStrings
    \/ AcceleratorsEnd \/ Accelerator

-----------------------------------------------------------------------------
(* What is checked. *)

\* In a file of icons or cursors the data of each entry are where it says, unless a
\* header that was not all in the file is written as short as it was.
PicturesPlaced ==
    Of(Group) /\ pc = "done" /\ HeaderWritten = HeaderSize =>
        \A i \in DOMAIN result :
            /\ walk.written[i].offset = walk.pos + Total(result, i - 1)
            /\ walk.written[i].size = Written(result[i])

\* What validation lets pass is converted.
ValidConverts == Of(Group) /\ pc = "valid" /\ errors = {} => Wrong = {}

\* A bitmap file is as long as its header says, if it is written as it was read.
BitmapSized ==
    Of({"bitmap"}) /\ pc = "done" /\ given.write = Buf.virtual => walk.written[1] = result[1].size

\* A string that was read is written with its length and all that is there of it.
StringsKept ==
    Of({"strings"}) /\ pc = "done" =>
        \A i \in DOMAIN result \ walk.assigned :
            /\ walk.written[i].length = result[i].length
            /\ walk.written[i].bytes = IF given.write THEN LengthSize + CharSize * result[i].length
                                       ELSE result[i].physical
            /\ i + 1 \in DOMAIN result /\ ~Buf.virtual =>
                result[i + 1].at = result[i].at + LengthSize + CharSize * result[i].length

AcceleratorsEnded ==
    Of({"accelerators"}) /\ pc = "done" /\ errors = {} =>
        \A i \in DOMAIN result : result[i].last <=> i = Len(result)

FormatsKept == PicturesPlaced /\ ValidConverts /\ BitmapSized /\ StringsKept /\ AcceleratorsEnded

-----------------------------------------------------------------------------
(***************************************************************************)
(* message_table_from_resource: the blocks of a table, each with the first   *)
(* and the last id of its messages, and the entries that a block has         *)
(* elsewhere in the resource.                                                *)
(***************************************************************************)

TableHeaderSize == 4
BlockSize == 12
EntrySize == 4

MessagesInit ==
    /\ given \in [buf : [size : TableBytes, physical : TableBytes, virtual : BOOLEAN]]
    /\ given.buf.physical \in {given.buf.size, Max({0} \cup {n \in TableBytes : n < given.buf.size})}
    /\ pc = "begin" /\ result = <<>> /\ errors = {}
    /\ walk = [at |-> 0, blocks |-> 0, left |-> MaxMessages, used |-> {}, pos |-> 0, entries |-> 0]

TableUnread ==
    /\ pc = "begin" /\ ~CanRead(Buf, 0, TableHeaderSize)
    /\ errors' = {"buffer_read_error"} /\ pc' = "done" /\ UNCHANGED <<given, walk, result>>

TableHeader ==
    /\ pc = "begin" /\ CanRead(Buf, 0, TableHeaderSize)
    /\ \E number \in 0 .. MaxBlocks + 1 :
        /\ walk' = [walk EXCEPT !.at = TableHeaderSize, !.blocks = Min({number, MaxBlocks})]
        /\ errors' = IF number > MaxBlocks THEN {"too_many_blocks"} ELSE {}
    /\ pc' = "blocks" /\ UNCHANGED <<given, result>>

BlocksEnd == pc = "blocks" /\ walk.blocks = 0 /\ pc' = "done" /\ UNCHANGED <<given, walk, result, errors>>

\* A block is in the table before it is read, and stays there.
NoIds == [low |-> 1, high |-> 0, entries |-> <<>>]
BlockUnread ==
    /\ pc = "blocks" /\ walk.blocks > 0 /\ ~CanRead(Buf, walk.at, BlockSize)
    /\ result' = Append(result, NoIds) /\ errors' = errors \cup {"buffer_read_error"}
    /\ pc' = "done" /\ UNCHANGED <<given, walk>>

InvalidIds ==
    /\ pc = "blocks" /\ walk.blocks > 0 /\ CanRead(Buf, walk.at, BlockSize)
    /\ result' = Append(result, NoIds) /\ errors' = errors \cup {"invalid_low_high_ids"}
    /\ walk' = [walk EXCEPT !.at = @ + BlockSize, !.blocks = @ - 1]
    /\ UNCHANGED <<given, pc>>

\* A range is in the set already if it is neither before nor behind one that is.
Overlaps(low, high) == \E r \in walk.used : ~(high < r.low) /\ ~(r.high < low)

\* The ids are counted against the limit before the entries are looked for; the
\* limit reached, this block is the last.
AfterEntries(left) == IF left = 0 THEN "done" ELSE "blocks"
Block ==
    /\ pc = "blocks" /\ walk.blocks > 0 /\ CanRead(Buf, walk.at, BlockSize)
    /\ \E low, high \in MessageIds, offset \in EntryOffsets :
       LET count == high - low + 1
           taken == Min({count, walk.left})
       IN /\ low <= high
          /\ result' = Append(result, [low |-> low, high |-> high, entries |-> <<>>])
          /\ walk' = [at |-> walk.at + BlockSize, blocks |-> walk.blocks - 1,
                      left |-> walk.left - taken, pos |-> offset, entries |-> taken,
                      used |-> IF Overlaps(low, high) THEN walk.used
                               ELSE walk.used \cup {[low |-> low, high |-> high]}]
          /\ errors' = errors
                \cup (IF count > walk.left THEN {"too_many_messages"} ELSE {})
                \cup (IF Overlaps(low, high) THEN {"overlapping_message_ids"} ELSE {})
                \cup (IF CanSeek(Buf, offset) THEN {} ELSE {"invalid_message_block"})
          /\ pc' = IF CanSeek(Buf, offset) THEN "entries" ELSE AfterEntries(walk.left - taken)
    /\ UNCHANGED given

-----------------------------------------------------------------------------
(* The entries of the last block. *)

LastRead == Len(result)
AddEntry(length, end) ==
    result' = [result EXCEPT ![LastRead].entries = Append(@, [at |-> walk.pos, length |-> length, end |-> end])]
Unended == 0

EntriesEnd ==
    /\ pc = "entries" /\ walk.entries = 0
    /\ pc' = AfterEntries(walk.left) /\ UNCHANGED <<given, walk, result, errors>>

GiveUp(length, e) ==
    /\ AddEntry(length, Unended) /\ errors' = errors \cup {e}
    /\ pc' = AfterEntries(walk.left) /\ UNCHANGED <<given, walk>>

EntryUnread ==
    /\ pc = "entries" /\ walk.entries > 0 /\ ~CanRead(Buf, walk.pos, EntrySize)
    /\ GiveUp(0, "buffer_read_error")

\* The next entry is at end; what is wrong with this one is its own to report.
GoOn(length, end, found) ==
    /\ AddEntry(length, end) /\ errors' = errors \cup found
    /\ walk' = [walk EXCEPT !.pos = end, !.entries = @ - 1]
    /\ UNCHANGED <<given, pc>>

Entry == pc = "entries" /\ walk.entries > 0 /\ CanRead(Buf, walk.pos, EntrySize)

\* A message that cannot hold its own null is not read and not passed over.
ShortMessage ==
    /\ Entry
    /\ \E length \in EntryLengths, char \in {1, 2} :
        /\ length < EntrySize + char
        /\ GoOn(length, walk.pos + EntrySize, {"invalid_message_length"})

\* The characters are read as far as there are bytes; half of one is left out.
Message ==
    /\ Entry
    /\ \E length \in EntryLengths, char \in {1, 2} :
       LET text == length - EntrySize - char
           from == walk.pos + EntrySize
           end == walk.pos + length
           here == Max({0, Min({Buf.physical, Buf.size}) - from})
           wanted == (text \div char) * char + char
           odd == IF text % char # 0 THEN {"invalid_message_length"} ELSE {}
           cut == IF ~Buf.virtual /\ here < wanted THEN {"virtual_message_memory"} ELSE {}
       IN /\ text >= 0
          /\ IF CanSeek(Buf, end) THEN GoOn(length, end, odd \cup cut)
             ELSE /\ AddEntry(length, Unended) /\ errors' = errors \cup odd \cup cut \cup {"invalid_message"}
                  /\ pc' = AfterEntries(walk.left) /\ UNCHANGED <<given, walk>>

UnknownEncoding ==
    /\ Entry
    /\ \E length \in EntryLengths :
       LET end == walk.pos + Max({length, EntrySize}) IN
       IF CanSeek(Buf, end) THEN GoOn(length, end, {"invalid_message_block_encoding"})
       ELSE /\ AddEntry(length, Unended)
            /\ errors' = errors \cup {"invalid_message_block_encoding", "invalid_message"}
            /\ pc' = AfterEntries(walk.left) /\ UNCHANGED <<given, walk>>

MessagesNext ==
    \/ TableUnread \/ TableHeader \/ BlocksEnd \/ BlockUnread \/ InvalidIds \/ Block
    \/ EntriesEnd \/ EntryUnread \/ ShortMessage \/ Message \/ UnknownEncoding

-----------------------------------------------------------------------------
(* What is checked of message tables. *)

Ids(block) == block.low .. block.high

\* Nothing reported: every id has one message, each begins where the one before it
\* ends, and no block is left out unless the limit was reached.
MessagesWhole ==
    pc = "done" /\ errors = {} =>
        /\ \A i \in DOMAIN result : Len(result[i].entries) = Cardinality(Ids(result[i]))
        /\ \A i, j \in DOMAIN result : i # j => Ids(result[i]) \cap Ids(result[j]) = {}
        /\ \A i \in DOMAIN result, k \in 1 .. MaxMessages :
            LET entries == result[i].entries IN
            k \in DOMAIN entries =>
                /\ entries[k].end = entries[k].at + entries[k].length
                /\ k + 1 \in DOMAIN entries => entries[k + 1].at = entries[k].end
        /\ walk.blocks > 0 => walk.left = 0

\* Whatever is reported, the limit holds for the messages that are read.
MessagesBounded ==
    MapThenSumSet(LAMBDA i : Len(result[i].entries), DOMAIN result) <= MaxMessages

MessagesRead == MessagesWhole /\ MessagesBounded

=============================================================================
