-------------------------------- MODULE Debug --------------------------------
(***************************************************************************)
(* Debug directories.  The list of them (debug_directory_loader.cpp): an     *)
(* entry names its data by an address and by an offset in the file; data may *)
(* lie in a section, or in the overlay, which has no address.  And           *)
(* get_underlying_directory (debug_directory.cpp): the raw data of an entry  *)
(* read as what its type says; what the data hold is chosen when it is read. *)
(***************************************************************************)
EXTENDS Cursor, FiniteSetsExt

CONSTANTS
    Sizes,          \* sizes of the directory
    ReadableSizes,  \* how much of it can be read
    MaxListed,      \* max_debug_directories
    DataSizes,      \* sizes of raw data
    MaxCount        \* max_debug_entry_count and max_coff_symbol_count

VARIABLES
    given,   \* [size, readable, wraps, overlay, virtual]; of the data [type, buf, relative]:
             \* relative is the offset of the data in its section
    pc,      \* "begin", "list" or "done"; "begin", "entries", "names", "symbols", "throws" or "done"
    walk,    \* [at, end, left]; [pos, left, table, length]
    result,  \* entries: [offset, size, data, notes]; [at, end, read, aux]
    errors

vars == <<given, pc, walk, result, errors>>

-----------------------------------------------------------------------------
(* The list of directories. *)

DescriptorSize == 28

\* A section of 8 bytes in the file and 4 more in memory, and the overlay behind it.
SectionOffset == 10
SectionRva == 110
RawSize == 8
VirtualSize == 12
OverlayOffset == 20
OverlaySize == 8
MaxRawData == 20

\* file_offset_to_rva, of a section or not at all.
HasRva(offset) == offset \in SectionOffset .. SectionOffset + RawSize - 1
RvaOf(offset) == offset - SectionOffset + SectionRva

\* section_data_from_rva with a size.
Limit == IF given.virtual THEN VirtualSize ELSE RawSize
InSection(rva, size) == rva \in SectionRva .. SectionRva + Limit /\ rva + size <= SectionRva + Limit

ListInit ==
    /\ given \in [size : Sizes, readable : ReadableSizes, wraps : BOOLEAN, overlay : BOOLEAN,
                  virtual : BOOLEAN]
    /\ given.wraps => given.size = given.readable
    /\ pc = "begin" /\ walk = [at |-> 0, end |-> 0, left |-> 0]
    /\ result = <<>> /\ errors = {}

\* A directory that is shorter than one entry ends before it begins.
ListBegins ==
    /\ pc = "begin" /\ ~given.wraps
    /\ walk' = [at |-> 0, end |-> given.size - DescriptorSize, left |-> MaxListed]
    /\ pc' = "list" /\ UNCHANGED <<given, result, errors>>

Report(e) == errors' = errors \cup {e}

\* The end of the directory has no address.
EndWraps ==
    /\ pc = "begin" /\ given.wraps
    /\ Report("invalid_debug_directory_size") /\ pc' = "done" /\ UNCHANGED <<given, walk, result>>

TooMany ==
    /\ pc = "list" /\ walk.at <= walk.end /\ walk.left = 0
    /\ Report("too_many_debug_directories") /\ pc' = "done" /\ UNCHANGED <<given, walk, result>>

DescriptorUnread ==
    /\ pc = "list" /\ walk.at <= walk.end /\ walk.left > 0 /\ walk.at + DescriptorSize > given.readable
    /\ Report("unable_to_load_entries") /\ pc' = "done" /\ UNCHANGED <<given, walk, result>>

\* The data of an entry: a place in the file and a size, or none; and its errors.
None == [at |-> "none", offset |-> 0]
Bytes(where, offset) == [at |-> where, offset |-> offset]

FromSection(rva, size, notes) ==
    IF InSection(rva, size) THEN [data |-> Bytes("section", rva - SectionRva + SectionOffset),
                                  notes |-> notes, failed |-> FALSE]
    ELSE [data |-> None, notes |-> notes, failed |-> TRUE]
Refused(note) == [data |-> None, notes |-> {note}, failed |-> FALSE]

FromOverlay(offset, size) ==
    IF ~given.overlay \/ offset < OverlayOffset THEN Refused("invalid_file_offset")
    ELSE IF offset - OverlayOffset + size > OverlaySize
    THEN [data |-> None, notes |-> {}, failed |-> TRUE]
    ELSE [data |-> Bytes("overlay", offset), notes |-> {}, failed |-> FALSE]

\* load_debug_data.
DataOf(rva, offset, size) ==
    CASE size > MaxRawData -> Refused("too_big_raw_data")
      [] size = 0 -> [data |-> None, notes |-> {}, failed |-> FALSE]
      [] size \in 1 .. MaxRawData /\ rva = 0 /\ offset = 0 -> Refused("no_rva_and_file_offset")
      [] size \in 1 .. MaxRawData /\ rva = 0 /\ offset > 0 ->
            IF HasRva(offset) THEN FromSection(RvaOf(offset), size, {}) ELSE FromOverlay(offset, size)
      [] size \in 1 .. MaxRawData /\ rva > 0 ->
            FromSection(rva, size, IF HasRva(offset) /\ RvaOf(offset) = rva THEN {}
                                   ELSE {"rva_and_file_offset_do_not_match"})

\* Addresses and offsets that agree, that do not, and that are in no section.
Named == {0, 90, 110, 113} \X {0, 4, 10, 13, 20, 23}
Entries == (Named \X {3}) \cup ({<<0, 10>>, <<113, 13>>, <<0, 23>>} \X {0, 8, 21})

DescriptorRead ==
    /\ pc = "list" /\ walk.at <= walk.end /\ walk.left > 0 /\ walk.at + DescriptorSize <= given.readable
    /\ \E e \in Entries :
       LET loaded == DataOf(e[1][1], e[1][2], e[2]) IN
        /\ result' = Append(result, [offset |-> e[1][2], size |-> e[2],
                                     data |-> loaded.data, notes |-> loaded.notes])
        /\ IF loaded.failed THEN Report("unable_to_load_raw_data") ELSE UNCHANGED errors
    /\ walk' = [walk EXCEPT !.at = @ + DescriptorSize, !.left = @ - 1]
    /\ UNCHANGED <<given, pc>>

DescriptorsEnd ==
    /\ pc = "list" /\ walk.at > walk.end
    /\ IF walk.at # walk.end + DescriptorSize THEN Report("excessive_data_in_directory") ELSE UNCHANGED errors
    /\ pc' = "done" /\ UNCHANGED <<given, walk, result>>

ListNext == ListBegins \/ EndWraps \/ TooMany \/ DescriptorUnread \/ DescriptorRead \/ DescriptorsEnd

-----------------------------------------------------------------------------
(* Sizes of what begins the data. *)

Fixed == {"vc_feature", "mpx", "ex_dllcharacteristics"}
HeaderSize == [vc_feature |-> 20, mpx |-> 20, ex_dllcharacteristics |-> 4, misc |-> 12, pogo |-> 4,
               coff |-> 32, mpdb |-> 8, repro |-> 4, codeview |-> 4, spgo |-> 0, pdbhash |-> 0,
               omap_to_src |-> 0, omap_from_src |-> 0, fpo |-> 0]
EntrySize == [omap_to_src |-> 8, omap_from_src |-> 8, fpo |-> 16, pogo |-> 8, coff |-> 18]
PdbSize == [pdb2 |-> 16, pdb7 |-> 24]

Types == DOMAIN HeaderSize \cup {"iltcg", "clsid"}

DataInit ==
    /\ given \in [type : Types, relative : {0, 2},
                  buf : [size : DataSizes, physical : DataSizes, virtual : BOOLEAN]]
    /\ given.buf.physical <= given.buf.size
    /\ \A n \in DataSizes : n \notin given.buf.physical + 1 .. given.buf.size - 1
    /\ pc = "begin"
    /\ walk = [pos |-> 0, left |-> 0, table |-> 0, length |-> 0] /\ result = <<>> /\ errors = {}

Buf == given.buf
Entry(at, end, read) == [at |-> at, end |-> end, read |-> read, aux |-> 0]

Fail(e) == errors' = errors \cup {e} /\ pc' = "done" /\ UNCHANGED <<given, walk, result>>
Done == pc' = "done" /\ UNCHANGED <<given, walk, result, errors>>

\* get_underlying_directory.
Unsupported ==
    /\ pc = "begin" /\ given.type = "clsid"
    /\ pc' = "throws" /\ errors' = {"unsupported_type"} /\ UNCHANGED <<given, walk, result>>
NoData ==
    /\ pc = "begin" /\ Done
    /\ given.type = "iltcg" \/ (given.type = "repro" /\ Buf.size = 0)

HeaderUnread ==
    /\ pc = "begin" /\ given.type \in DOMAIN HeaderSize
    /\ given.type = "repro" => Buf.size > 0
    /\ ~CanRead(Buf, 0, HeaderSize[given.type])
    /\ Fail("unable_to_deserialize")

-----------------------------------------------------------------------------
(* Directories of one part, or of one and a string or a hash. *)

Header == pc = "begin" /\ given.type \in DOMAIN HeaderSize /\ CanRead(Buf, 0, HeaderSize[given.type])

OnePart == Header /\ given.type \in Fixed /\ Done

ReadString(pos, width, max, e) ==
    \/ /\ \E end \in StringEnds(Buf, pos, width, max) : result' = <<Entry(pos, end, TRUE)>>
       /\ pc' = "done" /\ UNCHANGED <<given, walk, errors>>
    \/ StringMayFail(Buf, pos, width, max) /\ Fail(e)

\* The length of a record is the most a string may take, its own header or not.
Misc ==
    /\ Header /\ given.type = "misc"
    /\ \E length \in {0, 3, 8}, width \in {1, 2} :
        IF length = 0 THEN Done
        ELSE \/ /\ StringEnds(Buf, 12, width, length) # {}
                /\ \E end \in StringEnds(Buf, 12, width, length) : result' = <<Entry(12, end, TRUE)>>
                /\ errors' = IF length % 4 # 0 THEN {"unaligned_data_size"} ELSE {}
                /\ pc' = "done" /\ UNCHANGED <<given, walk>>
             \/ /\ StringMayFail(Buf, 12, width, length)
                /\ errors' = {"unable_to_deserialize_name"}
                             \cup (IF length % 4 # 0 THEN {"unaligned_data_size"} ELSE {})
                /\ pc' = "done" /\ UNCHANGED <<given, walk, result>>

MaxHashLength == 16
Repro ==
    /\ Header /\ given.type = "repro" /\ Buf.size > 0
    /\ \E length \in {0, 4, MaxHashLength, MaxHashLength + 1} :
        IF length > MaxHashLength THEN Fail("too_long_hash")
        ELSE IF ~CanRead(Buf, 4, length) THEN Fail("unable_to_deserialize_hash")
        ELSE /\ result' = <<Entry(4, 4 + length, TRUE)>>
             /\ pc' = "done" /\ UNCHANGED <<given, walk, errors>>

Spgo == Header /\ given.type = "spgo" /\ ReadString(0, 2, Unlimited, "unable_to_deserialize")

\* The signature is read again as a part of the descriptor.
CodeView ==
    /\ Header /\ given.type = "codeview"
    /\ \/ Done
       \/ \E kind \in DOMAIN PdbSize :
            IF ~CanRead(Buf, 0, PdbSize[kind]) THEN Fail("unable_to_deserialize")
            ELSE ReadString(PdbSize[kind], 1, Unlimited, "unable_to_deserialize_name")

\* The hash is all that is behind the name of its algorithm.
PdbHash ==
    /\ Header /\ given.type = "pdbhash"
    /\ \/ \E end \in StringEnds(Buf, 0, 1, Unlimited) :
            IF ~CanRead(Buf, end, Buf.size - end) THEN Fail("unable_to_deserialize_hash")
            ELSE /\ result' = <<Entry(end, Buf.size, TRUE)>>
                 /\ pc' = "done" /\ UNCHANGED <<given, walk, errors>>
       \/ StringMayFail(Buf, 0, 1, Unlimited) /\ Fail("unable_to_deserialize_name")

\* The rest of the data, which may be virtual even if no virtual data are read.
Mpdb ==
    /\ Header /\ given.type = "mpdb"
    /\ result' = <<Entry(8, Buf.size, TRUE)>>
    /\ errors' = IF ~Buf.virtual /\ Buf.size > Max({8, Buf.physical}) THEN {"virtual_pdb_data"} ELSE {}
    /\ pc' = "done" /\ UNCHANGED <<given, walk>>

-----------------------------------------------------------------------------
(* Lists up to the end of the data: mappings, frames, groups. *)

Listed == {"omap_to_src", "omap_from_src", "fpo", "pogo"}
BeginList ==
    /\ Header /\ given.type \in Listed
    /\ walk' = [walk EXCEPT !.pos = HeaderSize[given.type], !.left = MaxCount]
    /\ pc' = "entries" /\ UNCHANGED <<given, result, errors>>

\* table is the gap that is passed over before the next entry is read.
More == pc = "entries" /\ walk.pos + walk.table < Buf.size
ListEnds == pc = "entries" /\ ~More /\ Done
TooManyEntries == More /\ walk.left = 0 /\ Fail("too_many_entries")

\* The entry is in the list before it is read, and stays there.
EntryUnread ==
    /\ More /\ walk.left > 0
    /\ ~CanRead(Buf, walk.pos + walk.table, EntrySize[given.type])
    /\ result' = Append(result, Entry(walk.pos + walk.table, 0, FALSE))
    /\ errors' = errors \cup {"unable_to_deserialize"}
    /\ pc' = "done" /\ UNCHANGED <<given, walk>>

EntryRead ==
    /\ More /\ walk.left > 0 /\ CanRead(Buf, walk.pos + walk.table, EntrySize[given.type])
    /\ LET at == walk.pos + walk.table IN
       IF given.type # "pogo"
       THEN /\ result' = Append(result, Entry(at, at + EntrySize[given.type], TRUE))
            /\ walk' = [walk EXCEPT !.pos = at + EntrySize[given.type], !.left = @ - 1]
            /\ UNCHANGED pc
       ELSE /\ result' = Append(result, Entry(at, 0, TRUE))
            /\ walk' = [walk EXCEPT !.pos = at + 8, !.table = 0, !.left = @ - 1]
            /\ pc' = "names"
    /\ UNCHANGED <<given, errors>>

LastRead == Len(result)

GapAfter(end) == RoundUp(given.relative + end, 4) - (given.relative + end)

GroupName ==
    /\ pc = "names"
    /\ \/ \E end \in StringEnds(Buf, walk.pos, 1, Unlimited) :
            /\ result' = [result EXCEPT ![LastRead].end = end]
            /\ walk' = [walk EXCEPT !.pos = end, !.table = GapAfter(end)]
            /\ pc' = "entries" /\ UNCHANGED <<given, errors>>
       \/ StringMayFail(Buf, walk.pos, 1, Unlimited) /\ Fail("unable_to_deserialize_name")

-----------------------------------------------------------------------------
(* COFF symbols: a table, and behind it the strings. *)

LengthSize == 4
\* The file header may be given, and may say otherwise of the number and the place.
Mismatches == SUBSET {"number_of_symbols_mismatch", "pointer_to_symbol_table_mismatch"}
CoffTable ==
    /\ Header /\ given.type = "coff"
    /\ \E mismatch \in Mismatches,
          count \in 0 .. MaxCount + 1, first \in {0, 32, 36}, length \in {0, 4, 8} :
       LET strings == first + count * EntrySize["coff"] IN
       IF ~(CanSeek(Buf, strings) /\ CanRead(Buf, strings, LengthSize) /\ strings + length <= Buf.size)
       THEN /\ errors' = errors \cup mismatch \cup {"unable_to_deserialize"}
            /\ pc' = "done" /\ UNCHANGED <<given, walk, result>>
       ELSE /\ walk' = [pos |-> first, left |-> Min({count, MaxCount}), table |-> strings, length |-> count]
            /\ errors' = (IF ~Buf.virtual /\ strings + length > Max({strings, Buf.physical})
                          THEN {"virtual_coff_string_table"} ELSE {})
                         \cup (IF count > MaxCount THEN {"too_many_symbols"} ELSE {})
                         \cup mismatch
            /\ pc' = "symbols" /\ UNCHANGED <<given, result>>

SymbolsEnd == pc = "symbols" /\ walk.left = 0 /\ Done

SymbolUnread ==
    /\ pc = "symbols" /\ walk.left > 0 /\ ~CanRead(Buf, walk.pos, EntrySize["coff"])
    /\ Fail("unable_to_deserialize_symbols")

\* Auxiliary records are passed over; those that are not there end the table.
SymbolRead ==
    /\ pc = "symbols" /\ walk.left > 0 /\ CanRead(Buf, walk.pos, EntrySize["coff"])
    /\ \E aux \in 0 .. 2, name \in {{}, {"unable_to_deserialize_name"}} :
       LET next == walk.pos + EntrySize["coff"]
           behind == next + aux * EntrySize["coff"]
           symbol == [at |-> walk.pos, end |-> next, read |-> TRUE, aux |-> aux]
       IN /\ result' = Append(result, symbol)
          /\ IF ~CanSeek(Buf, behind)
             THEN /\ errors' = errors \cup name \cup {"unable_to_deserialize_symbols"}
                  /\ pc' = "done" /\ UNCHANGED walk
             ELSE IF aux + 1 > walk.left
             THEN /\ errors' = errors \cup name \cup
                        (IF "too_many_symbols" \in errors THEN {} ELSE {"unable_to_deserialize_symbols"})
                  /\ walk' = [walk EXCEPT !.pos = behind] /\ pc' = "done"
             ELSE /\ walk' = [walk EXCEPT !.pos = behind, !.left = @ - (aux + 1)]
                  /\ errors' = errors \cup name /\ UNCHANGED pc
    /\ UNCHANGED given

DataNext ==
    \/ Unsupported \/ NoData \/ HeaderUnread \/ OnePart
    \/ Misc \/ Repro \/ Spgo \/ CodeView \/ PdbHash \/ Mpdb
    \/ BeginList \/ ListEnds \/ TooManyEntries \/ EntryUnread \/ EntryRead \/ GroupName
    \/ CoffTable \/ SymbolsEnd \/ SymbolUnread \/ SymbolRead

-----------------------------------------------------------------------------
(* What is checked. *)

\* An entry has its data, unless it names none or something is reported; the data
\* begin at the offset it names, unless address and offset are said to differ.
DataFound ==
    \A i \in DOMAIN result :
        /\ result[i].data = None /\ result[i].size > 0 =>
            result[i].notes # {} \/ "unable_to_load_raw_data" \in errors
        /\ result[i].data # None /\ result[i].notes = {} => result[i].data.offset = result[i].offset
ListWhole ==
    DataFound /\ (pc = "done" /\ errors = {} => Len(result) * DescriptorSize = given.size)

\* Nothing reported: the list goes on to the end of the data, each entry is where
\* the one before it ends, and symbols and auxiliary records are as many as the
\* header says.
Contiguous ==
    \A i \in 1 .. LastRead - 1 :
        /\ given.type = "coff" => result[i + 1].at = result[i].end + 18 * result[i].aux
        /\ given.type = "pogo" => /\ (given.relative + result[i + 1].at) % 4 = 0
                                  /\ result[i + 1].at \in result[i].end .. result[i].end + 3
        /\ given.type \in Listed \ {"pogo"} => result[i + 1].at = result[i].end
Complete ==
    pc = "done" /\ errors = {} =>
        /\ given.type \in Listed =>
            IF result = <<>> THEN Buf.size <= HeaderSize[given.type]
            ELSE result[LastRead].end \in Buf.size - 3 .. Buf.size
        /\ given.type = "coff" =>
            IF result = <<>> THEN walk.length = 0
            ELSE result[LastRead].end + 18 * result[LastRead].aux = result[1].at + 18 * walk.length
        /\ given.type = "pdbhash" => result[1].end = Buf.size

\* An entry that was not read is the last, and reported.
OnlyLastUnread == \A i \in DOMAIN result : ~result[i].read => i = LastRead /\ errors # {}

DataWhole == Contiguous /\ Complete /\ OnlyLastUnread

=============================================================================
