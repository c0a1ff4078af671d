------------------------------- MODULE Exports -------------------------------
(***************************************************************************)
(* The export directory: the edits of a caller (export_directory.cpp),       *)
(* build_new and get_built_size (export_directory_builder.cpp), and load     *)
(* (export_directory_loader.cpp).  Addresses count from the start of the     *)
(* directory; MaxOrdinal stands for 0xffff.                                  *)
(***************************************************************************)
EXTENDS Cursor, SequencesExt

CONSTANTS
    MaxOrdinal,
    MaxSymbols,   \* symbols a caller adds
    Strings,      \* names of symbols and of forwarded ones
    CodeRva       \* an exported address outside of the directory

VARIABLES
    given,   \* the directory: [list, number_of_names]
    pc,      \* "edit", "addresses", "names", "done" or "overflow"
    walk,    \* [built, descriptor, predicted, at, found]: what is built, where it is read
    result,  \* the list that is loaded
    errors

vars == <<given, pc, walk, result, errors>>

-----------------------------------------------------------------------------
(* The directory: add, get_first_free_ordinal, get_last_free_ordinal. *)

NoForward == 0
DescriptorSize == 40
LibraryName == 1

NameEntry(name) == [name |-> name, ordinal |-> 0]
Symbol(ordinal, rva, forward, names) ==
    [ordinal |-> ordinal, rva |-> rva, forward |-> forward, names |-> names]

Occupied(list) == {list[i].ordinal : i \in DOMAIN list}
FirstFree(list) == Min({o \in 0 .. MaxOrdinal + 1 : o \notin Occupied(list)})
LastFree(list) == IF list = <<>> THEN 0 ELSE Max(Occupied(list)) + 1

Nothing == [built |-> EmptyBuffer, descriptor |-> <<>>, predicted |-> 0, at |-> 0, found |-> {}]
Init ==
    /\ given = [list |-> <<>>, number_of_names |-> 0]
    /\ pc = "edit" /\ walk = Nothing /\ result = <<>> /\ errors = {}

\* add has three forms.  Its callers take an ordinal that is free.
Add ==
    /\ pc = "edit" /\ Len(given.list) < MaxSymbols
    /\ \E ordinal \in {FirstFree(given.list), LastFree(given.list), MaxOrdinal} \ Occupied(given.list),
          names \in {<<>>} \cup {<<NameEntry(n)>> : n \in Strings},
          forward \in Strings \cup {NoForward} :
        /\ ordinal <= MaxOrdinal
        /\ forward # NoForward => names # <<>>
        /\ given' = [given EXCEPT !.list = Append(@,
                        Symbol(ordinal, IF forward = NoForward THEN CodeRva ELSE 0, forward, names))]
    /\ UNCHANGED <<pc, walk, result, errors>>

\* A symbol may have several names: get_names is a list that callers append to.
AddName ==
    /\ pc = "edit"
    /\ \E i \in DOMAIN given.list, n \in Strings :
        /\ given.list[i].names # <<>> /\ Len(given.list[i].names) < 2
        /\ given' = [given EXCEPT !.list[i].names = Append(@, NameEntry(n))]
    /\ UNCHANGED <<pc, walk, result, errors>>

\* What add leaves to its callers: the number of names and their ordinals.
NamesOf(list) == FlattenSeq([i \in DOMAIN list |-> list[i].names])
Described(list) ==
    [i \in DOMAIN list |-> [list[i] EXCEPT !.names =
        [j \in DOMAIN @ |-> [@[j] EXCEPT !.ordinal = list[i].ordinal]]]]
DescribeNames ==
    /\ pc = "edit"
    /\ given' = [list |-> Described(given.list), number_of_names |-> Len(NamesOf(given.list))]
    /\ UNCHANGED <<pc, walk, result, errors>>

-----------------------------------------------------------------------------
(* build_new. *)

SortedList(list) == SortSeq(list, LAMBDA l, r : l.ordinal < r.ordinal)

\* The forwarded names follow the table of addresses in the order of the symbols.
ForwardsOf(list) == SelectSeq(list, LAMBDA s : s.forward # NoForward)
ForwardText(list) == [i \in DOMAIN ForwardsOf(list) |-> Text(ForwardsOf(list)[i].forward)]
ForwardSize(list, i) ==
    SizeOf(ForwardText(SubSeq(list, 1, i - 1)))

TableRva == DescriptorSize + StringSize(LibraryName)
NumberOfFunctions(list) == IF list = <<>> THEN 0 ELSE list[Len(list)].ordinal + 1
WithRvas(list) ==
    [i \in DOMAIN list |->
        IF list[i].forward = NoForward THEN list[i]
        ELSE [list[i] EXCEPT !.rva = TableRva + 4 * NumberOfFunctions(list) + ForwardSize(list, i)]]

\* A gap between two ordinals is filled with zeros.
Gap(list, i) == list[i].ordinal - (IF i = 1 THEN 0 ELSE list[i - 1].ordinal + 1)
Addresses(list) ==
    FlattenSeq([i \in DOMAIN list |->
        [k \in 1 .. Gap(list, i) |-> Item("rva", 4, 0)] \o <<Item("rva", 4, list[i].rva)>>])

\* Faulty: the names are written in the order of the symbols.
UnsortedNames(list) == NamesOf(list)

\* Names are sorted, each behind the ones before it.
SortedNames(list) == SortSeq(NamesOf(list), LAMBDA l, r : l.name < r.name)

Build ==
    /\ pc = "edit"
    /\ \E list \in {WithRvas(SortedList(given.list))} :
       \E names \in {SortedNames(list)}, forwards \in {ForwardText(list)} :
       \E texts \in {[i \in DOMAIN names |-> Text(names[i].name)]} :
       LET ordinals == TableRva + 4 * NumberOfFunctions(list) + SizeOf(forwards)
           nameRvas == ordinals + (IF list = <<>> THEN 0 ELSE 2 * Len(names))
           textsAt == nameRvas + 4 * Len(names)
       IN /\ given' = [given EXCEPT !.list = list]
          /\ \E items \in {<<Item("descriptor", DescriptorSize, 0), Text(LibraryName)>>
                    \o Addresses(list) \o forwards
                    \o [i \in DOMAIN names |-> Item("ordinal", 2, names[i].ordinal)]
                    \o [i \in DOMAIN names |-> Item("rva", 4, textsAt + SizeOf(SubSeq(texts, 1, i - 1)))]
                    \o texts} :
             walk' = [built |-> Placed(items),
                descriptor |-> [functions |-> TableRva, number_of_functions |-> NumberOfFunctions(list),
                                ordinals |-> ordinals, names |-> nameRvas,
                                number_of_names |-> given.number_of_names],
                predicted |-> TableRva + 4 * LastFree(list) + SizeOf(forwards) + SizeOf(texts)
                              + 6 * Len(names),
                at |-> 0, found |-> {}]
    /\ pc' = "addresses" /\ UNCHANGED <<result, errors>>

-----------------------------------------------------------------------------
(* load. *)

Built == walk.built
Descriptor == walk.descriptor

\* load_addresses and read_forwarded_name_or_rva: an address inside of the
\* directory is that of a forwarded name.
InDirectory(rva) == rva + 4 <= Built.size
LoadAddress ==
    /\ pc = "addresses" /\ walk.at < Descriptor.number_of_functions
    /\ Readable(Built, "rva", Descriptor.functions + 4 * walk.at)
    /\ LET rva == Read(Built, "rva", Descriptor.functions + 4 * walk.at)
           text == Found(Built, "string", rva)
       IN IF rva = 0 THEN UNCHANGED <<result, errors>>
          ELSE IF ~InDirectory(rva)
          THEN result' = Append(result, Symbol(walk.at, rva, NoForward, <<>>)) /\ UNCHANGED errors
          ELSE IF text # {}
          THEN /\ result' = Append(result,
                    Symbol(walk.at, rva, Read(Built, "string", rva), <<>>))
               /\ UNCHANGED errors
          ELSE /\ result' = Append(result, Symbol(walk.at, rva, NoForward, <<>>))
               /\ errors' = errors \cup {"invalid_forwarded_name"}
    /\ walk' = [walk EXCEPT !.at = @ + 1] /\ UNCHANGED <<given, pc>>

\* A list that cannot be read leaves no symbol a name could be for.
AddressesEnd ==
    /\ pc = "addresses"
    /\ \/ walk.at = Descriptor.number_of_functions
          /\ walk' = [walk EXCEPT !.at = 0, !.found = DOMAIN result] /\ UNCHANGED errors
       \/ /\ walk.at < Descriptor.number_of_functions
          /\ ~Readable(Built, "rva", Descriptor.functions + 4 * walk.at)
          /\ walk' = [walk EXCEPT !.at = 0] /\ errors' = errors \cup {"invalid_address_list"}
    /\ pc' = "names" /\ UNCHANGED <<given, result>>

OrdinalAt(i) == Descriptor.ordinals + 2 * i
NameAt(i) == Descriptor.names + 4 * i
NameReadable ==
    Readable(Built, "ordinal", OrdinalAt(walk.at)) /\ Readable(Built, "rva", NameAt(walk.at))

LoadedName(i, ordinal) ==
    [name |-> Read(Built, "string", Read(Built, "rva", NameAt(i))), ordinal |-> ordinal]

LoadName ==
    /\ pc = "names" /\ walk.at < Descriptor.number_of_names /\ NameReadable
    /\ LET ordinal == Read(Built, "ordinal", OrdinalAt(walk.at))
           symbols == {i \in walk.found : result[i].ordinal = ordinal}
           name == LoadedName(walk.at, ordinal)
       IN IF symbols = {}
          THEN errors' = errors \cup {"invalid_name_ordinal"} /\ UNCHANGED result
          ELSE /\ result' = [result EXCEPT ![CHOOSE i \in symbols : TRUE].names = Append(@, name)]
               /\ errors' = IF \E n \in ToSet(NamesOf(result)) : n.name > name.name
                            THEN errors \cup {"unsorted_names"} ELSE errors
    /\ walk' = [walk EXCEPT !.at = @ + 1] /\ UNCHANGED <<given, pc>>

\* More names than there are: what follows the tables is read as one of them.
NamesEnd ==
    /\ pc = "names"
    /\ \/ walk.at = Descriptor.number_of_names /\ UNCHANGED errors
       \/ /\ walk.at < Descriptor.number_of_names /\ ~NameReadable
          /\ errors' = errors \cup {"invalid_name_list"}
    /\ pc' = "done" /\ UNCHANGED <<given, walk, result>>

Next ==
    \/ Add \/ AddName \/ DescribeNames \/ Build
    \/ LoadAddress \/ AddressesEnd \/ LoadName \/ NamesEnd

-----------------------------------------------------------------------------
(* What is checked. *)

\* The order of the names of one symbol is that of their spelling.
Canonical(list) ==
    [i \in DOMAIN list |-> [list[i] EXCEPT !.names =
        SortSeq(@, LAMBDA l, r : l.name < r.name)]]
LoadedBack == result = Canonical(given.list) /\ errors = {}

\* The caller has set the number and the ordinals of the names.
IsDescribed ==
    /\ given.list = Described(given.list)
    /\ given.number_of_names = Len(NamesOf(given.list))

\* get_built_size throws for the last ordinal, which build_new can write.
SizeIsPredicted == LastFree(given.list) <= MaxOrdinal => walk.predicted = Built.size

=============================================================================
