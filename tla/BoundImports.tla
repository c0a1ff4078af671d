----------------------------- MODULE BoundImports -----------------------------
(***************************************************************************)
(* The bound import directory: build_new and get_built_size                  *)
(* (bound_import_directory_builder.cpp), and load                            *)
(* (bound_import_directory_loader.cpp).  Addresses count from its start.     *)
(***************************************************************************)
EXTENDS Cursor, SequencesExt

CONSTANTS
    Libraries,      \* names of libraries
    MaxLibraries,   \* libraries of a list, and references of a library
    OffsetMax       \* the largest offset of a name: 0xffff

VARIABLES
    given,   \* the libraries: sequences of [name, count, references]
    pc,      \* "edit", "entry", "reference", "names", "done" or "overflow"
    walk,    \* [built, predicted, at, left, count]
    result,  \* the libraries that are loaded
    errors

vars == <<given, pc, walk, result, errors>>

DescriptorSize == 8

Nothing == [built |-> EmptyBuffer, predicted |-> 0, at |-> 0, left |-> 0, count |-> 0]
Init ==
    /\ given = <<>> /\ pc = "edit" /\ walk = Nothing /\ result = <<>> /\ errors = {}

-----------------------------------------------------------------------------
(* A list of libraries with references; a count of references in each. *)

AddLibrary ==
    /\ pc = "edit" /\ Len(given) < MaxLibraries
    /\ \E name \in Libraries, count \in 0 .. MaxLibraries :
        given' = Append(given, [name |-> name, count |-> count, references |-> <<>>])
    /\ UNCHANGED <<pc, walk, result, errors>>

AddReference ==
    /\ pc = "edit"
    /\ \E i \in DOMAIN given, name \in Libraries :
        /\ Len(given[i].references) < MaxLibraries
        /\ given' = [given EXCEPT ![i].references = Append(@, name)]
    /\ UNCHANGED <<pc, walk, result, errors>>

-----------------------------------------------------------------------------
(* build_new: descriptors, an empty one, and the names in the same order. *)

\* A library and its references are one descriptor each.
Descriptors(library) ==
    <<[name |-> library.name, count |-> library.count]>>
        \o [i \in DOMAIN library.references |-> [name |-> library.references[i], count |-> 0]]
AllDescriptors(list) == FlattenSeq([i \in DOMAIN list |-> Descriptors(list[i])])

\* Faulty: the names begin where the empty descriptor does.
NamesBeginEarly(descriptors) == Len(descriptors) * DescriptorSize

NamesBefore(descriptors, i) == SizeOf([k \in 1 .. i - 1 |-> Text(descriptors[k].name)])
NamesBegin(descriptors) == (Len(descriptors) + 1) * DescriptorSize

NameOffset(descriptors, i) == NamesBegin(descriptors) + NamesBefore(descriptors, i)

PredictedSize(list) ==
    MapThenSumSet(LAMBDA i : MapThenSumSet(LAMBDA k : DescriptorSize + StringSize(Descriptors(list[i])[k].name),
                                           DOMAIN Descriptors(list[i])), DOMAIN list)
    + DescriptorSize

OffsetOverflows ==
    /\ pc = "edit"
    /\ \E i \in DOMAIN AllDescriptors(given) : NameOffset(AllDescriptors(given), i) > OffsetMax
    /\ pc' = "overflow" /\ UNCHANGED <<given, walk, result, errors>>

Build ==
    /\ pc = "edit"
    /\ \E d \in {AllDescriptors(given)} :
        /\ \A i \in DOMAIN d : NameOffset(d, i) <= OffsetMax
        /\ \E items \in {[i \in DOMAIN d |-> Item("descriptor", DescriptorSize,
                            [offset |-> NameOffset(d, i), count |-> d[i].count])]
                \o <<Item("descriptor", DescriptorSize, [offset |-> 0, count |-> 0])>>
                \o [i \in DOMAIN d |-> Text(d[i].name)]} :
            walk' = [Nothing EXCEPT !.predicted = PredictedSize(given), !.built = Placed(items)]
    /\ pc' = "entry" /\ UNCHANGED <<given, result, errors>>

-----------------------------------------------------------------------------
(* load. *)

\* read_bound_import_entry; a name that cannot be read is an error of its entry.
Descriptor == Read(walk.built, "descriptor", walk.at)
DescriptorRead == Readable(walk.built, "descriptor", walk.at)
NameOf(descriptor) ==
    IF Readable(walk.built, "string", descriptor.offset)
    THEN Read(walk.built, "string", descriptor.offset) ELSE 0
NameErrors(descriptor) == IF NameOf(descriptor) = 0 THEN {"invalid_library_name"} ELSE {}

LoadEntry ==
    /\ pc = "entry" /\ DescriptorRead /\ Descriptor.offset # 0
    /\ result' = Append(result, [name |-> NameOf(Descriptor), count |-> Descriptor.count,
                                 offset |-> Descriptor.offset, references |-> <<>>])
    /\ errors' = errors \cup NameErrors(Descriptor)
    /\ walk' = [walk EXCEPT !.at = @ + DescriptorSize, !.left = Descriptor.count, !.count = @ + 1]
    /\ pc' = "reference" /\ UNCHANGED given

LastEntry ==
    /\ pc = "entry" /\ DescriptorRead /\ Descriptor.offset = 0
    /\ pc' = "names" /\ UNCHANGED <<given, walk, result, errors>>

LoadReference ==
    /\ pc = "reference" /\ walk.left > 0 /\ DescriptorRead
    /\ result' = [result EXCEPT ![Len(result)].references =
            Append(@, [name |-> NameOf(Descriptor), offset |-> Descriptor.offset])]
    /\ errors' = errors \cup NameErrors(Descriptor)
    /\ walk' = [walk EXCEPT !.at = @ + DescriptorSize, !.left = @ - 1]
    /\ UNCHANGED <<given, pc>>

ReferencesRead ==
    /\ pc = "reference" /\ walk.left = 0
    /\ walk' = [walk EXCEPT !.count = @ + result[Len(result)].count]
    /\ pc' = "entry" /\ UNCHANGED <<given, result, errors>>

\* What is read behind the descriptors is the text of names.
EntryUnread ==
    /\ pc = "entry" \/ (pc = "reference" /\ walk.left > 0)
    /\ ~DescriptorRead
    /\ errors' = errors \cup {"invalid_bound_import_entry"}
    /\ pc' = "names" /\ UNCHANGED <<given, walk, result>>

\* check_name_offset, of libraries and references without an error.
Overlaps(entry) == entry.name # 0 /\ entry.offset < (walk.count + 1) * DescriptorSize
CheckNames ==
    /\ pc = "names"
    /\ errors' = errors \cup
        (IF \E i \in DOMAIN result :
                Overlaps(result[i]) \/ \E r \in ToSet(result[i].references) : Overlaps(r)
         THEN {"name_offset_overlaps_descriptors"} ELSE {})
    /\ pc' = "done" /\ UNCHANGED <<given, walk, result>>

Next ==
    \/ AddLibrary \/ AddReference \/ OffsetOverflows \/ Build
    \/ LoadEntry \/ LastEntry \/ LoadReference \/ ReferencesRead \/ EntryUnread \/ CheckNames

-----------------------------------------------------------------------------
(* What is checked. *)

LoadedBack ==
    /\ errors = {} /\ Len(result) = Len(given)
    /\ \A i \in DOMAIN given :
        /\ result[i].name = given[i].name
        /\ Len(result[i].references) = Len(given[i].references)
        /\ \A k \in DOMAIN given[i].references :
            result[i].references[k].name = given[i].references[k]

\* number_of_module_forwarder_refs is left to the caller.
IsDescribed == \A i \in DOMAIN given : given[i].count = Len(given[i].references)

SizeIsPredicted == walk.predicted = walk.built.size

=============================================================================
