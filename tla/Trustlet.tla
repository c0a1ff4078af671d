------------------------------- MODULE Trustlet -------------------------------
(***************************************************************************)
(* Trustlets: images that export the address of a policy                     *)
(* (trustlet_policy_metadata_loader.cpp).  is_trustlet asks where the policy *)
(* is, load_trustlet_policy_metadata reads it.                               *)
(***************************************************************************)
EXTENDS Cursor

CONSTANT
    PolicySizes   \* bytes from the metadata to the end of their section in the file

VARIABLES
    given,   \* [newer, older, section, name, flags, physical, virtual, version]
    pc,      \* "ask", "load", "entries" or "done"
    walk,    \* [pos]
    result,  \* [answer, policy, entries, ended]
    errors

vars == <<given, pc, walk, result, errors>>

DescriptorSize == 16   \* image_policy_metadata
EntrySize == 16        \* image_policy_entry

Numbers == {"boolean", "int8", "uint8", "int16", "uint16", "int32", "uint32", "int64", "uint64"}
Texts == {"ansi_string", "unicode_string"}
Valueless == {"none", "overriden"}

\* The address is exported under either of two names, or under none.
Places == {"absent", "section", "outside"}

Init ==
    /\ given \in [newer : Places, older : Places, name : BOOLEAN, flags : BOOLEAN, version : BOOLEAN,
                  physical : PolicySizes, virtual : PolicySizes]
    /\ given.physical <= given.virtual
    /\ pc = "ask" /\ walk = [pos |-> 0]
    /\ result = [answer |-> "none", policy |-> FALSE, entries |-> <<>>, ended |-> FALSE]
    /\ errors = {}

\* get_image_policy_metadata_rva: the newer name, if it is exported.
Place == IF given.newer # "absent" THEN given.newer ELSE given.older

Answer(a) == result' = [result EXCEPT !.answer = a]
Ask ==
    /\ pc = "ask"
    /\ Answer(CASE Place = "absent" -> "absent_metadata"
                [] Place = "outside" -> "metadata_in_wrong_section"
                [] Place = "section" ->
                    IF given.virtual < DescriptorSize \/ ~given.name THEN "metadata_in_wrong_section"
                    ELSE IF ~given.flags THEN "invalid_metadata_section_attributes"
                    ELSE "valid_trustlet")
    /\ pc' = "load" /\ UNCHANGED <<given, walk, errors>>

-----------------------------------------------------------------------------
(* Load. *)

Buf == [size |-> given.physical, physical |-> given.physical, virtual |-> FALSE]
LastRead == Len(result.entries)

\* What is in no section is not there: no policy, and no error.
NoPolicy ==
    /\ pc = "load" /\ Place # "section"
    /\ pc' = "done" /\ UNCHANGED <<given, walk, result, errors>>

DescriptorBad ==
    /\ pc = "load" /\ Place = "section"
    /\ ~CanRead(Buf, 0, DescriptorSize) \/ ~given.version
    /\ result' = [result EXCEPT !.policy = TRUE]
    /\ errors' = {IF CanRead(Buf, 0, DescriptorSize) THEN "unsupported_version" ELSE "buffer_overrun"}
    /\ pc' = "done" /\ UNCHANGED <<given, walk>>

ReadDescriptor ==
    /\ pc = "load" /\ Place = "section" /\ given.version /\ CanRead(Buf, 0, DescriptorSize)
    /\ result' = [result EXCEPT !.policy = TRUE]
    /\ walk' = [pos |-> DescriptorSize]
    /\ pc' = "entries" /\ UNCHANGED <<given, errors>>

Entry(type, value, e) == [type |-> type, value |-> value, errors |-> e]
Add(e) == result' = [result EXCEPT !.entries = Append(@, e)]

\* The list has no length: it goes on to its end mark, or to the end of the section.
EntryUnread ==
    /\ pc = "entries" /\ ~CanRead(Buf, walk.pos, EntrySize)
    /\ Add(Entry("none", "no_value", {"buffer_overrun"}))
    /\ pc' = "done" /\ UNCHANGED <<given, walk, errors>>

EndMark ==
    /\ pc = "entries" /\ CanRead(Buf, walk.pos, EntrySize)
    /\ result' = [result EXCEPT !.ended = TRUE]
    /\ walk' = [pos |-> walk.pos + EntrySize]
    /\ pc' = "done" /\ UNCHANGED <<given, errors>>

\* decode_policy_value; a string is at an address of its own.
Decoded(type) ==
    CASE type \in Numbers -> {Entry(type, type, {})}
      [] type \in Texts -> {Entry(type, type, {}), Entry(type, type, {"invalid_string_address"})}
      [] type \in Valueless -> {Entry(type, "no_value", {})}
      [] OTHER -> {Entry(type, "no_value", {"unsupported_entry_type"})}

ReadEntry ==
    /\ pc = "entries" /\ CanRead(Buf, walk.pos, EntrySize)
    /\ \E type \in {"uint32", "ansi_string", "overriden", "unknown"} :
        \E entry \in Decoded(type) : Add(entry)
    /\ walk' = [pos |-> walk.pos + EntrySize]
    /\ UNCHANGED <<given, pc, errors>>

Next == Ask \/ NoPolicy \/ DescriptorBad \/ ReadDescriptor \/ EntryUnread \/ EndMark \/ ReadEntry

-----------------------------------------------------------------------------
(* What is checked. *)

EntryErrors == UNION {result.entries[i].errors : i \in DOMAIN result.entries}

\* A policy is read to its end mark, or its last entry has the error; every entry
\* before has its value, none by its type, or an error.
EntriesWhole ==
    pc = "done" /\ result.policy /\ errors = {} =>
        /\ result.ended <=> (LastRead = 0 \/ "buffer_overrun" \notin result.entries[LastRead].errors)
        /\ walk.pos = DescriptorSize + EntrySize * (LastRead + IF result.ended THEN 1 ELSE -1)
        /\ \A i \in DOMAIN result.entries :
            /\ "buffer_overrun" \in result.entries[i].errors => i = LastRead
            /\ result.entries[i].errors = {} =>
                (result.entries[i].value = "no_value") <=> (result.entries[i].type \in Valueless)

\* An image that is said to be a trustlet has a policy, if its descriptor is in the
\* file; one that is said to have no metadata has none.
AnswersAgree ==
    pc = "done" =>
        /\ result.answer = "valid_trustlet" /\ given.physical >= DescriptorSize => result.policy
        /\ result.answer = "absent_metadata" => ~result.policy
PolicyWhole == EntriesWhole /\ AnswersAgree

=============================================================================
