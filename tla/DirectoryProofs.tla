-------------------------- MODULE DirectoryProofs --------------------------
(***************************************************************************)
(* Proofs about the loaders of the data directories that stand alone, and   *)
(* about the check of Authenticode signatures. Each loader has an invariant *)
(* that says, for every place it can be at, what it has found up to there;  *)
(* DirectoriesInv is that of the loader a state belongs to.                 *)
(***************************************************************************)
EXTENDS MCDirectories, FiniteSetTheorems, TLAPS

\* What is appended to a list comes behind everything that is in it.
LEMMA Appended ==
  ASSUME NEW S, NEW s \in Seq(S), NEW e \in S
  PROVE  /\ Append(s, e) \in Seq(S) /\ Len(Append(s, e)) = Len(s) + 1 /\ Len(s) \in Nat
         /\ DOMAIN s = 1 .. Len(s) /\ DOMAIN Append(s, e) = 1 .. Len(s) + 1
         /\ Append(s, e)[Len(s) + 1] = e
         /\ \A i \in 1 .. Len(s) : Append(s, e)[i] = s[i] /\ s[i] \in S
  OBVIOUS

-----------------------------------------------------------------------------
(* The policy of a trustlet. *)

TrustletTypes == {"none", "uint32", "ansi_string", "overriden", "unknown"}
TrustletErrors == {"buffer_overrun", "invalid_string_address", "unsupported_entry_type"}
TrustletEntry == [type : TrustletTypes, value : TrustletTypes \cup {"no_value"}, errors : SUBSET TrustletErrors]
TrustletAnswers == {"none", "absent_metadata", "metadata_in_wrong_section",
                    "invalid_metadata_section_attributes", "valid_trustlet"}

\* The cursor is behind the entries that were read, only the last of them lacks its
\* bytes, and the answer and the policy are about the same place.
TrustletInv ==
    /\ TR!Place \in {"absent", "outside", "section"}
    /\ pc \in {"ask", "load", "entries", "done"}
    /\ walk \in [pos : Nat]
    /\ result \in [answer : TrustletAnswers, policy : BOOLEAN, entries : Seq(TrustletEntry), ended : BOOLEAN]
    /\ pc \in {"ask", "load"} => ~result.policy /\ result.entries = <<>> /\ ~result.ended /\ errors = {}
    /\ pc = "ask" => result.answer = "none"
    /\ result.answer = "absent_metadata" => TR!Place = "absent"
    /\ result.answer = "valid_trustlet" => TR!Place = "section"
    /\ pc \in {"entries", "done"} => (result.policy <=> TR!Place = "section")
    /\ pc = "entries" =>
        /\ errors = {} /\ ~result.ended /\ result.policy
        /\ walk.pos = TR!DescriptorSize + TR!EntrySize * Len(result.entries)
        /\ \A i \in DOMAIN result.entries : "buffer_overrun" \notin result.entries[i].errors
    /\ \A i \in DOMAIN result.entries : result.entries[i].errors = {} =>
        (result.entries[i].value = "no_value") <=> (result.entries[i].type \in TR!Valueless)
    /\ pc = "done" => TR!EntriesWhole

\* The answer and the list of a policy, each as it is after the other was set.
LEMMA TrustletType ==
  ASSUME TrustletInv
  PROVE  /\ result.entries \in Seq(TrustletEntry) /\ result.answer \in TrustletAnswers
         /\ result.policy \in BOOLEAN /\ result.ended \in BOOLEAN
         /\ walk.pos \in Nat /\ walk = [pos |-> walk.pos]
         /\ \A a \in TrustletAnswers : [result EXCEPT !.answer = a] =
               [answer |-> a, policy |-> result.policy, entries |-> result.entries, ended |-> result.ended]
         /\ \A e \in Seq(TrustletEntry) : [result EXCEPT !.entries = e] =
               [answer |-> result.answer, policy |-> result.policy, entries |-> e, ended |-> result.ended]
         /\ \A b \in BOOLEAN : [result EXCEPT !.policy = b] =
               [answer |-> result.answer, policy |-> b, entries |-> result.entries, ended |-> result.ended]
         /\ \A b \in BOOLEAN : [result EXCEPT !.ended = b] =
               [answer |-> result.answer, policy |-> result.policy, entries |-> result.entries, ended |-> b]
<1> DEFINE R == [answer : TrustletAnswers, policy : BOOLEAN, entries : Seq(TrustletEntry), ended : BOOLEAN]
<1>1. result \in R /\ walk \in [pos : Nat]
  BY DEF TrustletInv
<1>2. walk.pos \in Nat /\ walk = [pos |-> walk.pos]
  BY <1>1
<1>3. /\ result.entries \in Seq(TrustletEntry) /\ result.answer \in TrustletAnswers
      /\ result.policy \in BOOLEAN /\ result.ended \in BOOLEAN
  BY <1>1
<1>4. \A a \in TrustletAnswers : [result EXCEPT !.answer = a] =
               [answer |-> a, policy |-> result.policy, entries |-> result.entries, ended |-> result.ended]
  BY <1>1
<1>5. \A e \in Seq(TrustletEntry) : [result EXCEPT !.entries = e] =
               [answer |-> result.answer, policy |-> result.policy, entries |-> e, ended |-> result.ended]
  BY <1>1
<1>6. \A b \in BOOLEAN : [result EXCEPT !.policy = b] =
               [answer |-> result.answer, policy |-> b, entries |-> result.entries, ended |-> result.ended]
  BY <1>1
<1>7. \A b \in BOOLEAN : [result EXCEPT !.ended = b] =
               [answer |-> result.answer, policy |-> result.policy, entries |-> result.entries, ended |-> b]
  BY <1>1
<1> QED BY <1>2, <1>3, <1>4, <1>5, <1>6, <1>7

LEMMA TrustletStart == TR!Init => TrustletInv
<1> SUFFICES ASSUME TR!Init PROVE TrustletInv
  OBVIOUS
<1>1. TR!Place \in {"absent", "outside", "section"}
  <2>1. given.newer \in TR!Places /\ given.older \in TR!Places
    BY DEF TR!Init
  <2> QED BY <2>1 DEF TR!Places, TR!Place
<1>2. /\ pc = "ask" /\ walk = [pos |-> 0] /\ errors = {}
      /\ result.answer = "none" /\ ~result.policy /\ result.entries = <<>> /\ ~result.ended
  BY DEF TR!Init
<1>3. result \in [answer : TrustletAnswers, policy : BOOLEAN, entries : Seq(TrustletEntry), ended : BOOLEAN]
  <2>1. <<>> \in Seq(TrustletEntry) /\ "none" \in TrustletAnswers
    BY DEF TrustletAnswers
  <2>2. result = [answer |-> "none", policy |-> FALSE, entries |-> <<>>, ended |-> FALSE]
    BY DEF TR!Init
  <2> QED BY <2>1, <2>2
<1>4. walk \in [pos : Nat]
  BY <1>2
<1> QED BY <1>1, <1>2, <1>3, <1>4 DEF TrustletInv, TrustletAnswers

LEMMA TrustletStep == ASSUME TrustletInv, TR!Next PROVE TrustletInv'
<1> DEFINE list == result.entries
<1>0. list \in Seq(TrustletEntry) /\ DOMAIN list = 1 .. Len(list) /\ Len(list) \in Nat
  BY DEF TrustletInv
<1>p. given' = given /\ TR!Place' = TR!Place
  BY DEF TR!Next, TR!Ask, TR!NoPolicy, TR!DescriptorBad, TR!ReadDescriptor, TR!EntryUnread, TR!EndMark, TR!ReadEntry, TR!Place
<1>1. CASE TR!Ask
  <2>1. PICK a \in TrustletAnswers :
          /\ result' = [result EXCEPT !.answer = a]
          /\ a = "absent_metadata" => TR!Place = "absent"
          /\ a = "valid_trustlet" => TR!Place = "section"
    <3> DEFINE a == CASE TR!Place = "absent" -> "absent_metadata"
                [] TR!Place = "outside" -> "metadata_in_wrong_section"
                [] TR!Place = "section" ->
                    IF given.virtual < TR!DescriptorSize \/ ~given.name THEN "metadata_in_wrong_section"
                    ELSE IF ~given.flags THEN "invalid_metadata_section_attributes"
                    ELSE "valid_trustlet"
    <3>1. result' = [result EXCEPT !.answer = a]
      BY <1>1 DEF TR!Ask, TR!Answer
    <3>2. TR!Place \in {"absent", "outside", "section"}
      BY DEF TrustletInv
    <3>3. a \in TrustletAnswers /\ (a = "absent_metadata" => TR!Place = "absent") /\ (a = "valid_trustlet" => TR!Place = "section")
      BY <3>2 DEF TrustletAnswers
    <3> HIDE DEF a
    <3> QED BY <3>1, <3>3
  <2>2. result' = [answer |-> a, policy |-> result.policy, entries |-> list, ended |-> result.ended]
    BY <2>1, TrustletType
  <2>3. pc = "ask" /\ pc' = "load" /\ UNCHANGED <<walk, errors>>
    BY <1>1 DEF TR!Ask
  <2> QED BY <1>p, <2>1, <2>2, <2>3 DEF TrustletInv
<1>2. CASE TR!NoPolicy
  BY <1>2, <1>p DEF TR!NoPolicy, TR!EntriesWhole, TrustletInv
<1>3. CASE TR!DescriptorBad
  BY <1>3, <1>p DEF TR!DescriptorBad, TR!EntriesWhole, TrustletInv
<1>4. CASE TR!ReadDescriptor
  <2>1. result' = [answer |-> result.answer, policy |-> TRUE, entries |-> list, ended |-> result.ended]
    BY <1>4, TrustletType DEF TR!ReadDescriptor
  <2>2. /\ pc = "load" /\ TR!Place = "section" /\ pc' = "entries" /\ errors' = errors
        /\ walk' = [pos |-> 16]
    BY <1>4 DEF TR!ReadDescriptor, TR!DescriptorSize
  <2>3. result.entries = <<>> /\ Len(result.entries) = 0
    BY <2>2 DEF TrustletInv
  <2> QED BY <1>p, <2>1, <2>2, <2>3 DEF TrustletInv, TR!DescriptorSize, TR!EntrySize
<1>5. CASE TR!EntryUnread
  <2> DEFINE new == [type |-> "none", value |-> "no_value", errors |-> {"buffer_overrun"}]
  <2>1. /\ pc = "entries" /\ pc' = "done" /\ UNCHANGED <<given, walk, errors>>
        /\ result' = [result EXCEPT !.entries = Append(list, new)]
    BY <1>5 DEF TR!EntryUnread, TR!Add, TR!Entry
  <2>2. new \in TrustletEntry /\ "buffer_overrun" \in new.errors
    BY DEF TrustletEntry, TrustletTypes, TrustletErrors
  <2>3. result' = [answer |-> result.answer, policy |-> result.policy, entries |-> Append(list, new), ended |-> result.ended]
    BY <2>1, <2>2, <1>0, Appended, TrustletType
  <2>4. \A i \in DOMAIN list :
            /\ "buffer_overrun" \notin list[i].errors
            /\ list[i].errors = {} => ((list[i].value = "no_value") <=> (list[i].type \in TR!Valueless))
    BY <2>1 DEF TrustletInv
  <2>5. /\ walk.pos = 16 + 16 * Len(list) /\ result.policy /\ ~result.ended
    BY <2>1 DEF TrustletInv, TR!DescriptorSize, TR!EntrySize
  <2> HIDE DEF new, list
  <2>6. TR!EntriesWhole'
    BY <2>1, <2>2, <2>3, <2>4, <2>5, <1>0, Appended DEF TR!EntriesWhole, TR!LastRead, TR!DescriptorSize, TR!EntrySize
  <2>7. \A i \in DOMAIN Append(list, new) : Append(list, new)[i].errors = {} =>
          ((Append(list, new)[i].value = "no_value") <=> (Append(list, new)[i].type \in TR!Valueless))
    BY <2>2, <2>4, <1>0, Appended
  <2>8. Append(list, new) \in Seq(TrustletEntry)
    BY <2>2, <1>0, Appended
  <2>9. result'.entries = Append(list, new) /\ result'.answer = result.answer /\ (result'.policy <=> result.policy)
    BY <2>3
  <2>10. result' \in [answer : TrustletAnswers, policy : BOOLEAN, entries : Seq(TrustletEntry), ended : BOOLEAN]
    BY <2>3, <2>8, TrustletType
  <2> QED
    BY <2>1, <2>6, <2>7, <2>9, <2>10, <1>p DEF TrustletInv
<1>6. CASE TR!EndMark
  <2>1. result' = [answer |-> result.answer, policy |-> result.policy, entries |-> list, ended |-> TRUE]
    BY <1>6, TrustletType DEF TR!EndMark
  <2>2. /\ pc = "entries" /\ pc' = "done" /\ errors' = errors /\ walk' = [pos |-> walk.pos + 16]
    BY <1>6 DEF TR!EndMark, TR!EntrySize
  <2>3. /\ walk.pos = 16 + 16 * Len(list) /\ walk.pos \in Nat
        /\ \A i \in DOMAIN list :
            /\ "buffer_overrun" \notin list[i].errors
            /\ list[i].errors = {} => ((list[i].value = "no_value") <=> (list[i].type \in TR!Valueless))
    BY <2>2 DEF TrustletInv, TR!DescriptorSize, TR!EntrySize
  <2>4. result'.entries = list /\ result'.ended /\ result'.answer = result.answer /\ (result'.policy <=> result.policy)
    BY <2>1
  <2>5. result' \in [answer : TrustletAnswers, policy : BOOLEAN, entries : Seq(TrustletEntry), ended : BOOLEAN]
    BY <2>1, TrustletType
  <2>6. walk'.pos = walk.pos + 16 /\ walk' \in [pos : Nat]
    BY <2>2, <2>3
  <2> HIDE DEF list
  <2>7. TR!EntriesWhole'
    BY <2>2, <2>3, <2>4, <2>6, <1>0 DEF TR!EntriesWhole, TR!LastRead, TR!DescriptorSize, TR!EntrySize
  <2>8. \A i \in DOMAIN result'.entries : result'.entries[i].errors = {} =>
        (result'.entries[i].value = "no_value") <=> (result'.entries[i].type \in TR!Valueless)
    BY <2>3, <2>4
  <2> QED BY <2>2, <2>4, <2>5, <2>6, <2>7, <2>8, <1>p DEF TrustletInv
<1>7. CASE TR!ReadEntry
  <2>1. PICK new \in TrustletEntry :
          /\ result' = [result EXCEPT !.entries = Append(list, new)]
          /\ "buffer_overrun" \notin new.errors
          /\ new.errors = {} => ((new.value = "no_value") <=> (new.type \in TR!Valueless))
    <3>1. PICK type \in {"uint32", "ansi_string", "overriden", "unknown"} :
            \E entry \in TR!Decoded(type) : result' = [result EXCEPT !.entries = Append(list, entry)]
      BY <1>7 DEF TR!ReadEntry, TR!Add
    <3>2. PICK entry \in TR!Decoded(type) : result' = [result EXCEPT !.entries = Append(list, entry)]
      BY <3>1
    <3>3. entry \in {[type |-> "uint32", value |-> "uint32", errors |-> {}],
                     [type |-> "ansi_string", value |-> "ansi_string", errors |-> {}],
                     [type |-> "ansi_string", value |-> "ansi_string", errors |-> {"invalid_string_address"}],
                     [type |-> "overriden", value |-> "no_value", errors |-> {}],
                     [type |-> "unknown", value |-> "no_value", errors |-> {"unsupported_entry_type"}]}
      BY <3>1, <3>2 DEF TR!Decoded, TR!Entry, TR!Numbers, TR!Texts, TR!Valueless
    <3>4. /\ entry \in TrustletEntry /\ "buffer_overrun" \notin entry.errors
          /\ entry.errors = {} => ((entry.value = "no_value") <=> (entry.type \in TR!Valueless))
      BY <3>3 DEF TrustletEntry, TrustletTypes, TrustletErrors, TR!Valueless
    <3> QED BY <3>2, <3>4
  <2>2. /\ pc = "entries" /\ UNCHANGED <<given, pc, errors>> /\ walk' = [pos |-> walk.pos + 16]
    BY <1>7 DEF TR!ReadEntry, TR!EntrySize
  <2>3. result' = [answer |-> result.answer, policy |-> result.policy, entries |-> Append(list, new), ended |-> result.ended]
    BY <2>1, <1>0, Appended, TrustletType
  <2>4. \A i \in DOMAIN list :
            /\ "buffer_overrun" \notin list[i].errors
            /\ list[i].errors = {} => ((list[i].value = "no_value") <=> (list[i].type \in TR!Valueless))
    BY <2>2 DEF TrustletInv
  <2>5. walk.pos = 16 + 16 * Len(list) /\ walk.pos \in Nat /\ errors = {} /\ result.policy /\ ~result.ended
    BY <2>2 DEF TrustletInv, TR!DescriptorSize, TR!EntrySize
  <2>6. walk'.pos = 16 + 16 * (Len(list) + 1) /\ walk' \in [pos : Nat]
    BY <2>2, <2>5, <1>0
  <2> HIDE DEF list
  <2>7. \A i \in DOMAIN Append(list, new) :
            /\ "buffer_overrun" \notin Append(list, new)[i].errors
            /\ Append(list, new)[i].errors = {} =>
                ((Append(list, new)[i].value = "no_value") <=> (Append(list, new)[i].type \in TR!Valueless))
    BY <2>1, <2>4, <1>0, Appended
  <2>8. Append(list, new) \in Seq(TrustletEntry) /\ Len(Append(list, new)) = Len(list) + 1
    BY <1>0, Appended
  <2>9. /\ result'.entries = Append(list, new) /\ result'.answer = result.answer
        /\ (result'.policy <=> result.policy) /\ (result'.ended <=> result.ended)
    BY <2>3
  <2>10. result' \in [answer : TrustletAnswers, policy : BOOLEAN, entries : Seq(TrustletEntry), ended : BOOLEAN]
    BY <2>3, <2>8, TrustletType
  <2> QED
    BY <2>2, <2>5, <2>6, <2>7, <2>8, <2>9, <2>10, <1>p DEF TrustletInv, TR!DescriptorSize, TR!EntrySize
<1> QED BY <1>1, <1>2, <1>3, <1>4, <1>5, <1>6, <1>7 DEF TR!Next

\* A policy about which nothing is reported has every entry up to the one that ends it, and
\* the answer to is_trustlet agrees with it.
LEMMA TrustletWhole == TrustletInv => TR!PolicyWhole
<1> SUFFICES ASSUME TrustletInv PROVE TR!PolicyWhole
  OBVIOUS
<1>1. TR!EntriesWhole
  BY DEF TrustletInv, TR!EntriesWhole
<1>2. TR!AnswersAgree
  BY DEF TrustletInv, TR!AnswersAgree
<1> QED BY <1>1, <1>2 DEF TR!PolicyWhole

-----------------------------------------------------------------------------
(* The list of debug directories. *)

DebugNotes == {"too_big_raw_data", "no_rva_and_file_offset", "invalid_file_offset", "rva_and_file_offset_do_not_match"}
DebugPlace == [at : {"none", "section", "overlay"}, offset : Int]
DebugEntry == [offset : Nat, size : Nat, data : DebugPlace, notes : SUBSET DebugNotes]

\* The cursor has passed over the entries that are in the list, and ends where the
\* directory does.
DebugListInv ==
    /\ pc \in {"begin", "list", "done"}
    /\ given.size \in Nat
    /\ walk \in [at : Int, end : Int, left : Int]
    /\ result \in Seq(DebugEntry)
    /\ pc = "begin" => result = <<>>
    /\ pc = "list" => /\ walk.at = DE!DescriptorSize * Len(result)
                      /\ walk.end = given.size - DE!DescriptorSize
    /\ DE!DataFound
    /\ pc = "done" /\ errors = {} => Len(result) * DE!DescriptorSize = given.size

\* What load_debug_data finds of an entry has an offset that agrees, or says what is wrong.
LEMMA DebugDataOf ==
  ASSUME NEW rva \in Nat, NEW offset \in Nat, NEW size \in Nat, NEW loaded, loaded = DE!DataOf(rva, offset, size)
  PROVE  /\ loaded.data \in DebugPlace /\ loaded.notes \in SUBSET DebugNotes
         /\ loaded.data = DE!None /\ size > 0 => loaded.notes # {} \/ loaded.failed
         /\ loaded.data # DE!None /\ loaded.notes = {} => loaded.data.offset = offset
<1> DEFINE Just ==
         /\ loaded.data \in DebugPlace /\ loaded.notes \in SUBSET DebugNotes
         /\ loaded.data = DE!None /\ size > 0 => loaded.notes # {} \/ loaded.failed
         /\ loaded.data # DE!None /\ loaded.notes = {} => loaded.data.offset = offset
<1>n. DE!None \in DebugPlace /\ DE!None.at = "none"
  BY DEF DE!None, DebugPlace
<1>r. ASSUME NEW note \in DebugNotes, loaded = DE!Refused(note)
      PROVE  Just
  BY <1>r, <1>n DEF DE!Refused
<1>s. ASSUME NEW at \in Int, NEW notes \in SUBSET DebugNotes, loaded = DE!FromSection(at, size, notes),
             notes = {} => at - DE!SectionRva + DE!SectionOffset = offset
      PROVE  Just
  <2>1. CASE DE!InSection(at, size)
    <3>1. /\ loaded.data = [at |-> "section", offset |-> at - DE!SectionRva + DE!SectionOffset]
          /\ loaded.notes = notes
      BY <1>s, <2>1 DEF DE!FromSection, DE!Bytes
    <3>2. loaded.data \in DebugPlace /\ loaded.data.at = "section"
          /\ loaded.data.offset = at - DE!SectionRva + DE!SectionOffset
      BY <3>1 DEF DebugPlace, DE!SectionRva, DE!SectionOffset
    <3> QED BY <3>1, <3>2, <1>s, <1>n
  <2>2. CASE ~DE!InSection(at, size)
    <3>1. loaded.data = DE!None /\ loaded.notes = notes /\ loaded.failed
      BY <1>s, <2>2 DEF DE!FromSection
    <3> QED BY <3>1, <1>n
  <2> QED BY <2>1, <2>2
<1>o. ASSUME loaded = DE!FromOverlay(offset, size) PROVE Just
  <2>1. CASE ~given.overlay \/ offset < DE!OverlayOffset
    BY <1>o, <2>1, <1>r DEF DE!FromOverlay, DebugNotes
  <2>2. CASE ~(~given.overlay \/ offset < DE!OverlayOffset) /\ offset - DE!OverlayOffset + size > DE!OverlaySize
    <3>1. loaded.data = DE!None /\ loaded.notes = {} /\ loaded.failed
      BY <1>o, <2>2 DEF DE!FromOverlay
    <3> QED BY <3>1, <1>n
  <2>3. CASE ~(~given.overlay \/ offset < DE!OverlayOffset) /\ ~(offset - DE!OverlayOffset + size > DE!OverlaySize)
    <3>1. loaded.data = [at |-> "overlay", offset |-> offset] /\ loaded.notes = {}
      BY <1>o, <2>3 DEF DE!FromOverlay, DE!Bytes
    <3>2. loaded.data \in DebugPlace /\ loaded.data.at = "overlay" /\ loaded.data.offset = offset
      BY <3>1 DEF DebugPlace
    <3> QED BY <3>1, <3>2, <1>n
  <2> QED BY <2>1, <2>2, <2>3
<1>1. CASE size > DE!MaxRawData
  <2>1. loaded = DE!Refused("too_big_raw_data")
    BY <1>1 DEF DE!DataOf, DE!MaxRawData
  <2> QED BY <2>1, <1>r DEF DebugNotes
<1>2. CASE size = 0
  <2>1. loaded.data = DE!None /\ loaded.notes = {}
    BY <1>2 DEF DE!DataOf, DE!MaxRawData
  <2> QED BY <2>1, <1>n, <1>2
<1>3. CASE size \in 1 .. DE!MaxRawData /\ rva = 0 /\ offset = 0
  <2>1. loaded = DE!Refused("no_rva_and_file_offset")
    BY <1>3 DEF DE!DataOf, DE!MaxRawData
  <2> QED BY <2>1, <1>r DEF DebugNotes
<1>4. CASE size \in 1 .. DE!MaxRawData /\ rva = 0 /\ offset > 0
  <2>1. loaded = IF DE!HasRva(offset) THEN DE!FromSection(DE!RvaOf(offset), size, {}) ELSE DE!FromOverlay(offset, size)
    BY <1>4 DEF DE!DataOf, DE!MaxRawData
  <2>2. DE!RvaOf(offset) \in Int /\ DE!RvaOf(offset) - DE!SectionRva + DE!SectionOffset = offset
    BY DEF DE!RvaOf, DE!SectionRva, DE!SectionOffset
  <2> QED BY <2>1, <2>2, <1>s, <1>o
<1>5. CASE size \in 1 .. DE!MaxRawData /\ rva > 0
  <2> DEFINE notes == IF DE!HasRva(offset) /\ DE!RvaOf(offset) = rva THEN {} ELSE {"rva_and_file_offset_do_not_match"}
  <2>1. loaded = DE!FromSection(rva, size, notes)
    BY <1>5 DEF DE!DataOf, DE!MaxRawData
  <2>2. notes = {} => rva - DE!SectionRva + DE!SectionOffset = offset
    BY DEF DE!RvaOf, DE!SectionRva, DE!SectionOffset
  <2>3. notes \in SUBSET DebugNotes
    BY DEF DebugNotes
  <2> HIDE DEF notes
  <2> QED BY <2>1, <2>2, <2>3, <1>s
<1>6. size > 20 \/ size = 0 \/ size \in 1 .. 20
  OBVIOUS
<1>7. rva > 0 \/ (rva = 0 /\ offset > 0) \/ (rva = 0 /\ offset = 0)
  OBVIOUS
<1> QED BY <1>1, <1>2, <1>3, <1>4, <1>5, <1>6, <1>7 DEF DE!MaxRawData

LEMMA DebugListStart == DE!ListInit => DebugListInv
<1> SUFFICES ASSUME DE!ListInit PROVE DebugListInv
  OBVIOUS
<1>1. given.size \in Nat
  BY DirectoriesAssumption DEF DE!ListInit, DirectoriesAssumption
<1>2. pc = "begin" /\ walk = [at |-> 0, end |-> 0, left |-> 0] /\ result = <<>>
  BY DEF DE!ListInit
<1> QED BY <1>1, <1>2 DEF DebugListInv, DE!DataFound

LEMMA DebugListStep == ASSUME DebugListInv, DE!ListNext PROVE DebugListInv'
<1>1. CASE DE!ListBegins
  <2>1. /\ pc = "begin" /\ pc' = "list" /\ UNCHANGED <<given, result, errors>> /\ MaxListed \in Nat
        /\ walk' = [at |-> 0, end |-> given.size - 28, left |-> MaxListed]
    BY <1>1, DirectoriesAssumption DEF DE!ListBegins, DE!DescriptorSize, DirectoriesAssumption
  <2> QED BY <2>1 DEF DebugListInv, DE!DataFound, DE!DescriptorSize
<1>2. CASE DE!EndWraps \/ DE!TooMany \/ DE!DescriptorUnread
  <2>1. UNCHANGED <<given, walk, result>> /\ pc' = "done" /\ errors \subseteq errors' /\ errors' # {}
    BY <1>2 DEF DE!EndWraps, DE!TooMany, DE!DescriptorUnread, DE!Report
  <2> QED BY <2>1 DEF DebugListInv, DE!DataFound
<1>3. CASE DE!DescriptorRead
  <2>1. PICK e \in DE!Entries : LET loaded == DE!DataOf(e[1][1], e[1][2], e[2]) IN
          /\ result' = Append(result, [offset |-> e[1][2], size |-> e[2],
                                       data |-> loaded.data, notes |-> loaded.notes])
          /\ IF loaded.failed THEN errors' = errors \cup {"unable_to_load_raw_data"} ELSE UNCHANGED errors
    BY <1>3 DEF DE!DescriptorRead, DE!Report
  <2> DEFINE rva == e[1][1]
             offset == e[1][2]
             size == e[2]
             loaded == DE!DataOf(rva, offset, size)
             new == [offset |-> offset, size |-> size, data |-> loaded.data, notes |-> loaded.notes]
  <2>2. rva \in Nat /\ offset \in Nat /\ size \in Nat
    BY DEF DE!Entries, DE!Named
  <2> HIDE DEF rva, offset, size
  <2>3. /\ loaded.data \in DebugPlace /\ loaded.notes \in SUBSET DebugNotes
        /\ loaded.data = DE!None /\ size > 0 => loaded.notes # {} \/ loaded.failed
        /\ loaded.data # DE!None /\ loaded.notes = {} => loaded.data.offset = offset
    BY <2>2, DebugDataOf
  <2>4. /\ result' = Append(result, new) /\ errors \subseteq errors'
        /\ loaded.failed => "unable_to_load_raw_data" \in errors'
    BY <2>1 DEF rva, offset, size
  <2> HIDE DEF loaded
  <2>5. /\ new \in DebugEntry
        /\ new.data = DE!None /\ new.size > 0 => new.notes # {} \/ loaded.failed
        /\ new.data # DE!None /\ new.notes = {} => new.data.offset = new.offset
    BY <2>2, <2>3 DEF DebugEntry
  <2> HIDE DEF new
  <2>6. DE!DataFound'
    BY <2>4, <2>5, Appended DEF DebugListInv, DE!DataFound
  <2>7. /\ pc = "list" /\ UNCHANGED <<given, pc>>
        /\ walk' = [walk EXCEPT !.at = @ + 28, !.left = @ - 1]
    BY <1>3 DEF DE!DescriptorRead, DE!DescriptorSize
  <2>8. walk'.at = walk.at + 28 /\ walk'.end = walk.end /\ walk' \in [at : Int, end : Int, left : Int]
    <3>1. walk \in [at : Int, end : Int, left : Int]
      BY DEF DebugListInv
    <3>2. walk' = [at |-> walk.at + 28, end |-> walk.end, left |-> walk.left - 1]
      BY <2>7, <3>1
    <3>3. walk.at \in Int /\ walk.end \in Int /\ walk.left \in Int
      BY <3>1
    <3> QED BY <3>2, <3>3
  <2>9. result' \in Seq(DebugEntry) /\ Len(result') = Len(result) + 1 /\ Len(result) \in Nat
    BY <2>4, <2>5, Appended DEF DebugListInv
  <2>10. walk.at = 28 * Len(result) /\ walk.end = given.size - 28
    BY <2>7 DEF DebugListInv, DE!DescriptorSize
  <2> QED BY <2>6, <2>7, <2>8, <2>9, <2>10 DEF DebugListInv, DE!DescriptorSize
<1>4. CASE DE!DescriptorsEnd
  <2>1. /\ pc = "list" /\ pc' = "done" /\ UNCHANGED <<given, walk, result>> /\ errors \subseteq errors'
        /\ walk.at > walk.end /\ (walk.at # walk.end + 28 => errors' # {})
    BY <1>4 DEF DE!DescriptorsEnd, DE!Report, DE!DescriptorSize
  <2>2. /\ walk.at = 28 * Len(result) /\ walk.end = given.size - 28 /\ given.size \in Nat
        /\ Len(result) \in Nat
    BY <2>1 DEF DebugListInv, DE!DescriptorSize
  <2>3. DE!DataFound'
    BY <2>1 DEF DebugListInv, DE!DataFound
  <2> QED BY <2>1, <2>2, <2>3 DEF DebugListInv, DE!DescriptorSize
<1> QED BY <1>1, <1>2, <1>3, <1>4 DEF DE!ListNext

\* An entry of the debug directory has its data, from the place it names, or an error.
LEMMA DebugListWhole == DebugListInv => DE!ListWhole
  BY DEF DebugListInv, DE!ListWhole

-----------------------------------------------------------------------------
(* The list of certificates. *)

CertificateEntry == [at : Int, length : Nat, data : BOOLEAN,
                     errors : SUBSET {"invalid_entry", "invalid_entry_size", "invalid_certificate_data"}]
NothingReported == errors = {} /\ \A i \in DOMAIN result : result[i].errors = {}

\* What is left of the directory is what is behind the cursor in it; the certificates are
\* before the cursor, and the cursor is where the file is padded.
CertificatesInv ==
    /\ pc \in {"place", "entry", "short", "done"}
    /\ given.start \in Nat /\ given.bytes \in Nat /\ given.size \in Nat /\ given.ahead \in Int
    /\ walk \in [pos : Int, offset : Int, left : Int, ended : BOOLEAN]
    /\ result \in Seq(CertificateEntry)
    /\ pc = "place" => result = <<>> /\ walk.left = given.size /\ walk.offset = given.start
    /\ pc = "entry" =>
        /\ walk.pos + walk.left = given.ahead + given.size /\ walk.pos >= given.ahead
        /\ \A i \in DOMAIN result : result[i].data => result[i].at + result[i].length <= walk.pos
        /\ NothingReported /\ given.start % 8 = 0 /\ walk.left # 0 =>
            (given.start + walk.pos) % 8 = 0 /\ walk.offset % 8 = 0
    /\ SE!CertificatesApart
    /\ NothingReported /\ given.start % 8 = 0 =>
        \A i \in DOMAIN result : (given.start + result[i].at) % 8 = 0
    /\ pc = "done" /\ NothingReported => walk.ended \/ walk.left = 0

LEMMA PaddingAligns ==
  ASSUME NEW n \in Int
  PROVE  SE!Padding(n) \in 0 .. 7 /\ (n + SE!Padding(n)) % 8 = 0
  BY DEF SE!Padding, SE!Alignment

CertificateWalk == [pos : Int, offset : Int, left : Int, ended : BOOLEAN]

LEMMA CertificatesType ==
  ASSUME CertificatesInv
  PROVE  /\ walk \in CertificateWalk
         /\ walk.pos \in Int /\ walk.offset \in Int /\ walk.left \in Int /\ walk.ended \in BOOLEAN
<1>1. walk \in CertificateWalk
  BY DEF CertificatesInv, CertificateWalk
<1> QED BY <1>1 DEF CertificateWalk

LEMMA CertificateTypes ==
  ASSUME NEW list \in Seq(CertificateEntry), NEW i \in DOMAIN list
  PROVE  list[i].at \in Int /\ list[i].length \in Nat
<1>1. list[i] \in CertificateEntry
  OBVIOUS
<1> QED BY <1>1 DEF CertificateEntry

LEMMA Aligned ==
  ASSUME NEW a \in Int, NEW b \in Int, a % 8 = 0
  PROVE  (a + b) % 8 = 0 <=> b % 8 = 0
  OBVIOUS

LEMMA CertificatesStart == SE!CertificatesInit => CertificatesInv
<1> SUFFICES ASSUME SE!CertificatesInit PROVE CertificatesInv
  OBVIOUS
<1>1. given.start \in Nat /\ given.bytes \in Nat /\ given.size \in Nat /\ given.ahead \in Int
  BY DirectoriesAssumption DEF SE!CertificatesInit, DirectoriesAssumption
<1>2. pc = "place" /\ result = <<>>
  BY DEF SE!CertificatesInit
<1>3. /\ walk \in [pos : Int, offset : Int, left : Int, ended : BOOLEAN]
      /\ walk.left = given.size /\ walk.offset = given.start
  BY <1>1 DEF SE!CertificatesInit
<1>4. SE!CertificatesApart
  BY <1>2 DEF SE!CertificatesApart
<1> QED BY <1>1, <1>2, <1>3, <1>4 DEF CertificatesInv

\* An entry that comes to the list, behind all that have data.
LEMMA CertificateAdded ==
  ASSUME CertificatesInv, pc = "entry", walk.left >= 8, given' = given,
         NEW new \in CertificateEntry, result' = Append(result, new), new.at = walk.pos,
         errors' = errors, new.data => /\ walk.pos + new.length <= given.bytes
                                       /\ new.length <= walk.left
  PROVE  /\ result' \in Seq(CertificateEntry)
         /\ SE!CertificatesApart'
         /\ NothingReported' /\ given.start % 8 = 0 =>
              \A i \in DOMAIN result' : (given.start + result'[i].at) % 8 = 0
         /\ NothingReported' => NothingReported /\ new.errors = {}
         /\ \A i \in DOMAIN result' : result'[i].data =>
              result'[i].at + result'[i].length <= walk.pos \/ (i = Len(result) + 1 /\ result'[i] = new)
<1> DEFINE list == result
<1>1. /\ list \in Seq(CertificateEntry) /\ result' = Append(list, new)
      /\ walk.pos \in Int /\ walk.left \in Int
      /\ given.start \in Nat /\ given.bytes \in Nat /\ given.size \in Nat /\ given.ahead \in Int
      /\ walk.pos + walk.left = given.ahead + given.size /\ walk.pos >= given.ahead
      /\ \A i \in DOMAIN list : list[i].data => list[i].at + list[i].length <= walk.pos
  BY CertificatesType DEF CertificatesInv
<1>2. /\ result' \in Seq(CertificateEntry) /\ Len(list) \in Nat
      /\ DOMAIN list = 1 .. Len(list) /\ DOMAIN result' = 1 .. Len(list) + 1
      /\ result'[Len(list) + 1] = new
      /\ \A i \in 1 .. Len(list) : result'[i] = list[i] /\ list[i] \in CertificateEntry
  BY <1>1, Appended
<1>3. NothingReported' => NothingReported /\ new.errors = {}
  BY <1>2 DEF NothingReported
<1>4. NothingReported' /\ given.start % 8 = 0 => \A i \in DOMAIN result' : (given.start + result'[i].at) % 8 = 0
  <2> SUFFICES ASSUME NothingReported', given.start % 8 = 0, NEW i \in DOMAIN result'
               PROVE  (given.start + result'[i].at) % 8 = 0
    OBVIOUS
  <2>1. NothingReported
    BY <1>3
  <2>2. (given.start + walk.pos) % 8 = 0 /\ \A j \in DOMAIN list : (given.start + list[j].at) % 8 = 0
    BY <2>1 DEF CertificatesInv
  <2> QED BY <2>2, <1>2
<1>5. \A i \in DOMAIN result' : result'[i].data =>
              (list[i].at + list[i].length <= walk.pos /\ i \in DOMAIN list) \/ i = Len(list) + 1
  BY <1>1, <1>2
<1>6. Len(list) + 1 \in DOMAIN result'
  BY <1>2
<1>7. SE!CertificatesApart
  BY DEF CertificatesInv
<1>8. SE!Va - given.start = given.ahead /\ (SE!Va - given.start)' = given.ahead
  BY <1>1 DEF SE!Va
<1> HIDE DEF list
<1>9. \A i \in DOMAIN result' : result'[i].data =>
        /\ result'[i].at >= given.ahead
        /\ result'[i].at + result'[i].length <= given.bytes
        /\ result'[i].at + result'[i].length <= given.ahead + given.size
  <2> SUFFICES ASSUME NEW i \in DOMAIN result', result'[i].data
               PROVE  /\ result'[i].at >= given.ahead
                      /\ result'[i].at + result'[i].length <= given.bytes
                      /\ result'[i].at + result'[i].length <= given.ahead + given.size
    OBVIOUS
  <2>1. CASE i = Len(list) + 1
    <3>1. result'[i] = new /\ new.length \in Nat
      BY <1>2, <2>1 DEF CertificateEntry
    <3>2. new.data /\ result'[i].at = walk.pos /\ result'[i].length = new.length
      BY <3>1
    <3>3. walk.pos + new.length <= given.bytes /\ new.length <= walk.left
      BY <3>2
    <3>4. /\ walk.pos \in Int /\ walk.left \in Int /\ given.ahead \in Int /\ given.size \in Nat
          /\ walk.pos + walk.left = given.ahead + given.size /\ walk.pos >= given.ahead
      BY <1>1
    <3> QED BY <3>1, <3>2, <3>3, <3>4
  <2>2. CASE i \in 1 .. Len(list)
    BY <2>2, <1>2, <1>7, <1>8 DEF SE!CertificatesApart, list
  <2> QED BY <2>1, <2>2, <1>2
<1>10. \A i, j \in DOMAIN result' : i < j /\ result'[i].data => result'[i].at + result'[i].length <= result'[j].at
  <2> SUFFICES ASSUME NEW i \in DOMAIN result', NEW j \in DOMAIN result', i < j, result'[i].data
               PROVE  result'[i].at + result'[i].length <= result'[j].at
    OBVIOUS
  <2>1. i \in 1 .. Len(list) /\ result'[i] = list[i]
    BY <1>2
  <2>2. CASE j = Len(list) + 1
    BY <2>1, <2>2, <1>1, <1>2
  <2>3. CASE j \in 1 .. Len(list)
    BY <2>1, <2>3, <1>2, <1>7 DEF SE!CertificatesApart, list
  <2> QED BY <2>2, <2>3, <1>2
<1>11. SE!CertificatesApart'
  BY <1>8, <1>9, <1>10 DEF SE!CertificatesApart
<1>12. \A i \in DOMAIN result' : result'[i].data =>
              result'[i].at + result'[i].length <= walk.pos \/ (i = Len(list) + 1 /\ result'[i] = new)
  BY <1>1, <1>2
<1> QED BY <1>2, <1>3, <1>4, <1>11, <1>12 DEF list

LEMMA CertificatesStep == ASSUME CertificatesInv, SE!CertificatesNext PROVE CertificatesInv'
<1> DEFINE Errors == {"invalid_entry", "invalid_entry_size", "invalid_certificate_data"}
<1>g. given' = given
  BY DEF SE!CertificatesNext, SE!Place, SE!TooManyEntries, SE!EntryUnread, SE!EmptyEntry, SE!ShortEntry,
         SE!LongEntry, SE!Certificate, SE!ListEnds
<1>t. /\ walk.pos \in Int /\ walk.offset \in Int /\ walk.left \in Int /\ walk.ended \in BOOLEAN
      /\ walk \in CertificateWalk
      /\ given.start \in Nat /\ given.bytes \in Nat /\ given.size \in Nat /\ given.ahead \in Int
      /\ SE!Va = given.start + given.ahead
  BY CertificatesType DEF CertificatesInv, SE!Va
<1>a. ASSUME UNCHANGED result PROVE SE!CertificatesApart'
  BY <1>a, <1>g DEF CertificatesInv, SE!CertificatesApart, SE!Va
<1>d. ASSUME UNCHANGED result, errors \subseteq errors' PROVE NothingReported' => NothingReported
  BY <1>d DEF NothingReported
<1>e. ASSUME pc = "entry", pc' = "done", walk' = walk, errors' = errors, walk.left >= 8,
             NEW e \in Errors, NEW n \in Nat, SE!Add(SE!Entry(n, FALSE, {e}))
      PROVE  CertificatesInv'
  <2> DEFINE new == [at |-> walk.pos, length |-> n, data |-> FALSE, errors |-> {e}]
  <2>1. result' = Append(result, new)
    BY <1>e DEF SE!Add, SE!Entry
  <2>2. new \in CertificateEntry /\ new.at = walk.pos /\ ~new.data /\ new.errors # {}
    BY <1>t DEF CertificateEntry
  <2> HIDE DEF new
  <2>3. /\ result' \in Seq(CertificateEntry) /\ SE!CertificatesApart' /\ ~NothingReported'
    BY <2>1, <2>2, <1>e, <1>g, CertificateAdded
  <2> QED BY <2>3, <1>e, <1>g, <1>t DEF CertificatesInv, CertificateWalk
<1>1. CASE SE!Place
  <2>1. pc = "place" /\ result' = result /\ result = <<>>
    BY <1>1 DEF SE!Place, CertificatesInv
  <2>2. CASE given.bytes = 0 \/ SE!Va < given.start \/ SE!Va - given.start > given.bytes
    <3>1. errors' = {"invalid_directory"} /\ pc' = "done" /\ walk' = walk
      BY <1>1, <2>2 DEF SE!Place
    <3>2. ~NothingReported'
      BY <3>1 DEF NothingReported
    <3> QED BY <2>1, <3>1, <3>2, <1>a, <1>g, <1>t DEF CertificatesInv, CertificateWalk
  <2>3. CASE ~(given.bytes = 0 \/ SE!Va < given.start \/ SE!Va - given.start > given.bytes)
    <3>1. /\ errors' = IF SE!Va % 8 = 0 THEN {} ELSE {"unaligned_directory"}
          /\ walk' = [walk EXCEPT !.pos = given.ahead] /\ pc' = "entry"
      BY <1>1, <2>3, <1>t DEF SE!Place, SE!Alignment
    <3>2. /\ walk' \in CertificateWalk /\ walk'.pos = given.ahead /\ walk'.offset = walk.offset /\ walk'.left = walk.left
      BY <3>1, <1>t DEF CertificateWalk
    <3>3. NothingReported' => (given.start + given.ahead) % 8 = 0
      BY <3>1, <1>t DEF NothingReported
    <3>4. walk.left = given.size /\ walk.offset = given.start
      BY <2>1 DEF CertificatesInv, CertificateWalk
    <3>5. walk' \in [pos : Int, offset : Int, left : Int, ended : BOOLEAN] /\ SE!CertificatesApart'
      BY <2>1, <3>2, <1>a DEF CertificateWalk
    <3>6. walk'.pos + walk'.left = given.ahead + given.size /\ walk'.pos >= given.ahead /\ walk'.offset = given.start
      BY <3>2, <3>4, <1>t
    <3>7. /\ NothingReported' => (given.start + walk'.pos) % 8 = 0
          /\ result' = <<>> /\ DOMAIN result' = {} /\ pc' = "entry"
      BY <2>1, <3>1, <3>2, <3>3
    <3> QED BY <3>5, <3>6, <3>7, <1>g DEF CertificatesInv
  <2> QED BY <2>2, <2>3
<1>2. CASE SE!TooManyEntries
  <2>1. UNCHANGED <<walk, result>> /\ pc' = "done" /\ errors' = errors \cup {"too_many_entries"}
    BY <1>2 DEF SE!TooManyEntries
  <2>2. ~NothingReported'
    BY <2>1 DEF NothingReported
  <2> QED BY <2>1, <2>2, <1>a, <1>g, <1>t DEF CertificatesInv, CertificateWalk
<1>3. CASE SE!EntryUnread
  <2>1. /\ pc = "entry" /\ pc' = "done" /\ walk' = walk /\ errors' = errors /\ walk.left >= 8
        /\ SE!Add(SE!Entry(0, FALSE, {"invalid_entry"}))
    BY <1>3 DEF SE!EntryUnread, SE!InLimit, SE!More, SE!DescriptorSize
  <2> QED BY <2>1, <1>e
<1>4. CASE SE!EmptyEntry
  <2>1. /\ pc = "entry" /\ pc' = "done" /\ UNCHANGED <<result, errors>>
        /\ walk' = [walk EXCEPT !.ended = TRUE, !.left = walk.left - 8]
    BY <1>4 DEF SE!EmptyEntry, SE!Read, SE!InLimit, SE!More, SE!Rest, SE!DescriptorSize
  <2>3. NothingReported' => NothingReported
    BY <2>1, <1>d
  <2>2. walk.left - 8 \in Int
    BY <1>t
  <2>4. walk' \in CertificateWalk
    BY <2>1, <2>2, <1>t, Zenon DEF CertificateWalk
  <2>5. walk'.ended
    BY <2>1, <1>t DEF CertificateWalk
  <2> QED BY <2>1, <2>3, <2>4, <2>5, <1>a, <1>g, <1>t DEF CertificatesInv, CertificateWalk
<1>5. CASE SE!ShortEntry
  <2>1. PICK n \in {n \in CertificateSizes : n < 8} : SE!Add(SE!Entry(n, FALSE, {"invalid_entry_size"}))
    BY <1>5 DEF SE!ShortEntry, SE!DescriptorSize
  <2>2. /\ pc = "entry" /\ UNCHANGED <<pc, errors>> /\ walk.left >= 8
        /\ walk' = [walk EXCEPT !.pos = walk.pos + 8, !.offset = walk.offset + 8, !.left = walk.left - 8]
    BY <1>5 DEF SE!ShortEntry, SE!Read, SE!InLimit, SE!More, SE!Rest, SE!DescriptorSize
  <2> DEFINE new == [at |-> walk.pos, length |-> n, data |-> FALSE, errors |-> {"invalid_entry_size"}]
  <2>4. result' = Append(result, new)
    BY <2>1 DEF SE!Add, SE!Entry
  <2>5. new \in CertificateEntry /\ new.at = walk.pos /\ ~new.data /\ new.errors # {}
    BY <1>t, DirectoriesAssumption DEF CertificateEntry, DirectoriesAssumption
  <2> HIDE DEF new
  <2>6. /\ result' \in Seq(CertificateEntry) /\ SE!CertificatesApart' /\ ~NothingReported'
        /\ \A i \in DOMAIN result' : result'[i].data => result'[i].at + result'[i].length <= walk.pos
    BY <2>2, <2>4, <2>5, <1>g, CertificateAdded
  <2>7. \A i \in DOMAIN result' : result'[i].at \in Int /\ result'[i].length \in Nat
    BY <2>6, CertificateTypes
  <2>8. /\ walk'.pos = walk.pos + 8 /\ walk'.left = walk.left - 8
        /\ walk' \in CertificateWalk
    <3>1. walk.pos + 8 \in Int /\ walk.offset + 8 \in Int /\ walk.left - 8 \in Int
      BY <1>t
    <3>2. walk' \in CertificateWalk
      BY <3>1, <2>2, <1>t, Zenon DEF CertificateWalk
    <3> QED BY <3>1, <3>2, <2>2, <1>t DEF CertificateWalk
  <2>9. walk.pos + walk.left = given.ahead + given.size /\ walk.pos >= given.ahead
    BY <2>2 DEF CertificatesInv, CertificateWalk
  <2>10. \A i \in DOMAIN result' : result'[i].data => result'[i].at + result'[i].length <= walk'.pos
    <3> SUFFICES ASSUME NEW i \in DOMAIN result', result'[i].data
                 PROVE  result'[i].at + result'[i].length <= walk'.pos
      OBVIOUS
    <3>1. result'[i].at + result'[i].length <= walk.pos /\ result'[i].at \in Int /\ result'[i].length \in Nat
      BY <2>6, <2>7
    <3> QED BY <3>1, <2>8, <1>t
  <2>11. walk'.pos + walk'.left = given.ahead + given.size /\ walk'.pos >= given.ahead
    BY <2>8, <2>9, <1>t
  <2> QED BY <2>2, <2>6, <2>8, <2>10, <2>11, <1>g, <1>t DEF CertificatesInv, CertificateWalk
<1>6. CASE SE!LongEntry
  <2>1. /\ pc = "entry" /\ pc' = "done" /\ walk' = walk /\ errors' = errors /\ walk.left >= 8
    BY <1>6 DEF SE!LongEntry, SE!Read, SE!InLimit, SE!More, SE!DescriptorSize
  <2>2. PICK n \in CertificateSizes : \/ SE!Add(SE!Entry(n, FALSE, {"invalid_entry_size"}))
                                      \/ SE!Add(SE!Entry(n, FALSE, {"invalid_certificate_data"}))
    BY <1>6 DEF SE!LongEntry
  <2>3. n \in Nat
    BY DirectoriesAssumption DEF DirectoriesAssumption
  <2> QED BY <2>1, <2>2, <2>3, <1>e
<1>7. CASE SE!Certificate
  <2>1. PICK n \in {n \in CertificateSizes : n >= SE!DescriptorSize} :
          LET left == SE!Rest - (n - SE!DescriptorSize)
              pad == SE!Padding(walk.offset + n)
              behind == walk.pos + n IN
          /\ left >= 0 /\ SE!Readable(n)
          /\ SE!Add(SE!Entry(n, n > SE!DescriptorSize,
                       IF left >= pad /\ left > 0 /\ behind + pad > given.bytes THEN {"invalid_entry"} ELSE {}))
          /\ IF left = 0
             THEN walk' = [walk EXCEPT !.pos = behind, !.left = 0] /\ UNCHANGED pc
             ELSE IF left < pad
             THEN walk' = [walk EXCEPT !.pos = behind, !.left = left] /\ pc' = "short"
             ELSE IF behind + pad > given.bytes
             THEN walk' = [walk EXCEPT !.pos = behind, !.left = left] /\ pc' = "done"
             ELSE /\ walk' = [walk EXCEPT !.pos = behind + pad, !.offset = @ + n + pad, !.left = left - pad]
                  /\ UNCHANGED pc
    BY <1>7 DEF SE!Certificate
  <2> DEFINE left == walk.left - n
             pad == SE!Padding(walk.offset + n)
             behind == walk.pos + n
             found == IF left >= pad /\ left > 0 /\ behind + pad > given.bytes THEN {"invalid_entry"} ELSE {}
             new == [at |-> walk.pos, length |-> n, data |-> n > 8, errors |-> found]
  <2>2. n \in Nat /\ n >= 8
    BY DirectoriesAssumption DEF DirectoriesAssumption, SE!DescriptorSize
  <2>3. pad \in 0 .. 7 /\ (walk.offset + n + pad) % 8 = 0
    BY <2>2, <1>t, PaddingAligns
  <2>p. pad \in Int /\ pad >= 0
    BY <2>3
  <2>4. left \in Int /\ behind \in Int /\ SE!Rest - (n - SE!DescriptorSize) = left
    BY <2>2, <1>t DEF SE!Rest, SE!DescriptorSize
  <2>5. /\ left >= 0 /\ walk.pos + n <= given.bytes
        /\ result' = Append(result, new)
        /\ IF left = 0
           THEN walk' = [walk EXCEPT !.pos = behind, !.left = 0] /\ UNCHANGED pc
           ELSE IF left < pad
           THEN walk' = [walk EXCEPT !.pos = behind, !.left = left] /\ pc' = "short"
           ELSE IF behind + pad > given.bytes
           THEN walk' = [walk EXCEPT !.pos = behind, !.left = left] /\ pc' = "done"
           ELSE /\ walk' = [walk EXCEPT !.pos = behind + pad, !.offset = walk.offset + n + pad, !.left = left - pad]
                /\ UNCHANGED pc
    BY <2>1, <2>4 DEF SE!Readable, SE!Add, SE!Entry, SE!DescriptorSize
  <2>6. /\ pc = "entry" /\ errors' = errors /\ walk.left >= 8
    BY <1>7 DEF SE!Certificate, SE!Read, SE!InLimit, SE!More, SE!DescriptorSize
  <2>7. new \in CertificateEntry /\ new.at = walk.pos /\ new.length = n /\ new.errors = found
    <3>1. found \in SUBSET Errors /\ (n > 8) \in BOOLEAN
      OBVIOUS
    <3> HIDE DEF found
    <3> QED BY <3>1, <2>2, <1>t DEF CertificateEntry
  <2>8. left >= pad /\ left > 0 /\ behind + pad > given.bytes => found # {}
    OBVIOUS
  <2>9. n <= walk.left
    BY <2>2, <2>5, <1>t
  <2> HIDE DEF new, found
  <2>10. /\ result' \in Seq(CertificateEntry) /\ SE!CertificatesApart'
         /\ NothingReported' /\ given.start % 8 = 0 =>
              \A i \in DOMAIN result' : (given.start + result'[i].at) % 8 = 0
         /\ NothingReported' => NothingReported /\ found = {}
         /\ \A i \in DOMAIN result' : result'[i].data =>
              result'[i].at + result'[i].length <= walk.pos \/ (i = Len(result) + 1 /\ result'[i] = new)
    BY <2>5, <2>6, <2>7, <2>9, <1>g, CertificateAdded
  <2>11. \A i \in DOMAIN result' : result'[i].data => result'[i].at + result'[i].length <= behind
    <3> SUFFICES ASSUME NEW i \in DOMAIN result', result'[i].data
                 PROVE  result'[i].at + result'[i].length <= behind
      OBVIOUS
    <3>1. result'[i].at \in Int /\ result'[i].length \in Nat
      BY <2>10, CertificateTypes
    <3>2. CASE result'[i].at + result'[i].length <= walk.pos
      BY <3>1, <3>2, <2>2, <1>t
    <3>3. CASE result'[i] = new
      BY <3>3, <2>2, <2>7, <1>t
    <3> QED BY <3>2, <3>3, <2>10
  <2>12. walk.pos + walk.left = given.ahead + given.size /\ walk.pos >= given.ahead
    BY <2>6 DEF CertificatesInv, CertificateWalk
  <2> HIDE DEF pad
  <2>13. CASE left = 0
    <3>1. walk' = [walk EXCEPT !.pos = behind, !.left = 0] /\ pc' = pc
      BY <2>5, <2>13
    <3>a. walk' \in CertificateWalk
      <4>1. 0 \in Int
        OBVIOUS
      <4> QED BY <3>1, <4>1, <2>4, <1>t, Zenon DEF CertificateWalk
    <3>2. walk' \in CertificateWalk /\ walk'.pos = behind /\ walk'.left = 0
      BY <3>a, <3>1, <2>4, <1>t DEF CertificateWalk
    <3>3. behind = given.ahead + given.size /\ behind >= given.ahead
      BY <2>2, <2>12, <2>13, <1>t
    <3> QED BY <3>1, <3>2, <3>3, <2>6, <2>10, <2>11, <1>g, <1>t DEF CertificatesInv, CertificateWalk
  <2>14. CASE left # 0 /\ left < pad
    <3>1. walk' = [walk EXCEPT !.pos = behind, !.left = left] /\ pc' = "short"
      BY <2>5, <2>14
    <3>2. walk' \in CertificateWalk
      BY <3>1, <2>4, <1>t, Zenon DEF CertificateWalk
    <3> QED BY <3>1, <3>2, <2>6, <2>10, <1>g, <1>t DEF CertificatesInv, CertificateWalk
  <2>15. CASE left # 0 /\ ~(left < pad) /\ behind + pad > given.bytes
    <3>1. walk' = [walk EXCEPT !.pos = behind, !.left = left] /\ pc' = "done"
      BY <2>5, <2>15
    <3>2. walk' \in CertificateWalk
      BY <3>1, <2>4, <1>t, Zenon DEF CertificateWalk
    <3>3. left >= pad /\ left > 0
      BY <2>3, <2>4, <2>5, <2>15
    <3>4. ~NothingReported'
      BY <3>3, <2>8, <2>10, <2>15
    <3> QED BY <3>1, <3>2, <3>4, <2>6, <2>10, <1>g, <1>t DEF CertificatesInv, CertificateWalk
  <2>16. CASE left # 0 /\ ~(left < pad) /\ ~(behind + pad > given.bytes)
    <3> DEFINE p == behind + pad
               o == walk.offset + n + pad
               l == left - pad
    <3>0. p \in Int /\ o \in Int /\ l \in Int
      BY <2>2, <2>p, <2>4, <1>t
    <3>a. walk' = [walk EXCEPT !.pos = p, !.offset = o, !.left = l] /\ pc' = pc
      BY <2>5, <2>16
    <3> HIDE DEF p, o, l
    <3>c. walk' \in CertificateWalk
      BY <3>0, <3>a, <1>t, Zenon DEF CertificateWalk
    <3>b. walk' \in CertificateWalk /\ walk'.pos = p /\ walk'.left = l /\ walk'.offset = o
      BY <3>0, <3>a, <3>c, <1>t DEF CertificateWalk
    <3>2. /\ walk' \in CertificateWalk
          /\ walk'.pos = behind + pad /\ walk'.left = left - pad /\ walk'.offset = walk.offset + n + pad
      BY <3>b DEF p, o, l
    <3>d. walk.left # 0
      BY <2>6
    <3>3. /\ walk'.pos + walk'.left = given.ahead + given.size /\ walk'.pos >= given.ahead
      BY <3>2, <2>2, <2>p, <2>12, <1>t
    <3>4. \A i \in DOMAIN result' : result'[i].data => result'[i].at + result'[i].length <= walk'.pos
      <4> SUFFICES ASSUME NEW i \in DOMAIN result', result'[i].data
                   PROVE  result'[i].at + result'[i].length <= walk'.pos
        OBVIOUS
      <4>1. result'[i].at \in Int /\ result'[i].length \in Nat
        BY <2>10, CertificateTypes
      <4> QED BY <4>1, <2>3, <2>4, <2>11, <3>2
    <3>5. NothingReported' /\ given.start % 8 = 0 => (given.start + walk'.pos) % 8 = 0 /\ walk'.offset % 8 = 0
      <4> SUFFICES ASSUME NothingReported', given.start % 8 = 0
                   PROVE  (given.start + walk'.pos) % 8 = 0 /\ walk'.offset % 8 = 0
        OBVIOUS
      <4>1. (given.start + walk.pos) % 8 = 0 /\ walk.offset % 8 = 0
        BY <2>6, <2>10, <3>d DEF CertificatesInv, CertificateWalk
      <4>2. n + pad \in Int /\ given.start + walk.pos \in Int
        BY <2>2, <2>3, <1>t
      <4>3. walk.offset + (n + pad) = walk.offset + n + pad /\ given.start + walk'.pos = (given.start + walk.pos) + (n + pad)
        BY <2>2, <2>p, <3>2, <1>t
      <4>4. (n + pad) % 8 = 0
        BY <4>1, <4>2, <4>3, <2>3, <1>t, Aligned
      <4> QED BY <4>1, <4>2, <4>3, <4>4, <2>3, <3>2, Aligned
    <3> QED BY <3>a, <3>2, <3>3, <3>4, <3>5, <2>6, <2>10, <1>g, <1>t DEF CertificatesInv, CertificateWalk
  <2> QED BY <2>13, <2>14, <2>15, <2>16
<1>8. CASE SE!ListEnds
  <2>1. /\ pc' = "done" /\ UNCHANGED <<walk, result>>
        /\ errors' = IF walk.left = 0 THEN errors ELSE errors \cup {"invalid_directory_size"}
    BY <1>8 DEF SE!ListEnds
  <2>2. (NothingReported' => NothingReported) /\ (NothingReported' => walk.left = 0)
    BY <2>1 DEF NothingReported
  <2> QED BY <2>1, <2>2, <1>a, <1>g, <1>t DEF CertificatesInv, CertificateWalk
<1> QED BY <1>1, <1>2, <1>3, <1>4, <1>5, <1>6, <1>7, <1>8 DEF SE!CertificatesNext

\* Certificates lie apart inside of the directory, and without an error they fill it.
LEMMA CertificatesAreWhole == CertificatesInv => SE!CertificatesWhole
<1> SUFFICES ASSUME CertificatesInv PROVE SE!CertificatesWhole
  OBVIOUS
<1>1. SE!AllErrors = {} => NothingReported
  BY DEF SE!AllErrors, NothingReported
<1>2. SE!DirectoryFilled
  BY <1>1 DEF CertificatesInv, SE!DirectoryFilled, SE!Alignment
<1> QED BY <1>2 DEF CertificatesInv, SE!CertificatesWhole

-----------------------------------------------------------------------------
(* The metadata of .NET. *)

StreamErrors == {"unable_to_deserialize_stream_header", "unable_to_deserialize_stream_data"}
NetStream == [name : {"none", "#~", "#US"}, at : Int, end : Int, data : Seq(Int), errors : SUBSET StreamErrors]
NetWalk == [pos : Int, left : Int, names : SUBSET {"#~", "#US"}, todo : Int, version : Int]
NetResult == [loaded : SUBSET {"metadata", "resources", "strong_name_signature"}, streams : Seq(NetStream)]
NamedRegions(n) == {DN!Regions[i] : i \in {j \in 1 .. n : given.regions[j] # "empty"}}

\* With nothing reported every region so far is loaded; the streams that were read and
\* those that are left are as many as were counted, their names are known, each ends
\* where the next one begins and the last at the cursor, and all but the one whose data
\* are next have data or an error of their own.
DotNetInv ==
    /\ pc \in {"descriptor", "regions", "header", "footer", "streams", "data", "done"}
    /\ given.regions \in [1 .. 3 -> DN!Places]
    /\ given.buf.physical \in Int /\ given.buf.size \in Nat
    /\ walk \in NetWalk /\ result \in NetResult
    /\ pc = "descriptor" => walk.todo = 1 /\ result.loaded = {}
    /\ pc = "regions" => walk.todo \in 1 .. 4 /\ (errors = {} => result.loaded = NamedRegions(walk.todo - 1))
    /\ pc \notin {"descriptor", "regions"} /\ errors = {} => result.loaded = NamedRegions(3)
    /\ pc \in {"descriptor", "regions", "header", "footer"} => result.streams = <<>>
    /\ pc \in {"streams", "data"} =>
        /\ walk.version = walk.left + Len(result.streams)
        /\ result.streams # <<>> => result.streams[Len(result.streams)].end = walk.pos
        /\ \A i \in DOMAIN result.streams :
            /\ result.streams[i].name \in walk.names
            /\ "unable_to_deserialize_stream_header" \notin result.streams[i].errors
    /\ pc = "data" => result.streams # <<>>
    /\ \A i \in DOMAIN result.streams :
        result.streams[i].errors = {} /\ ~(pc = "data" /\ i = Len(result.streams)) => result.streams[i].data # <<>>
    /\ \A i \in 1 .. Len(result.streams) - 1 : result.streams[i].end = result.streams[i + 1].at
    /\ DN!NamesDistinct /\ DN!OnlyLastUnread
    /\ pc = "done" /\ errors = {} /\ given.buf.size > 0 /\ given.streams =>
        \/ walk.version = Len(result.streams)
        \/ \E i \in DOMAIN result.streams : result.streams[i].errors # {}

LEMMA DotNetTypes ==
  ASSUME DotNetInv
  PROVE  /\ walk.pos \in Int /\ walk.left \in Int /\ walk.names \in SUBSET {"#~", "#US"}
         /\ walk.todo \in Int /\ walk.version \in Int
         /\ result.streams \in Seq(NetStream) /\ Len(result.streams) \in Nat
         /\ DOMAIN result.streams = 1 .. Len(result.streams)
<1>1. walk \in NetWalk /\ result \in NetResult
  BY DEF DotNetInv
<1>2. result.streams \in Seq(NetStream)
  BY <1>1 DEF NetResult
<1>3. Len(result.streams) \in Nat /\ DOMAIN result.streams = 1 .. Len(result.streams)
  BY <1>2
<1> QED BY <1>1, <1>2, <1>3 DEF NetWalk

LEMMA DotNetEnds ==
  ASSUME given.buf.physical \in Int, NEW p \in Int, NEW end \in DN!StringEnds(DN!Buf, p, 1, DN!Unlimited)
  PROVE  end \in Int /\ DN!RoundUp(end, 4) \in Int
<1>1. CASE end \in DN!PhysicalEnds(DN!Buf, p, 1, DN!Unlimited)
  <2>1. end \in Int
    BY <1>1 DEF DN!PhysicalEnds, DN!Buf
  <2> QED BY <2>1 DEF DN!RoundUp
<1>2. CASE end \in DN!VirtualEnds(DN!Buf, p, 1, DN!Unlimited)
  <2> DEFINE whole == IF p >= DN!Buf.physical THEN 0 ELSE (DN!Buf.physical - p) \div 1
  <2>1. whole \in Int
    BY DEF DN!Buf
  <2>2. end \in {p + (whole + 1) * 1, p + (whole + 2) * 1}
    BY <1>2 DEF DN!VirtualEnds
  <2> HIDE DEF whole
  <2>3. end \in Int
    BY <2>1, <2>2
  <2> QED BY <2>3 DEF DN!RoundUp
<1> QED BY <1>1, <1>2 DEF DN!StringEnds

LEMMA DotNetStart == DN!Init => DotNetInv
<1> SUFFICES ASSUME DN!Init PROVE DotNetInv
  OBVIOUS
<1>1. given.regions \in [1 .. 3 -> DN!Places] /\ given.buf.physical \in Int /\ given.buf.size \in Nat
  <2>1. CASE given \in [descriptor : BOOLEAN, same : BOOLEAN, known : BOOLEAN, regions : [1 .. 3 -> DN!Places],
                  allow : BOOLEAN, streams : BOOLEAN,
                  buf : {[size |-> 0, physical |-> 0, virtual |-> FALSE]}]
    BY <2>1
  <2>2. CASE given \in [descriptor : {TRUE}, same : {TRUE}, known : {TRUE},
                  regions : {[i \in 1 .. 3 |-> IF i = 1 THEN "inside" ELSE "empty"]},
                  allow : BOOLEAN, streams : BOOLEAN,
                  buf : [size : MetadataSizes, physical : MetadataSizes, virtual : BOOLEAN]]
    <3>1. given.regions = [i \in 1 .. 3 |-> IF i = 1 THEN "inside" ELSE "empty"]
          /\ given.buf \in [size : MetadataSizes, physical : MetadataSizes, virtual : BOOLEAN]
      BY <2>2
    <3>2. given.regions \in [1 .. 3 -> DN!Places]
      BY <3>1 DEF DN!Places
    <3>3. given.buf.physical \in MetadataSizes /\ given.buf.size \in MetadataSizes
      BY <3>1
    <3>4. MetadataSizes \subseteq Nat
      BY DirectoriesAssumption DEF DirectoriesAssumption
    <3>5. given.buf.physical \in Nat /\ given.buf.size \in Nat
      BY <3>3, <3>4, Zenon
    <3> QED BY <3>2, <3>5
  <2> QED BY <2>1, <2>2 DEF DN!Init
<1>2. /\ pc = "descriptor" /\ errors = {}
      /\ walk = [pos |-> 0, left |-> 0, names |-> {}, todo |-> 1, version |-> 0]
      /\ result = [loaded |-> {}, streams |-> <<>>]
  BY DEF DN!Init
<1>3. walk \in NetWalk /\ walk.todo = 1
  BY <1>2 DEF NetWalk
<1>4. result \in NetResult /\ result.loaded = {} /\ result.streams = <<>>
  BY <1>2 DEF NetResult
<1>5. DN!NamesDistinct /\ DN!OnlyLastUnread
  BY <1>4 DEF DN!NamesDistinct, DN!OnlyLastUnread
<1> QED BY <1>1, <1>2, <1>3, <1>4, <1>5 DEF DotNetInv

\* A stream that comes to the list, read or not.
LEMMA DotNetAdds ==
  ASSUME DotNetInv, pc = "streams", NEW new \in NetStream,
         result' = [result EXCEPT !.streams = Append(@, new)],
         new.at = walk.pos, given' = given,
         errors' = errors \cup (IF new.name \in walk.names THEN {"duplicate_stream_names"} ELSE {})
  PROVE  /\ result' \in NetResult /\ result'.loaded = result.loaded
         /\ result'.streams = Append(result.streams, new)
         /\ Len(result'.streams) = Len(result.streams) + 1
         /\ DOMAIN result'.streams = 1 .. Len(result.streams) + 1
         /\ result'.streams[Len(result.streams) + 1] = new
         /\ \A i \in 1 .. Len(result.streams) : result'.streams[i] = result.streams[i]
         /\ \A i \in 1 .. Len(result'.streams) - 1 : result'.streams[i].end = result'.streams[i + 1].at
         /\ DN!NamesDistinct'
         /\ errors' = {} => errors = {}
<1> DEFINE list == result.streams
<1>1. list \in Seq(NetStream) /\ Len(list) \in Nat /\ result \in NetResult /\ DOMAIN list = 1 .. Len(list)
  BY DotNetTypes DEF DotNetInv
<1>2. /\ Append(list, new) \in Seq(NetStream) /\ Len(Append(list, new)) = Len(list) + 1
      /\ DOMAIN Append(list, new) = 1 .. Len(list) + 1
      /\ Append(list, new)[Len(list) + 1] = new
      /\ \A i \in 1 .. Len(list) : Append(list, new)[i] = list[i]
  BY <1>1, Appended
<1>3. result' \in NetResult /\ result'.loaded = result.loaded /\ result'.streams = Append(list, new)
  BY <1>1, <1>2 DEF NetResult
<1>4. /\ list # <<>> => list[Len(list)].end = walk.pos
      /\ \A i \in DOMAIN list : list[i].name \in walk.names
      /\ \A i \in 1 .. Len(list) - 1 : list[i].end = list[i + 1].at
      /\ DN!NamesDistinct /\ walk.names \in SUBSET {"#~", "#US"}
  BY DotNetTypes DEF DotNetInv
<1>5. list = <<>> => Len(list) = 0
  OBVIOUS
<1> HIDE DEF list
<1>6. \A i \in 1 .. Len(result'.streams) - 1 : result'.streams[i].end = result'.streams[i + 1].at
  <2> SUFFICES ASSUME NEW i \in 1 .. Len(list) PROVE Append(list, new)[i].end = Append(list, new)[i + 1].at
    BY <1>1, <1>2, <1>3
  <2>1. Append(list, new)[i] = list[i] /\ new.at = walk.pos
    BY <1>2
  <2>2. CASE i = Len(list)
    <3>1. Append(list, new)[i + 1] = new /\ list # <<>>
      BY <2>2, <1>1, <1>2, <1>5
    <3> QED BY <2>1, <2>2, <3>1, <1>4
  <2>3. CASE i < Len(list)
    <3>1. i + 1 \in 1 .. Len(list) /\ i \in 1 .. Len(list) - 1
      BY <2>3, <1>1
    <3>2. Append(list, new)[i + 1] = list[i + 1] /\ list[i].end = list[i + 1].at
      BY <3>1, <1>2, <1>4
    <3> QED BY <2>1, <3>2
  <2> QED BY <2>2, <2>3, <1>1
<1>7. DN!NamesDistinct'
  <2>1. CASE "duplicate_stream_names" \in errors'
    BY <2>1 DEF DN!NamesDistinct
  <2>2. CASE "duplicate_stream_names" \notin errors'
    <3>1. new.name \notin walk.names /\ "duplicate_stream_names" \notin errors
      BY <2>2
    <3>2. \A i, j \in DOMAIN list : list[i].name = list[j].name => i = j \/ list[i].name = "none"
      BY <3>1, <1>4 DEF DN!NamesDistinct, list
    <3>3. \A i, j \in DOMAIN result'.streams :
            result'.streams[i].name = result'.streams[j].name => i = j \/ result'.streams[i].name = "none"
      BY <1>1, <1>2, <1>3, <1>4, <3>1, <3>2
    <3> QED BY <3>3 DEF DN!NamesDistinct
  <2> QED BY <2>1, <2>2
<1> QED BY <1>2, <1>3, <1>6, <1>7 DEF list

LEMMA DotNetStep == ASSUME DotNetInv, DN!Next PROVE DotNetInv'
<1> DEFINE list == result.streams
           n == Len(result.streams)
<1>t. /\ walk.pos \in Int /\ walk.left \in Int /\ walk.names \in SUBSET {"#~", "#US"}
      /\ walk.todo \in Int /\ walk.version \in Int /\ walk \in NetWalk /\ result \in NetResult
      /\ list \in Seq(NetStream) /\ n \in Nat /\ DOMAIN list = 1 .. n
  BY DotNetTypes DEF DotNetInv
<1>g. given' = given
  BY DEF DN!Next, DN!DescriptorUnread, DN!ReadDescriptor, DN!LoadRegion, DN!RegionsLoaded, DN!HeaderUnread,
         DN!ReadVersion, DN!FooterUnread, DN!ReadFooter, DN!StreamUnread, DN!ReadStream, DN!ReadData,
         DN!StreamsEnd, DN!Fail
<1>n. ASSUME NEW k PROVE NamedRegions(k)' = NamedRegions(k')
  BY <1>g DEF NamedRegions
<1>f. ASSUME NEW e, DN!Fail(e), pc # "data" PROVE DotNetInv'
  <2>1. pc' = "done" /\ UNCHANGED <<given, walk, result>> /\ errors' = errors \cup {e} /\ errors' # {} /\ errors \subseteq errors'
    BY <1>f DEF DN!Fail, DN!Report
  <2>2. DN!NamesDistinct'
    BY <2>1 DEF DotNetInv, DN!NamesDistinct
  <2>3. DN!OnlyLastUnread'
    BY <2>1 DEF DotNetInv, DN!OnlyLastUnread, DN!LastRead
  <2>4. NamedRegions(3)' = NamedRegions(3)
    BY <1>g DEF NamedRegions
  <2> QED BY <2>1, <2>2, <2>3, <2>4, <1>f DEF DotNetInv
<1>1. CASE DN!DescriptorUnread
  BY <1>1, <1>f DEF DN!DescriptorUnread
<1>2. CASE DN!ReadDescriptor
  <2>1. pc = "descriptor" /\ pc' = "regions" /\ UNCHANGED <<given, walk, result>> /\ errors \subseteq errors'
    BY <1>2 DEF DN!ReadDescriptor, DN!Report
  <2>2. NamedRegions(walk.todo - 1)' = {} /\ walk.todo = 1 /\ result.loaded = {} /\ result.streams = <<>>
    BY <2>1 DEF NamedRegions, DotNetInv
  <2>3. DN!NamesDistinct' /\ DN!OnlyLastUnread'
    BY <2>1, <2>2 DEF DN!NamesDistinct, DN!OnlyLastUnread
  <2> QED BY <2>1, <2>2, <2>3 DEF DotNetInv
<1>3. CASE DN!LoadRegion
  <2> DEFINE todo == walk.todo
             place == given.regions[todo]
             name == DN!Regions[todo]
  <2>1. /\ pc = "regions" /\ pc' = "regions" /\ todo <= 3 /\ walk' = [walk EXCEPT !.todo = @ + 1]
        /\ errors' = errors \cup (CASE place = "empty" -> IF name = "metadata" THEN {"empty_metadata"} ELSE {}
                   [] place = "outside" -> {DN!Unable[name]}
                   [] place = "virtual" -> IF given.allow THEN {} ELSE {DN!Virtual[name]}
                   [] place = "inside" -> {})
        /\ result' = IF place \in {"inside", "virtual"}
                    THEN [result EXCEPT !.loaded = @ \cup {name}] ELSE result
    BY <1>3 DEF DN!LoadRegion, DN!Report
  <2>2. todo \in 1 .. 3 /\ (errors = {} => result.loaded = NamedRegions(todo - 1)) /\ result.streams = <<>>
    BY <2>1 DEF DotNetInv
  <2>3. place \in {"empty", "inside", "virtual", "outside"}
    BY <2>2 DEF DotNetInv, DN!Places
  <2>4. name \in {"metadata", "resources", "strong_name_signature"}
    BY <2>2 DEF DN!Regions
  <2>5. walk' \in NetWalk /\ walk'.todo = todo + 1
    BY <2>1, <1>t DEF NetWalk
  <2> HIDE DEF name
  <2>6. /\ errors' = {} => errors = {} /\ place # "outside"
        /\ errors \subseteq errors'
    BY <2>1, <2>3
  <2>7. /\ result' \in NetResult /\ result'.streams = <<>>
        /\ place \in {"inside", "virtual"} => result'.loaded = result.loaded \cup {name}
        /\ place \notin {"inside", "virtual"} => result'.loaded = result.loaded
    BY <2>1, <2>2, <2>4, <1>t DEF NetResult
  <2>8. place # "empty" => NamedRegions(todo) = NamedRegions(todo - 1) \cup {name}
    <3> SUFFICES ASSUME place # "empty" PROVE NamedRegions(todo) = NamedRegions(todo - 1) \cup {name}
      OBVIOUS
    <3>1. \A j : j \in 1 .. todo <=> j \in 1 .. todo - 1 \/ j = todo
      BY <2>2
    <3> QED BY <3>1 DEF NamedRegions, name
  <2>9. place = "empty" => NamedRegions(todo) = NamedRegions(todo - 1)
    <3> SUFFICES ASSUME place = "empty" PROVE NamedRegions(todo) = NamedRegions(todo - 1)
      OBVIOUS
    <3>1. \A j : j \in 1 .. todo <=> j \in 1 .. todo - 1 \/ j = todo
      BY <2>2
    <3> QED BY <3>1 DEF NamedRegions
  <2>10. errors' = {} => result'.loaded = NamedRegions(todo)
    BY <2>2, <2>3, <2>6, <2>7, <2>8, <2>9
  <2>11. (NamedRegions(walk.todo - 1))' = NamedRegions(todo)
    <3>1. (walk.todo - 1)' = todo
      BY <2>2, <2>5
    <3> QED BY <3>1, <1>g DEF NamedRegions
  <2>12. DN!NamesDistinct' /\ DN!OnlyLastUnread'
    BY <2>7 DEF DN!NamesDistinct, DN!OnlyLastUnread
  <2>13. (pc = "regions" => walk.todo \in 1 .. 4 /\ (errors = {} => result.loaded = NamedRegions(walk.todo - 1)))'
    BY <2>2, <2>5, <2>10, <2>11
  <2>14. (/\ DN!NamesDistinct /\ DN!OnlyLastUnread
          /\ \A i \in DOMAIN result.streams :
              result.streams[i].errors = {} /\ ~(pc = "data" /\ i = Len(result.streams)) => result.streams[i].data # <<>>
          /\ \A i \in 1 .. Len(result.streams) - 1 : result.streams[i].end = result.streams[i + 1].at)'
    BY <2>7, <2>12
  <2> QED BY <2>1, <2>5, <2>7, <2>13, <2>14, <1>g DEF DotNetInv
<1>4. CASE DN!RegionsLoaded
  <2>1. /\ pc = "regions" /\ walk.todo = 4 /\ UNCHANGED <<given, walk, result, errors>>
        /\ pc' = IF given.buf.size > 0 THEN "header" ELSE "done"
    BY <1>4 DEF DN!RegionsLoaded
  <2>2. result.streams = <<>> /\ (errors = {} => result.loaded = NamedRegions(3)) /\ NamedRegions(3)' = NamedRegions(3)
    <3>1. 4 - 1 = 3
      OBVIOUS
    <3> QED BY <2>1, <3>1 DEF DotNetInv, NamedRegions
  <2>3. DN!NamesDistinct' /\ DN!OnlyLastUnread'
    BY <2>1, <2>2 DEF DN!NamesDistinct, DN!OnlyLastUnread
  <2> QED BY <2>1, <2>2, <2>3 DEF DotNetInv
<1>5. CASE DN!HeaderUnread
  BY <1>5, <1>f DEF DN!HeaderUnread
<1>6. CASE DN!ReadVersion
  <2>1. pc = "header" /\ UNCHANGED <<given, result>> /\ errors \subseteq errors'
    BY <1>6 DEF DN!ReadVersion, DN!Report
  <2>2. \/ pc' = "done" /\ UNCHANGED walk /\ errors' # {}
        \/ /\ pc' = "footer"
           /\ \E length \in Nat : walk' = [walk EXCEPT !.pos = length]
    <3>1. PICK length \in {0, 3, 4, DN!MaxVersionLength, DN!MaxVersionLength + 1} :
        \/ /\ DN!Report({"too_long_runtime_version_string"} \cup DN!Alignment(length))
           /\ pc' = "done" /\ UNCHANGED walk
        \/ /\ DN!Report({"unable_to_deserialize_runtime_version"} \cup DN!Alignment(length))
           /\ pc' = "done" /\ UNCHANGED walk
        \/ /\ walk' = [walk EXCEPT !.pos = DN!HeaderSize + length]
           /\ pc' = "footer"
      BY <1>6 DEF DN!ReadVersion
    <3>2. DN!HeaderSize + length \in Nat
      BY DEF DN!HeaderSize, DN!MaxVersionLength
    <3> QED BY <3>1, <3>2 DEF DN!Report
  <2>3. result.streams = <<>> /\ (errors = {} => result.loaded = NamedRegions(3)) /\ NamedRegions(3)' = NamedRegions(3)
    BY <2>1 DEF DotNetInv, NamedRegions
  <2>4. walk' \in NetWalk
    BY <2>2, <1>t DEF NetWalk
  <2>5. DN!NamesDistinct' /\ DN!OnlyLastUnread'
    BY <2>1, <2>3 DEF DN!NamesDistinct, DN!OnlyLastUnread
  <2> QED BY <2>1, <2>2, <2>3, <2>4, <2>5 DEF DotNetInv
<1>7. CASE DN!FooterUnread
  BY <1>7, <1>f DEF DN!FooterUnread
<1>8. CASE DN!ReadFooter
  <2>1. /\ pc = "footer" /\ UNCHANGED <<given, result, errors>>
        /\ IF given.streams
           THEN \E count \in 0 .. MaxStreams :
                /\ walk' = [walk EXCEPT !.pos = @ + 4, !.left = count, !.version = count]
                /\ pc' = "streams"
           ELSE pc' = "done" /\ UNCHANGED walk
    BY <1>8 DEF DN!ReadFooter, DN!FooterSize
  <2>2. result.streams = <<>> /\ (errors = {} => result.loaded = NamedRegions(3)) /\ NamedRegions(3)' = NamedRegions(3)
    BY <2>1 DEF DotNetInv, NamedRegions
  <2>s. result'.streams = <<>>
    BY <2>1, <2>2
  <2>3. DN!NamesDistinct' /\ DN!OnlyLastUnread'
    BY <2>s DEF DN!NamesDistinct, DN!OnlyLastUnread
  <2>4. Len(result.streams) = 0
    BY <2>2
  <2>5. CASE given.streams
    <3>1. PICK count \in 0 .. MaxStreams : walk' = [walk EXCEPT !.pos = walk.pos + 4, !.left = count, !.version = count]
      BY <2>1, <2>5
    <3>2. walk.pos + 4 \in Int /\ count \in Int
      BY <1>t, DirectoriesAssumption DEF DirectoriesAssumption
    <3>3. walk' \in NetWalk
      BY <3>1, <3>2, <1>t, Zenon DEF NetWalk
    <3>4. walk'.left = count /\ walk'.version = count
      BY <3>1, <1>t DEF NetWalk
    <3>5. walk'.version = walk'.left + Len(result'.streams)
      <4>1. Len(result'.streams) = 0
        BY <2>s
      <4> QED BY <4>1, <3>2, <3>4
    <3>6. pc' = "streams" /\ UNCHANGED <<given, result, errors>>
      BY <2>1, <2>5
    <3> QED BY <3>6, <2>2, <2>3, <2>s, <3>3, <3>5, <1>t DEF DotNetInv
  <2>6. CASE ~given.streams
    BY <2>1, <2>2, <2>3, <2>4, <2>6 DEF DotNetInv
  <2> QED BY <2>5, <2>6
<1>9. CASE DN!StreamUnread
  <2>1. PICK name \in {"none", "#~", "#US"} :
          /\ result' = [result EXCEPT !.streams =
                Append(@, DN!Stream(name, 0, {"unable_to_deserialize_stream_header"}))]
          /\ errors' = errors \cup (IF name \in walk.names THEN {"duplicate_stream_names"} ELSE {})
    BY <1>9 DEF DN!StreamUnread, DN!Report
  <2>2. pc = "streams" /\ pc' = "done" /\ walk' = walk
    BY <1>9 DEF DN!StreamUnread
  <2> DEFINE new == [name |-> name, at |-> walk.pos, end |-> 0, data |-> <<>>,
                     errors |-> {"unable_to_deserialize_stream_header"}]
  <2>3. new \in NetStream
    <3>1. <<>> \in Seq(Int) /\ {"unable_to_deserialize_stream_header"} \in SUBSET StreamErrors
      BY DEF StreamErrors
    <3> QED BY <3>1, <1>t DEF NetStream
  <2>4. new.at = walk.pos /\ new.name = name /\ "unable_to_deserialize_stream_header" \in new.errors
    OBVIOUS
  <2>5. result' = [result EXCEPT !.streams = Append(@, new)]
    BY <2>1 DEF DN!Stream
  <2> HIDE DEF new
  <2>6. /\ result' \in NetResult /\ result'.loaded = result.loaded
        /\ Len(result'.streams) = n + 1 /\ DOMAIN result'.streams = 1 .. n + 1
        /\ result'.streams[n + 1] = new
        /\ \A i \in 1 .. n : result'.streams[i] = list[i]
        /\ \A i \in 1 .. Len(result'.streams) - 1 : result'.streams[i].end = result'.streams[i + 1].at
        /\ DN!NamesDistinct' /\ (errors' = {} => errors = {})
    BY <2>1, <2>2, <2>3, <2>4, <2>5, <1>g, DotNetAdds
  <2>7. \A i \in 1 .. n : /\ "unable_to_deserialize_stream_header" \notin list[i].errors
                          /\ list[i].errors = {} => list[i].data # <<>>
    BY <2>2, <1>t DEF DotNetInv
  <2> HIDE DEF list, n
  <2>8. DN!OnlyLastUnread'
    BY <2>2, <2>6, <2>7, <1>t DEF DN!OnlyLastUnread, DN!LastRead
  <2>9. \A i \in DOMAIN result'.streams : result'.streams[i].errors = {} => result'.streams[i].data # <<>>
    BY <2>4, <2>6, <2>7, <1>t
  <2>10. NamedRegions(3)' = NamedRegions(3) /\ (errors = {} => result.loaded = NamedRegions(3))
    BY <2>2, <1>g DEF DotNetInv, NamedRegions
  <2>11. \E i \in DOMAIN result'.streams : result'.streams[i].errors # {}
    <3>1. n + 1 \in DOMAIN result'.streams
      BY <2>6, <1>t
    <3> QED BY <3>1, <2>4, <2>6
  <2> QED BY <2>2, <2>6, <2>8, <2>9, <2>10, <2>11, <1>g, <1>t DEF DotNetInv
<1>10. CASE DN!ReadStream
  <2>1. PICK name \in {"#~", "#US"}, end \in DN!StringEnds(DN!Buf, walk.pos + DN!StreamHeaderSize, 1, DN!Unlimited) :
          /\ result' = [result EXCEPT !.streams = Append(@, DN!Stream(name, DN!RoundUp(end, 4), {}))]
          /\ errors' = errors \cup (IF name \in walk.names THEN {"duplicate_stream_names"} ELSE {})
          /\ walk' = [walk EXCEPT !.pos = DN!RoundUp(end, 4), !.left = @ - 1, !.names = @ \cup {name}]
    BY <1>10 DEF DN!ReadStream, DN!Report
  <2>2. pc = "streams" /\ pc' = "data"
    BY <1>10 DEF DN!ReadStream
  <2> DEFINE p == DN!RoundUp(end, 4)
             new == [name |-> name, at |-> walk.pos, end |-> p, data |-> <<>>, errors |-> {}]
  <2>3. p \in Int
    <3>1. walk.pos + DN!StreamHeaderSize \in Int /\ given.buf.physical \in Int
      BY <1>t DEF DN!StreamHeaderSize, DotNetInv
    <3> QED BY <3>1, DotNetEnds
  <2>4. result' = [result EXCEPT !.streams = Append(@, new)]
    BY <2>1 DEF DN!Stream
  <2> HIDE DEF p
  <2>5. new \in NetStream
    <3>1. <<>> \in Seq(Int) /\ {} \in SUBSET StreamErrors
      OBVIOUS
    <3> QED BY <3>1, <2>3, <1>t DEF NetStream
  <2>6. new.at = walk.pos /\ new.name = name /\ new.errors = {} /\ new.end = p
    OBVIOUS
  <2> HIDE DEF new
  <2>7. /\ result' \in NetResult /\ result'.loaded = result.loaded
        /\ Len(result'.streams) = n + 1 /\ DOMAIN result'.streams = 1 .. n + 1
        /\ result'.streams[n + 1] = new
        /\ \A i \in 1 .. n : result'.streams[i] = list[i]
        /\ \A i \in 1 .. Len(result'.streams) - 1 : result'.streams[i].end = result'.streams[i + 1].at
        /\ DN!NamesDistinct' /\ (errors' = {} => errors = {})
    BY <2>1, <2>2, <2>4, <2>5, <2>6, <1>g, DotNetAdds
  <2>8. /\ \A i \in 1 .. n : /\ "unable_to_deserialize_stream_header" \notin list[i].errors
                             /\ list[i].errors = {} => list[i].data # <<>>
                             /\ list[i].name \in walk.names
        /\ walk.version = walk.left + n
    BY <2>2, <1>t DEF DotNetInv
  <2> HIDE DEF list, n
  <2>9. walk' = [walk EXCEPT !.pos = p, !.left = walk.left - 1, !.names = walk.names \cup {name}]
    BY <2>1 DEF p
  <2>10. walk' \in NetWalk
    <3>1. walk.left - 1 \in Int /\ walk.names \cup {name} \in SUBSET {"#~", "#US"}
      BY <1>t
    <3> QED BY <3>1, <2>3, <2>9, <1>t, Zenon DEF NetWalk
  <2>11. walk'.pos = p /\ walk'.left = walk.left - 1 /\ walk'.names = walk.names \cup {name} /\ walk'.version = walk.version
    BY <2>9, <1>t DEF NetWalk
  <2>12. DN!OnlyLastUnread'
    BY <2>6, <2>7, <2>8, <1>t DEF DN!OnlyLastUnread, DN!LastRead
  <2>13. \A i \in DOMAIN result'.streams : /\ result'.streams[i].name \in walk'.names
                                           /\ "unable_to_deserialize_stream_header" \notin result'.streams[i].errors
                                           /\ result'.streams[i].errors = {} /\ i # n + 1 => result'.streams[i].data # <<>>
    <3> SUFFICES ASSUME NEW i \in DOMAIN result'.streams
                 PROVE  /\ result'.streams[i].name \in walk'.names
                        /\ "unable_to_deserialize_stream_header" \notin result'.streams[i].errors
                        /\ result'.streams[i].errors = {} /\ i # n + 1 => result'.streams[i].data # <<>>
      OBVIOUS
    <3>1. CASE i = n + 1
      BY <3>1, <2>6, <2>7, <2>11
    <3>2. CASE i # n + 1
      <4>1. i \in 1 .. n
        BY <3>2, <2>7, <1>t
      <4> QED BY <4>1, <2>7, <2>8, <2>11
    <3> QED BY <3>1, <3>2
  <2>14. NamedRegions(3)' = NamedRegions(3) /\ (errors = {} => result.loaded = NamedRegions(3))
    BY <2>2, <1>g DEF DotNetInv, NamedRegions
  <2>15. /\ walk'.version = walk'.left + Len(result'.streams) /\ result'.streams # <<>>
         /\ result'.streams[Len(result'.streams)].end = walk'.pos
    <3>0. /\ Len(result'.streams) = n + 1 /\ walk.version = walk.left + n
          /\ walk'.left = walk.left - 1 /\ walk'.version = walk.version
          /\ walk.left \in Int /\ n \in Nat
      BY <2>7, <2>8, <2>11, <1>t
    <3>1. walk'.version = walk'.left + Len(result'.streams)
      BY <3>0
    <3>2. result'.streams # <<>>
      <4>1. Len(<<>>) = 0 /\ n + 1 # 0
        BY <1>t
      <4> QED BY <4>1, <2>7
    <3> QED BY <3>1, <3>2, <2>6, <2>7, <2>11
  <2> QED BY <2>2, <2>7, <2>10, <2>12, <2>13, <2>14, <2>15, <1>g, <1>t DEF DotNetInv
<1>11. CASE DN!ReadData
  <2>1. pc = "data" /\ pc' = "streams" /\ UNCHANGED <<given, walk, errors>>
    BY <1>11 DEF DN!ReadData
  <2>2. PICK offset \in {0, 20, DN!Buf.size}, size \in {0, 4} :
          result' = [result EXCEPT !.streams[DN!LastRead] =
            IF offset + size <= DN!Buf.size THEN [@ EXCEPT !.data = <<offset, size>>]
            ELSE [@ EXCEPT !.errors = {"unable_to_deserialize_stream_data"}]]
    BY <1>11 DEF DN!ReadData
  <2>3. n \in DOMAIN list /\ n >= 1
    <3>1. list # <<>>
      BY <2>1 DEF DotNetInv
    <3>2. Len(list) # 0
      BY <3>1, <1>t
    <3> QED BY <3>2, <1>t
  <2> DEFINE old == list[n]
             new == IF offset + size <= DN!Buf.size THEN [old EXCEPT !.data = <<offset, size>>]
                    ELSE [old EXCEPT !.errors = {"unable_to_deserialize_stream_data"}]
  <2>4. result' = [result EXCEPT !.streams = [list EXCEPT ![n] = new]]
    BY <2>2, <1>t DEF NetResult, DN!LastRead
  <2>5. old \in NetStream
    BY <2>3, <1>t
  <2>6. "unable_to_deserialize_stream_header" \notin old.errors
    BY <2>1, <2>3 DEF DotNetInv
  <2> HIDE DEF old
  <2>7. /\ new \in NetStream /\ new.name = old.name /\ new.at = old.at /\ new.end = old.end
        /\ "unable_to_deserialize_stream_header" \notin new.errors
        /\ new.errors = {} => new.data # <<>>
    <3>1. CASE offset + size <= DN!Buf.size
      <4>1. <<offset, size>> \in Seq(Int) /\ <<offset, size>> # <<>>
        <5>1. offset \in Int /\ size \in Int
          BY DEF DotNetInv, DN!Buf
        <5> QED BY <5>1
      <4> DEFINE d == <<offset, size>>
      <4>2. new = [old EXCEPT !.data = d]
        BY <3>1
      <4> HIDE DEF d, new
      <4>3. d \in Seq(Int) /\ d # <<>>
        BY <4>1 DEF d
      <4>4. new \in NetStream
        BY <4>2, <4>3, <2>5, Zenon DEF NetStream
      <4>5. new.name = old.name /\ new.at = old.at /\ new.end = old.end /\ new.errors = old.errors /\ new.data = d
        BY <4>2, <2>5 DEF NetStream
      <4> QED BY <4>3, <4>4, <4>5, <2>6
    <3>2. CASE ~(offset + size <= DN!Buf.size)
      <4>2. new = [old EXCEPT !.errors = {"unable_to_deserialize_stream_data"}]
        BY <3>2
      <4> HIDE DEF new
      <4>3. {"unable_to_deserialize_stream_data"} \in SUBSET StreamErrors
        BY DEF StreamErrors
      <4>4. new \in NetStream
        BY <4>2, <4>3, <2>5, Zenon DEF NetStream
      <4>5. new.name = old.name /\ new.at = old.at /\ new.end = old.end
            /\ new.errors = {"unable_to_deserialize_stream_data"}
        BY <4>2, <2>5 DEF NetStream
      <4> QED BY <4>4, <4>5
    <3> QED BY <3>1, <3>2
  <2> HIDE DEF new
  <2> DEFINE next == [list EXCEPT ![n] = new]
  <2>8. /\ next \in Seq(NetStream) /\ Len(next) = n /\ DOMAIN next = 1 .. n
        /\ next[n] = new /\ \A i \in 1 .. n : i # n => next[i] = list[i]
    BY <2>3, <2>7, <1>t
  <2>9. \A i \in 1 .. n : next[i].name = list[i].name /\ next[i].at = list[i].at /\ next[i].end = list[i].end
    BY <2>7, <2>8 DEF old
  <2>10. /\ list[n].end = walk.pos
         /\ \A i \in 1 .. n : /\ list[i].name \in walk.names
                              /\ "unable_to_deserialize_stream_header" \notin list[i].errors
                              /\ list[i].errors = {} /\ i # n => list[i].data # <<>>
         /\ \A i \in 1 .. n - 1 : list[i].end = list[i + 1].at
         /\ walk.version = walk.left + n
    BY <2>1, <2>3, <1>t DEF DotNetInv
  <2> HIDE DEF next
  <2>11. result' \in NetResult /\ result'.streams = next /\ result'.loaded = result.loaded
    <3>1. result' = [result EXCEPT !.streams = next]
      BY <2>4 DEF next
    <3> QED BY <3>1, <2>8, <1>t DEF NetResult
  <2>12. DN!NamesDistinct'
    <3>1. DN!NamesDistinct
      BY DEF DotNetInv
    <3>2. CASE "duplicate_stream_names" \in errors
      BY <3>2, <2>1 DEF DN!NamesDistinct
    <3>3. CASE \A i, j \in DOMAIN list : list[i].name = list[j].name => i = j \/ list[i].name = "none"
      BY <3>3, <2>8, <2>9, <2>11, <1>t DEF DN!NamesDistinct
    <3> QED BY <3>1, <3>2, <3>3 DEF DN!NamesDistinct
  <2> HIDE DEF list, n
  <2>13. \A i \in 1 .. n : /\ next[i].name \in walk.names
                           /\ "unable_to_deserialize_stream_header" \notin next[i].errors
                           /\ next[i].errors = {} => next[i].data # <<>>
    BY <2>7, <2>8, <2>9, <2>10
  <2>14. DN!OnlyLastUnread'
    BY <2>8, <2>11, <2>13 DEF DN!OnlyLastUnread
  <2>15. \A i \in 1 .. n - 1 : next[i].end = next[i + 1].at
    <3> SUFFICES ASSUME NEW i \in 1 .. n - 1 PROVE next[i].end = next[i + 1].at
      OBVIOUS
    <3>1. i \in 1 .. n /\ i + 1 \in 1 .. n
      BY <1>t
    <3> QED BY <3>1, <2>9, <2>10
  <2>16. next[n].end = walk.pos
    BY <2>3, <2>9, <2>10, <1>t
  <2>17. NamedRegions(3)' = NamedRegions(3) /\ (errors = {} => result.loaded = NamedRegions(3))
    BY <2>1, <1>g DEF DotNetInv, NamedRegions
  <2> QED BY <2>1, <2>8, <2>10, <2>11, <2>12, <2>13, <2>14, <2>15, <2>16, <2>17, <1>g, <1>t DEF DotNetInv
<1>12. CASE DN!StreamsEnd
  <2>1. pc = "streams" /\ walk.left = 0 /\ pc' = "done" /\ UNCHANGED <<given, walk, result, errors>>
    BY <1>12 DEF DN!StreamsEnd
  <2>2. walk.version = n
    BY <2>1, <1>t DEF DotNetInv
  <2>3. DN!NamesDistinct' /\ DN!OnlyLastUnread'
    BY <2>1 DEF DotNetInv, DN!NamesDistinct, DN!OnlyLastUnread
  <2>4. NamedRegions(3)' = NamedRegions(3)
    BY <1>g DEF NamedRegions
  <2> QED BY <2>1, <2>2, <2>3, <2>4 DEF DotNetInv
<1> QED BY <1>1, <1>2, <1>3, <1>4, <1>5, <1>6, <1>7, <1>8, <1>9, <1>10, <1>11, <1>12 DEF DN!Next

\* Without an error the metadata have all of their regions and streams, one behind the other.
LEMMA DotNetWhole == DotNetInv => DN!MetadataWhole
<1> SUFFICES ASSUME DotNetInv PROVE DN!MetadataWhole
  OBVIOUS
<1>1. DN!AllErrors = {} => errors = {} /\ \A i \in DOMAIN result.streams : result.streams[i].errors = {}
  BY DEF DN!AllErrors
<1>2. DN!StreamsWhole
  <2> SUFFICES ASSUME pc = "done", errors = {}, \A i \in DOMAIN result.streams : result.streams[i].errors = {}
               PROVE  /\ result.loaded = NamedRegions(3)
                      /\ given.buf.size > 0 /\ given.streams => Len(result.streams) = walk.version
                      /\ \A i \in DOMAIN result.streams : result.streams[i].data # <<>>
                      /\ \A i \in 1 .. Len(result.streams) - 1 : result.streams[i].end = result.streams[i + 1].at
    BY <1>1 DEF DN!StreamsWhole, NamedRegions, DN!LastRead
  <2> QED BY DEF DotNetInv
<1> QED BY <1>2 DEF DotNetInv, DN!MetadataWhole

-----------------------------------------------------------------------------
(* The tables of the load configuration. *)

PartNames == {"memcpy_pointer", "cast_guard", "xf_guard", "ehcont", "volatile_access",
              "volatile_range", "enclave", "chpe", "export_suppression", "longjump",
              "cf_functions", "safeseh", "lock_prefix", "security_cookie"}
PartIndex == [memcpy_pointer |-> 1, cast_guard |-> 2, xf_guard |-> 3, ehcont |-> 4,
              volatile_access |-> 5, volatile_range |-> 6, enclave |-> 7, chpe |-> 8,
              export_suppression |-> 9, longjump |-> 10, cf_functions |-> 11, safeseh |-> 12,
              lock_prefix |-> 13, security_cookie |-> 14]
TableNotes == {"invalid_extra_data", "invalid_name", "invalid_target", "hash", "invalid_hash"}
TableEntry == [rva : Nat, at : Int, xfg : BOOLEAN, notes : SUBSET TableNotes]
TableCursor == [at : Int, left : Int, prev : Int, sorted : BOOLEAN]

IsPrefixes == LC!Part = "lock_prefix"
IsCf == LC!Part \in LC!CfTables
EntryBytes == LC!EntrySize(LC!Part)
Counted == LC!EntryCount(LC!Part)
CountIsCut == LC!Clamped(LC!Part)
TableNamed == LC!Part \in LC!Tables /\ LC!Looked(LC!Part)

InPlace(list) == \A i \in DOMAIN list :
    list[i].at = given.va + (i - 1) * EntryBytes /\ list[i].at + EntryBytes <= VaMax
InOrder(list) == \A i, j \in DOMAIN list : i < j => list[i].rva <= list[j].rva
UpTo(list, rva) == \A i \in DOMAIN list : list[i].rva <= rva
AllOf(list) == (IsPrefixes \/ Len(list) = Counted) /\ (IsCf => InOrder(list))

\* No entry before the part is reached; in the table, what was read and what is left are
\* what was counted, or the limit, which is reported; and behind it the table is whole if
\* nothing is reported.
LoadConfigInv ==
    /\ given \in Headers
    /\ pc \in {"descriptor", "entries", "hashes", "done"} \cup PartNames
    /\ walk \in TableCursor /\ result \in Seq(TableEntry)
    /\ InPlace(result)
    /\ IsPrefixes \/ Len(result) <= MaxEntries
    /\ pc = "descriptor" => result = <<>>
    /\ pc \in PartNames =>
        IF PartIndex[pc] <= PartIndex[given.part] THEN result = <<>>
        ELSE errors = {} /\ TableNamed => AllOf(result)
    /\ pc \in {"entries", "hashes"} => TableNamed /\ LC!Fits(LC!Part)
    /\ pc = "entries" =>
        /\ walk.at = given.va + Len(result) * EntryBytes
        /\ walk.left >= 0 \/ IsPrefixes
        /\ IsPrefixes \/ walk.left + Len(result) = (IF CountIsCut THEN MaxEntries ELSE Counted)
        /\ CountIsCut => errors # {}
        /\ IsCf /\ walk.sorted => InOrder(result) /\ UpTo(result, walk.prev)
    /\ pc = "hashes" => walk.left \in 0 .. Len(result)
    /\ pc \in {"hashes", "done"} /\ errors = {} /\ TableNamed => AllOf(result)

LEMMA PartsPlaced ==
  /\ DOMAIN LC!Parts = 1 .. 14 /\ Len(LC!Parts) = 14
  /\ \A i \in 1 .. 14 : LC!Parts[i] \in PartNames /\ PartIndex[LC!Parts[i]] = i
  /\ \A p \in PartNames : PartIndex[p] \in 1 .. 14 /\ LC!Parts[PartIndex[p]] = p
<1>1. DOMAIN LC!Parts = 1 .. 14 /\ Len(LC!Parts) = 14
  BY DEF LC!Parts
<1>2. ASSUME NEW i \in 1 .. 14
      PROVE  LC!Parts[i] \in PartNames /\ PartIndex[LC!Parts[i]] = i
  <2>1. i \in {1, 2, 3, 4, 5, 6, 7, 8, 9, 10, 11, 12, 13, 14}
    OBVIOUS
  <2> QED BY <2>1 DEF LC!Parts, PartNames, PartIndex
<1>3. ASSUME NEW p \in PartNames
      PROVE  PartIndex[p] \in 1 .. 14 /\ LC!Parts[PartIndex[p]] = p
  BY DEF LC!Parts, PartNames, PartIndex
<1> QED BY <1>1, <1>2, <1>3

LEMMA FollowingPart ==
  ASSUME NEW p \in PartNames
  PROVE  \/ LC!Following(p) = "done" /\ PartIndex[p] = 14
         \/ LC!Following(p) \in PartNames /\ PartIndex[LC!Following(p)] = PartIndex[p] + 1
<1> DEFINE i == CHOOSE i \in DOMAIN LC!Parts : LC!Parts[i] = p
<1>1. i \in DOMAIN LC!Parts /\ LC!Parts[i] = p
  BY PartsPlaced
<1>2. LC!Following(p) = IF i = Len(LC!Parts) THEN "done" ELSE LC!Parts[i + 1]
  BY DEF LC!Following
<1> HIDE DEF i
<1>3. i \in 1 .. 14 /\ PartIndex[p] = i
  BY <1>1, PartsPlaced
<1>4. CASE i = 14
  BY <1>2, <1>3, <1>4, PartsPlaced
<1>5. CASE i # 14
  <2>1. LC!Following(p) = LC!Parts[i + 1] /\ i + 1 \in 1 .. 14
    BY <1>2, <1>3, <1>5, PartsPlaced
  <2> QED BY <2>1, <1>3, PartsPlaced
<1> QED BY <1>4, <1>5

\* The group a part is in, by its place.
LEMMA GroupsDescend ==
  ASSUME NEW i \in 1 .. 14
  PROVE  LC!GroupOf[LC!Parts[i]] = <<14, 13, 12, 11, 10, 10, 9, 6, 5, 5, 3, 2, 1, 1>>[i]
<1>1. i \in {1, 2, 3, 4, 5, 6, 7, 8, 9, 10, 11, 12, 13, 14}
  OBVIOUS
<1> QED BY <1>1 DEF LC!Parts, LC!GroupOf

LEMMA GroupsAre == DOMAIN LC!Groups = 1 .. 14 /\ Len(LC!Groups) = 14
  BY DEF LC!Groups

LEMMA VersionOf ==
  ASSUME NEW size \in Nat, NEW i \in 1 .. 14, size > 2 * (i - 1) \/ i = 1, size <= 2 * i \/ i = 14
  PROVE  LC!GetVersion(size) = i
<1>1. CASE size > 26
  BY <1>1, GroupsAre DEF LC!GetVersion
<1>2. CASE size <= 26
  <2> DEFINE Of(v) == size <= 2 * v /\ (v = 1 \/ size > 2 * (v - 1))
  <2>1. Of(i) /\ \A v \in 1 .. 14 : Of(v) => v = i
    BY <1>2
  <2>2. LC!GetVersion(size) = CHOOSE v \in 1 .. 14 : Of(v)
    BY <1>2, GroupsAre DEF LC!GetVersion
  <2> HIDE DEF Of
  <2> QED BY <2>1, <2>2
<1> QED BY <1>1, <1>2

\* A version that is set is the one get_version answers, for each group of members.
LEMMA VersionsAreKept == LC!VersionKept
<1> SUFFICES ASSUME NEW v \in 1 .. 14 PROVE LC!GetVersion(2 * v) = v
  BY GroupsAre DEF LC!VersionKept, LC!SetVersion
<1> QED BY VersionOf

LEMMA VersionInGroups ==
  ASSUME NEW size \in Nat
  PROVE  \E i \in 1 .. 14 : LC!GetVersion(size) = i /\ (i = 14 \/ size <= 2 * i)
<1>1. CASE size > 26
  BY <1>1, VersionOf
<1>2. CASE size <= 26
  <2> DEFINE i == IF size = 0 THEN 1 ELSE (size + 1) \div 2
  <2>1. i \in 1 .. 14 /\ size <= 2 * i /\ (size > 2 * (i - 1) \/ i = 1)
    BY <1>2
  <2> HIDE DEF i
  <2> QED BY <2>1, VersionOf
<1> QED BY <1>1, <1>2

\* The first part that is loaded is before all that the version has.
LEMMA FirstOfVersion ==
  ASSUME NEW v \in 1 .. 14
  PROVE  /\ LC!FirstPart(v) \in PartNames
         /\ \A p \in PartNames : LC!GroupOf[p] <= v => PartIndex[LC!FirstPart(v)] <= PartIndex[p]
<1> DEFINE First(i) == LC!GroupOf[LC!Parts[i]] <= v /\ \A j \in 1 .. i - 1 : LC!GroupOf[LC!Parts[j]] > v
           first == CHOOSE i \in DOMAIN LC!Parts : First(i)
           groups == <<14, 13, 12, 11, 10, 10, 9, 6, 5, 5, 3, 2, 1, 1>>
<1>1. \E i \in 1 .. 14 : groups[i] <= v /\ \A j \in 1 .. i - 1 : groups[j] > v
  <2> DEFINE Chosen(at) ==
              (at = 1 /\ v = 14) \/ (at = 2 /\ v = 13) \/ (at = 3 /\ v = 12) \/ (at = 4 /\ v = 11)
           \/ (at = 5 /\ v = 10) \/ (at = 7 /\ v = 9) \/ (at = 8 /\ v \in 6 .. 8) \/ (at = 9 /\ v = 5)
           \/ (at = 11 /\ v \in 3 .. 4) \/ (at = 12 /\ v = 2) \/ (at = 13 /\ v = 1)
  <2>1. \E at \in 1 .. 14 : Chosen(at)
    <3>1. v \in {1, 2, 3, 4, 5, 6, 7, 8, 9, 10, 11, 12, 13, 14}
      OBVIOUS
    <3>2. /\ v = 14 => Chosen(1)
          /\ v = 13 => Chosen(2)
          /\ v = 12 => Chosen(3)
          /\ v = 11 => Chosen(4)
          /\ v = 10 => Chosen(5)
          /\ v = 9 => Chosen(7)
          /\ v = 8 => Chosen(8)
          /\ v = 7 => Chosen(8)
          /\ v = 6 => Chosen(8)
          /\ v = 5 => Chosen(9)
          /\ v = 4 => Chosen(11)
          /\ v = 3 => Chosen(11)
          /\ v = 2 => Chosen(12)
          /\ v = 1 => Chosen(13)
      OBVIOUS
    <3> HIDE DEF Chosen
    <3> QED BY <3>1, <3>2
  <2>2. PICK at \in 1 .. 14 : Chosen(at)
    BY <2>1
  <2>3. groups[at] <= v
    BY <2>2
  <2>4. ASSUME NEW j \in 1 .. at - 1 PROVE groups[j] > v
    <3>1. j \in {1, 2, 3, 4, 5, 6, 7, 8, 9, 10, 11, 12}
      BY <2>2
    <3> QED BY <2>2, <3>1
  <2> QED BY <2>3, <2>4
<1> HIDE DEF groups
<1>2. \E i \in DOMAIN LC!Parts : First(i)
  <2>1. PICK i \in 1 .. 14 : groups[i] <= v /\ \A j \in 1 .. i - 1 : groups[j] > v
    BY <1>1
  <2>2. \A j \in 1 .. i : LC!GroupOf[LC!Parts[j]] = groups[j]
    BY GroupsDescend DEF groups
  <2>3. First(i)
    BY <2>1, <2>2
  <2> QED BY <2>3, PartsPlaced
<1> HIDE DEF First
<1>3. first \in 1 .. 14 /\ First(first)
  BY <1>2, PartsPlaced
<1>4. LC!FirstPart(v) = LC!Parts[first]
  BY DEF LC!FirstPart, First
<1> HIDE DEF first
<1>5. LC!FirstPart(v) \in PartNames /\ PartIndex[LC!FirstPart(v)] = first
  BY <1>3, <1>4, PartsPlaced
<1>6. ASSUME NEW p \in PartNames, LC!GroupOf[p] <= v PROVE first <= PartIndex[p]
  <2>1. PartIndex[p] \in 1 .. 14 /\ LC!Parts[PartIndex[p]] = p
    BY PartsPlaced
  <2>2. PartIndex[p] < first => LC!GroupOf[p] > v
    BY <1>3, <2>1 DEF First
  <2>3. LC!GroupOf[p] \in Int
    BY DEF LC!GroupOf, PartNames
  <2> QED BY <2>1, <2>2, <2>3, <1>3, <1>6
<1> QED BY <1>5, <1>6

LEMMA LcGiven ==
  ASSUME LoadConfigInv
  PROVE  /\ LC!Part \in PartNames /\ given.part = LC!Part
         /\ given.size \in Nat /\ given.va \in Nat /\ given.extra \in Nat
         /\ LC!Number(LC!Part) \in Nat /\ Counted \in Nat /\ EntryBytes \in Nat /\ MaxEntries \in Nat
<1>1. LC!IsHeader(given)
  BY DirectoriesAssumption DEF DirectoriesAssumption, LoadConfigInv
<1>2. /\ LC!Part \in PartNames /\ given.part = LC!Part /\ given.size \in Nat /\ given.va \in Nat
      /\ given.number \in Nat /\ given.extra \in Nat
  BY <1>1 DEF LC!IsHeader, LC!Part, LC!GroupOf, PartNames
<1>3. LC!Number(LC!Part) \in Nat
  BY <1>2 DEF LC!Number
<1>4. EntryBytes \in Nat /\ EntryBytes > 0
  <2>1. LC!PointerSize \in {4, 8}
    BY DEF LC!PointerSize
  <2> DEFINE isWide == LC!Part \in LC!CfTables \cup {"enclave"}
             isPair == LC!Part \in {"chpe", "volatile_range"}
  <2>2. EntryBytes = CASE isWide -> 4 + given.extra [] isPair -> 8 [] IsPrefixes -> LC!PointerSize [] OTHER -> 4
    BY DEF EntryBytes, LC!EntrySize, IsPrefixes
  <2> HIDE DEF isWide, isPair
  <2> QED BY <2>1, <2>2, <1>2
<1>5. Counted \in Nat
  BY <1>3, <1>4 DEF Counted, LC!EntryCount, EntryBytes
<1>6. MaxEntries \in Nat
  BY DirectoriesAssumption DEF DirectoriesAssumption
<1> QED BY <1>2, <1>3, <1>4, <1>5, <1>6

LEMMA LcCursor ==
  ASSUME LoadConfigInv
  PROVE  /\ walk.at \in Int /\ walk.left \in Int /\ walk.prev \in Int /\ walk.sorted \in BOOLEAN
         /\ result \in Seq(TableEntry) /\ Len(result) \in Nat /\ DOMAIN result = 1 .. Len(result)
         /\ \A i \in DOMAIN result : result[i] \in TableEntry /\ result[i].rva \in Nat /\ result[i].at \in Int
<1>1. walk \in TableCursor /\ result \in Seq(TableEntry)
  BY DEF LoadConfigInv
<1>2. Len(result) \in Nat /\ DOMAIN result = 1 .. Len(result) /\ \A i \in DOMAIN result : result[i] \in TableEntry
  BY <1>1
<1>3. \A i \in DOMAIN result : result[i].rva \in Nat /\ result[i].at \in Int
  BY <1>2 DEF TableEntry
<1>4. walk.at \in Int /\ walk.left \in Int /\ walk.prev \in Int /\ walk.sorted \in BOOLEAN
  BY <1>1 DEF TableCursor
<1> QED BY <1>1, <1>2, <1>3, <1>4

LEMMA LcSame ==
  ASSUME given' = given
  PROVE  /\ LC!Part' = LC!Part /\ IsPrefixes' = IsPrefixes /\ (IsCf' <=> IsCf) /\ EntryBytes' = EntryBytes
         /\ Counted' = Counted /\ (CountIsCut' <=> CountIsCut) /\ (TableNamed' <=> TableNamed)
         /\ (LC!Fits(LC!Part)' <=> LC!Fits(LC!Part))
<1>1. LC!Part' = LC!Part
  BY DEF LC!Part
<1>2. LC!EntrySize(LC!Part)' = LC!EntrySize(LC!Part)
  BY <1>1, Zenon DEF LC!EntrySize, LC!PointerSize
<1>3. /\ LC!Number(LC!Part)' = LC!Number(LC!Part) /\ LC!Va(LC!Part)' = LC!Va(LC!Part)
  BY <1>1, Zenon DEF LC!Number, LC!HasNumber, LC!Va, LC!HasPointer
<1>4. LC!EntryCount(LC!Part)' = LC!EntryCount(LC!Part)
  BY <1>1, <1>2, <1>3, Zenon DEF LC!EntryCount
<1>5. LC!GuardFlags' = LC!GuardFlags
  BY Zenon DEF LC!GuardFlags, LC!HasNumber
<1>6. LC!PresentFlag(LC!Part)' = LC!PresentFlag(LC!Part)
  BY <1>1, Zenon DEF LC!PresentFlag
<1>7. LC!Looked(LC!Part)' <=> LC!Looked(LC!Part)
  BY <1>1, <1>3, <1>5, <1>6, Zenon DEF LC!Looked, LC!CfInstrumented
<1>8. LC!Fits(LC!Part)' <=> LC!Fits(LC!Part)
  BY <1>1, <1>2, <1>3, Zenon DEF LC!Fits
<1>9. LC!Clamped(LC!Part)' <=> LC!Clamped(LC!Part)
  BY <1>1, <1>4, Zenon DEF LC!Clamped
<1> QED BY <1>1, <1>2, <1>4, <1>7, <1>8, <1>9, Zenon DEF IsPrefixes, IsCf, EntryBytes, Counted, CountIsCut, TableNamed

LEMMA LcPrimed ==
  ASSUME given' = given
  PROVE  (InPlace(result)' <=> InPlace(result')) /\ (AllOf(result)' <=> AllOf(result'))
<1>1. EntryBytes' = EntryBytes /\ Counted' = Counted /\ (IsCf' <=> IsCf) /\ (IsPrefixes' <=> IsPrefixes)
  BY LcSame
<1> QED BY <1>1 DEF InPlace, AllOf, InOrder

\* What goes from one part to the next one does not touch the table.
LEMMA LcLeaves ==
  ASSUME LoadConfigInv, pc \in PartNames, LC!Leave(pc), errors \subseteq errors',
         pc = LC!Part /\ errors' = {} /\ TableNamed => Counted = 0 /\ ~IsCf
  PROVE  LoadConfigInv'
<1> DEFINE next == LC!Following(pc)
<1>1. pc' = next /\ UNCHANGED <<given, walk, result>>
  BY DEF LC!Leave
<1>2. (next = "done" /\ PartIndex[pc] = 14) \/ (next \in PartNames /\ PartIndex[next] = PartIndex[pc] + 1)
  BY FollowingPart
<1> HIDE DEF next
<1>3. PartIndex[pc] \in 1 .. 14 /\ PartIndex[given.part] \in 1 .. 14 /\ given.part = LC!Part
  BY PartsPlaced, LcGiven
<1>4. PartIndex[pc] <= PartIndex[given.part] => result = <<>>
  BY DEF LoadConfigInv
<1>5. errors' = {} /\ TableNamed /\ PartIndex[pc] >= PartIndex[given.part] => AllOf(result)
  <2>1. CASE pc = given.part
    BY <2>1, <1>3, <1>4, LcGiven DEF AllOf
  <2>2. CASE pc # given.part
    <3>1. PartIndex[pc] # PartIndex[given.part]
      BY <2>2, PartsPlaced, LcGiven
    <3>2. PartIndex[pc] <= PartIndex[given.part] \/ PartIndex[given.part] < PartIndex[pc]
      BY <1>3
    <3>3. PartIndex[pc] >= PartIndex[given.part] => ~(PartIndex[pc] <= PartIndex[given.part])
      BY <3>1, <1>3
    <3>4. pc \in PartNames /\ ~(PartIndex[pc] <= PartIndex[given.part]) /\ errors = {} /\ TableNamed => AllOf(result)
      BY DEF LoadConfigInv
    <3> QED BY <3>3, <3>4, <1>3
  <2> QED BY <2>1, <2>2
<1>6. errors' = {} /\ TableNamed => (next = "done" => AllOf(result)) /\
        (next \in PartNames /\ ~(PartIndex[next] <= PartIndex[given.part]) => AllOf(result))
  <2>1. ASSUME next = "done" PROVE PartIndex[pc] >= PartIndex[given.part]
    <3>1. PartIndex[pc] = 14
      BY <2>1, <1>2 DEF PartNames
    <3> QED BY <3>1, <1>3
  <2> QED BY <2>1, <1>2, <1>3, <1>5
<1>7. next \in PartNames /\ PartIndex[next] <= PartIndex[given.part] => result = <<>>
  BY <1>2, <1>3, <1>4 DEF PartNames
<1>8. AllOf(result)' <=> AllOf(result)
  BY <1>1, LcPrimed
<1>9. InPlace(result)' /\ (IsPrefixes \/ Len(result) <= MaxEntries)'
  BY <1>1, LcPrimed, LcSame DEF LoadConfigInv
<1>10. TableNamed' <=> TableNamed
  BY <1>1, LcSame
<1>11. next \notin {"descriptor", "entries", "hashes"} /\ next \in {"done"} \cup PartNames
  BY <1>2 DEF PartNames
<1>12. given \in Headers /\ walk \in TableCursor /\ result \in Seq(TableEntry)
  BY DEF LoadConfigInv
<1> QED BY <1>1, <1>6, <1>7, <1>8, <1>9, <1>10, <1>11, <1>12 DEF LoadConfigInv, PartNames

\* A table that ends is whole, or something is reported.
LEMMA LcEnds ==
  ASSUME LoadConfigInv, pc = "entries", NEW es, LC!EndTable(es),
         result' \in Seq(TableEntry), InPlace(result'), IsPrefixes \/ Len(result') <= MaxEntries,
         errors' = {} => AllOf(result')
  PROVE  LoadConfigInv'
<1> DEFINE next == LC!Following(LC!Part)
           left == IF LC!HashesWanted THEN Len(result') ELSE 0
<1>1. /\ pc' = (IF LC!HashesWanted THEN "hashes" ELSE next)
      /\ walk' = [at |-> 0, left |-> left, prev |-> 0, sorted |-> TRUE]
      /\ UNCHANGED given
  BY DEF LC!EndTable, LC!Outside
<1>2. LC!Part \in PartNames /\ given.part = LC!Part
  BY LcGiven
<1>3. (next = "done" /\ PartIndex[LC!Part] = 14) \/ (next \in PartNames /\ PartIndex[next] = PartIndex[LC!Part] + 1)
  BY <1>2, FollowingPart
<1> HIDE DEF next
<1>4. PartIndex[LC!Part] \in 1 .. 14
  BY <1>2, PartsPlaced
<1>5. left \in 0 .. Len(result') /\ Len(result') \in Nat
  BY LcGiven
<1> HIDE DEF left
<1>6. walk' \in TableCursor /\ walk'.left = left
  BY <1>1, <1>5 DEF TableCursor
<1>7. (AllOf(result)' <=> AllOf(result')) /\ (InPlace(result)' <=> InPlace(result'))
  BY <1>1, LcPrimed
<1>8. /\ (IsPrefixes' <=> IsPrefixes) /\ (TableNamed' <=> TableNamed)
      /\ (LC!Fits(LC!Part)' <=> LC!Fits(LC!Part))
  BY <1>1, LcSame
<1>9. TableNamed /\ LC!Fits(LC!Part) /\ given \in Headers
  BY DEF LoadConfigInv
<1>10. next \notin {"descriptor", "entries", "hashes"}
  BY <1>3 DEF PartNames
<1>11. next \in PartNames => ~(PartIndex[next] <= PartIndex[given.part])
  BY <1>2, <1>3, <1>4 DEF PartNames
<1>12. "hashes" \notin PartNames
  BY DEF PartNames
<1>13. CASE LC!HashesWanted
  <2>1. pc' = "hashes"
    BY <1>1, <1>13
  <2> QED BY <2>1, <1>1, <1>5, <1>6, <1>7, <1>8, <1>9, <1>12 DEF LoadConfigInv
<1>14. CASE ~LC!HashesWanted
  <2>1. pc' = next
    BY <1>1, <1>14
  <2> QED BY <2>1, <1>1, <1>3, <1>6, <1>7, <1>8, <1>9, <1>10, <1>11 DEF LoadConfigInv
<1> QED BY <1>13, <1>14

LEMMA LoadConfigStart == LC!Init => LoadConfigInv
<1> SUFFICES ASSUME LC!Init PROVE LoadConfigInv
  OBVIOUS
<1>1. /\ given \in Headers /\ pc = "descriptor" /\ result = <<>> /\ errors = {}
      /\ walk = [at |-> 0, left |-> 0, prev |-> 0, sorted |-> TRUE]
  BY DEF LC!Init, LC!Outside
<1>2. walk \in TableCursor
  BY <1>1 DEF TableCursor
<1>3. MaxEntries \in Nat
  BY DirectoriesAssumption DEF DirectoriesAssumption
<1> QED BY <1>1, <1>2, <1>3 DEF LoadConfigInv, InPlace, PartNames

\* An entry is behind those that were read, and no more than the limit.
LEMMA LcAppends ==
  ASSUME LoadConfigInv, LC!MoreEntries, NEW entry \in TableEntry, entry.at = walk.at,
         walk.at + EntryBytes <= VaMax, result' = Append(result, entry)
  PROVE  /\ result' \in Seq(TableEntry) /\ Len(result') = Len(result) + 1
         /\ InPlace(result') /\ (IsPrefixes \/ Len(result') <= MaxEntries)
<1>1. result \in Seq(TableEntry) /\ Len(result) \in Nat /\ DOMAIN result = 1 .. Len(result)
  BY LcCursor
<1>2. /\ result' \in Seq(TableEntry) /\ Len(result') = Len(result) + 1 /\ DOMAIN result' = 1 .. Len(result) + 1
      /\ result'[Len(result) + 1] = entry /\ \A i \in 1 .. Len(result) : result'[i] = result[i]
  BY <1>1, Appended
<1>3. pc = "entries" /\ (IsPrefixes \/ walk.left > 0)
  BY DEF LC!MoreEntries, IsPrefixes
<1>4. InPlace(result')
  <2>1. walk.at = given.va + Len(result) * EntryBytes
    BY <1>3 DEF LoadConfigInv
  <2>2. ASSUME NEW i \in 1 .. Len(result) + 1
        PROVE  result'[i].at = given.va + (i - 1) * EntryBytes /\ result'[i].at + EntryBytes <= VaMax
    <3>1. CASE i \in 1 .. Len(result)
      BY <3>1, <1>1, <1>2 DEF LoadConfigInv, InPlace
    <3>2. CASE i = Len(result) + 1
      <4>1. i - 1 = Len(result) /\ result'[i] = entry
        BY <3>2, <1>1, <1>2
      <4> QED BY <4>1, <2>1
    <3> QED BY <3>1, <3>2, <1>1
  <2> QED BY <2>2, <1>2 DEF InPlace
<1>5. IsPrefixes \/ Len(result') <= MaxEntries
  <2>1. ~IsPrefixes => walk.left + Len(result) = (IF CountIsCut THEN MaxEntries ELSE Counted)
    BY <1>3 DEF LoadConfigInv
  <2>2. ~IsPrefixes /\ ~CountIsCut => Counted <= MaxEntries
    BY LcGiven DEF CountIsCut, LC!Clamped, IsPrefixes, Counted
  <2> QED BY <2>1, <2>2, <1>1, <1>2, <1>3, LcGiven, LcCursor
<1> QED BY <1>2, <1>4, <1>5

LEMMA LcDescriptorStep == ASSUME LoadConfigInv, LC!ReadDescriptor PROVE LoadConfigInv'
<1>1. pc = "descriptor" /\ UNCHANGED <<given, walk, result>> /\ result = <<>>
  BY DEF LC!ReadDescriptor, LoadConfigInv
<1>2. InPlace(result)' /\ (IsPrefixes \/ Len(result) <= MaxEntries)'
  BY <1>1, LcPrimed, LcSame DEF LoadConfigInv
<1>3. given' \in Headers /\ walk' \in TableCursor /\ result' \in Seq(TableEntry)
  BY <1>1 DEF LoadConfigInv
<1>4. CASE pc' = LC!FirstPart(LC!GetVersion(given.size)) /\ UNCHANGED errors
  <2>1. given.size \in Nat /\ given.part = LC!Part /\ LC!Part \in PartNames
    BY LcGiven
  <2>2. PICK v \in 1 .. 14 : LC!GetVersion(given.size) = v /\ (v = 14 \/ given.size <= 2 * v)
    BY <2>1, VersionInGroups
  <2>3. pc' \in PartNames /\ \A p \in PartNames : LC!GroupOf[p] <= v => PartIndex[pc'] <= PartIndex[p]
    BY <1>4, <2>2, FirstOfVersion
  <2>4. ASSUME TableNamed PROVE PartIndex[pc'] <= PartIndex[LC!Part]
    <3>1. LC!HasPointer(LC!Part)
      BY <2>4 DEF TableNamed, LC!Looked, LC!Va
    <3>2. LC!GroupOf[LC!Part] \in 1 .. 14
      BY <2>1 DEF LC!GroupOf, PartNames
    <3>3. LC!GroupOf[LC!Part] <= v
      BY <3>1, <3>2, <2>1, <2>2 DEF LC!HasPointer
    <3> QED BY <2>1, <2>3, <3>3
  <2>5. TableNamed' <=> TableNamed
    BY <1>1, LcSame
  <2>6. pc' \notin {"descriptor", "entries", "hashes", "done"}
    BY <2>3 DEF PartNames
  <2> QED BY <1>1, <1>2, <1>3, <2>1, <2>3, <2>4, <2>5, <2>6 DEF LoadConfigInv
<1>5. CASE pc' = "done" /\ LC!Report({"invalid_load_config_directory"})
  <2>1. errors' # {}
    BY <1>5 DEF LC!Report
  <2>2. pc' \notin PartNames /\ pc' = "done"
    BY <1>5 DEF PartNames
  <2> QED BY <1>1, <1>2, <1>3, <2>1, <2>2 DEF LoadConfigInv
<1> QED BY <1>4, <1>5 DEF LC!ReadDescriptor

LEMMA LcNames ==
  /\ LC!Pointers \subseteq PartNames /\ LC!Tables = PartNames \ LC!Pointers
  /\ LC!BehindMetadata \subseteq PartNames /\ LC!VolatileTables \subseteq LC!Tables \ LC!CfTables
<1>1. {LC!Parts[i] : i \in DOMAIN LC!Parts} = PartNames
  BY PartsPlaced
<1>2. LC!Tables = PartNames \ LC!Pointers
  BY <1>1 DEF LC!Tables
<1> QED BY <1>2 DEF LC!Pointers, LC!BehindMetadata, LC!VolatileTables, LC!CfTables, PartNames

LEMMA LcPassStep ==
  ASSUME LoadConfigInv, LC!ValidatePointer \/ LC!NoTable \/ LC!NoMetadata \/ LC!NoEntries
  PROVE  LoadConfigInv'
<1>1. CASE LC!ValidatePointer
  <2>1. pc \in LC!Pointers /\ LC!Leave(pc) /\ errors \subseteq errors'
    BY <1>1 DEF LC!ValidatePointer, LC!Report
  <2>2. pc = LC!Part => ~TableNamed
    BY <2>1, LcNames DEF TableNamed
  <2> QED BY <2>1, <2>2, LcNames, LcLeaves
<1>2. CASE LC!NoTable
  <2>1. pc \in LC!Tables /\ ~LC!Looked(pc) /\ LC!Leave(pc) /\ errors \subseteq errors'
    BY <1>2 DEF LC!NoTable, LC!Report
  <2>2. pc = LC!Part => ~TableNamed
    BY <2>1 DEF TableNamed
  <2> QED BY <2>1, <2>2, LcNames, LcLeaves
<1>3. CASE LC!NoMetadata
  <2>1. pc \in LC!BehindMetadata /\ LC!Leave(pc) /\ errors \subseteq errors' /\ errors' # {}
    BY <1>3 DEF LC!NoMetadata, LC!Report
  <2> QED BY <2>1, LcNames, LcLeaves
<1>4. CASE LC!NoEntries
  <2>1. /\ pc \in LC!Tables /\ LC!Leave(pc) /\ errors \subseteq errors'
        /\ errors' # {} \/ (pc \in LC!VolatileTables /\ LC!Number(pc) = 0)
    BY <1>4 DEF LC!NoEntries, LC!Report
  <2>2. pc = LC!Part /\ errors' = {} => Counted = 0 /\ ~IsCf
    <3>1. ASSUME pc = LC!Part, pc \in LC!VolatileTables, LC!Number(pc) = 0
          PROVE  Counted = 0 /\ ~IsCf
      <4>1. EntryBytes \in {4, 8}
        BY <3>1 DEF EntryBytes, LC!EntrySize, LC!VolatileTables, LC!CfTables
      <4>2. Counted = 0 \div EntryBytes
        BY <3>1 DEF Counted, LC!EntryCount, EntryBytes
      <4>3. ~IsCf
        BY <3>1, LcNames DEF IsCf
      <4> QED BY <4>1, <4>2, <4>3
    <3> QED BY <2>1, <3>1
  <2> QED BY <2>1, <2>2, LcNames, LcLeaves
<1> QED BY <1>1, <1>2, <1>3, <1>4

LEMMA LcBeginStep == ASSUME LoadConfigInv, LC!BeginTable PROVE LoadConfigInv'
<1>1. /\ pc \in LC!Tables /\ LC!Looked(pc) /\ LC!Fits(pc)
      /\ walk' = [at |-> LC!Va(pc), left |-> IF LC!Clamped(pc) THEN MaxEntries ELSE LC!EntryCount(pc),
                  prev |-> 0, sorted |-> TRUE]
      /\ pc' = "entries" /\ UNCHANGED <<given, result>>
      /\ LC!Clamped(pc) => errors' # {}
  BY DEF LC!BeginTable, LC!Report
<1>2. pc = LC!Part /\ LC!Va(pc) = given.va
  BY <1>1 DEF LC!Looked, LC!Va, LC!Part
<1>3. TableNamed /\ LC!Fits(LC!Part) /\ (CountIsCut => errors' # {})
  BY <1>1, <1>2 DEF TableNamed, CountIsCut
<1>4. /\ MaxEntries \in Nat /\ Counted \in Nat /\ given.va \in Nat /\ EntryBytes \in Nat
      /\ LC!Part \in PartNames /\ given.part = LC!Part
  BY LcGiven
<1> DEFINE left == IF CountIsCut THEN MaxEntries ELSE Counted
<1>5. left \in Nat
  BY <1>4
<1>6. walk' = [at |-> given.va, left |-> left, prev |-> 0, sorted |-> TRUE]
  BY <1>1, <1>2 DEF CountIsCut, Counted
<1> HIDE DEF left
<1>7. walk' \in TableCursor /\ walk'.at = given.va /\ walk'.left = left
  BY <1>4, <1>5, <1>6 DEF TableCursor
<1>8. result = <<>>
  <2>1. pc \in PartNames /\ PartIndex[pc] <= PartIndex[given.part]
    BY <1>2, <1>4, PartsPlaced
  <2> QED BY <2>1 DEF LoadConfigInv
<1>9. InPlace(result)' /\ (IsPrefixes \/ Len(result) <= MaxEntries)'
  BY <1>1, LcPrimed, LcSame DEF LoadConfigInv
<1>10. /\ (TableNamed' <=> TableNamed) /\ (LC!Fits(LC!Part)' <=> LC!Fits(LC!Part)) /\ EntryBytes' = EntryBytes
       /\ (CountIsCut' <=> CountIsCut) /\ Counted' = Counted /\ IsPrefixes' = IsPrefixes
  BY <1>1, LcSame
<1>11. pc' = "entries" /\ "entries" \notin PartNames
  BY <1>1 DEF PartNames
<1>12. /\ Len(result') = 0 /\ result' = <<>> /\ given' = given /\ given \in Headers
  BY <1>1, <1>8 DEF LoadConfigInv
<1>13. InOrder(result)' /\ UpTo(result, walk.prev)'
  BY <1>12 DEF InOrder, UpTo
<1>14. walk'.at = given'.va + Len(result') * EntryBytes'
  <2>1. Len(result') * EntryBytes = 0
    BY <1>4, <1>12
  <2> QED BY <2>1, <1>4, <1>7, <1>10, <1>12
<1>15. walk'.left >= 0 /\ walk'.left + Len(result') = (IF CountIsCut' THEN MaxEntries ELSE Counted')
  <2>1. left = IF CountIsCut' THEN MaxEntries ELSE Counted'
    BY <1>10 DEF left
  <2> QED BY <2>1, <1>5, <1>7, <1>12
<1>16. CountIsCut' => errors' # {}
  BY <1>3, <1>10
<1> QED BY <1>3, <1>7, <1>9, <1>10, <1>11, <1>12, <1>13, <1>14, <1>15, <1>16 DEF LoadConfigInv

LEMMA LcEndStep ==
  ASSUME LoadConfigInv, LC!EntryUnread \/ LC!LastPrefix \/ LC!AllRead PROVE LoadConfigInv'
<1>1. CASE LC!EntryUnread
  <2>1. pc = "entries" /\ result' = result /\ LC!EndTable({"invalid_table"}) /\ errors' # {}
    BY <1>1 DEF LC!EntryUnread, LC!MoreEntries, LC!EndTable, LC!Report
  <2>2. result' \in Seq(TableEntry) /\ InPlace(result') /\ (IsPrefixes \/ Len(result') <= MaxEntries)
    BY <2>1 DEF LoadConfigInv
  <2> QED BY <2>1, <2>2, LcEnds
<1>2. CASE LC!LastPrefix
  <2>1. pc = "entries" /\ result' = result /\ LC!EndTable({}) /\ IsPrefixes
    BY <1>2 DEF LC!LastPrefix, LC!MoreEntries, IsPrefixes
  <2>2. result' \in Seq(TableEntry) /\ InPlace(result') /\ (IsPrefixes \/ Len(result') <= MaxEntries)
    BY <2>1 DEF LoadConfigInv
  <2>3. ~IsCf
    BY <2>1 DEF IsPrefixes, IsCf, LC!CfTables
  <2> QED BY <2>1, <2>2, <2>3, LcEnds DEF AllOf
<1>3. CASE LC!AllRead
  <2> DEFINE found == IF LC!Part \in LC!Sorted /\ ~walk.sorted THEN {"unsorted_table"} ELSE {}
  <2>1. pc = "entries" /\ result' = result /\ LC!EndTable(found) /\ ~IsPrefixes /\ walk.left = 0
    BY <1>3 DEF LC!AllRead, IsPrefixes
  <2>2. result' \in Seq(TableEntry) /\ InPlace(result') /\ (IsPrefixes \/ Len(result') <= MaxEntries)
    BY <2>1 DEF LoadConfigInv
  <2>3. errors' = errors \cup found
    BY <2>1 DEF LC!EndTable, LC!Report
  <2>4. ASSUME errors' = {} PROVE AllOf(result')
    <3>1. errors = {} /\ found = {}
      BY <2>3, <2>4
    <3>2. ~CountIsCut
      BY <2>1, <3>1 DEF LoadConfigInv
    <3>3. walk.left + Len(result) = Counted
      BY <2>1, <3>2 DEF LoadConfigInv
    <3>4. Len(result) = Counted
      BY <2>1, <3>3, LcCursor
    <3>5. IsCf => walk.sorted
      BY <3>1 DEF IsCf, LC!Sorted
    <3>6. IsCf => InOrder(result)
      BY <3>5, <2>1 DEF LoadConfigInv
    <3> QED BY <2>1, <3>4, <3>6 DEF AllOf
  <2> HIDE DEF found
  <2> QED BY <2>1, <2>2, <2>4, LcEnds
<1> QED BY <1>1, <1>2, <1>3

\* A table that fits has room for each entry that was counted.
LEMMA ProductIsNat == ASSUME NEW m \in Nat, NEW n \in Nat PROVE m * n \in Nat
  OBVIOUS

LEMMA Scaled ==
  ASSUME NEW n \in Nat, NEW m \in Nat, n < m, NEW k \in Nat PROVE n * k + k <= m * k
<1>1. PICK d \in Nat : m = n + 1 + d
  <2>1. m - n - 1 \in Nat /\ m = n + 1 + (m - n - 1)
    OBVIOUS
  <2> QED BY <2>1
<1>2. m * k = n * k + k + d * k
  BY <1>1
<1>3. d * k \in Nat
  OBVIOUS
<1>4. n * k \in Nat /\ m * k \in Nat
  OBVIOUS
<1> HIDE <1>1
<1> QED BY <1>2, <1>3, <1>4

LEMMA LcExtraStep == ASSUME LoadConfigInv, LC!ExtraUnread PROVE LoadConfigInv'
<1>1. /\ LC!MoreEntries /\ IsCf /\ LC!EndTable({"invalid_table"}) /\ errors' # {} /\ pc = "entries"
      /\ UNCHANGED given
  BY DEF LC!ExtraUnread, IsCf, LC!EndTable, LC!Report, LC!MoreEntries
<1>2. PICK rva \in Rvas : result' = Append(result, [rva |-> rva, at |-> walk.at, xfg |-> FALSE, notes |-> {}])
  BY DEF LC!ExtraUnread
<1> DEFINE entry == [rva |-> rva, at |-> walk.at, xfg |-> FALSE, notes |-> {}]
<1>3. rva \in Nat
  BY DirectoriesAssumption DEF DirectoriesAssumption
<1>4. entry \in TableEntry /\ entry.at = walk.at
  BY <1>3, LcCursor DEF TableEntry
<1>5. result' = Append(result, entry)
  BY <1>2
<1> HIDE DEF entry
<1>6. walk.at + EntryBytes <= VaMax
  <2>1. LC!Fits(LC!Part) /\ walk.at = given.va + Len(result) * EntryBytes
    BY <1>1 DEF LoadConfigInv
  <2>2. LC!Va(LC!Part) = given.va
    <3>1. LC!Looked(LC!Part)
      BY <1>1 DEF LoadConfigInv, TableNamed
    <3> QED BY <3>1 DEF LC!Looked, LC!Va
  <2>3. given.va + LC!Number(LC!Part) * EntryBytes <= VaMax
    BY <1>1, <2>1, <2>2 DEF LC!Fits, IsCf, EntryBytes
  <2>4. Counted = LC!Number(LC!Part)
    BY <1>1, LcNames DEF Counted, LC!EntryCount, IsCf
  <2>5. ~IsPrefixes
    BY <1>1 DEF IsPrefixes, IsCf, LC!CfTables
  <2>6. walk.left > 0 /\ walk.left + Len(result) = (IF CountIsCut THEN MaxEntries ELSE Counted)
    BY <1>1, <2>5 DEF LC!MoreEntries, LoadConfigInv, IsPrefixes
  <2>7. CountIsCut => Counted > MaxEntries
    BY DEF CountIsCut, LC!Clamped, Counted
  <2>8. Len(result) < Counted
    BY <2>6, <2>7, LcGiven, LcCursor
  <2>9. Len(result) * EntryBytes + EntryBytes <= Counted * EntryBytes
    BY <2>8, Scaled, LcGiven, LcCursor
  <2>10. Len(result) * EntryBytes \in Nat /\ Counted * EntryBytes \in Nat
    BY LcGiven, LcCursor, ProductIsNat
  <2>11. VaMax \in Nat
    BY DirectoriesAssumption DEF DirectoriesAssumption
  <2>12. given.va \in Nat /\ EntryBytes \in Nat
    BY LcGiven
  <2> DEFINE taken == Len(result) * EntryBytes
             all == Counted * EntryBytes
  <2>13. walk.at = given.va + taken /\ given.va + all <= VaMax /\ taken + EntryBytes <= all
         /\ taken \in Nat /\ all \in Nat
    BY <2>1, <2>3, <2>4, <2>9, <2>10
  <2> HIDE DEF taken, all
  <2> QED BY <2>11, <2>12, <2>13
<1>7. result' \in Seq(TableEntry) /\ InPlace(result') /\ (IsPrefixes \/ Len(result') <= MaxEntries)
  BY <1>1, <1>4, <1>5, <1>6, LcAppends
<1> QED BY <1>1, <1>7, LcEnds

LEMMA LcReadStep == ASSUME LoadConfigInv, LC!ReadEntry PROVE LoadConfigInv'
<1>1. /\ LC!MoreEntries /\ pc = "entries" /\ walk.at + EntryBytes <= VaMax
      /\ pc' = pc /\ given' = given /\ errors \subseteq errors'
  BY DEF LC!ReadEntry, LC!MoreEntries, EntryBytes, LC!Report
<1>2. PICK rva \in Rvas, xfg \in BOOLEAN, notes \in LC!Notes :
        /\ result' = Append(result, [rva |-> rva, at |-> walk.at, xfg |-> xfg, notes |-> notes])
        /\ walk' = [at |-> walk.at + LC!EntrySize(LC!Part), left |-> walk.left - 1,
                    prev |-> rva, sorted |-> LC!SortedWith(rva)]
  BY DEF LC!ReadEntry
<1> DEFINE entry == [rva |-> rva, at |-> walk.at, xfg |-> xfg, notes |-> notes]
           sorted == LC!SortedWith(rva)
<1>3. rva \in Nat
  BY DirectoriesAssumption DEF DirectoriesAssumption
<1>4. notes \in SUBSET TableNotes
  BY DEF LC!Notes, TableNotes
<1>5. entry \in TableEntry /\ entry.at = walk.at /\ entry.rva = rva
  BY <1>3, <1>4, LcCursor DEF TableEntry
<1>6. result' = Append(result, entry)
      /\ walk' = [at |-> walk.at + EntryBytes, left |-> walk.left - 1, prev |-> rva, sorted |-> sorted]
  BY <1>2 DEF EntryBytes
<1> HIDE DEF entry
<1>7. result' \in Seq(TableEntry) /\ Len(result') = Len(result) + 1 /\ InPlace(result')
      /\ (IsPrefixes \/ Len(result') <= MaxEntries)
  BY <1>1, <1>5, <1>6, LcAppends
<1>8. sorted \in BOOLEAN /\ (sorted => walk.sorted /\ (IsCf => rva >= walk.prev))
  BY DEF LC!SortedWith, IsCf
<1> HIDE DEF sorted
<1>9. walk' \in TableCursor /\ walk'.at = walk.at + EntryBytes /\ walk'.left = walk.left - 1
      /\ walk'.prev = rva /\ (walk'.sorted <=> sorted)
  <2>1. walk.at + EntryBytes \in Int /\ walk.left - 1 \in Int /\ rva \in Int
    BY <1>3, LcCursor, LcGiven
  <2> QED BY <1>6, <1>8, <2>1, Zenon DEF TableCursor
<1>10. InPlace(result)' /\ (IsPrefixes \/ Len(result) <= MaxEntries)'
  BY <1>1, <1>7, LcPrimed, LcSame
<1>11. /\ (TableNamed' <=> TableNamed) /\ (LC!Fits(LC!Part)' <=> LC!Fits(LC!Part)) /\ EntryBytes' = EntryBytes
       /\ (CountIsCut' <=> CountIsCut) /\ Counted' = Counted /\ (IsPrefixes' <=> IsPrefixes) /\ (IsCf' <=> IsCf)
  BY <1>1, LcSame
<1>12. walk'.at = given'.va + Len(result') * EntryBytes'
  <2>1. walk.at = given.va + Len(result) * EntryBytes
    BY <1>1 DEF LoadConfigInv
  <2>2. (Len(result) + 1) * EntryBytes = Len(result) * EntryBytes + EntryBytes
    BY LcGiven, LcCursor
  <2>3. Len(result) * EntryBytes \in Nat
    BY LcGiven, LcCursor
  <2> QED BY <2>1, <2>2, <2>3, <1>1, <1>7, <1>9, <1>11, LcGiven
<1>13. (walk'.left >= 0 \/ IsPrefixes')
       /\ (IsPrefixes' \/ walk'.left + Len(result') = (IF CountIsCut' THEN MaxEntries ELSE Counted'))
  <2>1. IsPrefixes \/ (walk.left > 0 /\ walk.left + Len(result) = (IF CountIsCut THEN MaxEntries ELSE Counted))
    BY <1>1 DEF LC!MoreEntries, LoadConfigInv, IsPrefixes
  <2>2. CASE IsPrefixes
    BY <2>2, <1>11
  <2>3. CASE ~IsPrefixes
    <3>1. walk.left > 0 /\ walk.left + Len(result) = (IF CountIsCut THEN MaxEntries ELSE Counted)
      BY <2>1, <2>3
    <3>2. walk'.left + Len(result') = walk.left + Len(result) /\ walk'.left >= 0
      <4>1. walk'.left = walk.left - 1 /\ Len(result') = Len(result) + 1
        BY <1>7, <1>9
      <4>2. walk.left \in Int /\ Len(result) \in Nat
        BY LcCursor
      <4> HIDE <1>7, <1>9
      <4> QED BY <3>1, <4>1, <4>2
    <3> QED BY <3>1, <3>2, <1>11
  <2> QED BY <2>2, <2>3
<1>14. CountIsCut' => errors' # {}
  BY <1>1, <1>11 DEF LoadConfigInv
<1>15. ASSUME IsCf, sorted PROVE InOrder(result') /\ UpTo(result', rva)
  <2>1. InOrder(result) /\ UpTo(result, walk.prev) /\ rva >= walk.prev
    BY <1>1, <1>8, <1>15 DEF LoadConfigInv
  <2>2. /\ DOMAIN result' = 1 .. Len(result) + 1 /\ result'[Len(result) + 1] = entry
        /\ \A i \in 1 .. Len(result) : result'[i] = result[i]
    BY <1>5, <1>6, LcCursor, Appended
  <2>3. \A i \in 1 .. Len(result) : result'[i].rva = result[i].rva /\ result[i].rva \in Nat /\ result[i].rva <= walk.prev
    BY <2>1, <2>2, LcCursor DEF UpTo
  <2>4. result'[Len(result) + 1].rva = rva
    BY <2>2, <1>5
  <2>5. UpTo(result', rva)
    BY <2>1, <2>2, <2>3, <2>4, <1>3, LcCursor DEF UpTo
  <2>6. ASSUME NEW i \in DOMAIN result', NEW j \in DOMAIN result', i < j
        PROVE  result'[i].rva <= result'[j].rva
    <3>1. CASE j = Len(result) + 1
      BY <3>1, <2>4, <2>5 DEF UpTo
    <3>2. CASE j # Len(result) + 1
      <4>1. i \in 1 .. Len(result) /\ j \in 1 .. Len(result)
        BY <3>2, <2>2, <2>6, LcCursor
      <4> QED BY <4>1, <2>1, <2>3, <2>6, LcCursor DEF InOrder
    <3> QED BY <3>1, <3>2
  <2> QED BY <2>5, <2>6 DEF InOrder
<1>16. IsCf' /\ walk'.sorted => InOrder(result)' /\ UpTo(result, walk.prev)'
  <2>1. (InOrder(result)' <=> InOrder(result')) /\ (UpTo(result, walk.prev)' <=> UpTo(result', walk'.prev))
    BY DEF InOrder, UpTo
  <2> QED BY <2>1, <1>9, <1>11, <1>15
<1>17. "entries" \notin PartNames
  BY DEF PartNames
<1>18. pc' = "entries" /\ given' \in Headers /\ TableNamed /\ LC!Fits(LC!Part)
  BY <1>1 DEF LoadConfigInv
<1> QED BY <1>7, <1>9, <1>10, <1>11, <1>12, <1>13, <1>14, <1>16, <1>17, <1>18 DEF LoadConfigInv

LEMMA LcHashStep == ASSUME LoadConfigInv, LC!ReadHash \/ LC!HashesRead PROVE LoadConfigInv'
<1>h. "hashes" \notin PartNames
  BY DEF PartNames
<1>1. CASE LC!ReadHash
  <2> DEFINE i == Len(result) - walk.left + 1
  <2>1. /\ pc = "hashes" /\ walk.left > 0 /\ UNCHANGED <<given, pc, errors>>
        /\ walk' = [walk EXCEPT !.left = @ - 1]
        /\ result' = result \/ \E note \in {"hash", "invalid_hash"} :
              result' = [result EXCEPT ![i].notes = @ \cup {note}]
    BY <1>1 DEF LC!ReadHash
  <2>2. walk.left \in 0 .. Len(result) /\ i \in 1 .. Len(result)
    <3>1. walk.left \in 0 .. Len(result)
      BY <2>1 DEF LoadConfigInv
    <3> QED BY <3>1, <2>1, LcCursor
  <2> HIDE DEF i
  <2>3. walk' \in TableCursor /\ walk'.left = walk.left - 1
    <3>1. walk \in TableCursor
      BY DEF LoadConfigInv
    <3> QED BY <3>1, <2>1, LcCursor DEF TableCursor
  <2>4. /\ result' \in Seq(TableEntry) /\ Len(result') = Len(result) /\ DOMAIN result' = DOMAIN result
        /\ \A k \in DOMAIN result : result'[k].at = result[k].at /\ result'[k].rva = result[k].rva
    <3>1. CASE result' = result
      BY <3>1, LcCursor
    <3>2. ASSUME NEW note \in {"hash", "invalid_hash"}, result' = [result EXCEPT ![i].notes = @ \cup {note}]
          PROVE  /\ result' \in Seq(TableEntry) /\ Len(result') = Len(result) /\ DOMAIN result' = DOMAIN result
                 /\ \A k \in DOMAIN result : result'[k].at = result[k].at /\ result'[k].rva = result[k].rva
      <4>1. result[i] \in TableEntry
        BY <2>2, LcCursor
      <4> DEFINE noted == [result[i] EXCEPT !.notes = result[i].notes \cup {note}]
      <4>2. noted \in TableEntry /\ noted.at = result[i].at /\ noted.rva = result[i].rva
        <5>1. result[i].notes \cup {note} \in SUBSET TableNotes
          BY <4>1 DEF TableEntry, TableNotes
        <5> HIDE DEF TableNotes
        <5> QED BY <4>1, <5>1 DEF TableEntry
      <4>3. result' = [result EXCEPT ![i] = noted]
        BY <3>2
      <4> HIDE DEF noted
      <4> QED BY <2>2, <4>2, <4>3, LcCursor
    <3> QED BY <2>1, <3>1, <3>2
  <2>5. InPlace(result') /\ (AllOf(result') <=> AllOf(result))
    <3>1. InPlace(result)
      BY DEF LoadConfigInv
    <3>2. InPlace(result')
      BY <2>4, <3>1 DEF InPlace
    <3>3. InOrder(result') <=> InOrder(result)
      BY <2>4 DEF InOrder
    <3> QED BY <2>4, <3>2, <3>3 DEF AllOf
  <2>6. InPlace(result)' /\ (AllOf(result)' <=> AllOf(result))
    BY <2>1, <2>5, LcPrimed
  <2>7. /\ (TableNamed' <=> TableNamed) /\ (LC!Fits(LC!Part)' <=> LC!Fits(LC!Part)) /\ (IsPrefixes' <=> IsPrefixes)
    BY <2>1, LcSame
  <2>8. walk'.left \in 0 .. Len(result')
    BY <2>1, <2>2, <2>3, <2>4, LcCursor
  <2>9. /\ TableNamed /\ LC!Fits(LC!Part) /\ (errors = {} => AllOf(result)) /\ given \in Headers
        /\ (IsPrefixes \/ Len(result) <= MaxEntries)
    BY <2>1 DEF LoadConfigInv
  <2> QED BY <2>1, <2>3, <2>4, <2>6, <2>7, <2>8, <2>9, <1>h DEF LoadConfigInv
<1>2. CASE LC!HashesRead
  <2> DEFINE next == LC!Following(LC!Part)
  <2>1. pc = "hashes" /\ pc' = next /\ UNCHANGED <<given, walk, result, errors>>
    BY <1>2 DEF LC!HashesRead
  <2>2. LC!Part \in PartNames /\ given.part = LC!Part /\ PartIndex[LC!Part] \in 1 .. 14
    BY LcGiven, PartsPlaced
  <2>3. next = "done" \/ (next \in PartNames /\ PartIndex[next] = PartIndex[LC!Part] + 1)
    BY <2>2, FollowingPart
  <2> HIDE DEF next
  <2>4. (AllOf(result)' <=> AllOf(result)) /\ (InPlace(result)' <=> InPlace(result))
    BY <2>1, LcPrimed
  <2>5. (TableNamed' <=> TableNamed) /\ (IsPrefixes' <=> IsPrefixes)
    BY <2>1, LcSame
  <2>6. /\ TableNamed /\ (errors = {} => AllOf(result)) /\ InPlace(result)
        /\ (IsPrefixes \/ Len(result) <= MaxEntries)
        /\ given \in Headers /\ walk \in TableCursor /\ result \in Seq(TableEntry)
    BY <2>1 DEF LoadConfigInv
  <2>7. next \in PartNames => ~(PartIndex[next] <= PartIndex[given.part])
    BY <2>2, <2>3 DEF PartNames
  <2>8. next \notin {"descriptor", "entries", "hashes"}
    BY <2>3 DEF PartNames
  <2> QED BY <2>1, <2>3, <2>4, <2>5, <2>6, <2>7, <2>8 DEF LoadConfigInv
<1> QED BY <1>1, <1>2

LEMMA LoadConfigStep == ASSUME LoadConfigInv, LC!Next PROVE LoadConfigInv'
<1>1. CASE LC!ReadDescriptor
  BY <1>1, LcDescriptorStep
<1>2. CASE LC!ValidatePointer \/ LC!NoTable \/ LC!NoMetadata \/ LC!NoEntries
  BY <1>2, LcPassStep
<1>3. CASE LC!BeginTable
  BY <1>3, LcBeginStep
<1>4. CASE LC!EntryUnread \/ LC!LastPrefix \/ LC!AllRead
  BY <1>4, LcEndStep
<1>5. CASE LC!ExtraUnread
  BY <1>5, LcExtraStep
<1>6. CASE LC!ReadEntry
  BY <1>6, LcReadStep
<1>7. CASE LC!ReadHash \/ LC!HashesRead
  BY <1>7, LcHashStep
<1> QED BY <1>1, <1>2, <1>3, <1>4, <1>5, <1>6, <1>7, Zenon DEF LC!Next

\* A table of the load configuration about which nothing is reported is whole, and in order.
LEMMA LoadConfigWhole == LoadConfigInv => LC!TableWhole /\ LC!TableBounded
<1> SUFFICES ASSUME LoadConfigInv PROVE LC!TableWhole /\ LC!TableBounded
  OBVIOUS
<1>1. InPlace(result) /\ (IsPrefixes \/ Len(result) <= MaxEntries)
  BY DEF LoadConfigInv
<1>2. LC!TableBounded
  BY <1>1, Zenon DEF LC!TableBounded, InPlace, IsPrefixes, EntryBytes
<1>3. pc = "done" /\ errors = {} /\ TableNamed => AllOf(result)
  BY DEF LoadConfigInv
<1>4. LC!TableWhole
  BY <1>1, <1>3, Zenon DEF LC!TableWhole, InPlace, AllOf, InOrder, IsPrefixes, IsCf, EntryBytes, Counted, TableNamed
<1> QED BY <1>2, <1>4

-----------------------------------------------------------------------------
(* The data of a debug directory. *)

DataEntry == [at : Int, end : Int, read : BOOLEAN, aux : Nat]
DataCursor == [pos : Int, left : Int, table : Int, length : Int]
AllRead == \A i \in DOMAIN result : result[i].read
LastEntry == result[Len(result)]

\* A list goes on where its last entry ends, behind the padding; of symbols, what was read
\* and what is left are what the header says.
DebugDataInv ==
    /\ pc \in {"begin", "entries", "names", "symbols", "throws", "done"}
    /\ given.buf.size \in Nat /\ given.buf.physical \in Nat /\ given.buf.physical <= given.buf.size
    /\ given.relative \in Nat
    /\ walk \in DataCursor /\ result \in Seq(DataEntry)
    /\ pc = "begin" => result = <<>> /\ walk.table = 0
    /\ pc \in {"begin", "entries", "names", "symbols"} => AllRead
    /\ pc \in {"entries", "names"} => given.type \in DE!Listed
    /\ pc = "entries" =>
        /\ walk.pos <= given.buf.size
        /\ IF result = <<>> THEN walk.pos = DE!HeaderSize[given.type] /\ walk.table = 0
           ELSE /\ walk.pos = LastEntry.end
                /\ walk.table = (IF given.type = "pogo" THEN DE!GapAfter(walk.pos) ELSE 0)
    /\ pc = "names" => given.type = "pogo" /\ result # <<>>
    /\ pc = "symbols" =>
        /\ given.type = "coff"
        /\ IF result = <<>> THEN walk.left = walk.length \/ errors # {}
           ELSE /\ walk.pos = LastEntry.end + 18 * LastEntry.aux
                /\ errors = {} => walk.pos = result[1].at + 18 * (walk.length - walk.left)
    /\ DE!Contiguous /\ DE!Complete /\ DE!OnlyLastUnread

LEMMA DebugDataTypes ==
  ASSUME DebugDataInv
  PROVE  /\ walk.pos \in Int /\ walk.left \in Int /\ walk.table \in Int /\ walk.length \in Int
         /\ result \in Seq(DataEntry) /\ Len(result) \in Nat /\ DOMAIN result = 1 .. Len(result)
         /\ \A i \in DOMAIN result : result[i] \in DataEntry /\ result[i].at \in Int /\ result[i].end \in Int
                                     /\ result[i].read \in BOOLEAN /\ result[i].aux \in Nat
<1>1. walk \in DataCursor /\ result \in Seq(DataEntry)
  BY DEF DebugDataInv
<1>2. Len(result) \in Nat /\ DOMAIN result = 1 .. Len(result) /\ \A i \in DOMAIN result : result[i] \in DataEntry
  BY <1>1
<1>3. \A i \in DOMAIN result : result[i].at \in Int /\ result[i].end \in Int
                               /\ result[i].read \in BOOLEAN /\ result[i].aux \in Nat
  BY <1>2 DEF DataEntry
<1>4. walk.pos \in Int /\ walk.left \in Int /\ walk.table \in Int /\ walk.length \in Int
  BY <1>1 DEF DataCursor
<1> QED BY <1>1, <1>2, <1>3, <1>4

\* A string ends in the data.
LEMMA DebugStringEnds ==
  ASSUME given.buf.size \in Nat, given.buf.physical \in Nat, given.buf.physical <= given.buf.size,
         NEW p \in Int, NEW width \in {1, 2}, NEW max, NEW end \in DE!StringEnds(DE!Buf, p, width, max)
  PROVE  end \in Int /\ end <= given.buf.size
<1>1. CASE end \in DE!PhysicalEnds(DE!Buf, p, width, max)
  BY <1>1 DEF DE!PhysicalEnds, DE!Buf
<1>2. CASE end \in DE!VirtualEnds(DE!Buf, p, width, max)
  <2> DEFINE whole == IF p >= DE!Buf.physical THEN 0 ELSE (DE!Buf.physical - p) \div width
  <2>1. whole \in Int
    <3>1. CASE width = 1
      BY <3>1 DEF DE!Buf
    <3>2. CASE width = 2
      BY <3>2 DEF DE!Buf
    <3> QED BY <3>1, <3>2
  <2>2. end \in {p + (whole + 1) * width, p + (whole + 2) * width} /\ end <= DE!Buf.size
    BY <1>2 DEF DE!VirtualEnds
  <2> HIDE DEF whole
  <2>3. end \in Int
    BY <2>1, <2>2
  <2> QED BY <2>2, <2>3 DEF DE!Buf
<1> QED BY <1>1, <1>2 DEF DE!StringEnds

\* What is read at once is one entry, or none, and the last that is read.
LEMMA DebugDataOnce ==
  ASSUME DebugDataInv, pc = "begin", pc' \in {"throws", "done"}, UNCHANGED <<given, walk>>,
         \/ result' = <<>>
         \/ \E end \in Int, at \in Int : result' = <<DE!Entry(at, end, TRUE)>>
                                         /\ (given.type = "pdbhash" => end = given.buf.size),
         pc' = "done" /\ errors' = {} => /\ given.type \notin DE!Listed \cup {"coff"}
                                         /\ given.type = "pdbhash" => result' # <<>>
  PROVE  DebugDataInv'
<1>1. /\ given' = given /\ walk' = walk /\ walk \in DataCursor
      /\ given.buf.size \in Nat /\ given.buf.physical \in Nat /\ given.buf.physical <= given.buf.size
      /\ given.relative \in Nat
  BY DEF DebugDataInv
<1>2. CASE result' = <<>>
  BY <1>1, <1>2 DEF DebugDataInv, DE!Contiguous, DE!Complete, DE!OnlyLastUnread, DE!LastRead, DE!Buf
<1>3. ASSUME NEW end \in Int, NEW at \in Int, result' = <<DE!Entry(at, end, TRUE)>>,
             given.type = "pdbhash" => end = given.buf.size
      PROVE  DebugDataInv'
  <2> DEFINE entry == DE!Entry(at, end, TRUE)
  <2>1. entry \in DataEntry /\ entry.end = end /\ entry.read = TRUE
    BY DEF DE!Entry, DataEntry
  <2>2. result' = <<entry>>
    BY <1>3
  <2> HIDE DEF entry
  <2>3. result' \in Seq(DataEntry) /\ Len(result') = 1 /\ DOMAIN result' = {1} /\ result'[1] = entry
    BY <2>1, <2>2
  <2>4. DE!Contiguous' /\ DE!OnlyLastUnread'
    BY <2>1, <2>3 DEF DE!Contiguous, DE!OnlyLastUnread, DE!LastRead
  <2>5. DE!Complete'
    BY <1>1, <1>3, <2>1, <2>3 DEF DE!Complete, DE!Buf
  <2> QED BY <1>1, <2>3, <2>4, <2>5 DEF DebugDataInv
<1> QED BY <1>2, <1>3

\* What fails is reported, and changes nothing.
LEMMA DebugDataFails ==
  ASSUME DebugDataInv, NEW e, DE!Fail(e) PROVE DebugDataInv'
<1>1. UNCHANGED <<given, walk, result>> /\ pc' = "done" /\ errors' # {} /\ errors \subseteq errors'
  BY DEF DE!Fail
<1>2. DE!Contiguous' /\ DE!Complete' /\ DE!OnlyLastUnread'
  BY <1>1 DEF DebugDataInv, DE!Contiguous, DE!Complete, DE!OnlyLastUnread, DE!LastRead
<1> QED BY <1>1, <1>2 DEF DebugDataInv

LEMMA DebugDataStart == DE!DataInit => DebugDataInv
<1> SUFFICES ASSUME DE!DataInit PROVE DebugDataInv
  OBVIOUS
<1>1. /\ given.buf.size \in DataSizes /\ given.buf.physical \in DataSizes /\ given.relative \in {0, 2}
      /\ given.buf.physical <= given.buf.size
  BY DEF DE!DataInit
<1>2. DataSizes \subseteq Nat
  BY DirectoriesAssumption DEF DirectoriesAssumption
<1>3. pc = "begin" /\ walk = [pos |-> 0, left |-> 0, table |-> 0, length |-> 0] /\ result = <<>>
  BY DEF DE!DataInit
<1>4. walk \in DataCursor /\ walk.table = 0
  BY <1>3 DEF DataCursor
<1>5. given.buf.size \in Nat /\ given.buf.physical \in Nat /\ given.buf.physical <= given.buf.size /\ given.relative \in Nat
  <2>1. given.buf.size \in Nat /\ given.buf.physical \in Nat
    BY <1>1, <1>2, Zenon
  <2>2. given.relative \in Nat
    BY <1>1
  <2> QED BY <2>1, <2>2, <1>1
<1>6. Len(result) = 0 /\ DOMAIN result = {} /\ result \in Seq(DataEntry)
  BY <1>3
<1>7. AllRead /\ DE!Contiguous /\ DE!OnlyLastUnread
  BY <1>6 DEF AllRead, DE!Contiguous, DE!OnlyLastUnread, DE!LastRead
<1>8. DE!Complete
  BY <1>3 DEF DE!Complete
<1> QED BY <1>3, <1>4, <1>5, <1>6, <1>7, <1>8 DEF DebugDataInv

LEMMA DebugDataBeginStep ==
  ASSUME DebugDataInv,
         DE!Unsupported \/ DE!NoData \/ DE!HeaderUnread \/ DE!OnePart \/ DE!Misc \/ DE!Repro \/ DE!Spgo
         \/ DE!CodeView \/ DE!PdbHash \/ DE!Mpdb
  PROVE  DebugDataInv'
<1>t. given.buf.size \in Nat /\ given.buf.physical \in Nat /\ given.buf.physical <= given.buf.size
  BY DEF DebugDataInv
<1>b. pc = "begin" => result = <<>>
  BY DEF DebugDataInv
<1>1. CASE DE!Unsupported
  <2>1. /\ pc = "begin" /\ pc' = "throws" /\ UNCHANGED <<given, walk>> /\ result' = <<>>
    BY <1>1, <1>b DEF DE!Unsupported
  <2> QED BY <2>1, DebugDataOnce
<1>2. CASE DE!NoData \/ DE!OnePart
  <2>1. /\ pc = "begin" /\ pc' = "done" /\ UNCHANGED <<given, walk>> /\ result' = <<>>
        /\ given.type \in {"iltcg", "repro", "vc_feature", "mpx", "ex_dllcharacteristics"}
    BY <1>2, <1>b DEF DE!NoData, DE!OnePart, DE!Done, DE!Header, DE!Fixed
  <2> QED BY <2>1, DebugDataOnce DEF DE!Listed
<1>3. CASE DE!HeaderUnread
  BY <1>3, DebugDataFails DEF DE!HeaderUnread
<1>4. CASE DE!Misc
  <2>1. pc = "begin" /\ given.type = "misc" /\ pc' = "done" /\ UNCHANGED <<given, walk>>
    BY <1>4 DEF DE!Misc, DE!Header, DE!Done
  <2>2. result' = <<>> \/ \E length \in {0, 3, 8}, width \in {1, 2} :
            \E end \in DE!StringEnds(DE!Buf, 12, width, length) : result' = <<DE!Entry(12, end, TRUE)>>
    BY <1>4, <1>b DEF DE!Misc, DE!Header, DE!Done
  <2>3. result' = <<>> \/ \E end \in Int, at \in Int : result' = <<DE!Entry(at, end, TRUE)>>
    <3>1. ASSUME NEW length \in {0, 3, 8}, NEW width \in {1, 2}, NEW end \in DE!StringEnds(DE!Buf, 12, width, length)
          PROVE  end \in Int
      BY <1>t, DebugStringEnds
    <3>2. 12 \in Int
      OBVIOUS
    <3> QED BY <2>2, <3>1, <3>2, Zenon
  <2> QED BY <2>1, <2>3, DebugDataOnce DEF DE!Listed
<1>5. CASE DE!Repro
  <2>1. PICK length \in {0, 4, DE!MaxHashLength, DE!MaxHashLength + 1} :
          \/ DE!Fail("too_long_hash") \/ DE!Fail("unable_to_deserialize_hash")
          \/ result' = <<DE!Entry(4, 4 + length, TRUE)>> /\ pc' = "done" /\ UNCHANGED <<given, walk, errors>>
    BY <1>5, Zenon DEF DE!Repro
  <2>2. pc = "begin" /\ given.type = "repro"
    BY <1>5 DEF DE!Repro, DE!Header
  <2>3. CASE DE!Fail("too_long_hash") \/ DE!Fail("unable_to_deserialize_hash")
    BY <2>3, DebugDataFails
  <2>4. CASE result' = <<DE!Entry(4, 4 + length, TRUE)>> /\ pc' = "done" /\ UNCHANGED <<given, walk, errors>>
    <3>1. 4 \in Int /\ 4 + length \in Int
      BY DEF DE!MaxHashLength
    <3>2. \E end \in Int, at \in Int : result' = <<DE!Entry(at, end, TRUE)>>
      BY <3>1, <2>4
    <3> QED BY <2>2, <2>4, <3>2, DebugDataOnce DEF DE!Listed
  <2> QED BY <2>1, <2>3, <2>4
<1>s. ASSUME NEW p \in Int, NEW width \in {1, 2}, NEW max, NEW e, DE!ReadString(p, width, max, e),
             pc = "begin", given.type \in {"spgo", "codeview"}
      PROVE  DebugDataInv'
  <2>1. CASE DE!Fail(e)
    BY <2>1, DebugDataFails
  <2>2. CASE /\ \E end \in DE!StringEnds(DE!Buf, p, width, max) : result' = <<DE!Entry(p, end, TRUE)>>
             /\ pc' = "done" /\ UNCHANGED <<given, walk, errors>>
    <3>1. PICK end \in DE!StringEnds(DE!Buf, p, width, max) : result' = <<DE!Entry(p, end, TRUE)>>
      BY <2>2
    <3>2. end \in Int
      BY <1>t, DebugStringEnds
    <3>3. \E z \in Int, at \in Int : result' = <<DE!Entry(at, z, TRUE)>>
      BY <3>1, <3>2
    <3> QED BY <1>s, <2>2, <3>3, DebugDataOnce DEF DE!Listed
  <2> QED BY <1>s, <2>1, <2>2 DEF DE!ReadString
<1>6. CASE DE!Spgo
  BY <1>6, <1>s DEF DE!Spgo, DE!Header
<1>7. CASE DE!CodeView
  <2>1. pc = "begin" /\ given.type = "codeview"
    BY <1>7 DEF DE!CodeView, DE!Header
  <2>2. \/ DE!Done
        \/ DE!Fail("unable_to_deserialize")
        \/ \E kind \in DOMAIN DE!PdbSize : DE!ReadString(DE!PdbSize[kind], 1, DE!Unlimited, "unable_to_deserialize_name")
    BY <1>7 DEF DE!CodeView
  <2>3. CASE DE!Done
    <3>1. pc' = "done" /\ UNCHANGED <<given, walk>> /\ result' = <<>>
      BY <2>1, <2>3, <1>b DEF DE!Done
    <3> QED BY <2>1, <3>1, DebugDataOnce DEF DE!Listed
  <2>4. CASE DE!Fail("unable_to_deserialize")
    BY <2>4, DebugDataFails
  <2>5. ASSUME NEW kind \in DOMAIN DE!PdbSize,
               DE!ReadString(DE!PdbSize[kind], 1, DE!Unlimited, "unable_to_deserialize_name")
        PROVE  DebugDataInv'
    <3>1. DE!PdbSize[kind] \in Int
      BY DEF DE!PdbSize
    <3> QED BY <3>1, <2>1, <2>5, <1>s
  <2> QED BY <2>2, <2>3, <2>4, <2>5
<1>8. CASE DE!PdbHash
  <2>1. pc = "begin" /\ given.type = "pdbhash"
    BY <1>8 DEF DE!PdbHash, DE!Header
  <2>2. \/ \E e : DE!Fail(e)
        \/ \E end \in DE!StringEnds(DE!Buf, 0, 1, DE!Unlimited) :
             result' = <<DE!Entry(end, DE!Buf.size, TRUE)>> /\ pc' = "done" /\ UNCHANGED <<given, walk, errors>>
    BY <1>8 DEF DE!PdbHash
  <2>3. CASE \E e : DE!Fail(e)
    BY <2>3, DebugDataFails
  <2>4. ASSUME NEW end \in DE!StringEnds(DE!Buf, 0, 1, DE!Unlimited),
               result' = <<DE!Entry(end, DE!Buf.size, TRUE)>>, pc' = "done", UNCHANGED <<given, walk, errors>>
        PROVE  DebugDataInv'
    <3>1. end \in Int /\ DE!Buf.size \in Int /\ DE!Buf.size = given.buf.size
      BY <1>t, DebugStringEnds DEF DE!Buf
    <3>2. \E z \in Int, at \in Int : result' = <<DE!Entry(at, z, TRUE)>> /\ (given.type = "pdbhash" => z = given.buf.size)
      BY <2>4, <3>1
    <3>3. result' # <<>>
      BY <2>4
    <3> QED BY <2>1, <2>4, <3>2, <3>3, DebugDataOnce DEF DE!Listed
  <2> QED BY <2>2, <2>3, <2>4
<1>9. CASE DE!Mpdb
  <2>1. /\ pc = "begin" /\ given.type = "mpdb" /\ pc' = "done" /\ UNCHANGED <<given, walk>>
        /\ result' = <<DE!Entry(8, DE!Buf.size, TRUE)>>
    BY <1>9 DEF DE!Mpdb, DE!Header
  <2>2. DE!Buf.size \in Int /\ 8 \in Int
    BY <1>t DEF DE!Buf
  <2>3. \E end \in Int, at \in Int : result' = <<DE!Entry(at, end, TRUE)>>
    BY <2>1, <2>2
  <2> QED BY <2>1, <2>3, DebugDataOnce DEF DE!Listed
<1> QED BY <1>1, <1>2, <1>3, <1>4, <1>5, <1>6, <1>7, <1>8, <1>9

\* The gap before a group is what rounds the place of its end up.
LEMMA GapAligns ==
  ASSUME NEW n \in Int, given.relative \in Nat
  PROVE  DE!GapAfter(n) \in 0 .. 3 /\ (given.relative + (n + DE!GapAfter(n))) % 4 = 0
<1> DEFINE m == given.relative + n
           up == ((m + 4 - 1) \div 4) * 4
<1>1. m \in Int
  OBVIOUS
<1>2. DE!GapAfter(n) = up - m
  BY DEF DE!GapAfter, DE!RoundUp
<1> HIDE DEF m
<1>3. up - m \in 0 .. 3 /\ up % 4 = 0 /\ up \in Int
  BY <1>1
<1> HIDE DEF up
<1>4. given.relative + (n + (up - m)) = up
  BY <1>1, <1>3 DEF m
<1> QED BY <1>2, <1>3, <1>4

LEMMA CanReadEnds ==
  ASSUME given.buf.size \in Nat, NEW p \in Int, NEW n \in Int, DE!CanRead(DE!Buf, p, n)
  PROVE  p + n <= given.buf.size
  BY DEF DE!CanRead, DE!Buf

\* An entry behind the others, where the last of them ends.
LEMMA DebugDataAppends ==
  ASSUME DebugDataInv, pc # "done", pc # "throws", given' = given, NEW entry \in DataEntry, result' = Append(result, entry),
         result # <<>> =>
            /\ given.type = "coff" => entry.at = LastEntry.end + 18 * LastEntry.aux
            /\ given.type = "pogo" => /\ (given.relative + entry.at) % 4 = 0
                                      /\ entry.at \in LastEntry.end .. LastEntry.end + 3
            /\ given.type \in DE!Listed \ {"pogo"} => entry.at = LastEntry.end
  PROVE  /\ result' \in Seq(DataEntry) /\ Len(result') = Len(result) + 1 /\ result' # <<>>
         /\ DOMAIN result' = 1 .. Len(result) + 1
         /\ LastEntry' = entry /\ DE!Contiguous'
         /\ (entry.read => AllRead') /\ (entry.read \/ errors' # {} => DE!OnlyLastUnread')
         /\ result # <<>> => result'[1] = result[1]
         /\ result = <<>> => result'[1] = entry
<1>1. /\ result' \in Seq(DataEntry) /\ Len(result') = Len(result) + 1 /\ DOMAIN result' = 1 .. Len(result) + 1
      /\ result'[Len(result) + 1] = entry /\ \A i \in 1 .. Len(result) : result'[i] = result[i]
      /\ Len(result) \in Nat /\ DOMAIN result = 1 .. Len(result)
  BY DebugDataTypes, Appended
<1>2. LastEntry' = entry
  BY <1>1 DEF LastEntry
<1>3. AllRead
  BY DEF DebugDataInv
<1>4. result # <<>> <=> Len(result) > 0
  BY DebugDataTypes
<1>5. DE!Contiguous'
  <2>1. \A i \in 1 .. Len(result') - 1 : i \in 1 .. Len(result)
    BY <1>1
  <2>2. ASSUME NEW i \in 1 .. Len(result)
        PROVE  /\ given.type = "coff" => result'[i + 1].at = result'[i].end + 18 * result'[i].aux
               /\ given.type = "pogo" => /\ (given.relative + result'[i + 1].at) % 4 = 0
                                         /\ result'[i + 1].at \in result'[i].end .. result'[i].end + 3
               /\ given.type \in DE!Listed \ {"pogo"} => result'[i + 1].at = result'[i].end
    <3>1. CASE i = Len(result)
      <4>1. result'[i + 1] = entry /\ result'[i] = LastEntry /\ result # <<>>
        BY <1>1, <1>4, <3>1 DEF LastEntry
      <4> QED BY <4>1
    <3>2. CASE i # Len(result)
      <4>1. i \in 1 .. Len(result) - 1 /\ result'[i] = result[i] /\ result'[i + 1] = result[i + 1]
        BY <1>1, <3>2
      <4> QED BY <4>1 DEF DebugDataInv, DE!Contiguous, DE!LastRead
    <3> QED BY <3>1, <3>2
  <2> QED BY <2>1, <2>2 DEF DE!Contiguous, DE!LastRead
<1>6. entry.read => AllRead'
  BY <1>1, <1>3 DEF AllRead
<1>7. entry.read \/ errors' # {} => DE!OnlyLastUnread'
  <2>1. \A i \in 1 .. Len(result) : result'[i].read
    BY <1>1, <1>3 DEF AllRead
  <2> QED BY <1>1, <2>1 DEF DE!OnlyLastUnread, DE!LastRead
<1>8. result' # <<>>
  BY <1>1
<1>9. (result # <<>> => result'[1] = result[1]) /\ (result = <<>> => result'[1] = entry)
  BY <1>1, <1>4
<1> QED BY <1>1, <1>2, <1>5, <1>6, <1>7, <1>8, <1>9

LEMMA DebugDataListStep ==
  ASSUME DebugDataInv, DE!BeginList \/ DE!ListEnds \/ DE!TooManyEntries \/ DE!EntryUnread
  PROVE  DebugDataInv'
<1>t. /\ given.buf.size \in Nat /\ given.buf.physical \in Nat /\ given.buf.physical <= given.buf.size
      /\ given.relative \in Nat /\ walk \in DataCursor /\ result \in Seq(DataEntry) /\ MaxCount \in Nat
  BY DirectoriesAssumption DEF DebugDataInv, DirectoriesAssumption
<1>1. CASE DE!BeginList
  <2>1. /\ pc = "begin" /\ pc' = "entries" /\ given.type \in DE!Listed /\ UNCHANGED <<given, result, errors>>
        /\ walk' = [walk EXCEPT !.pos = DE!HeaderSize[given.type], !.left = MaxCount]
        /\ DE!CanRead(DE!Buf, 0, DE!HeaderSize[given.type])
    BY <1>1 DEF DE!BeginList, DE!Header
  <2>2. result = <<>> /\ walk.table = 0 /\ AllRead
    BY <2>1 DEF DebugDataInv
  <2>3. DE!HeaderSize[given.type] \in Nat
    BY <2>1 DEF DE!HeaderSize, DE!Listed
  <2>4. walk' \in DataCursor
    <3>1. DE!HeaderSize[given.type] \in Int /\ MaxCount \in Int
      BY <2>3, <1>t
    <3> QED BY <2>1, <3>1, <1>t, Zenon DEF DataCursor
  <2>5. walk'.pos = DE!HeaderSize[given.type] /\ walk'.table = 0
    BY <2>1, <2>2, <1>t DEF DataCursor
  <2>6. DE!HeaderSize[given.type] <= given.buf.size
    <3> DEFINE size == DE!HeaderSize[given.type]
    <3>1. size \in Int /\ 0 \in Int /\ DE!CanRead(DE!Buf, 0, size)
      BY <2>1, <2>3
    <3> HIDE DEF size
    <3>2. 0 + size <= given.buf.size
      BY <3>1, <1>t, CanReadEnds
    <3>3. size <= given.buf.size
      BY <3>1, <3>2
    <3> QED BY <3>3 DEF size
  <2>7. AllRead' /\ DE!Contiguous' /\ DE!Complete' /\ DE!OnlyLastUnread' /\ DE!HeaderSize[given.type]' = DE!HeaderSize[given.type]
    BY <2>1 DEF DebugDataInv, AllRead, DE!Contiguous, DE!Complete, DE!OnlyLastUnread, DE!LastRead, DE!HeaderSize
  <2> QED BY <1>t, <2>1, <2>2, <2>4, <2>5, <2>6, <2>7 DEF DebugDataInv
<1>2. CASE DE!ListEnds
  <2>1. /\ pc = "entries" /\ pc' = "done" /\ UNCHANGED <<given, walk, result, errors>>
        /\ ~(walk.pos + walk.table < given.buf.size)
    BY <1>2 DEF DE!ListEnds, DE!More, DE!Done, DE!Buf
  <2>2. DE!Complete'
    <3>1. walk.pos <= given.buf.size /\ given.type \in DE!Listed
      BY <2>1 DEF DebugDataInv
    <3>2. given.type # "coff" /\ given.type # "pdbhash"
      BY <3>1 DEF DE!Listed
    <3>3. CASE result = <<>>
      <4>1. walk.pos = DE!HeaderSize[given.type] /\ walk.table = 0
        BY <2>1, <3>3 DEF DebugDataInv
      <4>2. given.buf.size <= DE!HeaderSize[given.type]
        BY <2>1, <4>1, <1>t, DebugDataTypes
      <4>3. DE!Buf' = given.buf /\ DE!HeaderSize[given.type]' = DE!HeaderSize[given.type]
        BY <2>1 DEF DE!Buf, DE!HeaderSize
      <4> QED BY <2>1, <3>2, <3>3, <4>2, <4>3 DEF DE!Complete
    <3>4. CASE result # <<>>
      <4>1. walk.pos = LastEntry.end /\ walk.table = (IF given.type = "pogo" THEN DE!GapAfter(walk.pos) ELSE 0)
        BY <2>1, <3>4 DEF DebugDataInv
      <4>2. walk.table \in 0 .. 3
        BY <4>1, <1>t, GapAligns, DebugDataTypes
      <4>3. walk.pos \in given.buf.size - 3 .. given.buf.size
        <5>1. walk.pos \in Int /\ walk.table \in 0 .. 3
          BY <4>2, DebugDataTypes
        <5>2. walk.pos <= given.buf.size /\ walk.pos + walk.table >= given.buf.size
          BY <2>1, <3>1, <5>1, <1>t
        <5> QED BY <5>1, <5>2, <1>t
      <4> QED BY <2>1, <3>2, <3>4, <4>1, <4>3 DEF DE!Complete, DE!LastRead, LastEntry, DE!Buf
    <3> QED BY <3>3, <3>4
  <2>3. DE!Contiguous' /\ DE!OnlyLastUnread'
    BY <2>1 DEF DebugDataInv, DE!Contiguous, DE!OnlyLastUnread, DE!LastRead
  <2> QED BY <1>t, <2>1, <2>2, <2>3 DEF DebugDataInv
<1>3. CASE DE!TooManyEntries
  BY <1>3, DebugDataFails DEF DE!TooManyEntries
<1>4. CASE DE!EntryUnread
  <2>1. /\ pc = "entries" /\ pc' = "done" /\ UNCHANGED <<given, walk>> /\ errors' # {}
        /\ result' = Append(result, DE!Entry(walk.pos + walk.table, 0, FALSE))
    BY <1>4 DEF DE!EntryUnread, DE!More
  <2> DEFINE entry == DE!Entry(walk.pos + walk.table, 0, FALSE)
  <2>2. entry \in DataEntry /\ entry.at = walk.pos + walk.table
    BY DebugDataTypes DEF DataEntry, DE!Entry
  <2>3. result' = Append(result, entry)
    BY <2>1
  <2> HIDE DEF entry
  <2>4. result # <<>> =>
          /\ given.type = "coff" => entry.at = LastEntry.end + 18 * LastEntry.aux
          /\ given.type = "pogo" => /\ (given.relative + entry.at) % 4 = 0
                                    /\ entry.at \in LastEntry.end .. LastEntry.end + 3
          /\ given.type \in DE!Listed \ {"pogo"} => entry.at = LastEntry.end
    <3> SUFFICES ASSUME result # <<>>
                 PROVE  /\ given.type = "coff" => entry.at = LastEntry.end + 18 * LastEntry.aux
                        /\ given.type = "pogo" => /\ (given.relative + entry.at) % 4 = 0
                                                  /\ entry.at \in LastEntry.end .. LastEntry.end + 3
                        /\ given.type \in DE!Listed \ {"pogo"} => entry.at = LastEntry.end
      OBVIOUS
    <3>1. /\ walk.pos = LastEntry.end /\ walk.table = (IF given.type = "pogo" THEN DE!GapAfter(walk.pos) ELSE 0)
          /\ given.type # "coff"
      BY <2>1 DEF DebugDataInv, DE!Listed
    <3>2. DE!GapAfter(walk.pos) \in 0 .. 3 /\ (given.relative + (walk.pos + DE!GapAfter(walk.pos))) % 4 = 0
      BY <1>t, GapAligns, DebugDataTypes
    <3> QED BY <3>1, <3>2, <2>2, DebugDataTypes
  <2>5. result' \in Seq(DataEntry) /\ DE!Contiguous' /\ DE!OnlyLastUnread'
    BY <2>1, <2>2, <2>3, <2>4, DebugDataAppends
  <2>6. DE!Complete'
    BY <2>1 DEF DE!Complete
  <2> QED BY <1>t, <2>1, <2>5, <2>6 DEF DebugDataInv
<1> QED BY <1>1, <1>2, <1>3, <1>4

LEMMA DebugDataReadStep == ASSUME DebugDataInv, DE!EntryRead PROVE DebugDataInv'
<1> DEFINE at == walk.pos + walk.table
           size == DE!EntrySize[given.type]
           end == IF given.type = "pogo" THEN 0 ELSE at + size
           entry == DE!Entry(at, end, TRUE)
<1>t. /\ given.buf.size \in Nat /\ given.buf.physical \in Nat /\ given.buf.physical <= given.buf.size
      /\ given.relative \in Nat /\ walk \in DataCursor
  BY DEF DebugDataInv
<1>1. /\ pc = "entries" /\ given.type \in DE!Listed /\ UNCHANGED <<given, errors>> /\ DE!CanRead(DE!Buf, at, size)
      /\ result' = Append(result, entry)
      /\ IF given.type # "pogo" THEN walk' = [walk EXCEPT !.pos = at + size, !.left = @ - 1] /\ pc' = pc
         ELSE walk' = [walk EXCEPT !.pos = at + 8, !.table = 0, !.left = @ - 1] /\ pc' = "names"
  <2>1. pc = "entries" /\ UNCHANGED <<given, errors>> /\ DE!CanRead(DE!Buf, at, size)
    BY DEF DE!EntryRead, DE!More
  <2>2. given.type \in DE!Listed
    BY <2>1 DEF DebugDataInv
  <2>3. CASE given.type # "pogo"
    BY <2>1, <2>2, <2>3 DEF DE!EntryRead
  <2>4. CASE given.type = "pogo"
    BY <2>1, <2>2, <2>4 DEF DE!EntryRead
  <2> QED BY <2>3, <2>4
<1>2. at \in Int /\ size \in Nat /\ walk.left \in Int
  BY <1>1, DebugDataTypes DEF DE!EntrySize, DE!Listed
<1> HIDE DEF size
<1>3. at + size <= given.buf.size
  BY <1>1, <1>2, <1>t, CanReadEnds
<1>4. result # <<>> => walk.pos = LastEntry.end /\ walk.table = (IF given.type = "pogo" THEN DE!GapAfter(walk.pos) ELSE 0)
  BY <1>1 DEF DebugDataInv
<1>5. DE!GapAfter(walk.pos) \in 0 .. 3 /\ (given.relative + (walk.pos + DE!GapAfter(walk.pos))) % 4 = 0
  BY <1>t, GapAligns, DebugDataTypes
<1>6. given.type # "coff" /\ given.type # "pdbhash"
  BY <1>1 DEF DE!Listed
<1>7. result # <<>> =>
        /\ given.type = "coff" => at = LastEntry.end + 18 * LastEntry.aux
        /\ given.type = "pogo" => /\ (given.relative + at) % 4 = 0
                                  /\ at \in LastEntry.end .. LastEntry.end + 3
        /\ given.type \in DE!Listed \ {"pogo"} => at = LastEntry.end
  BY <1>4, <1>5, <1>6, DebugDataTypes
<1> HIDE DEF at
<1>8. end \in Int
  BY <1>2
<1>9. given.type # "pogo" => end = at + size
  OBVIOUS
<1> HIDE DEF end
<1>10. entry \in DataEntry /\ entry.at = at /\ entry.end = end /\ entry.read = TRUE
  BY <1>2, <1>8 DEF DataEntry, DE!Entry
<1> HIDE DEF entry
<1>11. result' \in Seq(DataEntry) /\ DE!Contiguous' /\ DE!OnlyLastUnread' /\ AllRead' /\ LastEntry' = entry /\ result' # <<>>
  <2>1. pc # "done" /\ pc # "throws" /\ given' = given /\ result' = Append(result, entry)
    BY <1>1
  <2> QED BY <2>1, <1>7, <1>10, DebugDataAppends
<1>12. CASE given.type # "pogo"
  <2>1. walk' = [walk EXCEPT !.pos = at + size, !.left = walk.left - 1] /\ pc' = "entries"
    BY <1>1, <1>12
  <2>2. at + size \in Int /\ walk.left - 1 \in Int
    BY <1>2
  <2>3. walk' \in DataCursor
    BY <2>1, <2>2, <1>t, Zenon DEF DataCursor
  <2>4. walk'.pos = at + size /\ walk'.table = walk.table
    BY <2>1, <1>t DEF DataCursor
  <2>5. walk.table = 0
    BY <1>1, <1>12 DEF DebugDataInv
  <2>6. DE!Complete'
    BY <2>1 DEF DE!Complete
  <2> QED BY <1>t, <1>1, <1>3, <1>9, <1>10, <1>11, <1>12, <2>1, <2>3, <2>4, <2>5, <2>6 DEF DebugDataInv
<1>13. CASE given.type = "pogo"
  <2>1. walk' = [walk EXCEPT !.pos = at + 8, !.table = 0, !.left = walk.left - 1] /\ pc' = "names"
    BY <1>1, <1>13
  <2>2. at + 8 \in Int /\ walk.left - 1 \in Int /\ 0 \in Int
    BY <1>2
  <2>3. walk' \in DataCursor
    BY <2>1, <2>2, <1>t, Zenon DEF DataCursor
  <2>4. DE!Complete'
    BY <2>1 DEF DE!Complete
  <2> QED BY <1>t, <1>1, <1>11, <1>13, <2>1, <2>3, <2>4 DEF DebugDataInv
<1> QED BY <1>12, <1>13

\* The name of a group is behind its header, and says where the group ends.
LEMMA DebugDataNameStep == ASSUME DebugDataInv, DE!GroupName PROVE DebugDataInv'
<1>t. /\ given.buf.size \in Nat /\ given.buf.physical \in Nat /\ given.buf.physical <= given.buf.size
      /\ given.relative \in Nat /\ walk \in DataCursor /\ result \in Seq(DataEntry)
  BY DEF DebugDataInv
<1>1. pc = "names" /\ given.type = "pogo" /\ result # <<>> /\ AllRead
  BY DEF DE!GroupName, DebugDataInv
<1>2. CASE DE!Fail("unable_to_deserialize_name")
  BY <1>2, DebugDataFails
<1>3. ASSUME NEW end \in DE!StringEnds(DE!Buf, walk.pos, 1, DE!Unlimited),
             result' = [result EXCEPT ![DE!LastRead].end = end],
             walk' = [walk EXCEPT !.pos = end, !.table = DE!GapAfter(end)],
             pc' = "entries", UNCHANGED <<given, errors>>
      PROVE  DebugDataInv'
  <2> DEFINE last == Len(result)
             entry == [result[last] EXCEPT !.end = end]
  <2>1. end \in Int /\ end <= given.buf.size
    BY <1>t, DebugStringEnds, DebugDataTypes
  <2>2. last \in 1 .. Len(result) /\ Len(result) \in Nat /\ DOMAIN result = 1 .. Len(result)
    BY <1>1, DebugDataTypes
  <2>3. entry \in DataEntry /\ entry.end = end /\ entry.at = result[last].at /\ entry.read = result[last].read
    <3>1. result[last] \in DataEntry
      BY <2>2, DebugDataTypes
    <3> QED BY <3>1, <2>1 DEF DataEntry
  <2>4. result' = [result EXCEPT ![last] = entry]
    BY <1>3 DEF DE!LastRead
  <2> HIDE DEF entry
  <2>5. /\ result' \in Seq(DataEntry) /\ Len(result') = Len(result) /\ DOMAIN result' = 1 .. Len(result)
        /\ result'[last] = entry /\ \A i \in 1 .. Len(result) - 1 : result'[i] = result[i]
        /\ result' # <<>>
    <3>1. result \in Seq(DataEntry) /\ entry \in DataEntry
      BY <1>t, <2>3
    <3>2. result' \in Seq(DataEntry) /\ Len(result') = Len(result) /\ DOMAIN result' = DOMAIN result
      BY <3>1, <2>2, <2>4
    <3>3. result'[last] = entry /\ \A i \in 1 .. Len(result) - 1 : result'[i] = result[i]
      <4>1. \A i \in DOMAIN result : result'[i] = IF i = last THEN entry ELSE result[i]
        BY <2>4
      <4> QED BY <4>1, <2>2
    <3>4. result' # <<>>
      <4>1. Len(result') # 0
        BY <3>2, <2>2
      <4> QED BY <4>1
    <3> QED BY <3>2, <3>3, <3>4, <2>2
  <2>6. DE!GapAfter(end) \in Int
    BY <2>1, <1>t, GapAligns
  <2>7. walk' \in DataCursor
    BY <1>3, <2>1, <2>6, <1>t, Zenon DEF DataCursor
  <2>8. walk'.pos = end /\ walk'.table = DE!GapAfter(end)
    BY <1>3, <1>t DEF DataCursor
  <2>9. \A i \in 1 .. Len(result) : result'[i].at = result[i].at /\ result'[i].read = result[i].read
    BY <2>2, <2>3, <2>5
  <2>10. AllRead' /\ DE!OnlyLastUnread'
    BY <1>1, <2>2, <2>5, <2>9 DEF AllRead, DE!OnlyLastUnread
  <2>11. DE!Contiguous'
    <3>1. \A i \in 1 .. Len(result) - 1 : result'[i] = result[i] /\ result'[i + 1].at = result[i + 1].at
      BY <2>2, <2>5, <2>9
    <3>2. given' = given /\ Len(result') = Len(result)
      BY <1>3, <2>5
    <3> QED BY <1>1, <3>1, <3>2 DEF DebugDataInv, DE!Contiguous, DE!LastRead, DE!Listed
  <2>12. DE!Complete'
    BY <1>3 DEF DE!Complete
  <2>13. DE!GapAfter(walk.pos)' = DE!GapAfter(end) /\ LastEntry'.end = end
    BY <1>3, <2>3, <2>5, <2>8 DEF DE!GapAfter, LastEntry
  <2>14. given.type \in DE!Listed
    BY <1>1 DEF DE!Listed
  <2> QED BY <1>t, <1>1, <1>3, <2>1, <2>5, <2>7, <2>8, <2>10, <2>11, <2>12, <2>13, <2>14 DEF DebugDataInv
<1> QED BY <1>2, <1>3 DEF DE!GroupName

\* The smaller one of two.
LEMMA MinOfTwo ==
  ASSUME NEW a \in Int, NEW b \in Int
  PROVE  DE!Min({a, b}) = IF a <= b THEN a ELSE b
  BY DEF DE!Min

LEMMA DebugDataTableStep == ASSUME DebugDataInv, DE!CoffTable PROVE DebugDataInv'
<1>t. /\ given.buf.size \in Nat /\ given.buf.physical \in Nat /\ given.buf.physical <= given.buf.size
      /\ given.relative \in Nat /\ MaxCount \in Nat
  BY DirectoriesAssumption DEF DebugDataInv, DirectoriesAssumption
<1>1. pc = "begin" /\ given.type = "coff" /\ result = <<>> /\ AllRead
  BY DEF DE!CoffTable, DE!Header, DebugDataInv
<1> DEFINE Fails == pc' = "done" /\ errors' # {} /\ errors \subseteq errors'
                      /\ UNCHANGED <<given, walk, result>>
<1>2. CASE Fails
  <2>1. DE!Contiguous' /\ DE!Complete' /\ DE!OnlyLastUnread'
    BY <1>2 DEF DebugDataInv, DE!Contiguous, DE!Complete, DE!OnlyLastUnread, DE!LastRead
  <2> QED BY <1>2, <2>1 DEF DebugDataInv
<1>3. CASE ~Fails
  <2>1. PICK count \in 0 .. MaxCount + 1, first \in {0, 32, 36} :
          LET strings == first + count * DE!EntrySize["coff"] IN
          /\ walk' = [pos |-> first, left |-> DE!Min({count, MaxCount}), table |-> strings, length |-> count]
          /\ count > MaxCount => errors' # {}
          /\ pc' = "symbols" /\ UNCHANGED <<given, result>>
    <3>1. PICK mismatch \in DE!Mismatches,
               count \in 0 .. MaxCount + 1, first \in {0, 32, 36}, length \in {0, 4, 8} :
            LET strings == first + count * DE!EntrySize["coff"] IN
            IF ~(DE!CanSeek(DE!Buf, strings) /\ DE!CanRead(DE!Buf, strings, DE!LengthSize) /\ strings + length <= DE!Buf.size)
            THEN /\ errors' = errors \cup mismatch \cup {"unable_to_deserialize"}
                 /\ pc' = "done" /\ UNCHANGED <<given, walk, result>>
            ELSE /\ walk' = [pos |-> first, left |-> DE!Min({count, MaxCount}), table |-> strings, length |-> count]
                 /\ errors' = (IF ~DE!Buf.virtual /\ strings + length > DE!Max({strings, DE!Buf.physical})
                               THEN {"virtual_coff_string_table"} ELSE {})
                              \cup (IF count > MaxCount THEN {"too_many_symbols"} ELSE {})
                              \cup mismatch
                 /\ pc' = "symbols" /\ UNCHANGED <<given, result>>
      BY Zenon DEF DE!CoffTable
    <3>2. ~Fails => pc' = "symbols"
      BY <3>1
    <3>3. Fails \/ (count > MaxCount => "too_many_symbols" \in errors')
      BY <3>1
    <3> HIDE DEF Fails
    <3>4. walk' = [pos |-> first, left |-> DE!Min({count, MaxCount}),
                   table |-> first + count * DE!EntrySize["coff"], length |-> count]
          /\ UNCHANGED <<given, result>>
      <4>1. pc' # "done"
        BY <1>3, <3>2
      <4> QED BY <3>1, <4>1
    <3> QED BY <1>3, <3>2, <3>3, <3>4
  <2> DEFINE strings == first + count * DE!EntrySize["coff"]
             left == DE!Min({count, MaxCount})
  <2>2. left = IF count <= MaxCount THEN count ELSE MaxCount
    BY MinOfTwo, <1>t
  <2>3. strings \in Int
    BY DEF DE!EntrySize
  <2> HIDE DEF strings
  <2>4. left \in Int /\ count \in Int /\ first \in Int
    BY <2>2, <1>t
  <2>5. walk' = [pos |-> first, left |-> left, table |-> strings, length |-> count]
    BY <2>1 DEF strings
  <2> HIDE DEF left
  <2>6. walk' \in DataCursor /\ walk'.left = left /\ walk'.length = count
    BY <2>3, <2>4, <2>5 DEF DataCursor
  <2>7. walk'.left = walk'.length \/ errors' # {}
    BY <2>1, <2>2, <2>4, <2>6, <1>t
  <2>8. AllRead' /\ DE!Contiguous' /\ DE!OnlyLastUnread'
    BY <1>1, <2>1 DEF DebugDataInv, AllRead, DE!Contiguous, DE!OnlyLastUnread, DE!LastRead
  <2>9. DE!Complete'
    BY <2>1 DEF DE!Complete
  <2>10. result' \in Seq(DataEntry) /\ pc' = "symbols" /\ result' = <<>> /\ given' = given
    BY <1>1, <2>1
  <2> QED BY <1>t, <1>1, <2>6, <2>7, <2>8, <2>9, <2>10 DEF DebugDataInv
<1> QED BY <1>2, <1>3

\* A symbol is behind the one before it and its auxiliary records.
LEMMA DebugDataSymbolStep == ASSUME DebugDataInv, DE!SymbolRead PROVE DebugDataInv'
<1>t. /\ given.buf.size \in Nat /\ given.buf.physical \in Nat /\ given.buf.physical <= given.buf.size
      /\ given.relative \in Nat /\ walk \in DataCursor
  BY DEF DebugDataInv
<1>1. pc = "symbols" /\ given.type = "coff" /\ AllRead /\ given' = given
  BY DEF DE!SymbolRead, DebugDataInv
<1>2. PICK aux \in 0 .. 2 :
        /\ result' = Append(result, [at |-> walk.pos, end |-> walk.pos + DE!EntrySize["coff"], read |-> TRUE, aux |-> aux])
        /\ \/ pc' = "done" /\ errors' # {} /\ walk' = walk
           \/ /\ walk' = [walk EXCEPT !.pos = walk.pos + DE!EntrySize["coff"] + aux * DE!EntrySize["coff"]]
              /\ pc' = "done" /\ errors' # {}
           \/ /\ walk' = [walk EXCEPT !.pos = walk.pos + DE!EntrySize["coff"] + aux * DE!EntrySize["coff"],
                                      !.left = walk.left - (aux + 1)]
              /\ pc' = pc /\ errors \subseteq errors'
  <2>1. PICK aux \in 0 .. 2, name \in {{}, {"unable_to_deserialize_name"}} :
          LET next == walk.pos + DE!EntrySize["coff"]
              behind == next + aux * DE!EntrySize["coff"]
              symbol == [at |-> walk.pos, end |-> next, read |-> TRUE, aux |-> aux]
          IN /\ result' = Append(result, symbol)
             /\ IF ~DE!CanSeek(DE!Buf, behind)
                THEN /\ errors' = errors \cup name \cup {"unable_to_deserialize_symbols"}
                     /\ pc' = "done" /\ UNCHANGED walk
                ELSE IF aux + 1 > walk.left
                THEN /\ errors' = errors \cup name \cup
                           (IF "too_many_symbols" \in errors THEN {} ELSE {"unable_to_deserialize_symbols"})
                     /\ walk' = [walk EXCEPT !.pos = behind] /\ pc' = "done"
                ELSE /\ walk' = [walk EXCEPT !.pos = behind, !.left = @ - (aux + 1)]
                     /\ errors' = errors \cup name /\ UNCHANGED pc
    BY DEF DE!SymbolRead
  <2> DEFINE behind == walk.pos + DE!EntrySize["coff"] + aux * DE!EntrySize["coff"]
  <2>2. CASE ~DE!CanSeek(DE!Buf, behind)
    <3>1. pc' = "done" /\ errors' # {} /\ walk' = walk
      BY <2>1, <2>2
    <3> QED BY <2>1, <3>1
  <2>3. CASE DE!CanSeek(DE!Buf, behind) /\ aux + 1 > walk.left
    <3>1. pc' = "done" /\ errors' # {} /\ walk' = [walk EXCEPT !.pos = behind]
      BY <2>1, <2>3
    <3> QED BY <2>1, <3>1
  <2>4. CASE DE!CanSeek(DE!Buf, behind) /\ ~(aux + 1 > walk.left)
    <3>1. pc' = pc /\ errors \subseteq errors' /\ walk' = [walk EXCEPT !.pos = behind, !.left = walk.left - (aux + 1)]
      BY <2>1, <2>4
    <3> QED BY <2>1, <3>1
  <2> QED BY <2>2, <2>3, <2>4
<1> DEFINE behind == walk.pos + 18 + aux * 18
           entry == [at |-> walk.pos, end |-> walk.pos + 18, read |-> TRUE, aux |-> aux]
<1>3. /\ result' = Append(result, entry)
      /\ \/ pc' = "done" /\ errors' # {} /\ walk' = walk
         \/ walk' = [walk EXCEPT !.pos = behind] /\ pc' = "done" /\ errors' # {}
         \/ /\ walk' = [walk EXCEPT !.pos = behind, !.left = walk.left - (aux + 1)]
            /\ pc' = pc /\ errors \subseteq errors'
  <2>1. DE!EntrySize["coff"] = 18
    BY DEF DE!EntrySize
  <2> QED BY <1>2, <2>1
<1>4. entry \in DataEntry /\ entry.at = walk.pos /\ entry.end = walk.pos + 18 /\ entry.aux = aux /\ entry.read = TRUE
  BY DebugDataTypes DEF DataEntry
<1> HIDE DEF entry
<1>5. result # <<>> => walk.pos = LastEntry.end + 18 * LastEntry.aux
  BY <1>1 DEF DebugDataInv
<1>6. /\ result' \in Seq(DataEntry) /\ DE!Contiguous' /\ DE!OnlyLastUnread' /\ AllRead' /\ LastEntry' = entry /\ result' # <<>>
      /\ (result # <<>> => result'[1] = result[1]) /\ (result = <<>> => result'[1] = entry)
  <2>1. result # <<>> =>
          /\ given.type = "coff" => entry.at = LastEntry.end + 18 * LastEntry.aux
          /\ given.type = "pogo" => /\ (given.relative + entry.at) % 4 = 0
                                    /\ entry.at \in LastEntry.end .. LastEntry.end + 3
          /\ given.type \in DE!Listed \ {"pogo"} => entry.at = LastEntry.end
    BY <1>1, <1>4, <1>5 DEF DE!Listed
  <2>2. pc # "done" /\ pc # "throws" /\ given' = given /\ result' = Append(result, entry)
    BY <1>1, <1>3
  <2> QED BY <2>1, <2>2, <1>4, DebugDataAppends
<1>7. behind \in Int /\ behind = walk.pos + 18 + 18 * aux
  BY DebugDataTypes
<1> HIDE DEF behind
<1>8. CASE pc' = "done" /\ errors' # {} /\ (walk' = walk \/ walk' = [walk EXCEPT !.pos = behind])
  <2>1. walk' \in DataCursor
    BY <1>8, <1>7, <1>t DEF DataCursor
  <2>2. DE!Complete'
    BY <1>8 DEF DE!Complete
  <2> QED BY <1>t, <1>1, <1>6, <1>8, <2>1, <2>2 DEF DebugDataInv
<1>9. CASE /\ walk' = [walk EXCEPT !.pos = behind, !.left = walk.left - (aux + 1)]
           /\ pc' = pc /\ errors \subseteq errors'
  <2>1. walk.left - (aux + 1) \in Int
    BY DebugDataTypes
  <2>2. walk' \in DataCursor
    BY <1>9, <1>7, <2>1, <1>t, Zenon DEF DataCursor
  <2>3. walk'.pos = behind /\ walk'.left = walk.left - (aux + 1) /\ walk'.length = walk.length
    BY <1>9, <1>t DEF DataCursor
  <2>4. walk'.pos = LastEntry'.end + 18 * LastEntry'.aux
    BY <1>4, <1>6, <1>7, <2>3
  <2>5. errors' = {} => walk'.pos = result'[1].at + 18 * (walk'.length - walk'.left)
    <3> SUFFICES ASSUME errors' = {} PROVE walk'.pos = result'[1].at + 18 * (walk'.length - walk'.left)
      OBVIOUS
    <3>1. errors = {}
      BY <1>9
    <3>t. walk.pos \in Int /\ walk.left \in Int /\ walk.length \in Int
      BY DebugDataTypes
    <3>2. CASE result = <<>>
      <4>1. walk.left = walk.length /\ result'[1].at = walk.pos
        BY <1>1, <1>4, <1>6, <3>1, <3>2 DEF DebugDataInv
      <4> QED BY <4>1, <2>3, <1>7, <3>t
    <3>3. CASE result # <<>>
      <4>1. walk.pos = result[1].at + 18 * (walk.length - walk.left) /\ result'[1] = result[1]
        BY <1>1, <1>6, <3>1, <3>3 DEF DebugDataInv
      <4>2. result[1].at \in Int
        BY <3>3, DebugDataTypes
      <4> QED BY <4>1, <4>2, <2>3, <1>7, <3>t
    <3> QED BY <3>2, <3>3
  <2>6. DE!Complete'
    BY <1>1, <1>9 DEF DE!Complete
  <2> QED BY <1>t, <1>1, <1>6, <1>9, <2>2, <2>4, <2>5, <2>6 DEF DebugDataInv
<1> QED BY <1>3, <1>8, <1>9

LEMMA DebugDataEndStep == ASSUME DebugDataInv, DE!SymbolsEnd \/ DE!SymbolUnread PROVE DebugDataInv'
<1>1. CASE DE!SymbolsEnd
  <2>1. pc = "symbols" /\ walk.left = 0 /\ pc' = "done" /\ UNCHANGED <<given, walk, result, errors>> /\ given.type = "coff"
    BY <1>1 DEF DE!SymbolsEnd, DE!Done, DebugDataInv
  <2>2. DE!Complete'
    <3>1. CASE result = <<>>
      BY <2>1, <3>1 DEF DebugDataInv, DE!Complete, DE!Listed
    <3>2. CASE result # <<>>
      <4>1. walk.pos = LastEntry.end + 18 * LastEntry.aux
            /\ (errors = {} => walk.pos = result[1].at + 18 * (walk.length - walk.left))
        BY <2>1, <3>2 DEF DebugDataInv
      <4>2. errors = {} => LastEntry.end + 18 * LastEntry.aux = result[1].at + 18 * walk.length
        BY <4>1, <2>1, DebugDataTypes
      <4> QED BY <2>1, <3>2, <4>2 DEF DE!Complete, DE!Listed, DE!LastRead, LastEntry
    <3> QED BY <3>1, <3>2
  <2>3. DE!Contiguous' /\ DE!OnlyLastUnread'
    BY <2>1 DEF DebugDataInv, DE!Contiguous, DE!OnlyLastUnread, DE!LastRead
  <2> QED BY <2>1, <2>2, <2>3 DEF DebugDataInv
<1>2. CASE DE!SymbolUnread
  BY <1>2, DebugDataFails DEF DE!SymbolUnread
<1> QED BY <1>1, <1>2

LEMMA DebugDataStep == ASSUME DebugDataInv, DE!DataNext PROVE DebugDataInv'
<1>1. CASE DE!Unsupported \/ DE!NoData \/ DE!HeaderUnread \/ DE!OnePart \/ DE!Misc \/ DE!Repro \/ DE!Spgo
           \/ DE!CodeView \/ DE!PdbHash \/ DE!Mpdb
  BY <1>1, DebugDataBeginStep
<1>2. CASE DE!BeginList \/ DE!ListEnds \/ DE!TooManyEntries \/ DE!EntryUnread
  BY <1>2, DebugDataListStep
<1>3. CASE DE!EntryRead
  BY <1>3, DebugDataReadStep
<1>4. CASE DE!GroupName
  BY <1>4, DebugDataNameStep
<1>5. CASE DE!CoffTable
  BY <1>5, DebugDataTableStep
<1>6. CASE DE!SymbolRead
  BY <1>6, DebugDataSymbolStep
<1>7. CASE DE!SymbolsEnd \/ DE!SymbolUnread
  BY <1>7, DebugDataEndStep
<1> QED BY <1>1, <1>2, <1>3, <1>4, <1>5, <1>6, <1>7, Zenon DEF DE!DataNext

\* The data of a debug entry are read one behind the other, and without an error to the end.
LEMMA DebugDataIsWhole == DebugDataInv => DE!DataWhole
  BY DEF DebugDataInv, DE!DataWhole

-----------------------------------------------------------------------------
(* The walk over the dynamic relocations. *)

FixupLists == {"import_control_transfer", "indir_control_transfer", "switchtable_branch",
               "rf_fixup", "override_fixup", "arm64x"}
DynFrame == [kind : {"relocations", "list", "block", "override_block", "overrides"},
             list : FixupLists \cup {"none", "function_override"}, end : Int]
DynWalk == [at : Int, frames : Seq(DynFrame), reach : Int]

\* A place inside of all frames, each inside of all before it; overrides are never the
\* first of them, and what a frame lists has a size.
Nested(at, frames) ==
    /\ \A i \in DOMAIN frames :
        /\ at <= frames[i].end
        /\ frames[i].kind = "overrides" => i > 1
        /\ frames[i].kind = "list" => frames[i].list # "none"
        /\ frames[i].kind = "block" => frames[i].list \in FixupLists
    /\ \A i, j \in DOMAIN frames : i < j => frames[j].end <= frames[i].end

\* The cursor is inside of all frames, and nothing is read behind the first one; the data
\* behind overrides are looked for while the overrides and their block are left.
DynInv ==
    /\ pc \in {"section", "walk", "bdd", "undefined", "done"}
    /\ given.size \in Nat
    /\ walk \in DynWalk /\ Nested(walk.at, walk.frames)
    /\ pc \in {"walk", "bdd"} /\ walk.frames # <<>> => walk.reach <= walk.frames[1].end
    /\ pc = "bdd" => Len(walk.frames) >= 2
    /\ pc = "section" => walk = [at |-> 0, frames |-> <<>>, reach |-> 0]
    /\ result => errors # {}

LEMMA DynSizes ==
  TableSizes \subseteq Nat /\ ReachSizes \subseteq Nat /\ BlockSizes \subseteq Nat /\ SmallSizes \subseteq Nat
  BY DirectoriesAssumption DEF DirectoriesAssumption

LEMMA DynTypes ==
  ASSUME DynInv
  PROVE  /\ walk.at \in Int /\ walk.reach \in Int /\ walk.frames \in Seq(DynFrame)
         /\ Len(walk.frames) \in Nat /\ DOMAIN walk.frames = 1 .. Len(walk.frames)
         /\ \A i \in DOMAIN walk.frames : walk.frames[i] \in DynFrame /\ walk.frames[i].end \in Int
         /\ walk.frames # <<>> => Len(walk.frames) > 0 /\ DR!Top \in DynFrame /\ DR!Top.end \in Int
         /\ walk.frames # <<>> => \A i \in DOMAIN walk.frames : DR!Top.end <= walk.frames[i].end
<1>1. walk.at \in Int /\ walk.reach \in Int /\ walk.frames \in Seq(DynFrame)
  BY DEF DynInv, DynWalk
<1>2. /\ Len(walk.frames) \in Nat /\ DOMAIN walk.frames = 1 .. Len(walk.frames)
      /\ \A i \in DOMAIN walk.frames : walk.frames[i] \in DynFrame
      /\ walk.frames # <<>> => Len(walk.frames) > 0
  BY <1>1
<1>3. \A i \in DOMAIN walk.frames : walk.frames[i].end \in Int
  BY <1>2 DEF DynFrame
<1>4. walk.frames # <<>> => Len(walk.frames) \in DOMAIN walk.frames
  BY <1>2
<1>5. walk.frames # <<>> => \A i \in DOMAIN walk.frames : DR!Top.end <= walk.frames[i].end
  BY <1>2, <1>3, <1>4 DEF DynInv, Nested, DR!Top
<1> QED BY <1>1, <1>2, <1>3, <1>4, <1>5 DEF DR!Top

LEMMA NestedMoves ==
  ASSUME NEW at, NEW to \in Int, NEW frames \in Seq(DynFrame), Nested(at, frames),
         frames # <<>> => to <= frames[Len(frames)].end
  PROVE  Nested(to, frames)
<1>1. DOMAIN frames = 1 .. Len(frames) /\ Len(frames) \in Nat /\ \A i \in DOMAIN frames : frames[i] \in DynFrame
      /\ (Len(frames) > 0 => frames # <<>>)
  OBVIOUS
<1>2. \A i \in DOMAIN frames : frames[i].end \in Int
  BY <1>1 DEF DynFrame
<1>3. \A i \in DOMAIN frames : to <= frames[i].end
  BY <1>1, <1>2 DEF Nested
<1> QED BY <1>3 DEF Nested

LEMMA NestedPushes ==
  ASSUME NEW at, NEW to \in Int, NEW frames \in Seq(DynFrame), Nested(at, frames), NEW frame \in DynFrame,
         frames # <<>> => frame.end <= frames[Len(frames)].end, to <= frame.end,
         frame.kind = "overrides" => frames # <<>>,
         frame.kind = "list" => frame.list # "none",
         frame.kind = "block" => frame.list \in FixupLists
  PROVE  /\ Nested(to, Append(frames, frame)) /\ Append(frames, frame) \in Seq(DynFrame)
         /\ Len(Append(frames, frame)) = Len(frames) + 1 /\ Append(frames, frame) # <<>>
         /\ Append(frames, frame)[Len(frames) + 1] = frame
         /\ Append(frames, frame)[1] = IF frames = <<>> THEN frame ELSE frames[1]
<1> DEFINE more == Append(frames, frame)
           n == Len(frames)
<1>1. DOMAIN frames = 1 .. n /\ n \in Nat /\ (\A i \in DOMAIN frames : frames[i] \in DynFrame)
      /\ (n > 0 <=> frames # <<>>)
  OBVIOUS
<1>2. /\ more \in Seq(DynFrame) /\ Len(more) = n + 1 /\ DOMAIN more = 1 .. n + 1 /\ more[n + 1] = frame
      /\ \A i \in 1 .. n : more[i] = frames[i]
  BY Appended
<1> HIDE DEF more, n
<1>3. (\A i \in DOMAIN frames : frames[i].end \in Int) /\ frame.end \in Int
  BY <1>1 DEF DynFrame
<1>4. \A i \in 1 .. n : frame.end <= frames[i].end
  BY <1>1, <1>3 DEF Nested, n
<1>5. \A i \in DOMAIN more : to <= more[i].end
  BY <1>1, <1>2, <1>3, <1>4
<1>6. \A i, j \in DOMAIN more : i < j => more[j].end <= more[i].end
  BY <1>1, <1>2, <1>4 DEF Nested
<1>7. \A i \in DOMAIN more : /\ more[i].kind = "overrides" => i > 1
                             /\ more[i].kind = "list" => more[i].list # "none"
                             /\ more[i].kind = "block" => more[i].list \in FixupLists
  BY <1>1, <1>2 DEF Nested
<1>8. Nested(to, more)
  BY <1>5, <1>6, <1>7 DEF Nested
<1>9. more # <<>> /\ more[1] = IF frames = <<>> THEN frame ELSE frames[1]
  BY <1>1, <1>2
<1> QED BY <1>2, <1>8, <1>9 DEF more, n

LEMMA NestedPops ==
  ASSUME NEW at, NEW frames \in Seq(DynFrame), Nested(at, frames), frames # <<>>
  PROVE  /\ Nested(frames[Len(frames)].end, SubSeq(frames, 1, Len(frames) - 1))
         /\ SubSeq(frames, 1, Len(frames) - 1) \in Seq(DynFrame)
         /\ Len(SubSeq(frames, 1, Len(frames) - 1)) = Len(frames) - 1
         /\ \A i \in 1 .. Len(frames) - 1 : SubSeq(frames, 1, Len(frames) - 1)[i] = frames[i]
         /\ frames[Len(frames)].end \in Int
<1> DEFINE less == SubSeq(frames, 1, Len(frames) - 1)
           n == Len(frames)
<1>1. DOMAIN frames = 1 .. n /\ n \in Nat /\ n > 0 /\ \A i \in DOMAIN frames : frames[i] \in DynFrame
  OBVIOUS
<1>2. less \in Seq(DynFrame) /\ Len(less) = n - 1 /\ \A i \in 1 .. n - 1 : less[i] = frames[i]
  BY <1>1
<1>3. DOMAIN less = 1 .. n - 1
  BY <1>2, <1>1
<1>4. frames[Len(frames)].end \in Int
  BY <1>1 DEF DynFrame
<1> HIDE DEF less
<1>5. Nested(frames[n].end, less)
  <2>1. \A i \in 1 .. n - 1 : frames[n].end <= frames[i].end
    BY <1>1 DEF Nested
  <2>2. \A i \in 1 .. n - 1 : i \in DOMAIN frames /\ less[i] = frames[i]
    BY <1>1, <1>2
  <2> QED BY <2>1, <2>2, <1>3 DEF Nested
<1> QED BY <1>2, <1>4, <1>5 DEF less

LEMMA MaxOfTwo ==
  ASSUME NEW a \in Int, NEW b \in Int
  PROVE  DR!Max({a, b}) = IF a <= b THEN b ELSE a
  BY DEF DR!Max

\* A step that goes on in the same or in more frames, and reads no further than the first one.
LEMMA DynGoes ==
  ASSUME DynInv, NEW to \in Int, NEW frames \in Seq(DynFrame), NEW end \in Int,
         walk' = [at |-> to, frames |-> frames, reach |-> DR!Max({walk.reach, end})],
         Nested(to, frames), frames # <<>>, end <= frames[1].end, walk.reach <= frames[1].end,
         pc' = "walk", given' = given, result' => errors' # {}
  PROVE  DynInv'
<1>1. walk.reach \in Int
  BY DynTypes
<1>2. DR!Max({walk.reach, end}) \in Int /\ DR!Max({walk.reach, end}) <= frames[1].end
  <2>1. DR!Max({walk.reach, end}) = IF walk.reach <= end THEN end ELSE walk.reach
    BY <1>1, MaxOfTwo
  <2> QED BY <2>1, <1>1
<1> DEFINE reach == DR!Max({walk.reach, end})
<1>3. walk' = [at |-> to, frames |-> frames, reach |-> reach]
  OBVIOUS
<1> HIDE DEF reach
<1>4. walk' \in DynWalk /\ walk'.at = to /\ walk'.frames = frames /\ walk'.reach = reach
  BY <1>2, <1>3 DEF DynWalk, reach
<1>5. Nested(walk.at, walk.frames)'
  BY <1>4 DEF Nested
<1>6. given.size \in Nat
  BY DEF DynInv
<1> QED BY <1>2, <1>4, <1>5, <1>6 DEF DynInv, reach

\* A step that moves the cursor in its frame.
LEMMA DynMoves ==
  ASSUME DynInv, pc = "walk", walk.frames # <<>>, NEW to \in Int, NEW end \in Int, to <= DR!Top.end, end <= DR!Top.end,
         walk' = [walk EXCEPT !.at = to, !.reach = DR!Max({walk.reach, end})],
         pc' = pc, given' = given, result' => errors' # {}
  PROVE  DynInv'
<1>1. walk \in DynWalk
  BY DEF DynInv
<1>2. walk' = [at |-> to, frames |-> walk.frames, reach |-> DR!Max({walk.reach, end})]
  <2> DEFINE reach == DR!Max({walk.reach, end})
  <2>1. walk' = [walk EXCEPT !.at = to, !.reach = reach]
    OBVIOUS
  <2> HIDE DEF reach
  <2>2. walk' = [at |-> to, frames |-> walk.frames, reach |-> reach]
    BY <2>1, <1>1 DEF DynWalk
  <2> QED BY <2>2 DEF reach
<1>3. /\ walk.frames \in Seq(DynFrame) /\ DR!Top.end \in Int /\ 1 \in DOMAIN walk.frames
      /\ DR!Top.end <= walk.frames[1].end /\ walk.frames[1].end \in Int
  BY DynTypes
<1>4. Nested(to, walk.frames)
  <2>1. Nested(walk.at, walk.frames)
    BY DEF DynInv
  <2> QED BY <2>1, <1>3, NestedMoves DEF DR!Top
<1>5. end <= walk.frames[1].end /\ walk.reach <= walk.frames[1].end
  BY <1>3 DEF DynInv
<1> QED BY <1>2, <1>3, <1>4, <1>5, DynGoes

\* A step that enters a frame.
LEMMA DynEnters ==
  ASSUME DynInv, pc = "walk", walk.frames # <<>>, NEW to \in Int, NEW end \in Int, NEW frame \in DynFrame,
         frame.end <= DR!Top.end, to <= frame.end, end <= frame.end,
         frame.kind = "list" => frame.list # "none",
         frame.kind = "block" => frame.list \in FixupLists,
         walk' = [at |-> to, frames |-> Append(walk.frames, frame), reach |-> DR!Max({walk.reach, end})],
         pc' = pc, given' = given, result' => errors' # {}
  PROVE  DynInv'
<1> DEFINE more == Append(walk.frames, frame)
<1>1. /\ walk.frames \in Seq(DynFrame) /\ DR!Top.end \in Int /\ 1 \in DOMAIN walk.frames
      /\ DR!Top.end <= walk.frames[1].end /\ walk.frames[1].end \in Int /\ frame.end \in Int
  BY DynTypes DEF DynFrame
<1>2. /\ Nested(to, more) /\ more \in Seq(DynFrame) /\ more # <<>> /\ more[1] = walk.frames[1]
  <2>1. Nested(walk.at, walk.frames)
    BY DEF DynInv
  <2>2. /\ walk.frames # <<>> => frame.end <= walk.frames[Len(walk.frames)].end
        /\ frame.kind = "overrides" => walk.frames # <<>>
    BY DEF DR!Top
  <2> QED BY <2>1, <2>2, <1>1, NestedPushes
<1> HIDE DEF more
<1>3. end <= more[1].end /\ walk.reach <= more[1].end
  BY <1>1, <1>2 DEF DynInv
<1>4. walk' = [at |-> to, frames |-> more, reach |-> DR!Max({walk.reach, end})]
  BY DEF more
<1> QED BY <1>2, <1>3, <1>4, DynGoes

\* What a cursor that leaves its frame comes to.
LEMMA PoppedWalk ==
  ASSUME NEW w \in DynWalk, Nested(w.at, w.frames), w.frames # <<>>, NEW p, p = DR!Popped(w)
  PROVE  /\ p \in DynWalk /\ Nested(p.at, p.frames) /\ p.reach = w.reach
         /\ Len(p.frames) = Len(w.frames) - 1 /\ p.at = w.frames[Len(w.frames)].end
         /\ \A i \in 1 .. Len(w.frames) - 1 : p.frames[i] = w.frames[i]
<1> DEFINE end == w.frames[Len(w.frames)].end
           less == SubSeq(w.frames, 1, Len(w.frames) - 1)
<1>1. w.frames \in Seq(DynFrame)
  BY DEF DynWalk
<1>2. /\ Nested(end, less) /\ less \in Seq(DynFrame) /\ Len(less) = Len(w.frames) - 1
      /\ (\A i \in 1 .. Len(w.frames) - 1 : less[i] = w.frames[i]) /\ end \in Int
  BY <1>1, NestedPops
<1>3. p = [w EXCEPT !.at = end, !.frames = less]
  BY DEF DR!Popped
<1> HIDE DEF end, less
<1>4. p \in DynWalk /\ p.at = end /\ p.frames = less /\ p.reach = w.reach
  BY <1>2, <1>3 DEF DynWalk
<1> QED BY <1>2, <1>4 DEF end

LEMMA DynPops ==
  ASSUME DynInv, pc = "walk", walk.frames # <<>>, walk' = DR!Popped(walk),
         pc' \in {"walk", "bdd", "done"}, pc' = "bdd" => Len(walk.frames) >= 3,
         given' = given, result' => errors' # {}
  PROVE  DynInv'
<1>1. walk \in DynWalk /\ Nested(walk.at, walk.frames)
  BY DEF DynInv
<1>2. /\ walk' \in DynWalk /\ Nested(walk'.at, walk'.frames) /\ walk'.reach = walk.reach
      /\ Len(walk'.frames) = Len(walk.frames) - 1
      /\ \A i \in 1 .. Len(walk.frames) - 1 : walk'.frames[i] = walk.frames[i]
  BY <1>1, PoppedWalk
<1>3. walk'.frames # <<>> => walk'.frames[1] = walk.frames[1]
  <2>1. Len(walk.frames) \in Nat /\ walk'.frames \in Seq(DynFrame)
    BY <1>2, DynTypes DEF DynWalk
  <2>2. walk'.frames # <<>> => Len(walk'.frames) > 0
    BY <2>1
  <2> QED BY <1>2, <2>1, <2>2
<1>4. walk'.frames # <<>> => walk'.reach <= walk'.frames[1].end
  BY <1>2, <1>3 DEF DynInv
<1>5. pc' = "bdd" => Len(walk'.frames) >= 2
  BY <1>2, DynTypes
<1>6. Nested(walk.at, walk.frames)'
  BY <1>2 DEF Nested
<1>7. given.size \in Nat
  BY DEF DynInv
<1> QED BY <1>2, <1>4, <1>5, <1>6, <1>7 DEF DynInv

\* A cursor that is put to an end it is not at says so.
LEMMA DynLeaves ==
  ASSUME DynInv, pc = "walk", walk.frames # <<>>, DR!Leave(walk),
         pc' \in {"walk", "done"} \/ pc' = DR!AfterList(walk),
         given' = given, errors \subseteq errors', DR!Top.end = walk.at \/ errors' # {}
  PROVE  DynInv'
<1>1. walk' = DR!Popped(walk) /\ (result' => result \/ DR!Top.end # walk.at)
  BY DEF DR!Leave, DR!Top
<1>2. result' => errors' # {}
  BY <1>1 DEF DynInv
<1>3. pc' \in {"walk", "bdd", "done"} /\ (pc' = "bdd" => Len(walk.frames) >= 3)
  <2>1. CASE \E i \in DOMAIN walk.frames : i < Len(walk.frames) /\ walk.frames[i].kind = "overrides"
    <3>1. PICK i \in DOMAIN walk.frames : i < Len(walk.frames) /\ walk.frames[i].kind = "overrides"
      BY <2>1
    <3>2. i > 1
      BY <3>1 DEF DynInv, Nested
    <3> QED BY <3>1, <3>2, DynTypes DEF DR!AfterList
  <2>2. CASE ~\E i \in DOMAIN walk.frames : i < Len(walk.frames) /\ walk.frames[i].kind = "overrides"
    BY <2>2 DEF DR!AfterList
  <2> QED BY <2>1, <2>2
<1> QED BY <1>1, <1>2, <1>3, DynPops

LEMMA DynIn ==
  ASSUME NEW kind, DR!In(kind)
  PROVE  pc = "walk" /\ walk.frames # <<>> /\ DR!Top.kind = kind
  BY DEF DR!In

LEMMA DynSectionStep == ASSUME DynInv, DR!NoSection \/ DR!TableUnread \/ DR!TableRead PROVE DynInv'
<1>s. pc = "section"
  BY DEF DR!NoSection, DR!TableUnread, DR!TableRead
<1>t. /\ walk = [at |-> 0, frames |-> <<>>, reach |-> 0] /\ walk \in DynWalk /\ Nested(walk.at, walk.frames)
      /\ given.size \in Nat /\ (result => errors # {})
  BY <1>s DEF DynInv
<1>1. ASSUME pc' \in {"done", "undefined"}, UNCHANGED <<given, walk, result>>, errors \subseteq errors'
      PROVE  DynInv'
  <2>1. Nested(walk.at, walk.frames)'
    BY <1>1, <1>t DEF Nested
  <2> QED BY <1>1, <1>t, <2>1 DEF DynInv
<1>2. CASE DR!NoSection \/ DR!TableUnread
  BY <1>1, <1>2 DEF DR!NoSection, DR!TableUnread, DR!Report, DR!NoReport
<1>3. CASE DR!TableRead
  <2> DEFINE table == DR!Frame("relocations", "none", DR!TableHeader + given.size)
  <2>1. \/ pc' = "done" /\ errors \subseteq errors' /\ UNCHANGED <<given, walk, result>>
        \/ pc' = "walk" /\ errors' = errors /\ DR!Enter(DR!TableHeader, table) /\ UNCHANGED <<given, result>>
    BY <1>3 DEF DR!TableRead, DR!Report, DR!NoReport
  <2>2. CASE pc' = "walk" /\ errors' = errors /\ DR!Enter(DR!TableHeader, table) /\ UNCHANGED <<given, result>>
    <3>1. table \in DynFrame /\ table.end = 8 + given.size /\ table.kind = "relocations"
      BY <1>t DEF DR!Frame, DR!TableHeader, DynFrame
    <3>2. walk' = [at |-> walk.at + 8, frames |-> Append(walk.frames, table), reach |-> DR!Max({walk.reach, walk.at + 8})]
      BY <2>2 DEF DR!Enter, DR!TableHeader
    <3> HIDE DEF table
    <3>3. walk.at = 0 /\ walk.frames = <<>> /\ walk.reach = 0
      BY <1>t
    <3> DEFINE frames == Append(walk.frames, table)
    <3>4. walk.frames \in Seq(DynFrame)
      BY DynTypes
    <3>5. 8 \in Int /\ 8 <= table.end /\ 0 <= table.end
      BY <3>1, <1>t
    <3>6. Nested(8, frames) /\ frames \in Seq(DynFrame) /\ frames # <<>> /\ frames[1] = table
      <4>1. frames \in Seq(DynFrame) /\ Len(frames) = 1 /\ frames # <<>> /\ frames[1] = table /\ DOMAIN frames = 1 .. 1
        BY <3>1, <3>3
      <4> HIDE DEF frames
      <4>2. \A i \in DOMAIN frames : i = 1
        BY <4>1
      <4> QED BY <3>1, <3>5, <4>1, <4>2 DEF Nested
    <3>7. walk' = [at |-> 8, frames |-> frames, reach |-> DR!Max({walk.reach, 8})]
      BY <3>2, <3>3
    <3> HIDE DEF frames
    <3>8. 8 <= frames[1].end /\ walk.reach <= frames[1].end
      BY <3>3, <3>5, <3>6
    <3>9. pc' = "walk" /\ given' = given /\ (result' => errors' # {})
      BY <2>2, <1>t
    <3> QED BY <3>5, <3>6, <3>7, <3>8, <3>9, DynGoes
  <2> QED BY <1>1, <2>1, <2>2
<1> QED BY <1>2, <1>3

\* What a move and an entry of the model come to.
LEMMA DynMove ==
  ASSUME DynInv, pc = "walk", walk.frames # <<>>, NEW n \in Int, walk.at + n <= DR!Top.end, DR!Move(n),
         pc' = pc, given' = given, result' = result, errors \subseteq errors'
  PROVE  DynInv'
<1>1. walk' = [walk EXCEPT !.at = walk.at + n, !.reach = DR!Max({walk.reach, walk.at + n})]
  BY DEF DR!Move
<1>2. walk.at + n \in Int
  BY DynTypes
<1>3. result' => errors' # {}
  BY DEF DynInv
<1> QED BY <1>1, <1>2, <1>3, DynMoves

LEMMA DynEnter ==
  ASSUME DynInv, pc = "walk", walk.frames # <<>>, NEW n \in Int, NEW kind \in {"list", "block"},
         NEW list \in FixupLists \cup {"function_override"}, NEW end \in Int,
         kind = "block" => list \in FixupLists,
         walk.at + n <= end, end <= DR!Top.end, DR!Enter(n, DR!Frame(kind, list, end)),
         pc' = pc, given' = given, result' = result, errors \subseteq errors'
  PROVE  DynInv'
<1> DEFINE frame == DR!Frame(kind, list, end)
<1>1. frame \in DynFrame /\ frame.end = end /\ frame.kind = kind /\ frame.list = list
  BY DEF DR!Frame, DynFrame
<1>2. walk' = [at |-> walk.at + n, frames |-> Append(walk.frames, frame), reach |-> DR!Max({walk.reach, walk.at + n})]
  BY DEF DR!Enter
<1> HIDE DEF frame
<1>3. walk.at + n \in Int
  BY DynTypes
<1>4. result' => errors' # {}
  BY DEF DynInv
<1>5. list # "none"
  BY DEF FixupLists
<1> QED BY <1>1, <1>2, <1>3, <1>4, <1>5, DynEnters

LEMMA DynRelocationStep ==
  ASSUME DynInv, DR!RelocationsDone \/ DR!RelocationUnread \/ DR!RelocationV1 PROVE DynInv'
<1>n. pc = "walk" /\ walk.frames # <<>>
  BY DynIn DEF DR!RelocationsDone, DR!RelocationUnread, DR!RelocationV1
<1>r. result => errors # {}
  BY DEF DynInv
<1>1. CASE DR!RelocationsDone
  <2>1. pc' = "done" /\ walk' = DR!Popped(walk) /\ UNCHANGED <<given, result, errors>>
    BY <1>1 DEF DR!RelocationsDone
  <2> QED BY <1>n, <1>r, <2>1, DynPops
<1>2. CASE DR!RelocationUnread
  <2>1. pc' = "done" /\ DR!Leave(walk) /\ given' = given /\ errors \subseteq errors' /\ errors' # {}
    BY <1>2 DEF DR!RelocationUnread, DR!Report
  <2> QED BY <1>n, <2>1, DynLeaves
<1>3. CASE DR!RelocationV1
  <2> DEFINE size0 == DR!StructSize
  <2>1. PICK symbol \in DR!V1Symbols, size \in ReachSizes :
          LET end == walk.at + size0 + size IN
          \/ /\ end > DR!Top.end
             /\ DR!Report("invalid_header_size") /\ pc' = "done" /\ DR!Leave(walk)
          \/ /\ end <= DR!Top.end /\ symbol = "unknown"
             /\ DR!Report("unknown_symbol") /\ DR!Move(size0 + size) /\ UNCHANGED <<pc, result>>
          \/ /\ end <= DR!Top.end /\ symbol # "unknown"
             /\ DR!Enter(size0, DR!BlocksOf(symbol, end)) /\ DR!NoReport /\ UNCHANGED <<pc, result>>
    BY <1>3 DEF DR!RelocationV1
  <2>2. given' = given
    BY <1>3 DEF DR!RelocationV1
  <2>3. size0 \in Nat /\ size \in Nat /\ walk.at \in Int /\ DR!Top.end \in Int
    BY <1>n, DynSizes, DynTypes DEF DR!StructSize
  <2> HIDE DEF size0
  <2>4. CASE DR!Report("invalid_header_size") /\ pc' = "done" /\ DR!Leave(walk)
    <3>1. errors \subseteq errors' /\ errors' # {}
      BY <2>4 DEF DR!Report
    <3> QED BY <1>n, <2>2, <2>4, <3>1, DynLeaves
  <2>5. CASE /\ walk.at + size0 + size <= DR!Top.end /\ DR!Report("unknown_symbol")
             /\ DR!Move(size0 + size) /\ UNCHANGED <<pc, result>>
    <3>1. size0 + size \in Int /\ walk.at + (size0 + size) <= DR!Top.end /\ errors \subseteq errors'
      BY <2>3, <2>5 DEF DR!Report
    <3> QED BY <1>n, <2>2, <2>5, <3>1, DynMove
  <2>6. CASE /\ walk.at + size0 + size <= DR!Top.end /\ symbol # "unknown"
             /\ DR!Enter(size0, DR!BlocksOf(symbol, walk.at + size0 + size))
             /\ DR!NoReport /\ UNCHANGED <<pc, result>>
    <3> DEFINE end == walk.at + size0 + size
    <3>1. end \in Int /\ walk.at + size0 <= end /\ end <= DR!Top.end
      BY <2>3, <2>6
    <3>2. symbol \in FixupLists \cup {"function_override"}
      BY <2>6 DEF DR!V1Symbols, FixupLists
    <3>3. DR!Enter(size0, DR!Frame("list", symbol, end)) /\ errors \subseteq errors'
      BY <2>6 DEF DR!BlocksOf, DR!NoReport
    <3>4. pc' = pc /\ result' = result /\ size0 \in Int /\ "list" \in {"list", "block"} /\ "list" # "block"
      BY <2>3, <2>6
    <3> HIDE DEF end
    <3> QED BY <1>n, <2>2, <3>1, <3>2, <3>3, <3>4, DynEnter
  <2> QED BY <2>1, <2>4, <2>5, <2>6
<1> QED BY <1>1, <1>2, <1>3

LEMMA BitWidthIsNatural == ASSUME NEW n \in Nat PROVE DR!BitWidth(n) \in Nat
<1> DEFINE S == {k \in 0 .. n : 2 ^ k <= n}
<1>1. IsFiniteSet(0 .. n)
  BY FS_Interval
<1>2. S \subseteq 0 .. n
  OBVIOUS
<1> HIDE DEF S
<1>3. IsFiniteSet(S)
  BY <1>1, <1>2, FS_Subset
<1>4. Cardinality(S) \in Nat
  BY <1>3, FS_CardinalityType
<1>5. DR!BitWidth(n) = DR!Cardinality(S)
  BY DEF DR!BitWidth, S
<1> QED BY <1>4, <1>5 DEF DR!Cardinality, Cardinality

LEMMA DynRelocationV2Step == ASSUME DynInv, DR!RelocationV2 PROVE DynInv'
<1>n. pc = "walk" /\ walk.frames # <<>> /\ given' = given
  BY DynIn DEF DR!RelocationV2
<1>r. result => errors # {}
  BY DEF DynInv
<1> DEFINE size0 == DR!StructSize
<1>1. PICK header \in {size0 - 1} \cup {size0 + n : n \in SmallSizes \cup {16}}, size \in ReachSizes :
        LET headerEnd == walk.at + header
            end == headerEnd + size
        IN
        \/ /\ header < size0 \/ headerEnd > DR!Top.end
           /\ DR!Report("invalid_header_size") /\ pc' = "done" /\ DR!Leave(walk)
        \/ /\ header >= size0 /\ headerEnd <= DR!Top.end /\ end > DR!Top.end
           /\ DR!Report("invalid_fixup_info_size") /\ pc' = "done" /\ DR!Leave(walk)
        \/ /\ header >= size0 /\ end <= DR!Top.end
           /\ DR!Report("invalid_prologue_or_epilogue_or_symbol")
           /\ walk' = [walk EXCEPT !.at = end] /\ UNCHANGED <<pc, result>>
        \/ /\ header >= size0 /\ end <= DR!Top.end
           /\ \E needs \in DR!HeaderNeeds :
                /\ size0 + needs.bytes <= header
                /\ walk' = [at |-> headerEnd,
                            frames |-> Append(walk.frames, DR!BlocksOf("rf_fixup", end)),
                            reach |-> DR!Max({walk.reach, walk.at + size0 + needs.bytes})]
           /\ DR!NoReport /\ UNCHANGED <<pc, result>>
  BY DEF DR!RelocationV2
<1>2. /\ size0 \in Nat /\ size \in Nat /\ header \in Int
      /\ walk.at \in Int /\ DR!Top.end \in Int /\ walk.reach \in Int
  <2>1. size0 \in Nat
    BY DEF DR!StructSize
  <2> HIDE DEF size0
  <2>2. header \in Int
    BY <2>1, DynSizes
  <2> QED BY <2>1, <2>2, <1>n, DynSizes, DynTypes
<1> HIDE DEF size0
<1> DEFINE headerEnd == walk.at + header
           end == headerEnd + size
<1>3. CASE /\ DR!Report("invalid_header_size") \/ DR!Report("invalid_fixup_info_size")
           /\ pc' = "done" /\ DR!Leave(walk)
  <2>1. errors \subseteq errors' /\ errors' # {}
    BY <1>3 DEF DR!Report
  <2> QED BY <1>n, <1>3, <2>1, DynLeaves
<1>4. CASE /\ end <= DR!Top.end /\ DR!Report("invalid_prologue_or_epilogue_or_symbol")
           /\ walk' = [walk EXCEPT !.at = end] /\ UNCHANGED <<pc, result>>
  <2>1. end \in Int
    BY <1>2
  <2>2. walk \in DynWalk /\ walk.frames \in Seq(DynFrame) /\ Nested(walk.at, walk.frames)
    BY DynTypes DEF DynInv
  <2>3. walk' = [walk EXCEPT !.at = end]
    BY <1>4
  <2>e. end <= DR!Top.end
    BY <1>4
  <2> HIDE DEF end
  <2>4. walk' \in DynWalk /\ walk'.at = end /\ walk'.frames = walk.frames /\ walk'.reach = walk.reach
    BY <2>1, <2>2, <2>3 DEF DynWalk
  <2>5. Nested(end, walk.frames)
    BY <2>1, <2>2, <2>e, NestedMoves DEF DR!Top
  <2>6. Nested(walk.at, walk.frames)'
    BY <2>4, <2>5 DEF Nested
  <2>7. result' => errors' # {}
    BY <1>4 DEF DR!Report
  <2>8. pc' = "walk" /\ given.size \in Nat /\ walk.reach <= walk.frames[1].end
    BY <1>n, <1>4 DEF DynInv
  <2> QED BY <1>n, <2>4, <2>6, <2>7, <2>8 DEF DynInv
<1>5. ASSUME header >= size0, end <= DR!Top.end, NEW needs \in DR!HeaderNeeds, size0 + needs.bytes <= header,
             walk' = [at |-> headerEnd, frames |-> Append(walk.frames, DR!BlocksOf("rf_fixup", end)),
                      reach |-> DR!Max({walk.reach, walk.at + size0 + needs.bytes})],
             UNCHANGED <<errors, pc, result>>
      PROVE  DynInv'
  <2>1. needs.bytes \in Int
    <3>1. ASSUME NEW n \in SmallSizes PROVE DR!PrologueNeeds(n) \in Int
      BY DynSizes DEF DR!PrologueNeeds
    <3>2. ASSUME NEW n \in SmallSizes, NEW e \in {2, 3}, NEW m \in {0, 9} PROVE DR!EpilogueNeeds(n, e, m) \in Int
      <4>1. n \in Nat /\ e \in Nat /\ n * e \in Nat
        BY DynSizes
      <4> DEFINE bits == DR!BitWidth(n) * m
      <4>3. DR!BitWidth(n) \in Nat
        BY <4>1, BitWidthIsNatural
      <4>4. bits \in Nat
        BY <4>3
      <4> HIDE DEF bits
      <4>2. (bits + 8 - 1) \div 8 \in Int
        BY <4>4
      <4> DEFINE bitmap == (bits + 8 - 1) \div 8
      <4>5. DR!EpilogueNeeds(n, e, m) = 8 + (n * e) + bitmap
        BY DEF DR!EpilogueNeeds, DR!CeilDiv, bits
      <4> HIDE DEF bitmap
      <4>6. bitmap \in Int
        BY <4>2 DEF bitmap
      <4> QED BY <4>1, <4>5, <4>6
    <3> QED BY <3>1, <3>2 DEF DR!HeaderNeeds
  <2> DEFINE frame == DR!BlocksOf("rf_fixup", end)
             read == walk.at + size0 + needs.bytes
  <2>2. headerEnd \in Int /\ end \in Int /\ read \in Int /\ headerEnd <= end /\ read <= end
    <3> DEFINE bytes == needs.bytes
    <3>1. bytes \in Int /\ size0 + bytes <= header
      BY <1>5, <2>1
    <3> HIDE DEF bytes
    <3>2. headerEnd = walk.at + header /\ end = walk.at + header + size /\ read = walk.at + size0 + bytes
      BY DEF bytes
    <3> HIDE DEF headerEnd, end, read
    <3>3. walk.at \in Int /\ header \in Int /\ size \in Nat /\ size0 \in Nat
      BY <1>2
    <3> QED BY <3>1, <3>2, <3>3
  <2> HIDE DEF headerEnd, end, read
  <2>3. frame \in DynFrame /\ frame.end = end /\ frame.kind = "list" /\ frame.list = "rf_fixup"
    BY <2>2 DEF DR!BlocksOf, DR!Frame, DynFrame, FixupLists
  <2>4. walk' = [at |-> headerEnd, frames |-> Append(walk.frames, frame), reach |-> DR!Max({walk.reach, read})]
    BY <1>5 DEF read
  <2> HIDE DEF frame
  <2>5. pc' = pc /\ (result' => errors' # {})
    BY <1>5, <1>r
  <2> QED BY <1>n, <1>5, <2>2, <2>3, <2>4, <2>5, DynEnters
<1> QED BY <1>1, <1>3, <1>4, <1>5 DEF DR!NoReport

\* What the frame the cursor is in says about itself.
LEMMA DynTop ==
  ASSUME DynInv, walk.frames # <<>>
  PROVE  /\ DR!Top.list \in FixupLists \cup {"none", "function_override"}
         /\ DR!Top.kind = "list" => DR!Top.list \in FixupLists \cup {"function_override"}
         /\ DR!Top.kind = "block" => DR!Top.list \in FixupLists
         /\ DR!Top.kind = "overrides" => Len(walk.frames) >= 2
<1>1. Len(walk.frames) \in DOMAIN walk.frames /\ DR!Top \in DynFrame /\ DR!Top = walk.frames[Len(walk.frames)]
  BY DynTypes DEF DR!Top
<1>2. Nested(walk.at, walk.frames)
  BY DEF DynInv
<1>3. DR!Top.list \in FixupLists \cup {"none", "function_override"}
  BY <1>1 DEF DynFrame
<1>4. /\ DR!Top.kind = "overrides" => Len(walk.frames) > 1
      /\ DR!Top.kind = "list" => DR!Top.list # "none"
      /\ DR!Top.kind = "block" => DR!Top.list \in FixupLists
  BY <1>1, <1>2 DEF Nested
<1> QED BY <1>3, <1>4, DynTypes

LEMMA DynListStep ==
  ASSUME DynInv, DR!ListDone \/ DR!BlockUnread \/ DR!BlockSizeInvalid \/ DR!OverrideHeaderInvalid
  PROVE  DynInv'
<1>n. pc = "walk" /\ walk.frames # <<>> /\ DR!Leave(walk) /\ given' = given
  BY DynIn DEF DR!ListDone, DR!BlockUnread, DR!BlockSizeInvalid, DR!OverrideHeaderInvalid
<1>1. pc' \in {"walk", "done"} \/ pc' = DR!AfterList(walk)
  BY DEF DR!ListDone, DR!BlockUnread, DR!BlockSizeInvalid, DR!OverrideHeaderInvalid
<1>2. walk.at \in Int /\ DR!Top.end \in Int
  BY <1>n, DynTypes
<1>3. errors \subseteq errors' /\ (DR!Top.end = walk.at \/ errors' # {})
  <2>1. CASE DR!ListDone
    <3>1. DR!Top.end - walk.at = 0 /\ errors' = errors
      BY <2>1 DEF DR!ListDone, DR!Room
    <3> QED BY <3>1, <1>2
  <2>2. CASE DR!BlockUnread
    BY <2>2 DEF DR!BlockUnread, DR!Report
  <2>3. CASE DR!BlockSizeInvalid
    BY <2>3 DEF DR!BlockSizeInvalid, DR!Report
  <2>4. CASE DR!OverrideHeaderInvalid
    <3>1. \E e \in {"invalid_func_override_fixup", "invalid_func_override_size"} : errors' = errors \cup {e}
      BY <2>4, Zenon DEF DR!OverrideHeaderInvalid
    <3> QED BY <3>1
  <2> QED BY <2>1, <2>2, <2>3, <2>4
<1> QED BY <1>n, <1>1, <1>3, DynLeaves

LEMMA DynBlockBegins == ASSUME DynInv, DR!BlockBegins PROVE DynInv'
<1>1. pc = "walk" /\ walk.frames # <<>> /\ DR!Top.kind = "list" /\ DR!Top.list # "function_override"
  BY DynIn DEF DR!BlockBegins
<1>2. PICK size \in BlockSizes : /\ size >= 8 /\ size <= DR!Top.end - walk.at
                                 /\ DR!Enter(8, DR!Frame("block", DR!Top.list, walk.at + size))
  BY DEF DR!BlockBegins, DR!BlockHeader, DR!Room
<1>3. walk.at \in Int /\ DR!Top.end \in Int /\ size \in Nat
  BY <1>1, DynTypes, DynSizes
<1> DEFINE end == walk.at + size
<1>4. end \in Int /\ walk.at + 8 <= end /\ end <= DR!Top.end
  BY <1>2, <1>3
<1>5. DR!Enter(8, DR!Frame("block", DR!Top.list, end))
  BY <1>2
<1> HIDE DEF end
<1>6. DR!Top.list \in FixupLists /\ DR!Top.list \in FixupLists \cup {"function_override"}
  BY <1>1, DynTop
<1>7. pc' = pc /\ given' = given /\ result' = result /\ errors \subseteq errors'
  BY DEF DR!BlockBegins, DR!AlignmentNoted, DR!Report, DR!NoReport
<1>8. 8 \in Int /\ "block" \in {"list", "block"}
  OBVIOUS
<1> QED BY <1>1, <1>4, <1>5, <1>6, <1>7, <1>8, DynEnter

LEMMA DynSize == ASSUME DynInv, DR!In("block") PROVE DR!Size \in Nat
<1>1. DR!Top.list \in FixupLists
  BY DynIn, DynTop
<1> QED BY <1>1 DEF DR!Size, DR!FixupSize, FixupLists

LEMMA DynFixupStep ==
  ASSUME DynInv, DR!BlockEnds \/ DR!FixupRead \/ DR!Arm64xData \/ DR!Arm64xUnknown
  PROVE  DynInv'
<1>b. DR!In("block")
  BY DEF DR!BlockEnds, DR!FixupRead, DR!Arm64xData, DR!Arm64xUnknown
<1>n. pc = "walk" /\ walk.frames # <<>> /\ given' = given /\ pc' = pc
  BY <1>b, DynIn DEF DR!BlockEnds, DR!FixupRead, DR!Arm64xData, DR!Arm64xUnknown
<1>t. walk.at \in Int /\ DR!Top.end \in Int /\ DR!Size \in Nat
  BY <1>b, <1>n, DynTypes, DynSize
<1>r. result => errors # {}
  BY DEF DynInv
<1>1. CASE DR!BlockEnds
  <2>1. errors \subseteq errors' /\ (DR!Top.end - walk.at = 0 \/ errors' # {}) /\ DR!Leave(walk)
    BY <1>1 DEF DR!BlockEnds, DR!Report, DR!NoReport, DR!Room
  <2>2. DR!Top.end = walk.at \/ errors' # {}
    BY <2>1, <1>t
  <2> QED BY <1>n, <2>1, <2>2, DynLeaves
<1>2. CASE DR!FixupRead
  <2>1. DR!Top.end - walk.at >= DR!Size /\ DR!Move(DR!Size) /\ result' = result /\ errors' = errors
    BY <1>2 DEF DR!FixupRead, DR!Room
  <2>2. walk.at + DR!Size <= DR!Top.end /\ DR!Size \in Int
    BY <2>1, <1>t
  <2> QED BY <1>n, <2>1, <2>2, DynMove
<1>3. CASE DR!Arm64xData
  <2>1. PICK data \in {1, 2, 4, 8} :
          \/ DR!Size + data <= DR!Top.end - walk.at /\ DR!Move(DR!Size + data) /\ DR!NoReport
          \/ DR!Move(DR!Size) /\ DR!Report("invalid_arm64x_data")
    BY <1>3 DEF DR!Arm64xData, DR!Room
  <2>2. DR!Top.end - walk.at >= DR!Size /\ result' = result /\ errors \subseteq errors'
    BY <1>3, <2>1 DEF DR!Arm64xData, DR!Room, DR!NoReport, DR!Report
  <2> DEFINE both == DR!Size + data
  <2>3. CASE both <= DR!Top.end - walk.at /\ DR!Move(both)
    <3>1. walk.at + both <= DR!Top.end /\ both \in Int
      BY <2>3, <1>t
    <3> HIDE DEF both
    <3> QED BY <1>n, <2>2, <2>3, <3>1, DynMove
  <2>4. CASE DR!Move(DR!Size)
    <3>1. walk.at + DR!Size <= DR!Top.end /\ DR!Size \in Int
      BY <2>2, <1>t
    <3> QED BY <1>n, <2>2, <2>4, <3>1, DynMove
  <2> QED BY <2>1, <2>3, <2>4
<1>4. CASE DR!Arm64xUnknown
  <2> DEFINE read == walk.at + DR!Size
             to == DR!Top.end
  <2>1. /\ to - walk.at >= DR!Size /\ result' = result /\ errors \subseteq errors'
        /\ walk' = [walk EXCEPT !.at = to, !.reach = DR!Max({walk.reach, read})]
    BY <1>4 DEF DR!Arm64xUnknown, DR!Room, DR!Report
  <2>2. to \in Int /\ read \in Int /\ to <= DR!Top.end /\ read <= DR!Top.end
    BY <2>1, <1>t
  <2>3. result' => errors' # {}
    BY <2>1, <1>r
  <2> HIDE DEF to, read
  <2> QED BY <1>n, <2>1, <2>2, <2>3, DynMoves
<1> QED BY <1>1, <1>2, <1>3, <1>4

\* Two frames, one in the other, are entered at once.
LEMMA DynOverrideBlockBegins == ASSUME DynInv, DR!OverrideBlockBegins PROVE DynInv'
<1>1. pc = "walk" /\ walk.frames # <<>> /\ DR!Top.kind = "list"
  BY DynIn DEF DR!OverrideBlockBegins
<1> DEFINE frames == walk.frames
           at == walk.at
<1>2. PICK size \in BlockSizes, overrides \in SmallSizes :
        /\ size <= DR!Top.end - at
        /\ 8 + 4 + overrides <= size
        /\ walk' = [at |-> at + 8 + 4,
                    frames |-> frames \o <<DR!Frame("override_block", "override_fixup", at + size),
                                           DR!Frame("overrides", "override_fixup", at + 8 + 4 + overrides)>>,
                    reach |-> DR!Max({walk.reach, at + 8 + 4})]
  BY DEF DR!OverrideBlockBegins, DR!Room, DR!BlockHeader, DR!OverrideHeader
<1>3. /\ at \in Int /\ DR!Top.end \in Int /\ size \in Nat /\ overrides \in Nat /\ frames \in Seq(DynFrame)
      /\ 1 \in DOMAIN frames /\ DR!Top.end <= frames[1].end /\ frames[1].end \in Int
  BY <1>1, DynTypes, DynSizes
<1> DEFINE begin == at + 8 + 4
           block == DR!Frame("override_block", "override_fixup", at + size)
           list == DR!Frame("overrides", "override_fixup", at + 8 + 4 + overrides)
<1>4. begin \in Int /\ at + size \in Int /\ at + 8 + 4 + overrides \in Int
  BY <1>3
<1>5. /\ block \in DynFrame /\ block.end = at + size /\ block.kind = "override_block"
      /\ list \in DynFrame /\ list.end = at + 8 + 4 + overrides /\ list.kind = "overrides"
  BY <1>4 DEF DR!Frame, DynFrame, FixupLists
<1>6. walk' = [at |-> begin, frames |-> frames \o <<block, list>>, reach |-> DR!Max({walk.reach, begin})]
  BY <1>2
<1> HIDE DEF block, list
<1>7. /\ block.end <= DR!Top.end /\ begin <= block.end /\ begin <= list.end /\ list.end <= block.end
      /\ begin <= frames[1].end /\ block.end \in Int /\ list.end \in Int
  <2> DEFINE top == DR!Top.end
             first == frames[1].end
  <2>1. size <= top - at /\ 8 + 4 + overrides <= size
    BY <1>2
  <2>2. at \in Int /\ top \in Int /\ size \in Nat /\ overrides \in Nat /\ top <= first /\ first \in Int
    BY <1>3
  <2>3. block.end = at + size /\ list.end = at + 8 + 4 + overrides
    BY <1>5
  <2> HIDE DEF top, at, first
  <2>4. at + size <= top /\ begin <= at + size /\ begin <= at + 8 + 4 + overrides
        /\ at + 8 + 4 + overrides <= at + size /\ begin <= first
        /\ at + size \in Int /\ at + 8 + 4 + overrides \in Int
    BY <2>1, <2>2
  <2> QED BY <2>3, <2>4 DEF top, first
<1> HIDE DEF begin
<1>8. Nested(at, frames) /\ walk.reach <= frames[1].end
  BY <1>1 DEF DynInv
<1>9. block.kind \notin {"overrides", "list", "block"} /\ list.kind \notin {"list", "block"}
  BY <1>5
<1>10. block.end <= frames[Len(frames)].end
  BY <1>7 DEF DR!Top
<1> HIDE DEF frames, at
<1> DEFINE one == Append(frames, block)
           both == Append(one, list)
<1>11. frames # <<>>
  BY <1>1 DEF frames
<1>12. /\ Nested(begin, one) /\ one \in Seq(DynFrame) /\ Len(one) = Len(frames) + 1
       /\ one # <<>> /\ one[Len(frames) + 1] = block
       /\ one[1] = frames[1]
  <2>1. frames # <<>> => block.end <= frames[Len(frames)].end
    BY <1>10
  <2>2. block.kind # "overrides" /\ block.kind # "list" /\ block.kind # "block"
    BY <1>9
  <2>3. frames \in Seq(DynFrame) /\ block \in DynFrame /\ begin <= block.end
    BY <1>3, <1>5, <1>7
  <2>4. /\ Nested(begin, Append(frames, block)) /\ Append(frames, block) \in Seq(DynFrame)
        /\ Len(Append(frames, block)) = Len(frames) + 1 /\ Append(frames, block) # <<>>
        /\ Append(frames, block)[Len(frames) + 1] = block
        /\ Append(frames, block)[1] = IF frames = <<>> THEN block ELSE frames[1]
    BY <2>1, <2>2, <2>3, <1>4, <1>8, NestedPushes
  <2> QED BY <2>4, <1>11
<1> HIDE DEF one
<1>13. list.end <= one[Len(one)].end
  BY <1>7, <1>12
<1>14. Nested(begin, both) /\ both \in Seq(DynFrame) /\ both # <<>> /\ both[1] = frames[1]
  BY <1>4, <1>5, <1>7, <1>9, <1>12, <1>13, NestedPushes
<1>15. frames \o <<block, list>> = both
  BY <1>3, <1>5 DEF one
<1>16. walk' = [at |-> begin, frames |-> both, reach |-> DR!Max({walk.reach, begin})]
  BY <1>6, <1>15
<1> HIDE DEF both
<1>17. pc' = "walk" /\ given' = given /\ (result' => errors' # {})
  <2>1. pc' = pc /\ given' = given /\ result' = result /\ errors \subseteq errors'
    BY DEF DR!OverrideBlockBegins, DR!AlignmentNoted, DR!Report, DR!NoReport
  <2> QED BY <2>1, <1>1 DEF DynInv
<1>18. begin <= both[1].end /\ walk.reach <= both[1].end
  BY <1>7, <1>8, <1>14
<1> QED BY <1>4, <1>14, <1>16, <1>17, <1>18, DynGoes

LEMMA DynOverridesEnd == ASSUME DynInv, DR!OverridesDone \/ DR!OverrideInvalid PROVE DynInv'
<1>1. pc = "walk" /\ walk.frames # <<>> /\ DR!Top.kind = "overrides"
  BY DynIn DEF DR!OverridesDone, DR!OverrideInvalid
<1>2. walk' = DR!Popped(DR!Popped(walk)) /\ pc' = pc /\ given' = given
  BY DEF DR!OverridesDone, DR!OverrideInvalid
<1>3. result' => errors' # {}
  <2>1. CASE DR!OverridesDone
    BY <2>1 DEF DR!OverridesDone, DR!Report, DR!NoReport, DynInv
  <2>2. CASE DR!OverrideInvalid
    BY <2>2 DEF DR!OverrideInvalid
  <2> QED BY <2>1, <2>2
<1> DEFINE one == DR!Popped(walk)
<1>4. walk \in DynWalk /\ Nested(walk.at, walk.frames) /\ walk.reach <= walk.frames[1].end /\ given.size \in Nat
  BY <1>1 DEF DynInv
<1>5. Len(walk.frames) >= 2 /\ Len(walk.frames) \in Nat
  BY <1>1, DynTop, DynTypes
<1>6. /\ one \in DynWalk /\ Nested(one.at, one.frames) /\ one.reach = walk.reach
      /\ Len(one.frames) = Len(walk.frames) - 1
      /\ \A i \in 1 .. Len(walk.frames) - 1 : one.frames[i] = walk.frames[i]
  BY <1>1, <1>4, PoppedWalk
<1>7. walk' = DR!Popped(one)
  BY <1>2
<1> HIDE DEF one
<1>8. one.frames # <<>> /\ one.frames[1] = walk.frames[1]
  <2>1. Len(one.frames) >= 1 /\ 1 \in 1 .. Len(walk.frames) - 1
    BY <1>5, <1>6
  <2> QED BY <2>1, <1>6
<1>9. /\ walk' \in DynWalk /\ Nested(walk'.at, walk'.frames) /\ walk'.reach = one.reach
      /\ Len(walk'.frames) = Len(one.frames) - 1
      /\ \A i \in 1 .. Len(one.frames) - 1 : walk'.frames[i] = one.frames[i]
  BY <1>6, <1>7, <1>8, PoppedWalk
<1>10. walk'.frames # <<>> => walk'.frames[1] = walk.frames[1]
  <2>1. walk'.frames # <<>> => Len(walk'.frames) > 0
    BY <1>9 DEF DynWalk
  <2>2. walk'.frames # <<>> => 1 \in 1 .. Len(one.frames) - 1
    BY <2>1, <1>5, <1>6, <1>9
  <2> QED BY <2>2, <1>8, <1>9
<1>11. walk'.frames # <<>> => walk'.reach <= walk'.frames[1].end
  BY <1>4, <1>6, <1>9, <1>10
<1>12. Nested(walk.at, walk.frames)'
  BY <1>9 DEF Nested
<1>13. pc' = "walk"
  BY <1>1, <1>2
<1> QED BY <1>2, <1>3, <1>4, <1>9, <1>11, <1>12, <1>13 DEF DynInv

LEMMA DynOverrideRead == ASSUME DynInv, DR!OverrideRead PROVE DynInv'
<1>1. pc = "walk" /\ walk.frames # <<>>
  BY DynIn DEF DR!OverrideRead
<1>2. PICK rvas \in SmallSizes, blocks \in BlockSizes \cup {0} :
        /\ 16 + rvas + blocks <= DR!Top.end - walk.at
        /\ DR!Enter(16 + rvas, DR!Frame("list", "override_fixup", walk.at + 16 + rvas + blocks))
  BY DEF DR!OverrideRead, DR!OverrideSize, DR!Room
<1>3. walk.at \in Int /\ DR!Top.end \in Int /\ rvas \in Nat /\ blocks \in Nat
  BY <1>1, DynTypes, DynSizes
<1> DEFINE n == 16 + rvas
           end == walk.at + 16 + rvas + blocks
<1>4. n \in Int /\ end \in Int /\ walk.at + n <= end /\ end <= DR!Top.end
  BY <1>2, <1>3
<1>5. DR!Enter(n, DR!Frame("list", "override_fixup", end))
  BY <1>2
<1> HIDE DEF n, end
<1>6. pc' = pc /\ given' = given /\ result' = result /\ errors \subseteq errors'
  BY DEF DR!OverrideRead
<1>7. "list" \in {"list", "block"} /\ "list" # "block" /\ "override_fixup" \in FixupLists \cup {"function_override"}
  BY DEF FixupLists
<1> QED BY <1>1, <1>4, <1>5, <1>6, <1>7, DynEnter

LEMMA LesserOfTwo ==
  ASSUME NEW a \in Int, NEW b \in Int
  PROVE  DR!Min({a, b}) = IF a <= b THEN a ELSE b
BY DEF DR!Min

LEMMA DynBddInvalid == ASSUME DynInv, DR!BddInvalid PROVE DynInv'
<1>1. pc = "bdd" /\ pc' = "walk" /\ UNCHANGED <<given, walk, result>>
  BY DEF DR!BddInvalid
<1>2. errors' # {}
  BY DEF DR!BddInvalid
<1>3. Nested(walk.at, walk.frames)'
  BY <1>1 DEF Nested, DynInv
<1> QED BY <1>1, <1>2, <1>3 DEF DynInv

\* What is read beside the cursor ends with the block that is left.
LEMMA DynBddRead == ASSUME DynInv, DR!BddRead PROVE DynInv'
<1>1. pc = "bdd" /\ pc' = "walk" /\ UNCHANGED <<given, result>> /\ errors \subseteq errors'
  BY DEF DR!BddRead, DR!Report, DR!NoReport
<1>2. Len(walk.frames) >= 2 /\ walk \in DynWalk /\ Nested(walk.at, walk.frames)
      /\ given.size \in Nat /\ (result => errors # {})
  BY <1>1 DEF DynInv
<1>3. /\ Len(walk.frames) \in Nat /\ DOMAIN walk.frames = 1 .. Len(walk.frames) /\ walk.reach \in Int
      /\ \A i \in DOMAIN walk.frames : walk.frames[i].end \in Int
  BY DynTypes
<1>4. walk.frames # <<>>
  BY <1>2
<1> DEFINE outer == DR!OverrideBlockEnd
<1>5. /\ outer \in Int /\ outer <= walk.frames[1].end /\ DR!OverridesEnd \in Int
      /\ walk.reach <= walk.frames[1].end /\ walk.frames[1].end \in Int
  <2>1. Len(walk.frames) - 1 \in DOMAIN walk.frames /\ 1 \in DOMAIN walk.frames /\ Len(walk.frames) \in DOMAIN walk.frames
    BY <1>2, <1>3
  <2>2. outer <= walk.frames[1].end
    <3>1. CASE Len(walk.frames) - 1 = 1
      <4>1. outer = walk.frames[1].end /\ walk.frames[1].end \in Int
        BY <3>1, <2>1, <1>3, Zenon DEF DR!OverrideBlockEnd
      <4> QED BY <4>1
    <3>2. CASE Len(walk.frames) - 1 > 1
      BY <3>2, <2>1, <1>2 DEF DR!OverrideBlockEnd, Nested
    <3>3. Len(walk.frames) - 1 = 1 \/ Len(walk.frames) - 1 > 1
      <4> DEFINE n == Len(walk.frames)
      <4>1. n >= 2 /\ n \in Nat
        BY <1>2, <1>3
      <4> HIDE DEF n
      <4>2. n - 1 = 1 \/ n - 1 > 1
        BY <4>1
      <4> QED BY <4>2 DEF n
    <3> QED BY <3>1, <3>2, <3>3
  <2>3. walk.reach <= walk.frames[1].end
    BY <1>1, <1>4 DEF DynInv
  <2> QED BY <2>1, <2>2, <2>3, <1>3 DEF DR!OverrideBlockEnd, DR!OverridesEnd, DR!Top
<1>6. PICK offset \in SmallSizes, size \in SmallSizes :
        LET begin == DR!OverridesEnd + offset + 8
            remaining == DR!Min({outer - begin, size})
            left == remaining % 8
        IN /\ begin <= outer
           /\ walk' = [walk EXCEPT !.reach = DR!Max({walk.reach, begin + remaining - left})]
  BY DEF DR!BddRead, DR!BddHeader, DR!BddEntry
<1> DEFINE begin == DR!OverridesEnd + offset + 8
           remaining == DR!Min({outer - begin, size})
           end == begin + remaining - (remaining % 8)
           reach == DR!Max({walk.reach, end})
<1>7. walk' = [walk EXCEPT !.reach = reach] /\ begin <= outer
  BY <1>6, Zenon
<1>8. offset \in Nat /\ size \in Nat /\ begin \in Int
  BY <1>5, DynSizes
<1> HIDE DEF begin, outer
<1>9. remaining \in Nat /\ remaining <= outer - begin
  <2>1. outer - begin \in Int /\ outer - begin >= 0
    BY <1>5, <1>7, <1>8
  <2>2. remaining = IF outer - begin <= size THEN outer - begin ELSE size
    BY <2>1, <1>8, LesserOfTwo
  <2> HIDE DEF remaining
  <2> QED BY <2>1, <2>2, <1>8
<1> HIDE DEF remaining
<1>10. remaining % 8 \in Nat
  BY <1>9
<1>11. end \in Int /\ end <= outer
  BY <1>5, <1>8, <1>9, <1>10
<1> HIDE DEF end
<1>12. reach \in Int /\ reach <= walk.frames[1].end
  <2>1. reach = IF walk.reach <= end THEN end ELSE walk.reach
    BY <1>3, <1>11, MaxOfTwo
  <2> QED BY <2>1, <1>3, <1>5, <1>11
<1> HIDE DEF reach
<1>13. walk' \in DynWalk /\ walk'.at = walk.at /\ walk'.frames = walk.frames /\ walk'.reach = reach
  BY <1>2, <1>7, <1>12 DEF DynWalk
<1>14. Nested(walk.at, walk.frames)'
  BY <1>2, <1>13 DEF Nested
<1>15. result' => errors' # {}
  BY <1>1, <1>2
<1> QED BY <1>1, <1>2, <1>12, <1>13, <1>14, <1>15 DEF DynInv

LEMMA DynamicStart == DR!Init => DynInv
<1> SUFFICES ASSUME DR!Init PROVE DynInv
  OBVIOUS
<1>1. given.size \in TableSizes /\ pc = "section" /\ walk = [at |-> 0, frames |-> <<>>, reach |-> 0] /\ result = FALSE
  BY DEF DR!Init
<1>2. given.size \in Nat
  BY <1>1, DynSizes
<1>3. walk \in DynWalk /\ walk.frames = <<>>
  BY <1>1 DEF DynWalk
<1>4. Nested(walk.at, walk.frames)
  BY <1>3 DEF Nested
<1> QED BY <1>1, <1>2, <1>3, <1>4 DEF DynInv

LEMMA DynamicStep == DynInv /\ DR!Next => DynInv'
<1> SUFFICES ASSUME DynInv, DR!Next PROVE DynInv'
  OBVIOUS
<1>1. CASE DR!NoSection \/ DR!TableUnread \/ DR!TableRead
  BY <1>1, DynSectionStep
<1>2. CASE DR!RelocationsDone \/ DR!RelocationUnread \/ DR!RelocationV1
  BY <1>2, DynRelocationStep
<1>3. CASE DR!RelocationV2
  BY <1>3, DynRelocationV2Step
<1>4. CASE DR!ListDone \/ DR!BlockUnread \/ DR!BlockSizeInvalid \/ DR!OverrideHeaderInvalid
  BY <1>4, DynListStep
<1>5. CASE DR!BlockBegins
  BY <1>5, DynBlockBegins
<1>6. CASE DR!BlockEnds \/ DR!FixupRead \/ DR!Arm64xData \/ DR!Arm64xUnknown
  BY <1>6, DynFixupStep
<1>7. CASE DR!OverrideBlockBegins
  BY <1>7, DynOverrideBlockBegins
<1>8. CASE DR!OverridesDone \/ DR!OverrideInvalid
  BY <1>8, DynOverridesEnd
<1>9. CASE DR!OverrideRead
  BY <1>9, DynOverrideRead
<1>10. CASE DR!BddInvalid \/ DR!BddRead
  BY <1>10, DynBddInvalid, DynBddRead
<1> QED BY <1>1, <1>2, <1>3, <1>4, <1>5, <1>6, <1>7, <1>8, <1>9, <1>10 DEF DR!Next

\* The cursor is inside of all that it is in, and what it passes over is reported.
LEMMA DynamicNested == DynInv => DR!FramesNested /\ DR!NothingPassedOver
<1> SUFFICES ASSUME DynInv PROVE DR!FramesNested /\ DR!NothingPassedOver
  OBVIOUS
<1>1. \A i \in DOMAIN walk.frames : walk.at <= walk.frames[i].end
  BY DEF DynInv, Nested
<1>2. \A i \in DOMAIN walk.frames : i > 1 => walk.frames[i].end <= walk.frames[i - 1].end
  <2>1. \A i \in DOMAIN walk.frames : i > 1 => i - 1 \in DOMAIN walk.frames /\ i - 1 < i
    BY DynTypes
  <2> QED BY <2>1 DEF DynInv, Nested
<1> QED BY <1>1, <1>2 DEF DynInv, DR!FramesNested, DR!NothingPassedOver

-----------------------------------------------------------------------------
(* The Rich header. *)

\* What has been found is kept: the checksum is behind the signature, the entries begin
\* behind DanS and its padding, and they are those up to the signature.
RichInv ==
    /\ walk = [stub |-> walk.stub, size |-> walk.size, at |-> walk.at, rich |-> walk.rich]
    /\ result = [header |-> result.header, offset |-> result.offset,
                 items |-> result.items, summed |-> result.summed]
    /\ pc \in {"build", "find", "dans", "compids", "checksum", "throws", "done"}
    /\ pc \in {"build", "find"} => ~result.header
    /\ pc = "dans" => walk.rich \in Int /\ walk.at = walk.rich + 8
    /\ pc \in {"compids", "checksum"} =>
        /\ walk.rich \in Int /\ result.offset \in Nat /\ result.offset % 16 = 0
        /\ walk.at = result.offset + 16
    /\ pc = "checksum" /\ walk.rich >= walk.at => Len(result.items) * 8 = walk.rich - walk.at
    /\ RI!HeaderWhole

LEMMA RichStart == RI!Init => RichInv
<1> SUFFICES ASSUME RI!Init PROVE RichInv
  OBVIOUS
<1>1. pc \in {"build", "find"} /\ result = [header |-> FALSE, offset |-> 0, items |-> <<>>, summed |-> {}]
  BY DEF RI!Init
<1>2. PICK stub : walk = [stub |-> stub, size |-> 0, at |-> 0, rich |-> 0]
  BY Zenon DEF RI!Init
<1>3. walk = [stub |-> walk.stub, size |-> walk.size, at |-> walk.at, rich |-> walk.rich]
  BY <1>2
<1>4. /\ result = [header |-> result.header, offset |-> result.offset,
                   items |-> result.items, summed |-> result.summed]
      /\ ~result.header
  BY <1>1
<1> QED BY <1>1, <1>3, <1>4 DEF RichInv, RI!HeaderWhole

LEMMA RichBuild == ASSUME RichInv, RI!Build PROVE RichInv'
<1>1. pc = "build" /\ pc' = "find" /\ result' = result
  BY DEF RI!Build
<1>2. PICK stub, size : walk' = [walk EXCEPT !.stub = stub, !.size = size]
  BY Zenon DEF RI!Build
<1>3. walk = [stub |-> walk.stub, size |-> walk.size, at |-> walk.at, rich |-> walk.rich]
  BY DEF RichInv
<1>4. walk' = [stub |-> stub, size |-> size, at |-> walk.at, rich |-> walk.rich]
  BY <1>2, <1>3, Zenon
<1>5. walk' = [stub |-> walk'.stub, size |-> walk'.size, at |-> walk'.at, rich |-> walk'.rich]
  BY <1>4
<1> QED BY <1>1, <1>5 DEF RichInv, RI!HeaderWhole

LEMMA RichFindChecksum == ASSUME RichInv, RI!FindChecksum PROVE RichInv'
<1>1. pc = "find" /\ ~result.header
  BY DEF RI!FindChecksum, RichInv
<1>2. PICK pos :
        \/ /\ RI!ChecksumUsable(pos)
           /\ walk' = [walk EXCEPT !.at = pos + 2 * RI!WordSize, !.rich = pos]
           /\ result' = [result EXCEPT !.header = TRUE] /\ pc' = "dans"
        \/ pc' = "done" /\ UNCHANGED <<walk, result>>
  BY DEF RI!FindChecksum
<1>3. /\ walk = [stub |-> walk.stub, size |-> walk.size, at |-> walk.at, rich |-> walk.rich]
      /\ result = [header |-> result.header, offset |-> result.offset,
                   items |-> result.items, summed |-> result.summed]
  BY DEF RichInv
<1>4. CASE pc' = "done" /\ UNCHANGED <<walk, result>>
  BY <1>1, <1>3, <1>4 DEF RichInv, RI!HeaderWhole
<1>5. CASE /\ RI!ChecksumUsable(pos)
           /\ walk' = [walk EXCEPT !.at = pos + 2 * RI!WordSize, !.rich = pos]
           /\ result' = [result EXCEPT !.header = TRUE] /\ pc' = "dans"
  <2>1. pos \in Int /\ pos + 2 * RI!WordSize = pos + 8
    BY <1>5 DEF RI!ChecksumUsable, RI!WordSize
  <2>2. /\ walk' = [stub |-> walk.stub, size |-> walk.size, at |-> pos + 8, rich |-> pos]
        /\ result' = [header |-> TRUE, offset |-> result.offset,
                      items |-> result.items, summed |-> result.summed]
    BY <1>3, <1>5, <2>1, Zenon
  <2>3. walk' = [stub |-> walk'.stub, size |-> walk'.size, at |-> walk'.at, rich |-> walk'.rich]
        /\ walk'.at = pos + 8 /\ walk'.rich = pos
    BY <2>2
  <2>4. result' = [header |-> result'.header, offset |-> result'.offset,
                   items |-> result'.items, summed |-> result'.summed]
    BY <2>2
  <2> QED BY <1>5, <2>1, <2>3, <2>4 DEF RichInv, RI!HeaderWhole
<1> QED BY <1>2, <1>4, <1>5

LEMMA RichFindDans == ASSUME RichInv, RI!FindDans PROVE RichInv'
<1>1. /\ pc = "dans" /\ walk.rich \in Int
      /\ walk = [stub |-> walk.stub, size |-> walk.size, at |-> walk.at, rich |-> walk.rich]
      /\ result = [header |-> result.header, offset |-> result.offset,
                   items |-> result.items, summed |-> result.summed]
  BY DEF RI!FindDans, RichInv
<1>2. \/ pc' = "throws" /\ UNCHANGED <<walk, result>>
      \/ \E last \in RI!DansPlaces :
            /\ walk' = [walk EXCEPT !.at = RI!RoundUp(last + RI!WordSize, RI!DansAlignment)]
            /\ result' = [result EXCEPT !.offset = last]
            /\ pc' = "compids"
  BY DEF RI!FindDans
<1>3. CASE pc' = "throws" /\ UNCHANGED <<walk, result>>
  BY <1>1, <1>3 DEF RichInv, RI!HeaderWhole
<1>4. ASSUME NEW last \in RI!DansPlaces,
             walk' = [walk EXCEPT !.at = RI!RoundUp(last + RI!WordSize, RI!DansAlignment)],
             result' = [result EXCEPT !.offset = last], pc' = "compids"
      PROVE  RichInv'
  <2>1. last \in Nat /\ last % 16 = 0
    BY DEF RI!DansPlaces, RI!DansAlignment
  <2>2. RI!RoundUp(last + RI!WordSize, RI!DansAlignment) = last + 16
    <3>1. RI!RoundUp(last + RI!WordSize, RI!DansAlignment) = ((last + 4 + 16 - 1) \div 16) * 16
      BY DEF RI!RoundUp, RI!WordSize, RI!DansAlignment
    <3>2. PICK n \in Nat : last = 16 * n
      BY <2>1
    <3>3. (16 * n + 4 + 16 - 1) \div 16 = n + 1
      OBVIOUS
    <3> QED BY <3>1, <3>2, <3>3
  <2>3. /\ walk' = [stub |-> walk.stub, size |-> walk.size, at |-> last + 16, rich |-> walk.rich]
        /\ result' = [header |-> result.header, offset |-> last,
                      items |-> result.items, summed |-> result.summed]
    BY <1>1, <1>4, <2>2, Zenon
  <2>4. walk' = [stub |-> walk'.stub, size |-> walk'.size, at |-> walk'.at, rich |-> walk'.rich]
        /\ walk'.at = last + 16 /\ walk'.rich = walk.rich
    BY <2>3
  <2>5. result' = [header |-> result'.header, offset |-> result'.offset,
                   items |-> result'.items, summed |-> result'.summed]
        /\ result'.offset = last
    BY <2>3
  <2> QED BY <1>1, <1>4, <2>1, <2>4, <2>5 DEF RichInv, RI!HeaderWhole
<1> QED BY <1>2, <1>3, <1>4

LEMMA RichDecodeCompids == ASSUME RichInv, RI!DecodeCompids PROVE RichInv'
<1>1. /\ pc = "compids" /\ walk.rich \in Int /\ result.offset \in Nat /\ result.offset % 16 = 0
      /\ walk.at = result.offset + 16
      /\ walk = [stub |-> walk.stub, size |-> walk.size, at |-> walk.at, rich |-> walk.rich]
      /\ result = [header |-> result.header, offset |-> result.offset,
                   items |-> result.items, summed |-> result.summed]
  BY DEF RI!DecodeCompids, RichInv
<1>2. walk' = walk
  BY DEF RI!DecodeCompids
<1>3. CASE pc' = "throws" /\ result' = result
  BY <1>1, <1>2, <1>3 DEF RichInv, RI!HeaderWhole
<1>4. CASE /\ (walk.rich - walk.at) % 8 = 0 /\ pc' = "checksum"
           /\ result' = [result EXCEPT !.items =
                  [i \in 1 .. (RI!Max({walk.rich, walk.at}) - walk.at) \div 8 |->
                      SubSeq(walk.stub, walk.at + (i - 1) * 8 + 1, walk.at + i * 8)]]
  <2> DEFINE n == (RI!Max({walk.rich, walk.at}) - walk.at) \div 8
             items == [i \in 1 .. n |-> SubSeq(walk.stub, walk.at + (i - 1) * 8 + 1, walk.at + i * 8)]
  <2>1. result' = [result EXCEPT !.items = items]
    BY <1>4
  <2>2. walk.at \in Int
    BY <1>1
  <2>3. walk.rich >= walk.at => Len(items) * 8 = walk.rich - walk.at
    <3> SUFFICES ASSUME walk.rich >= walk.at PROVE Len(items) * 8 = walk.rich - walk.at
      OBVIOUS
    <3>1. RI!Max({walk.rich, walk.at}) = walk.rich
      BY <1>1, <2>2 DEF RI!Max
    <3>2. PICK k \in Nat : walk.rich - walk.at = 8 * k
      <4> DEFINE d == walk.rich - walk.at
      <4>1. d \in Nat /\ d % 8 = 0
        BY <1>1, <1>4, <2>2
      <4> HIDE DEF d
      <4>2. \E k \in Nat : d = 8 * k
        BY <4>1
      <4> QED BY <4>2 DEF d
    <3>3. n = k
      <4>1. n = (8 * k) \div 8
        BY <3>1, <3>2
      <4> HIDE DEF n
      <4> QED BY <4>1
    <3> HIDE DEF n
    <3>4. Len(items) = k
      BY <3>3
    <3> HIDE DEF items
    <3> QED BY <3>2, <3>4
  <2> HIDE DEF items
  <2>4. result' = [header |-> result.header, offset |-> result.offset,
                   items |-> items, summed |-> result.summed]
    BY <1>1, <2>1, Zenon
  <2>5. /\ result' = [header |-> result'.header, offset |-> result'.offset,
                      items |-> result'.items, summed |-> result'.summed]
        /\ result'.offset = result.offset /\ result'.items = items
    BY <2>4
  <2> QED BY <1>1, <1>2, <1>4, <2>3, <2>5 DEF RichInv, RI!HeaderWhole
<1> QED BY <1>3, <1>4 DEF RI!DecodeCompids, RI!CompidSize

\* The greatest and the least of what has one.
LEMMA GreatestIs ==
  ASSUME NEW S, NEW m \in S, m \in Int, \A i \in S : i \in Int /\ i <= m PROVE RI!Max(S) = m
<1> DEFINE max == RI!Max(S)
<1>1. \E x \in S : \A y \in S : x >= y
  OBVIOUS
<1>2. max \in S /\ \A y \in S : max >= y
  BY <1>1, Zenon DEF RI!Max
<1> HIDE DEF max
<1>3. max = m
  BY <1>2
<1> QED BY <1>3 DEF max

LEMMA LeastIs ==
  ASSUME NEW S, NEW m \in S, m \in Int, \A i \in S : i \in Int /\ m <= i PROVE RI!Min(S) = m
<1> DEFINE min == RI!Min(S)
<1>1. \E x \in S : \A y \in S : x <= y
  OBVIOUS
<1>2. min \in S /\ \A y \in S : min <= y
  BY <1>1, Zenon DEF RI!Min
<1> HIDE DEF min
<1>3. min = m
  BY <1>2
<1> QED BY <1>3 DEF min

LEMMA RichCalculate == ASSUME RichInv, RI!Calculate PROVE RichInv'
<1>1. /\ pc = "checksum" /\ walk.rich \in Int /\ result.offset \in Nat /\ result.offset % 16 = 0
      /\ walk.at = result.offset + 16
      /\ walk.rich >= walk.at => Len(result.items) * 8 = walk.rich - walk.at
      /\ walk = [stub |-> walk.stub, size |-> walk.size, at |-> walk.at, rich |-> walk.rich]
      /\ result = [header |-> result.header, offset |-> result.offset,
                   items |-> result.items, summed |-> result.summed]
  BY DEF RI!Calculate, RichInv
<1>2. walk' = walk
  BY DEF RI!Calculate
<1>3. CASE pc' = "throws" /\ result' = result
  BY <1>1, <1>2, <1>3 DEF RichInv, RI!HeaderWhole
<1>4. CASE /\ pc' = "done"
           /\ result' = [result EXCEPT !.summed = (0 .. 64 + result.offset - 1) \ RI!Lfanew]
  <2> DEFINE offset == result.offset
             summed == (0 .. 64 + offset - 1) \ RI!Lfanew
  <2>1. offset \in Nat /\ offset % 16 = 0
    BY <1>1
  <2>4. result' = [header |-> result.header, offset |-> offset,
                   items |-> result.items, summed |-> summed]
    BY <1>1, <1>4, Zenon
  <2> HIDE DEF offset
  <2>2. offset = 0 \/ offset >= 16
    BY <2>1
  <2>3. offset >= 16 => RI!Max(summed) + 1 = 64 + offset
    <3> SUFFICES ASSUME offset >= 16 PROVE RI!Max(summed) + 1 = 64 + offset
      OBVIOUS
    <3> DEFINE last == 64 + offset - 1
    <3>1. last \in summed /\ last \in Int /\ \A x \in summed : x \in Int /\ x <= last
      BY <2>1 DEF RI!Lfanew
    <3>2. last + 1 = 64 + offset
      BY <2>1
    <3> HIDE DEF last, summed
    <3>3. RI!Max(summed) = last
      BY <3>1, GreatestIs
    <3> QED BY <3>2, <3>3
  <2> HIDE DEF summed
  <2>5. /\ result' = [header |-> result'.header, offset |-> result'.offset,
                      items |-> result'.items, summed |-> result'.summed]
        /\ result'.offset = offset /\ result'.items = result.items /\ result'.summed = summed
    BY <2>4
  <2>6. walk.rich >= walk.at => Len(result.items) * 8 + 16 = walk.rich - offset
    BY <1>1 DEF offset
  <2>7. RI!HeaderWhole'
    BY <1>2, <2>2, <2>3, <2>5, <2>6 DEF RI!HeaderWhole, RI!CompidSize, RI!WordSize, RI!DosHeaderSize
  <2> QED BY <1>1, <1>2, <1>4, <2>5, <2>7 DEF RichInv
<1> QED BY <1>3, <1>4 DEF RI!Calculate, RI!DosHeaderSize

LEMMA RichStep == RichInv /\ RI!Next => RichInv'
  BY RichBuild, RichFindChecksum, RichFindDans, RichDecodeCompids, RichCalculate DEF RI!Next

\* The place of a product in the table, for each of the tools.
LEMMA Bounds ==
  ASSUME NEW tool \in RI!Tools, NEW build \in RI!Builds
  PROVE  RI!LowerBound(<<tool, build>>) =
           CASE tool = 1 -> IF build <= 0 THEN 1 ELSE 2
             [] tool = 2 -> IF build <= 10 THEN 2 ELSE IF build <= 20 THEN 3 ELSE IF build <= 30 THEN 4 ELSE 5
             [] tool = 3 -> 5
             [] tool = 4 -> IF build <= 15 THEN 5 ELSE 6
<1> DEFINE t == <<tool, build>>
           L(j) == RI!Less(RI!Products[j], t)
<1>1. /\ DOMAIN RI!Products = 1 .. 5 /\ Len(RI!Products) + 1 = 6
      /\ RI!Products[1] = <<1, 0>> /\ RI!Products[2] = <<2, 10>> /\ RI!Products[3] = <<2, 20>>
      /\ RI!Products[4] = <<2, 30>> /\ RI!Products[5] = <<4, 15>>
  BY DEF RI!Products
<1>2. tool \in 1 .. 4 /\ build \in Nat
  BY DEF RI!Tools, RI!Builds
<1>3. /\ L(1) <=> (1 < tool \/ (1 = tool /\ 0 < build))
      /\ L(2) <=> (2 < tool \/ (2 = tool /\ 10 < build))
      /\ L(3) <=> (2 < tool \/ (2 = tool /\ 20 < build))
      /\ L(4) <=> (2 < tool \/ (2 = tool /\ 30 < build))
      /\ L(5) <=> (4 < tool \/ (4 = tool /\ 15 < build))
  BY <1>1 DEF RI!Less
<1> DEFINE at == CASE tool = 1 -> IF build <= 0 THEN 1 ELSE 2
             [] tool = 2 -> IF build <= 10 THEN 2 ELSE IF build <= 20 THEN 3 ELSE IF build <= 30 THEN 4 ELSE 5
             [] tool = 3 -> 5
             [] tool = 4 -> IF build <= 15 THEN 5 ELSE 6
<1>4. RI!LowerBound(t) = CHOOSE i \in 1 .. 6 : \A j \in 1 .. 5 : j < i <=> L(j)
  BY <1>1 DEF RI!LowerBound
<1> HIDE DEF L
<1>5. at \in 1 .. 6 /\ (1 < at <=> L(1)) /\ (2 < at <=> L(2)) /\ (3 < at <=> L(3))
      /\ (4 < at <=> L(4)) /\ (5 < at <=> L(5))
  <2>1. tool = 1 \/ tool = 2 \/ tool = 3 \/ tool = 4
    BY <1>2
  <2>2. CASE tool = 1
    BY <2>2, <1>2, <1>3
  <2>3. CASE tool = 2
    BY <2>3, <1>2, <1>3
  <2>4. CASE tool = 3
    BY <2>4, <1>2, <1>3
  <2>5. CASE tool = 4
    BY <2>5, <1>2, <1>3
  <2> QED BY <2>1, <2>2, <2>3, <2>4, <2>5
<1> HIDE DEF at
<1>6. \A j \in 1 .. 5 : j < at <=> L(j)
  BY <1>5
<1>7. \A i \in 1 .. 6 : (\A j \in 1 .. 5 : j < i <=> L(j)) => i = at
  <2> SUFFICES ASSUME NEW i \in 1 .. 6, \A j \in 1 .. 5 : j < i <=> L(j) PROVE i = at
    OBVIOUS
  <2>1. \A j \in 1 .. 5 : j < i <=> j < at
    BY <1>6
  <2>2. ~(i < at)
    BY <1>5, <2>1
  <2>3. ~(at < i)
    BY <1>5, <2>1
  <2> QED BY <1>5, <2>2, <2>3
<1>8. (CHOOSE i \in 1 .. 6 : \A j \in 1 .. 5 : j < i <=> L(j)) = at
  BY <1>5, <1>6, <1>7, Zenon
<1> QED BY <1>4, <1>8 DEF at

\* The product of an entry is the latest of its tool that is no newer than its build.
LEMMA RichProducts == RI!ProductsNearest
<1> SUFFICES ASSUME NEW tool \in RI!Tools, NEW build \in RI!Builds,
                    RI!Product(tool, build) # <<>>,
                    {i \in DOMAIN RI!Products : RI!Products[i][1] = tool /\ RI!Products[i][2] <= build} # {}
             PROVE  LET older == {i \in DOMAIN RI!Products : RI!Products[i][1] = tool /\ RI!Products[i][2] <= build}
                    IN  RI!Product(tool, build) = <<RI!Products[RI!Max(older)], RI!Products[RI!Max(older)][2] = build>>
  BY DEF RI!ProductsNearest
<1>1. /\ DOMAIN RI!Products = 1 .. 5
      /\ RI!Products[1] = <<1, 0>> /\ RI!Products[2] = <<2, 10>> /\ RI!Products[3] = <<2, 20>>
      /\ RI!Products[4] = <<2, 30>> /\ RI!Products[5] = <<4, 15>>
  BY DEF RI!Products
<1>2. tool \in 1 .. 4 /\ build \in {0, 5, 10, 15, 20, 25, 30, 40}
  BY DEF RI!Tools, RI!Builds
<1> DEFINE older == {i \in DOMAIN RI!Products : RI!Products[i][1] = tool /\ RI!Products[i][2] <= build}
           ofTool == {i \in DOMAIN RI!Products : RI!Products[i][1] = tool}
           at == RI!LowerBound(<<tool, build>>)
           near == IF RI!Products[at][2] > build /\ at # RI!Min(ofTool) THEN at - 1 ELSE at
           p == <<RI!Products[near], RI!Products[near][2] = build>>
<1>3. ofTool # {} /\ ~(at > RI!Max(ofTool)) /\ RI!Product(tool, build) = p
  BY Zenon DEF RI!Product
<1>4. /\ ofTool \subseteq {1, 2, 3, 4, 5}
      /\ 1 \in ofTool <=> tool = 1
      /\ 2 \in ofTool <=> tool = 2
      /\ 3 \in ofTool <=> tool = 2
      /\ 4 \in ofTool <=> tool = 2
      /\ 5 \in ofTool <=> tool = 4
  <2>1. ofTool \subseteq {1, 2, 3, 4, 5}
    BY <1>1
  <2>2. \A i \in 1 .. 5 : i \in ofTool <=> RI!Products[i][1] = tool
    BY <1>1
  <2> HIDE DEF ofTool
  <2>3. (RI!Products[1][1] = 1) /\ (RI!Products[2][1] = 2) /\ (RI!Products[3][1] = 2)
        /\ (RI!Products[4][1] = 2) /\ (RI!Products[5][1] = 4)
    BY <1>1
  <2> QED BY <2>1, <2>2, <2>3
<1>5. /\ older \subseteq {1, 2, 3, 4, 5}
      /\ 1 \in older <=> tool = 1 /\ 0 <= build
      /\ 2 \in older <=> tool = 2 /\ 10 <= build
      /\ 3 \in older <=> tool = 2 /\ 20 <= build
      /\ 4 \in older <=> tool = 2 /\ 30 <= build
      /\ 5 \in older <=> tool = 4 /\ 15 <= build
  <2>1. older \subseteq {1, 2, 3, 4, 5}
    BY <1>1
  <2>2. \A i \in 1 .. 5 : i \in older <=> RI!Products[i][1] = tool /\ RI!Products[i][2] <= build
    BY <1>1
  <2> HIDE DEF older
  <2>3. /\ RI!Products[1][1] = 1 /\ RI!Products[2][1] = 2 /\ RI!Products[3][1] = 2
        /\ RI!Products[4][1] = 2 /\ RI!Products[5][1] = 4
        /\ RI!Products[1][2] = 0 /\ RI!Products[2][2] = 10 /\ RI!Products[3][2] = 20
        /\ RI!Products[4][2] = 30 /\ RI!Products[5][2] = 15
    BY <1>1
  <2> QED BY <2>1, <2>2, <2>3
<1>6. older # {}
  OBVIOUS
<1>7. at = CASE tool = 1 -> IF build <= 0 THEN 1 ELSE 2
             [] tool = 2 -> IF build <= 10 THEN 2 ELSE IF build <= 20 THEN 3 ELSE IF build <= 30 THEN 4 ELSE 5
             [] tool = 3 -> 5
             [] tool = 4 -> IF build <= 15 THEN 5 ELSE 6
  BY Bounds
<1> HIDE DEF older, ofTool, at
<1>10. near = RI!Max(older)
  <2>1. CASE tool = 1
    <3>1. RI!Max(ofTool) = 1 /\ RI!Min(ofTool) = 1 /\ RI!Max(older) = 1
      <4>1. 1 \in ofTool /\ (\A i \in ofTool : i = 1) /\ 1 \in older /\ (\A i \in older : i = 1)
        BY <2>1, <1>2, <1>4, <1>5
      <4> QED BY <4>1, GreatestIs, LeastIs
    <3>2. at = 1
      BY <3>1, <1>2, <1>3, <1>7, <2>1
    <3> QED BY <3>1, <3>2
  <2>2. CASE tool = 2
    <3>1. RI!Max(ofTool) = 4 /\ RI!Min(ofTool) = 2
      <4>1. ofTool = {2, 3, 4}
        BY <2>2, <1>4
      <4>2. 4 \in ofTool /\ 2 \in ofTool /\ \A i \in ofTool : i \in Int /\ i <= 4 /\ 2 <= i
        BY <4>1
      <4> QED BY <4>2, GreatestIs, LeastIs
    <3>2. RI!Products[2][2] = 10 /\ RI!Products[3][2] = 20 /\ RI!Products[4][2] = 30
      BY <1>1
    <3>3. build >= 10 /\ build <= 30
      BY <3>1, <1>2, <1>3, <1>5, <1>6, <1>7, <2>2
    <3>4. CASE build \in {10, 15}
      <4>1. 2 \in older /\ \A i \in older : i = 2
        BY <2>2, <3>4, <1>5
      <4>2. RI!Max(older) = 2
        BY <4>1, GreatestIs
      <4>3. at = IF build = 10 THEN 2 ELSE 3
        BY <2>2, <3>4, <1>7
      <4> QED BY <3>1, <3>2, <3>4, <4>2, <4>3
    <3>5. CASE build \in {20, 25}
      <4>1. 3 \in older /\ \A i \in older : i \in {2, 3}
        BY <2>2, <3>5, <1>5
      <4>2. RI!Max(older) = 3
        BY <4>1, GreatestIs
      <4>3. at = IF build = 20 THEN 3 ELSE 4
        BY <2>2, <3>5, <1>7
      <4> QED BY <3>1, <3>2, <3>5, <4>2, <4>3
    <3>6. CASE build = 30
      <4>1. 4 \in older /\ \A i \in older : i \in {2, 3, 4}
        BY <2>2, <3>6, <1>5
      <4>2. RI!Max(older) = 4
        BY <4>1, GreatestIs
      <4>3. at = 4
        BY <2>2, <3>6, <1>7
      <4> QED BY <3>1, <3>2, <3>6, <4>2, <4>3
    <3> QED BY <3>3, <3>4, <3>5, <3>6, <1>2
  <2>3. CASE tool = 3
    <3>1. ofTool = {}
      BY <2>3, <1>4
    <3> QED BY <3>1, <1>3
  <2>4. CASE tool = 4
    <3>1. RI!Max(ofTool) = 5 /\ RI!Min(ofTool) = 5 /\ RI!Max(older) = 5
      <4>1. 5 \in ofTool /\ \A i \in ofTool : i = 5
        BY <2>4, <1>4
      <4>2. \A i \in older : i = 5
        BY <2>4, <1>5
      <4>3. 5 \in older
        BY <4>2, <1>6
      <4> QED BY <4>1, <4>2, <4>3, GreatestIs, LeastIs
    <3>2. at = 5
      BY <3>1, <1>2, <1>3, <1>7, <2>4
    <3> QED BY <3>1, <3>2
  <2> QED BY <2>1, <2>2, <2>3, <2>4, <1>2
<1> HIDE DEF near
<1> QED BY <1>3, <1>10 DEF older

-----------------------------------------------------------------------------
(* The check of the signatures. *)

Errors == {"security_directory_has_errors", "invalid_signature_format", "duplicate_attribute_oid",
           "invalid_signer_count", "non_matching_digest_algorithm", "absent_message_digest",
           "unsupported_digest_algorithm", "invalid_image_format_for_hashing",
           "invalid_message_digest", "invalid_timestamp_signature", "invalid_tst_info_version",
           "invalid_signing_time"}
Values == {"unset", "valid", "invalid"}
StampSet == [errors : SUBSET Errors, hash : Values, digest : Values, signature : Values, time : BOOLEAN]
StatusSet == [errors : SUBSET Errors, image : Values, pages : Values, errc : BOOLEAN, digest : Values,
              signature : Values, stamped : BOOLEAN, stamp : StampSet]
SignatureSet == [valid : BOOLEAN, good : BOOLEAN]

\* What is looked at is looked at in order.
Order(f) ==
    /\ f["attributes"] # "unread" => f["format"] = "good"
    /\ f["certificates"] # "unread" => f["attributes"] = "good"
    /\ f["algorithms"] # "unread" => f["certificates"] # "unread"
    /\ f["pages"] # "unread" => f["algorithms"] = "good"
    /\ f["image"] # "unread" => f["pages"] # "unread"
    /\ f["digest"] # "unread" => f["image"] \in {"good", "wrong"}
    /\ f["signature"] # "unread" => f["digest"] \in {"good", "wrong"}
    /\ f["signature"] = "good" => f["certificates"] = "good"
    /\ f["stamp"] # "unread" => f["signature"] # "unread"
    /\ f["pages"] \in {"unread", "none", "good", "wrong", "undecodable", "invalid", "too_big"}
    /\ f["stamp"] \in {"unread", "none", "undecodable", "token", "counter_signature"}
StampOrder(f) ==
    /\ f["stamp_format"] # "unread" => f["stamp"] = "token"
    /\ f["stamp_algorithms"] # "unread" =>
        (f["stamp"] = "counter_signature" \/ (f["stamp"] = "token" /\ f["stamp_format"] = "good"))
    /\ f["stamp_time"] # "unread" => f["stamp"] = "counter_signature" /\ f["stamp_algorithms"] = "good"
    /\ f["stamp_hash"] # "unread" =>
        f["stamp_algorithms"] = "good" /\ (f["stamp"] = "counter_signature" => f["stamp_time"] # "unread")
    /\ f["stamp_digest"] # "unread" => f["stamp"] = "token" /\ f["stamp_hash"] \in {"good", "wrong"}
    /\ f["stamp_signature"] # "unread" =>
        f["stamp_hash"] \in {"good", "wrong"} /\ (f["stamp"] = "token" => f["stamp_digest"] \in {"good", "wrong"})

\* What the status says of the signature, of the pages of the image and of the timestamp
\* is what was found.
Outcome(value, fact) ==
    /\ value = "valid" <=> fact = "good"
    /\ value = "invalid" <=> fact = "wrong"
Told(f, s) ==
    /\ s.errors = {} <=>
        /\ f["format"] \in {"unread", "good"} /\ f["attributes"] \in {"unread", "good"}
        /\ f["algorithms"] \in {"unread", "good"}
        /\ f["image"] # "unhashable" /\ f["digest"] # "throws" /\ f["stamp"] # "undecodable"
    /\ Outcome(s.image, f["image"]) /\ Outcome(s.digest, f["digest"])
    /\ s.signature = "valid" <=> f["signature"] = "good"
    /\ s.errc <=> \/ f["pages"] \in {"undecodable", "invalid"}
                  \/ (f["pages"] = "too_big" /\ f["image"] \in {"good", "wrong"})
    /\ s.pages = "invalid" <=> f["pages"] \in {"wrong", "too_big"} /\ f["image"] \in {"good", "wrong"}
    /\ s.stamped <=> f["stamp"] \in {"token", "counter_signature"}
StampTold(f, s) ==
    /\ s.errors = {} <=>
        /\ f["stamp_format"] \in {"unread", "good"} /\ f["stamp_algorithms"] \in {"unread", "good"}
        /\ f["stamp_time"] # "invalid" /\ f["stamp_hash"] # "throws" /\ f["stamp_digest"] # "throws"
    /\ Outcome(s.hash, f["stamp_hash"]) /\ Outcome(s.digest, f["stamp_digest"])
    /\ s.signature = "valid" <=> f["stamp_signature"] = "good"
    /\ s.time <=> \/ (f["stamp"] = "token" /\ f["stamp_algorithms"] # "unread")
                  \/ f["stamp_time"] = "good"

\* What has been found when the next thing is looked at, and that it has not been.
Reached(label, f) ==
    /\ label = "format" => f["format"] = "unread"
    /\ label = "attributes" => f["format"] = "good" /\ f["attributes"] = "unread"
    /\ label = "certificates" => f["attributes"] = "good" /\ f["certificates"] = "unread"
    /\ label = "algorithms" => f["certificates"] # "unread" /\ f["algorithms"] = "unread"
    /\ label = "pages" => f["algorithms"] = "good" /\ f["pages"] = "unread"
    /\ label = "image" => f["pages"] # "unread" /\ f["image"] = "unread"
    /\ label = "digest" => f["image"] \in {"good", "wrong"} /\ f["digest"] = "unread"
    /\ label = "signature" => f["digest"] \in {"good", "wrong"} /\ f["signature"] = "unread"
    /\ label = "stamp" => f["signature"] # "unread" /\ f["stamp"] = "unread"
    /\ label = "stamp_format" => f["stamp"] = "token" /\ f["stamp_format"] = "unread"
    /\ label = "stamp_algorithms" =>
        /\ f["stamp"] = "counter_signature" \/ (f["stamp"] = "token" /\ f["stamp_format"] = "good")
        /\ f["stamp_algorithms"] = "unread"
    /\ label = "stamp_time" =>
        f["stamp"] = "counter_signature" /\ f["stamp_algorithms"] = "good" /\ f["stamp_time"] = "unread"
    /\ label = "stamp_hash" =>
        /\ f["stamp_algorithms"] = "good" /\ f["stamp_hash"] = "unread"
        /\ f["stamp"] = "counter_signature" => f["stamp_time"] # "unread"
    /\ label = "stamp_digest" =>
        f["stamp"] = "token" /\ f["stamp_hash"] \in {"good", "wrong"} /\ f["stamp_digest"] = "unread"
    /\ label = "stamp_signature" =>
        /\ f["stamp_hash"] \in {"good", "wrong"} /\ f["stamp_signature"] = "unread"
        /\ f["stamp"] = "token" => f["stamp_digest"] \in {"good", "wrong"}
    /\ label = "end" => (given.stamps /\ f["signature"] # "unread" => f["stamp"] # "unread")

Looks == {"format", "attributes", "certificates", "algorithms", "pages", "image", "digest",
          "signature", "stamp", "stamp_format", "stamp_algorithms", "stamp_time", "stamp_hash",
          "stamp_digest", "stamp_signature", "end"}
Fine(label, f, s) ==
    /\ f = [l \in SE!Looked |-> f[l]] /\ s \in StatusSet
    /\ Order(f) /\ StampOrder(f) /\ Told(f, s) /\ StampTold(f, s.stamp) /\ Reached(label, f)
    /\ f["stamp"] # "unread" => given.stamps
    /\ label = "stamp" => given.stamps

SignaturesInv ==
    /\ walk = [left |-> walk.left, facts |-> walk.facts, status |-> walk.status]
    /\ result \in [answer : BOOLEAN, signatures : Seq(SignatureSet)]
    /\ pc \in Looks \cup {"directory", "unauthenticated", "throws", "done"}
    /\ pc \in {"directory", "unauthenticated"} =>
        walk.facts = SE!NoFacts /\ walk.status = SE!Status /\ result.signatures = <<>>
    /\ pc = "directory" => ~result.answer
    /\ pc = "directory" => given.directory \in {"none", "bad", "empty", "undecodable", "signed"}
    /\ pc \in Looks \cup {"unauthenticated"} => given.directory = "signed" /\ result.answer
    /\ pc \in Looks => walk.left \in Nat \ {0} /\ Fine(pc, walk.facts, walk.status)
    /\ SE!VerdictJust

LEMMA FactSet ==
  ASSUME NEW f, f = [l \in SE!Looked |-> f[l]], NEW look \in SE!Looked, NEW v, NEW g, g = [f EXCEPT ![look] = v]
  PROVE  g = [l \in SE!Looked |-> g[l]] /\ g[look] = v /\ \A l \in SE!Looked : l # look => g[l] = f[l]
  OBVIOUS

\* A verdict is what it should be when all has been looked at.
LEMMA Judged ==
  ASSUME NEW f, NEW s, Fine("end", f, s)
  PROVE  SE!RootVerdict(s) <=> SE!Good(f)
<1> USE DEF Fine
<1>1. s.stamp \in StampSet /\ s.image \in Values /\ s.digest \in Values /\ s.signature \in Values /\ s.pages \in Values
      /\ s.stamp.hash \in Values /\ s.stamp.digest \in Values /\ s.stamp.signature \in Values
  BY DEF StatusSet, StampSet
<1>2. ASSUME SE!RootVerdict(s) PROVE SE!Good(f)
  <2>1. s.errors = {} /\ s.image = "valid" /\ s.digest = "valid" /\ s.signature = "valid"
        /\ ~s.errc /\ s.pages # "invalid" /\ (s.stamped => SE!StampVerdict(s.stamp))
    BY <1>2 DEF SE!RootVerdict
  <2>2. f["image"] = "good" /\ f["digest"] = "good" /\ f["signature"] = "good" /\ f["stamp"] # "undecodable"
    BY <2>1 DEF Told, Outcome
  <2>3. f["certificates"] = "good" /\ f["pages"] # "unread" /\ f["algorithms"] = "good"
        /\ f["attributes"] = "good" /\ f["format"] = "good"
    BY <2>2 DEF Order
  <2>4. f["pages"] \in {"none", "good"}
    <3>1. f["pages"] \notin {"undecodable", "invalid"}
      BY <2>1 DEF Told
    <3>2. f["pages"] \notin {"wrong", "too_big"}
      BY <2>1, <2>2 DEF Told
    <3> QED BY <2>3, <3>1, <3>2 DEF Order
  <2>5. ASSUME given.stamps, f["stamp"] # "none" PROVE SE!StampGood(f)
    <3>1. f["stamp"] \in {"token", "counter_signature"}
      BY <2>2, <2>5 DEF Order, Reached
    <3>2. SE!StampVerdict(s.stamp)
      BY <2>1, <3>1 DEF Told
    <3>3. s.stamp.errors = {} /\ s.stamp.hash = "valid" /\ s.stamp.digest \in {"unset", "valid"}
          /\ s.stamp.signature = "valid" /\ s.stamp.time
      BY <3>2 DEF SE!StampVerdict, SE!Unset
    <3>4. f["stamp_hash"] = "good" /\ f["stamp_signature"] = "good"
          /\ (f["stamp_digest"] = "good" \/ f["stamp_digest"] \notin {"good", "wrong"})
      BY <3>3 DEF StampTold, Outcome
    <3>5. f["stamp_algorithms"] = "good"
      BY <3>4 DEF StampOrder
    <3>6. CASE f["stamp"] = "token"
      <4>1. f["stamp_format"] = "good" /\ f["stamp_digest"] = "good"
        BY <3>4, <3>5, <3>6 DEF StampOrder
      <4> QED BY <3>4, <3>5, <3>6, <4>1 DEF SE!StampGood
    <3>7. CASE f["stamp"] = "counter_signature"
      <4>1. f["stamp_time"] = "good"
        BY <3>3, <3>7 DEF StampTold
      <4> QED BY <3>4, <3>5, <3>7, <4>1 DEF SE!StampGood
    <3> QED BY <3>1, <3>6, <3>7
  <2>6. given.stamps => SE!StampGood(f)
    BY <2>5 DEF SE!StampGood
  <2> QED BY <2>2, <2>3, <2>4, <2>6 DEF SE!Good
<1>3. ASSUME SE!Good(f) PROVE SE!RootVerdict(s)
  <2>1. /\ f["format"] = "good" /\ f["attributes"] = "good" /\ f["algorithms"] = "good"
        /\ f["image"] = "good" /\ f["digest"] = "good" /\ f["signature"] = "good"
        /\ f["pages"] \in {"none", "good"} /\ (given.stamps => SE!StampGood(f))
    BY <1>3 DEF SE!Good
  <2>2. f["stamp"] # "undecodable"
    BY <2>1 DEF SE!StampGood
  <2>3. s.errors = {} /\ s.image = "valid" /\ s.digest = "valid" /\ s.signature = "valid"
        /\ ~s.errc /\ s.pages # "invalid"
    BY <2>1, <2>2 DEF Told, Outcome
  <2>4. ASSUME s.stamped PROVE SE!StampVerdict(s.stamp)
    <3>1. f["stamp"] \in {"token", "counter_signature"} /\ SE!StampGood(f)
      BY <2>1, <2>4 DEF Told
    <3>2. CASE f["stamp"] = "token"
      <4>1. f["stamp_format"] = "good" /\ f["stamp_algorithms"] = "good" /\ f["stamp_hash"] = "good"
            /\ f["stamp_digest"] = "good" /\ f["stamp_signature"] = "good"
        BY <3>1, <3>2 DEF SE!StampGood
      <4>2. f["stamp_time"] = "unread"
        BY <3>2 DEF StampOrder
      <4>3. s.stamp.errors = {} /\ s.stamp.hash = "valid" /\ s.stamp.digest = "valid"
            /\ s.stamp.signature = "valid" /\ s.stamp.time
        BY <3>2, <4>1, <4>2 DEF StampTold, Outcome
      <4> QED BY <4>3 DEF SE!StampVerdict
    <3>3. CASE f["stamp"] = "counter_signature"
      <4>1. f["stamp_algorithms"] = "good" /\ f["stamp_hash"] = "good"
            /\ f["stamp_time"] = "good" /\ f["stamp_signature"] = "good"
        BY <3>1, <3>3 DEF SE!StampGood
      <4>2. f["stamp_format"] = "unread" /\ f["stamp_digest"] = "unread"
        BY <3>3 DEF StampOrder
      <4>3. s.stamp.errors = {} /\ s.stamp.hash = "valid" /\ s.stamp.digest \in {"unset", "valid"}
            /\ s.stamp.signature = "valid" /\ s.stamp.time
        <5>1. s.stamp.digest \in {"unset", "valid"}
          BY <1>1, <4>2 DEF StampTold, Outcome, Values
        <5> QED BY <3>3, <4>1, <4>2, <5>1 DEF StampTold, Outcome
      <4> QED BY <4>3 DEF SE!StampVerdict, SE!Unset
    <3> QED BY <3>1, <3>2, <3>3
  <2> QED BY <2>3, <2>4 DEF SE!RootVerdict
<1> QED BY <1>2, <1>3 DEF SE!RootVerdict, SE!Good

StampFacts == {"stamp", "stamp_format", "stamp_algorithms", "stamp_time", "stamp_hash",
               "stamp_digest", "stamp_signature"}

\* One more fact, and the status it leads to.
LEMMA Looking ==
  ASSUME SignaturesInv, pc \in Looks, NEW look \in SE!Looked, NEW v, NEW t \in StatusSet, NEW label \in Looks,
         SE!Set(look, v, t), SE!Go(label), NEW g, g = [walk.facts EXCEPT ![look] = v],
         Order(g), StampOrder(g), Told(g, t), StampTold(g, t.stamp), Reached(label, g),
         g["stamp"] # "unread" => given.stamps, label = "stamp" => given.stamps
  PROVE  SignaturesInv'
<1>1. /\ walk = [left |-> walk.left, facts |-> walk.facts, status |-> walk.status]
      /\ result \in [answer : BOOLEAN, signatures : Seq(SignatureSet)]
      /\ given.directory = "signed" /\ result.answer /\ walk.left \in Nat \ {0}
      /\ Fine(pc, walk.facts, walk.status) /\ SE!VerdictJust
  BY DEF SignaturesInv
<1>2. g = [l \in SE!Looked |-> g[l]]
  BY <1>1, FactSet DEF Fine
<1>3. walk' = [walk EXCEPT !.facts[look] = v, !.status = t] /\ pc' = label /\ UNCHANGED <<given, result, errors>>
  BY DEF SE!Set, SE!Go, SE!Keep
<1>4. walk' = [left |-> walk.left, facts |-> g, status |-> t]
  BY <1>1, <1>3, Zenon
<1>5. walk'.left = walk.left /\ walk'.facts = g /\ walk'.status = t
      /\ walk' = [left |-> walk'.left, facts |-> walk'.facts, status |-> walk'.status]
  BY <1>4
<1>6. Fine(label, g, t)
  BY <1>2 DEF Fine
<1>7. Fine(pc, walk.facts, walk.status)'
  <2>1. Reached(label, g)'
    BY <1>3 DEF Reached
  <2>2. Order(g)' /\ StampOrder(g)' /\ Told(g, t)' /\ StampTold(g, t.stamp)'
    BY Zenon
  <2> QED BY <1>2, <1>3, <1>5, <2>1, <2>2 DEF Fine
<1>8. pc \notin {"directory", "unauthenticated", "throws", "done"} /\ label \notin {"directory", "unauthenticated", "throws", "done"}
  BY DEF Looks
<1>9. SE!VerdictJust'
  BY <1>1, <1>3, <1>8 DEF SE!VerdictJust, SE!Verdict
<1> QED BY <1>1, <1>3, <1>5, <1>7, <1>8, <1>9 DEF SignaturesInv

\* Facts of the timestamp are as they were.
LEMMA StampKept ==
  ASSUME NEW f, NEW g, NEW s, \A l \in StampFacts : g[l] = f[l], StampOrder(f), StampTold(f, s)
  PROVE  StampOrder(g) /\ StampTold(g, s)
<1>1. /\ g["stamp"] = f["stamp"] /\ g["stamp_format"] = f["stamp_format"]
      /\ g["stamp_algorithms"] = f["stamp_algorithms"] /\ g["stamp_time"] = f["stamp_time"]
      /\ g["stamp_hash"] = f["stamp_hash"] /\ g["stamp_digest"] = f["stamp_digest"]
      /\ g["stamp_signature"] = f["stamp_signature"]
  BY DEF StampFacts
<1> QED BY <1>1 DEF StampOrder, StampTold

\* Another fact of the signature: those of its timestamp are as they were.
LEMMA MainFact ==
  ASSUME NEW label, NEW f, NEW s, Fine(label, f, s), NEW look \in SE!Looked \ StampFacts, NEW v
  PROVE  LET g == [f EXCEPT ![look] = v] IN
         /\ g[look] = v /\ (\A l \in SE!Looked : l # look => g[l] = f[l])
         /\ StampOrder(g) /\ StampTold(g, s.stamp) /\ g["stamp"] = f["stamp"]
<1> DEFINE g == [f EXCEPT ![look] = v]
<1>1. f = [l \in SE!Looked |-> f[l]] /\ StampOrder(f) /\ StampTold(f, s.stamp)
  BY DEF Fine
<1>2. g[look] = v /\ \A l \in SE!Looked : l # look => g[l] = f[l]
  BY <1>1, FactSet
<1>3. StampFacts \subseteq SE!Looked
  BY DEF StampFacts, SE!Looked
<1>4. \A l \in StampFacts : g[l] = f[l]
  BY <1>2, <1>3
<1>5. StampOrder(g) /\ StampTold(g, s.stamp)
  BY <1>1, <1>4, StampKept, Zenon
<1>6. g["stamp"] = f["stamp"]
  BY <1>4 DEF StampFacts
<1> QED BY <1>2, <1>5, <1>6

\* What a status comes to with an error, or with fields that are set.
LEMMA StatusError ==
  ASSUME NEW s \in StatusSet, NEW e \in Errors, NEW t, t = [s EXCEPT !.errors = s.errors \cup {e}]
  PROVE  /\ t \in StatusSet /\ t.errors # {} /\ t.image = s.image /\ t.pages = s.pages /\ (t.errc <=> s.errc)
         /\ t.digest = s.digest /\ t.signature = s.signature /\ (t.stamped <=> s.stamped) /\ t.stamp = s.stamp
<1>1. s.errors \cup {e} \in SUBSET Errors
  BY DEF StatusSet
<1>2. t \in StatusSet
  BY <1>1, Zenon DEF StatusSet
<1>3. t.errors = s.errors \cup {e}
  BY DEF StatusSet
<1>4. /\ t.image = s.image /\ t.pages = s.pages /\ t.digest = s.digest /\ t.signature = s.signature /\ t.stamp = s.stamp
  BY DEF StatusSet
<1>5. (t.errc <=> s.errc) /\ (t.stamped <=> s.stamped)
  BY Zenon DEF StatusSet
<1> QED BY <1>2, <1>3, <1>4, <1>5

\* Looks that end the check where what they look at is not good.
LEMMA LookForError ==
  ASSUME SignaturesInv, NEW look \in {"format", "attributes", "algorithms"}, NEW v, NEW e \in Errors, NEW t, NEW label,
         pc = look, SE!Set(look, v, t), SE!Go(label),
         \/ /\ v = "good" /\ t = walk.status
            /\ look = "format" => label = "attributes"
            /\ look = "attributes" => label = "certificates"
            /\ look = "algorithms" => label = "pages"
         \/ v \notin {"good", "unread"} /\ t = [walk.status EXCEPT !.errors = walk.status.errors \cup {e}] /\ label = "end"
  PROVE  SignaturesInv'
<1> DEFINE f == walk.facts
           s == walk.status
<1>0. \/ /\ v = "good" /\ t = s
         /\ look = "format" => label = "attributes"
         /\ look = "attributes" => label = "certificates"
         /\ look = "algorithms" => label = "pages"
      \/ v \notin {"good", "unread"} /\ t = [s EXCEPT !.errors = s.errors \cup {e}] /\ label = "end"
  BY Zenon
<1>1. v = "good" \/ v \notin {"good", "unread"}
  BY <1>0
<1>2. pc \in Looks /\ Fine(look, f, s) /\ s \in StatusSet
  BY DEF SignaturesInv, Looks, Fine
<1>3. /\ t \in StatusSet /\ (t.errors = {} <=> s.errors = {} /\ v = "good")
      /\ t.image = s.image /\ t.pages = s.pages /\ (t.errc <=> s.errc) /\ t.digest = s.digest
      /\ t.signature = s.signature /\ (t.stamped <=> s.stamped) /\ t.stamp = s.stamp
  <2>1. CASE v = "good" /\ t = s
    BY <1>2, <2>1
  <2>2. CASE v # "good" /\ t = [s EXCEPT !.errors = s.errors \cup {e}]
    BY <1>2, <2>2, StatusError
  <2> QED BY <1>0, <2>1, <2>2
<1> DEFINE g == [f EXCEPT ![look] = v]
<1>4. /\ g[look] = v /\ (\A l \in SE!Looked : l # look => g[l] = f[l])
      /\ StampOrder(g) /\ StampTold(g, t.stamp) /\ g["stamp"] = f["stamp"] /\ look \in SE!Looked
  <2>1. look \in SE!Looked \ StampFacts
    BY DEF SE!Looked, StampFacts
  <2> QED BY <1>2, <1>3, <2>1, MainFact
<1> HIDE DEF f, s, g
<1>5. Order(f) /\ Told(f, s) /\ Reached(look, f) /\ (f["stamp"] # "unread" => given.stamps)
  BY <1>2 DEF Fine
<1>7. Order(g) /\ Told(g, t)
  <2>1. CASE look = "format"
    <3>1. f["format"] = "unread" /\ g["format"] = v
      BY <1>4, <1>5, <2>1 DEF Reached
    <3>2. \A l \in {"attributes", "certificates", "algorithms", "pages", "image", "digest", "signature", "stamp"} : g[l] = f[l]
      BY <1>4, <2>1 DEF SE!Looked
    <3> QED BY <1>3, <1>5, <1>1, <3>1, <3>2 DEF Order, Told
  <2>2. CASE look = "attributes"
    <3>1. f["attributes"] = "unread" /\ f["format"] = "good" /\ g["attributes"] = v
      BY <1>4, <1>5, <2>2 DEF Reached
    <3>2. \A l \in {"format", "certificates", "algorithms", "pages", "image", "digest", "signature", "stamp"} : g[l] = f[l]
      BY <1>4, <2>2 DEF SE!Looked
    <3> QED BY <1>3, <1>5, <1>1, <3>1, <3>2 DEF Order, Told
  <2>3. CASE look = "algorithms"
    <3>1. f["algorithms"] = "unread" /\ f["certificates"] # "unread" /\ g["algorithms"] = v
      BY <1>4, <1>5, <2>3 DEF Reached
    <3>2. \A l \in {"format", "attributes", "certificates", "pages", "image", "digest", "signature", "stamp"} : g[l] = f[l]
      BY <1>4, <2>3 DEF SE!Looked
    <3> QED BY <1>3, <1>5, <1>1, <3>1, <3>2 DEF Order, Told
  <2> QED BY <2>1, <2>2, <2>3
<1>8. Reached(label, g)
  <2>1. CASE /\ v = "good"
             /\ look = "format" => label = "attributes"
             /\ look = "attributes" => label = "certificates"
             /\ look = "algorithms" => label = "pages"
    <3>0. g[look] = "good"
      BY <1>4, <2>1
    <3>1. g["attributes"] = f["attributes"] \/ look = "attributes"
      BY <1>4 DEF SE!Looked
    <3>2. g["certificates"] = f["certificates"] /\ g["pages"] = f["pages"]
      BY <1>4 DEF SE!Looked
    <3>3. /\ look = "format" => f["attributes"] = "unread"
          /\ look = "attributes" => f["certificates"] = "unread"
          /\ look = "algorithms" => f["pages"] = "unread"
      BY <1>5 DEF Order, Reached
    <3>4. CASE look = "format"
      <4>1. g["format"] = "good"
        BY <3>0, <3>4
      <4>2. g["attributes"] = "unread"
        BY <3>1, <3>3, <3>4
      <4>3. label = "attributes"
        BY <2>1, <3>4
      <4> QED BY <4>1, <4>2, <4>3 DEF Reached
    <3>5. CASE look = "attributes"
      <4>1. g["attributes"] = "good"
        BY <3>0, <3>5
      <4>2. g["certificates"] = "unread"
        BY <3>2, <3>3, <3>5
      <4>3. label = "certificates"
        BY <2>1, <3>5
      <4> QED BY <4>1, <4>2, <4>3 DEF Reached
    <3>6. CASE look = "algorithms"
      <4>1. g["algorithms"] = "good"
        BY <3>0, <3>6
      <4>2. g["pages"] = "unread"
        BY <3>2, <3>3, <3>6
      <4>3. label = "pages"
        BY <2>1, <3>6
      <4> QED BY <4>1, <4>2, <4>3 DEF Reached
    <3> QED BY <3>4, <3>5, <3>6
  <2>2. CASE label = "end"
    <3>1. f["stamp"] = g["stamp"] /\ f["signature"] = g["signature"] /\ f["signature"] = "unread"
      BY <1>4, <1>5 DEF SE!Looked, Reached, Order
    <3> QED BY <2>2, <3>1 DEF Reached
  <2> QED BY <1>0, <2>1, <2>2
<1>9. label \in Looks /\ label # "stamp"
  BY <1>0 DEF Looks
<1> QED BY <1>2, <1>3, <1>4, <1>5, <1>7, <1>8, <1>9, Looking DEF f, g

LEMMA LookForErrors ==
  ASSUME SignaturesInv, SE!LookAtFormat \/ SE!LookAtAttributes \/ SE!LookAtAlgorithms PROVE SignaturesInv'
<1>e. "duplicate_attribute_oid" \in Errors
  BY DEF Errors
<1>1. CASE SE!LookAtFormat
  <2>1. pc = "format" /\ "format" \in {"format", "attributes", "algorithms"}
    BY <1>1 DEF SE!LookAtFormat
  <2>2. CASE SE!Set("format", "good", walk.status) /\ SE!Go("attributes")
    BY <2>1, <2>2, <1>e, LookForError
  <2>3. ASSUME NEW e \in {"invalid_signer_count", "non_matching_digest_algorithm"},
               SE!Set("format", e, [walk.status EXCEPT !.errors = walk.status.errors \cup {e}]), SE!Go("end")
        PROVE  SignaturesInv'
    <3>1. e \in Errors /\ e \notin {"good", "unread"}
      BY DEF Errors
    <3> QED BY <2>1, <2>3, <3>1, LookForError
  <2> QED BY <1>1, <2>2, <2>3, Zenon DEF SE!LookAtFormat, SE!Here, SE!WithError
<1>2. CASE SE!LookAtAttributes
  <2>1. pc = "attributes" /\ "attributes" \in {"format", "attributes", "algorithms"}
    BY <1>2 DEF SE!LookAtAttributes
  <2>2. CASE SE!Set("attributes", "good", walk.status) /\ SE!Go("certificates")
    BY <2>1, <2>2, <1>e, LookForError
  <2>3. ASSUME NEW e \in {"duplicate_attribute_oid", "absent_message_digest"},
               SE!Set("attributes", e, [walk.status EXCEPT !.errors = walk.status.errors \cup {e}]), SE!Go("end")
        PROVE  SignaturesInv'
    <3>1. e \in Errors /\ e \notin {"good", "unread"}
      BY DEF Errors
    <3> QED BY <2>1, <2>3, <3>1, LookForError
  <2> QED BY <1>2, <2>2, <2>3, Zenon DEF SE!LookAtAttributes, SE!Here, SE!WithError
<1>3. CASE SE!LookAtAlgorithms
  <2>1. pc = "algorithms" /\ "algorithms" \in {"format", "attributes", "algorithms"}
    BY <1>3 DEF SE!LookAtAlgorithms
  <2>2. CASE SE!Set("algorithms", "good", walk.status) /\ SE!Go("pages")
    BY <2>1, <2>2, <1>e, LookForError
  <2>3. ASSUME NEW e \in {"unsupported_digest_algorithm"},
               SE!Set("algorithms", "unknown", [walk.status EXCEPT !.errors = walk.status.errors \cup {e}]), SE!Go("end")
        PROVE  SignaturesInv'
    <3>1. e \in Errors /\ "unknown" \notin {"good", "unread"}
      BY DEF Errors
    <3> QED BY <2>1, <2>3, <3>1, LookForError
  <2> QED BY <1>3, <2>2, <2>3, Zenon DEF SE!LookAtAlgorithms, SE!Here, SE!WithError
<1> QED BY <1>1, <1>2, <1>3

\* The store of certificates, and the hashes of the pages.
LEMMA BuildStore == ASSUME SignaturesInv, SE!BuildStore PROVE SignaturesInv'
<1> DEFINE f == walk.facts
           s == walk.status
<1>1. PICK v \in {"good", "absent"} : pc = "certificates" /\ SE!Set("certificates", v, s) /\ SE!Go("algorithms")
  BY DEF SE!BuildStore, SE!Here
<1>2. pc \in Looks /\ Fine("certificates", f, s) /\ s \in StatusSet
  BY <1>1 DEF SignaturesInv, Looks, Fine
<1> DEFINE g == [f EXCEPT !["certificates"] = v]
<1>4. /\ g["certificates"] = v /\ (\A l \in SE!Looked : l # "certificates" => g[l] = f[l])
      /\ StampOrder(g) /\ StampTold(g, s.stamp) /\ g["stamp"] = f["stamp"] /\ "certificates" \in SE!Looked
  <2>1. "certificates" \in SE!Looked \ StampFacts
    BY DEF SE!Looked, StampFacts
  <2> QED BY <1>2, <2>1, MainFact
<1> HIDE DEF f, s, g
<1>5. /\ Order(f) /\ Told(f, s) /\ f["certificates"] = "unread" /\ f["attributes"] = "good"
      /\ (f["stamp"] # "unread" => given.stamps)
  BY <1>2 DEF Fine, Reached
<1>6. \A l \in {"format", "attributes", "algorithms", "pages", "image", "digest", "signature", "stamp"} : g[l] = f[l]
  BY <1>4 DEF SE!Looked
<1>7. Order(g) /\ Told(g, s)
  BY <1>4, <1>5, <1>6 DEF Order, Told
<1>8. Reached("algorithms", g)
  BY <1>4, <1>5, <1>6 DEF Reached, Order
<1>9. "algorithms" \in Looks
  BY DEF Looks
<1> QED BY <1>1, <1>2, <1>4, <1>5, <1>7, <1>8, <1>9, Looking DEF f, g

LEMMA LookAtPages == ASSUME SignaturesInv, SE!LookAtPages PROVE SignaturesInv'
<1> DEFINE f == walk.facts
           s == walk.status
<1>0. /\ pc = "pages" /\ SE!Go("image")
      /\ \E v \in {"none", "good", "wrong", "undecodable", "invalid", "too_big"} :
            SE!Set("pages", v, [s EXCEPT !.errc = (v \in {"undecodable", "invalid"})])
  BY Zenon DEF SE!LookAtPages, SE!Here
<1>v. PICK v \in {"none", "good", "wrong", "undecodable", "invalid", "too_big"} :
        SE!Set("pages", v, [s EXCEPT !.errc = (v \in {"undecodable", "invalid"})])
  BY <1>0, Zenon
<1> DEFINE t == [s EXCEPT !.errc = (v \in {"undecodable", "invalid"})]
<1>1. /\ pc = "pages" /\ SE!Set("pages", v, t) /\ SE!Go("image")
      /\ t = [s EXCEPT !.errc = (v \in {"undecodable", "invalid"})]
  BY <1>0, <1>v, Zenon
<1> HIDE DEF t
<1>2. pc \in Looks /\ Fine("pages", f, s) /\ s \in StatusSet
  BY <1>1 DEF SignaturesInv, Looks, Fine
<1> DEFINE g == [f EXCEPT !["pages"] = v]
           wrong == v \in {"undecodable", "invalid"}
<1>3. /\ t \in StatusSet /\ t.errors = s.errors
      /\ t.image = s.image /\ t.pages = s.pages /\ (t.errc <=> wrong) /\ t.digest = s.digest
      /\ t.signature = s.signature /\ (t.stamped <=> s.stamped) /\ t.stamp = s.stamp
  <2>0. wrong \in BOOLEAN
    OBVIOUS
  <2>1. t = [s EXCEPT !.errc = wrong] /\ wrong \in BOOLEAN
    BY <1>1, <2>0, Zenon
  <2> HIDE DEF wrong, s
  <2>2. t \in StatusSet
    BY <1>2, <2>1, Zenon DEF StatusSet
  <2>3. (t.errc <=> wrong) /\ (t.stamped <=> s.stamped)
    BY <1>2, <2>1, Zenon DEF StatusSet
  <2>4. t.errors = s.errors /\ t.image = s.image /\ t.pages = s.pages /\ t.digest = s.digest
        /\ t.signature = s.signature /\ t.stamp = s.stamp
    BY <1>2, <2>1, Zenon DEF StatusSet
  <2> QED BY <2>2, <2>3, <2>4
<1>4. /\ g["pages"] = v /\ (\A l \in SE!Looked : l # "pages" => g[l] = f[l])
      /\ StampOrder(g) /\ StampTold(g, t.stamp) /\ g["stamp"] = f["stamp"] /\ "pages" \in SE!Looked
  <2>1. "pages" \in SE!Looked \ StampFacts
    BY DEF SE!Looked, StampFacts
  <2> QED BY <1>2, <1>3, <2>1, MainFact
<1> HIDE DEF f, s, g
<1>5. /\ Order(f) /\ Told(f, s) /\ f["pages"] = "unread" /\ f["algorithms"] = "good"
      /\ (f["stamp"] # "unread" => given.stamps)
  BY <1>2 DEF Fine, Reached
<1>6. \A l \in {"format", "attributes", "certificates", "algorithms", "image", "digest", "signature", "stamp"} : g[l] = f[l]
  BY <1>4 DEF SE!Looked
<1>7. Order(g)
  BY <1>1, <1>4, <1>5, <1>6 DEF Order
<1>8. Told(g, t)
  <2>1. f["image"] = "unread"
    BY <1>5 DEF Order
  <2> QED BY <1>1, <1>3, <1>4, <1>5, <1>6, <2>1 DEF Told
<1>9. Reached("image", g)
  BY <1>1, <1>4, <1>5, <1>6 DEF Reached, Order
<1>10. "image" \in Looks
  BY DEF Looks
<1>11. (g["stamp"] # "unread" => given.stamps) /\ "image" # "stamp"
  BY <1>4, <1>5
<1> QED BY <1>1, <1>2, <1>3, <1>4, <1>7, <1>8, <1>9, <1>10, <1>11, Looking, Zenon DEF f, g

LEMMA HashImage == ASSUME SignaturesInv, SE!HashImage PROVE SignaturesInv'
<1> DEFINE f == walk.facts
           s == walk.status
           big == f["pages"] = "too_big"
           pages == IF ~SE!PagesUsed THEN "unset" ELSE IF f["pages"] = "good" THEN "valid" ELSE "invalid"
<1>0. pc = "image" /\ pc \in Looks /\ Fine("image", f, s) /\ s \in StatusSet
  BY DEF SE!HashImage, SignaturesInv, Looks, Fine
<1>1. PICK v, t, label :
        /\ SE!Set("image", v, t) /\ SE!Go(label)
        /\ \/ /\ v \in {"good", "wrong"} /\ label = "digest"
              /\ t = [s EXCEPT !.image = IF v = "good" THEN "valid" ELSE "invalid",
                               !.errc = s.errc \/ big, !.pages = pages]
           \/ /\ v = "unhashable" /\ label = "end"
              /\ t = [s EXCEPT !.errors = s.errors \cup {"invalid_image_format_for_hashing"}]
  BY Zenon DEF SE!HashImage, SE!Here, SE!WithError, SE!Unset
<1> DEFINE g == [f EXCEPT !["image"] = v]
<1>5. /\ Order(f) /\ Told(f, s) /\ f["image"] = "unread" /\ f["pages"] # "unread" /\ f["digest"] = "unread"
      /\ f["signature"] = "unread" /\ f["stamp"] = "unread" /\ (f["stamp"] # "unread" => given.stamps)
  BY <1>0 DEF Fine, Reached, Order
<1>2. CASE /\ v \in {"good", "wrong"} /\ label = "digest"
           /\ t = [s EXCEPT !.image = IF v = "good" THEN "valid" ELSE "invalid",
                            !.errc = s.errc \/ big, !.pages = pages]
  <2> DEFINE image == IF v = "good" THEN "valid" ELSE "invalid"
             wrong == s.errc \/ big
  <2>1. t = [s EXCEPT !.image = image, !.errc = wrong, !.pages = pages]
    BY <1>2, Zenon
  <2>2. pages \in Values /\ image \in Values
    BY DEF Values
  <2>p. pages = "invalid" <=> f["pages"] \in {"wrong", "too_big"}
    BY DEF SE!PagesUsed
  <2>i. (image = "valid" <=> v = "good") /\ (image = "invalid" <=> v = "wrong")
    BY <1>2
  <2>3. wrong \in BOOLEAN
    <3>1. s.errc \in BOOLEAN
      BY <1>0 DEF StatusSet
    <3> QED BY <3>1, Zenon
  <2>e. wrong <=> (f["pages"] \in {"undecodable", "invalid"} \/ f["pages"] = "too_big")
    BY <1>5 DEF Told
  <2> HIDE DEF image, wrong, pages, s
  <2>4. t \in StatusSet
    BY <1>0, <2>1, <2>2, <2>3, Zenon DEF StatusSet
  <2>5. (t.errc <=> wrong) /\ (t.stamped <=> s.stamped)
    BY <1>0, <2>1, Zenon DEF StatusSet
  <2>6. t.errors = s.errors /\ t.image = image /\ t.pages = pages /\ t.digest = s.digest
        /\ t.signature = s.signature /\ t.stamp = s.stamp
    BY <1>0, <2>1, Zenon DEF StatusSet
  <2>7. /\ g["image"] = v /\ (\A l \in SE!Looked : l # "image" => g[l] = f[l])
        /\ StampOrder(g) /\ StampTold(g, t.stamp) /\ g["stamp"] = f["stamp"] /\ "image" \in SE!Looked
    <3>1. "image" \in SE!Looked \ StampFacts
      BY DEF SE!Looked, StampFacts
    <3> QED BY <1>0, <2>6, <3>1, MainFact
  <2> HIDE DEF f, g
  <2>8. \A l \in {"format", "attributes", "certificates", "algorithms", "pages", "digest", "signature", "stamp"} : g[l] = f[l]
    BY <2>7 DEF SE!Looked
  <2>9. Order(g)
    BY <1>5, <2>7, <2>8 DEF Order
  <2>10. Told(g, t)
    <3>1. (t.errors = {} <=>
            /\ g["format"] \in {"unread", "good"} /\ g["attributes"] \in {"unread", "good"}
            /\ g["algorithms"] \in {"unread", "good"}
            /\ g["image"] # "unhashable" /\ g["digest"] # "throws" /\ g["stamp"] # "undecodable")
      BY <1>2, <1>5, <2>6, <2>7, <2>8 DEF Told
    <3>2. Outcome(t.image, g["image"])
      BY <2>i, <2>6, <2>7 DEF Outcome
    <3>3. Outcome(t.digest, g["digest"]) /\ (t.signature = "valid" <=> g["signature"] = "good")
          /\ (t.stamped <=> g["stamp"] \in {"token", "counter_signature"})
      BY <1>5, <2>5, <2>6, <2>8 DEF Told
    <3>4. g["image"] \in {"good", "wrong"} /\ g["pages"] = f["pages"]
      BY <1>2, <2>7, <2>8
    <3>5. t.errc <=> \/ g["pages"] \in {"undecodable", "invalid"}
                     \/ (g["pages"] = "too_big" /\ g["image"] \in {"good", "wrong"})
      BY <2>e, <2>5, <3>4
    <3>6. t.pages = "invalid" <=> g["pages"] \in {"wrong", "too_big"} /\ g["image"] \in {"good", "wrong"}
      BY <2>p, <2>6, <3>4
    <3> QED BY <3>1, <3>2, <3>3, <3>5, <3>6 DEF Told
  <2>11. Reached(label, g)
    BY <1>2, <1>5, <2>7, <2>8 DEF Reached
  <2>12. label \in Looks /\ label # "stamp" /\ (g["stamp"] # "unread" => given.stamps)
    BY <1>2, <1>5, <2>7 DEF Looks
  <2> QED BY <1>0, <1>1, <2>4, <2>7, <2>9, <2>10, <2>11, <2>12, Looking DEF f, g
<1>3. CASE /\ v = "unhashable" /\ label = "end"
           /\ t = [s EXCEPT !.errors = s.errors \cup {"invalid_image_format_for_hashing"}]
  <2>1. "invalid_image_format_for_hashing" \in Errors
    BY DEF Errors
  <2>2. /\ t \in StatusSet /\ t.errors # {} /\ t.image = s.image /\ t.pages = s.pages /\ (t.errc <=> s.errc)
        /\ t.digest = s.digest /\ t.signature = s.signature /\ (t.stamped <=> s.stamped) /\ t.stamp = s.stamp
    BY <1>0, <1>3, <2>1, StatusError
  <2>7. /\ g["image"] = v /\ (\A l \in SE!Looked : l # "image" => g[l] = f[l])
        /\ StampOrder(g) /\ StampTold(g, t.stamp) /\ g["stamp"] = f["stamp"] /\ "image" \in SE!Looked
    <3>1. "image" \in SE!Looked \ StampFacts
      BY DEF SE!Looked, StampFacts
    <3> QED BY <1>0, <2>2, <3>1, MainFact
  <2> HIDE DEF f, g, s
  <2>8. \A l \in {"format", "attributes", "certificates", "algorithms", "pages", "digest", "signature", "stamp"} : g[l] = f[l]
    BY <2>7 DEF SE!Looked
  <2>9. Order(g)
    BY <1>5, <2>7, <2>8 DEF Order
  <2>10. Told(g, t)
    BY <1>3, <1>5, <2>2, <2>7, <2>8 DEF Told, Outcome
  <2>11. Reached(label, g)
    BY <1>3, <1>5, <2>7, <2>8 DEF Reached
  <2>12. label \in Looks /\ label # "stamp" /\ (g["stamp"] # "unread" => given.stamps)
    BY <1>3, <1>5, <2>7 DEF Looks
  <2> QED BY <1>0, <1>1, <2>2, <2>7, <2>9, <2>10, <2>11, <2>12, Looking DEF f, g
<1> QED BY <1>1, <1>2, <1>3

LEMMA HashContent == ASSUME SignaturesInv, SE!HashContent PROVE SignaturesInv'
<1> DEFINE f == walk.facts
           s == walk.status
<1>0. pc = "digest" /\ pc \in Looks /\ Fine("digest", f, s) /\ s \in StatusSet
  BY DEF SE!HashContent, SignaturesInv, Looks, Fine
<1>1. PICK v, t, label :
        /\ SE!Set("digest", v, t) /\ SE!Go(label)
        /\ \/ /\ v \in {"good", "wrong"} /\ label = "signature"
              /\ t = [s EXCEPT !.digest = IF v = "good" THEN "valid" ELSE "invalid"]
           \/ /\ v = "throws" /\ label = "end"
              /\ t = [s EXCEPT !.errors = s.errors \cup {"invalid_message_digest"}]
  BY Zenon DEF SE!HashContent, SE!Here, SE!WithError
<1> DEFINE g == [f EXCEPT !["digest"] = v]
<1>2. /\ t \in StatusSet /\ (t.errors = {} <=> s.errors = {} /\ v # "throws") /\ t.image = s.image /\ t.pages = s.pages
      /\ (t.errc <=> s.errc) /\ t.signature = s.signature /\ (t.stamped <=> s.stamped) /\ t.stamp = s.stamp
      /\ v \in {"good", "wrong"} => Outcome(t.digest, v)
      /\ v = "throws" => t.digest = s.digest
  <2>1. CASE v \in {"good", "wrong"} /\ t = [s EXCEPT !.digest = IF v = "good" THEN "valid" ELSE "invalid"]
    <3> DEFINE digest == IF v = "good" THEN "valid" ELSE "invalid"
    <3>1. t = [s EXCEPT !.digest = digest] /\ digest \in Values
      BY <2>1 DEF Values
    <3>2. Outcome(digest, v) /\ v # "throws"
      BY <2>1 DEF Outcome
    <3> HIDE DEF digest, s
    <3>3. t \in StatusSet
      BY <1>0, <3>1, Zenon DEF StatusSet
    <3>4. (t.errc <=> s.errc) /\ (t.stamped <=> s.stamped)
      BY <1>0, <3>1, Zenon DEF StatusSet
    <3>5. t.errors = s.errors /\ t.image = s.image /\ t.pages = s.pages /\ t.digest = digest
          /\ t.signature = s.signature /\ t.stamp = s.stamp
      BY <1>0, <3>1, Zenon DEF StatusSet
    <3> QED BY <3>2, <3>3, <3>4, <3>5
  <2>2. CASE v = "throws" /\ t = [s EXCEPT !.errors = s.errors \cup {"invalid_message_digest"}]
    <3>1. "invalid_message_digest" \in Errors
      BY DEF Errors
    <3>2. /\ t \in StatusSet /\ t.errors # {} /\ t.image = s.image /\ t.pages = s.pages /\ (t.errc <=> s.errc)
          /\ t.digest = s.digest /\ t.signature = s.signature /\ (t.stamped <=> s.stamped) /\ t.stamp = s.stamp
      BY <1>0, <2>2, <3>1, StatusError
    <3> QED BY <2>2, <3>2
  <2> QED BY <1>1, <2>1, <2>2
<1>3. (v \in {"good", "wrong"} /\ label = "signature") \/ (v = "throws" /\ label = "end")
  BY <1>1
<1>4. /\ g["digest"] = v /\ (\A l \in SE!Looked : l # "digest" => g[l] = f[l])
      /\ StampOrder(g) /\ StampTold(g, t.stamp) /\ g["stamp"] = f["stamp"] /\ "digest" \in SE!Looked
  <2>1. "digest" \in SE!Looked \ StampFacts
    BY DEF SE!Looked, StampFacts
  <2> QED BY <1>0, <1>2, <2>1, MainFact
<1>5. /\ Order(f) /\ Told(f, s) /\ f["image"] \in {"good", "wrong"} /\ f["digest"] = "unread"
      /\ f["signature"] = "unread" /\ f["stamp"] = "unread" /\ (f["stamp"] # "unread" => given.stamps)
  BY <1>0 DEF Fine, Reached, Order
<1> HIDE DEF f, g, s
<1>6. \A l \in {"format", "attributes", "certificates", "algorithms", "pages", "image", "signature", "stamp"} : g[l] = f[l]
  BY <1>4 DEF SE!Looked
<1>7. Order(g)
  BY <1>4, <1>5, <1>6 DEF Order
<1>8. Told(g, t)
  <2>1. Outcome(t.digest, g["digest"])
    <3>1. CASE v \in {"good", "wrong"}
      BY <3>1, <1>2, <1>4
    <3>2. CASE v = "throws"
      BY <3>2, <1>2, <1>4, <1>5 DEF Told, Outcome
    <3> QED BY <1>3, <3>1, <3>2
  <2> QED BY <2>1, <1>2, <1>3, <1>4, <1>5, <1>6 DEF Told
<1>9. Reached(label, g)
  BY <1>3, <1>4, <1>5, <1>6 DEF Reached
<1>10. label \in Looks /\ label # "stamp" /\ (g["stamp"] # "unread" => given.stamps)
  BY <1>3, <1>4, <1>5 DEF Looks
<1> QED BY <1>0, <1>1, <1>2, <1>4, <1>7, <1>8, <1>9, <1>10, Looking DEF f, g

LEMMA VerifySignature == ASSUME SignaturesInv, SE!VerifySignature PROVE SignaturesInv'
<1> DEFINE f == walk.facts
           s == walk.status
           label == IF given.stamps THEN "stamp" ELSE "end"
<1>0. pc = "signature" /\ pc \in Looks /\ Fine("signature", f, s) /\ s \in StatusSet
  BY DEF SE!VerifySignature, SignaturesInv, Looks, Fine
<1>1. PICK v, t :
        /\ v \in SE!Signatures
        /\ SE!Set("signature", v, t) /\ SE!Go(label)
        /\ t = [s EXCEPT !.signature = IF v = "good" THEN "valid" ELSE "invalid"]
  BY Zenon DEF SE!VerifySignature, SE!Here
<1> DEFINE g == [f EXCEPT !["signature"] = v]
<1>2. /\ t \in StatusSet /\ t.errors = s.errors /\ t.image = s.image /\ t.pages = s.pages /\ t.digest = s.digest
      /\ (t.errc <=> s.errc) /\ (t.signature = "valid" <=> v = "good") /\ (t.stamped <=> s.stamped) /\ t.stamp = s.stamp
  <2> DEFINE signature == IF v = "good" THEN "valid" ELSE "invalid"
  <2>1. t = [s EXCEPT !.signature = signature] /\ signature \in Values /\ (signature = "valid" <=> v = "good")
    BY <1>1 DEF Values
  <2> HIDE DEF signature, s
  <2>3. t \in StatusSet
    BY <1>0, <2>1, Zenon DEF StatusSet
  <2>4. (t.errc <=> s.errc) /\ (t.stamped <=> s.stamped)
    BY <1>0, <2>1, Zenon DEF StatusSet
  <2>5. t.errors = s.errors /\ t.image = s.image /\ t.pages = s.pages /\ t.digest = s.digest
        /\ t.signature = signature /\ t.stamp = s.stamp
    BY <1>0, <2>1, Zenon DEF StatusSet
  <2> QED BY <2>1, <2>3, <2>4, <2>5
<1>3. v # "unread" /\ (v = "good" => f["certificates"] = "good")
  BY <1>1 DEF SE!Signatures
<1>4. /\ g["signature"] = v /\ (\A l \in SE!Looked : l # "signature" => g[l] = f[l])
      /\ StampOrder(g) /\ StampTold(g, t.stamp) /\ g["stamp"] = f["stamp"] /\ "signature" \in SE!Looked
  <2>1. "signature" \in SE!Looked \ StampFacts
    BY DEF SE!Looked, StampFacts
  <2> QED BY <1>0, <1>2, <2>1, MainFact
<1>5. /\ Order(f) /\ Told(f, s) /\ f["digest"] \in {"good", "wrong"}
      /\ f["signature"] = "unread" /\ f["stamp"] = "unread" /\ (f["stamp"] # "unread" => given.stamps)
  BY <1>0 DEF Fine, Reached, Order
<1>l. (label = "stamp" /\ given.stamps) \/ (label = "end" /\ ~given.stamps)
  OBVIOUS
<1>r. SE!Set("signature", v, t) /\ SE!Go(label)
  BY <1>1
<1> HIDE DEF f, g, s, label
<1>6. \A l \in {"format", "attributes", "certificates", "algorithms", "pages", "image", "digest", "stamp"} : g[l] = f[l]
  BY <1>4 DEF SE!Looked
<1>7. Order(g)
  BY <1>3, <1>4, <1>5, <1>6 DEF Order
<1>8. Told(g, t)
  BY <1>2, <1>4, <1>5, <1>6 DEF Told
<1>9. Reached(label, g)
  BY <1>l, <1>3, <1>4, <1>5, <1>6 DEF Reached
<1>10. label \in Looks /\ (label = "stamp" => given.stamps) /\ (g["stamp"] # "unread" => given.stamps)
  BY <1>l, <1>4, <1>5 DEF Looks
<1> QED BY <1>0, <1>r, <1>2, <1>4, <1>7, <1>8, <1>9, <1>10, Looking DEF f, g

\* A fact of the timestamp: those of the signature are as they were.
LEMMA StampFact ==
  ASSUME NEW label, NEW f, NEW s, Fine(label, f, s), NEW look \in StampFacts \ {"stamp"}, NEW v,
         NEW r \in StampSet, NEW t, t = [s EXCEPT !.stamp = r]
  PROVE  LET g == [f EXCEPT ![look] = v] IN
         /\ t \in StatusSet /\ t.stamp = r /\ look \in SE!Looked
         /\ Order(g) /\ Told(g, t)
         /\ g[look] = v /\ \A l \in StampFacts : l # look => g[l] = f[l]
         /\ g["stamp"] = f["stamp"] /\ g["signature"] = f["signature"]
<1> DEFINE g == [f EXCEPT ![look] = v]
<1>1. f = [l \in SE!Looked |-> f[l]] /\ s \in StatusSet /\ Order(f) /\ Told(f, s)
  BY DEF Fine
<1>2. look \in SE!Looked /\ StampFacts \subseteq SE!Looked
  BY DEF StampFacts, SE!Looked
<1>3. g[look] = v /\ \A l \in SE!Looked : l # look => g[l] = f[l]
  BY <1>1, <1>2, FactSet
<1> HIDE DEF g
<1>4. t \in StatusSet
  BY <1>1, Zenon DEF StatusSet
<1>5. t.stamp = r /\ t.errors = s.errors /\ t.image = s.image /\ t.pages = s.pages /\ t.digest = s.digest /\ t.signature = s.signature
  BY <1>1, Zenon DEF StatusSet
<1>6. (t.errc <=> s.errc) /\ (t.stamped <=> s.stamped)
  BY <1>1, Zenon DEF StatusSet
<1>7. \A l \in {"format", "attributes", "certificates", "algorithms", "pages", "image", "digest", "signature", "stamp"} :
        l # look /\ l \in SE!Looked
  BY DEF StampFacts, SE!Looked
<1>8. \A l \in {"format", "attributes", "certificates", "algorithms", "pages", "image", "digest", "signature", "stamp"} : g[l] = f[l]
  BY <1>3, <1>7
<1>9. Order(g) /\ Told(g, t)
  BY <1>1, <1>5, <1>6, <1>8 DEF Order, Told
<1>10. \A l \in StampFacts : l # look => g[l] = f[l]
  BY <1>2, <1>3
<1> QED BY <1>2, <1>3, <1>4, <1>5, <1>8, <1>9, <1>10 DEF g

\* What a timestamp comes to with an error, or with a field that is set.
LEMMA StampError ==
  ASSUME NEW s \in StampSet, NEW e \in Errors, NEW t, t = [s EXCEPT !.errors = s.errors \cup {e}]
  PROVE  /\ t \in StampSet /\ t.errors # {} /\ t.hash = s.hash /\ t.digest = s.digest
         /\ t.signature = s.signature /\ (t.time <=> s.time)
<1>1. s.errors \cup {e} \in SUBSET Errors
  BY DEF StampSet
<1>2. t \in StampSet
  BY <1>1, Zenon DEF StampSet
<1>3. t.errors = s.errors \cup {e} /\ t.hash = s.hash /\ t.digest = s.digest /\ t.signature = s.signature
  BY DEF StampSet
<1>4. t.time <=> s.time
  BY Zenon DEF StampSet
<1> QED BY <1>2, <1>3, <1>4

LEMMA StampTimed ==
  ASSUME NEW s \in StampSet, NEW t, t = [s EXCEPT !.time = TRUE]
  PROVE  /\ t \in StampSet /\ t.errors = s.errors /\ t.hash = s.hash /\ t.digest = s.digest
         /\ t.signature = s.signature /\ t.time
<1>1. t \in StampSet
  BY Zenon DEF StampSet
<1>2. t.errors = s.errors /\ t.hash = s.hash /\ t.digest = s.digest /\ t.signature = s.signature
  BY Zenon DEF StampSet
<1>3. t.time
  BY Zenon DEF StampSet
<1> QED BY <1>1, <1>2, <1>3

LEMMA LoadStamp == ASSUME SignaturesInv, SE!LoadStamp PROVE SignaturesInv'
<1> DEFINE f == walk.facts
           s == walk.status
<1>0. pc = "stamp" /\ pc \in Looks /\ Fine("stamp", f, s) /\ s \in StatusSet
  BY DEF SE!LoadStamp, SignaturesInv, Looks, Fine
<1>1. PICK v, t, label :
        /\ SE!Set("stamp", v, t) /\ SE!Go(label)
        /\ \/ v = "none" /\ t = s /\ label = "end"
           \/ v = "undecodable" /\ t = [s EXCEPT !.errors = s.errors \cup {"invalid_timestamp_signature"}] /\ label = "end"
           \/ v = "token" /\ t = [s EXCEPT !.stamped = TRUE] /\ label = "stamp_format"
           \/ v = "counter_signature" /\ t = [s EXCEPT !.stamped = TRUE] /\ label = "stamp_algorithms"
  BY Zenon DEF SE!LoadStamp, SE!Here, SE!WithError
<1>2. \/ v \in {"none", "undecodable"} /\ label = "end"
      \/ v = "token" /\ label = "stamp_format"
      \/ v = "counter_signature" /\ label = "stamp_algorithms"
  BY <1>1
<1>5. /\ Order(f) /\ Told(f, s) /\ f["signature"] # "unread" /\ f["stamp"] = "unread"
      /\ StampOrder(f) /\ StampTold(f, s.stamp) /\ given.stamps /\ f = [l \in SE!Looked |-> f[l]]
  BY <1>0 DEF Fine, Reached
<1>3. /\ t \in StatusSet /\ (t.errors = {} <=> s.errors = {} /\ v # "undecodable") /\ t.image = s.image /\ t.pages = s.pages
      /\ (t.errc <=> s.errc) /\ t.digest = s.digest /\ t.signature = s.signature /\ t.stamp = s.stamp
      /\ (t.stamped <=> v \in {"token", "counter_signature"})
  <2>s. ~s.stamped
    BY <1>5 DEF Told
  <2>1. CASE v = "none" /\ t = s
    BY <1>0, <2>1, <2>s
  <2>2. CASE v = "undecodable" /\ t = [s EXCEPT !.errors = s.errors \cup {"invalid_timestamp_signature"}]
    <3>1. "invalid_timestamp_signature" \in Errors
      BY DEF Errors
    <3>2. /\ t \in StatusSet /\ t.errors # {} /\ t.image = s.image /\ t.pages = s.pages /\ (t.errc <=> s.errc)
          /\ t.digest = s.digest /\ t.signature = s.signature /\ (t.stamped <=> s.stamped) /\ t.stamp = s.stamp
      BY <1>0, <2>2, <3>1, StatusError
    <3> QED BY <2>2, <3>2, <2>s
  <2>3. CASE v \in {"token", "counter_signature"} /\ t = [s EXCEPT !.stamped = TRUE]
    <3>1. t = [s EXCEPT !.stamped = TRUE]
      BY <2>3
    <3> HIDE DEF s
    <3>2. t \in StatusSet
      BY <1>0, <3>1, Zenon DEF StatusSet
    <3>3. (t.errc <=> s.errc) /\ t.stamped
      BY <1>0, <3>1, Zenon DEF StatusSet
    <3>4. t.errors = s.errors /\ t.image = s.image /\ t.pages = s.pages /\ t.digest = s.digest
          /\ t.signature = s.signature /\ t.stamp = s.stamp
      BY <1>0, <3>1, Zenon DEF StatusSet
    <3> QED BY <2>3, <3>2, <3>3, <3>4
  <2> QED BY <1>1, <2>1, <2>2, <2>3
<1> DEFINE g == [f EXCEPT !["stamp"] = v]
<1>4. g["stamp"] = v /\ (\A l \in SE!Looked : l # "stamp" => g[l] = f[l]) /\ "stamp" \in SE!Looked
  <2>1. "stamp" \in SE!Looked
    BY DEF SE!Looked
  <2> QED BY <1>5, <2>1, FactSet
<1> HIDE DEF f, g, s
<1>6. \A l \in {"format", "attributes", "certificates", "algorithms", "pages", "image", "digest", "signature"} : g[l] = f[l]
  BY <1>4 DEF SE!Looked
<1>7. \A l \in {"stamp_format", "stamp_algorithms", "stamp_time", "stamp_hash", "stamp_digest", "stamp_signature"} :
        g[l] = f[l]
  BY <1>4 DEF SE!Looked
<1>u. \A l \in {"stamp_format", "stamp_algorithms", "stamp_time", "stamp_hash", "stamp_digest", "stamp_signature"} :
        f[l] = "unread"
  BY <1>5 DEF StampOrder
<1>8. Order(g)
  BY <1>2, <1>4, <1>5, <1>6 DEF Order
<1>9. Told(g, t)
  BY <1>2, <1>3, <1>4, <1>5, <1>6 DEF Told
<1>10. StampOrder(g)
  BY <1>u, <1>7 DEF StampOrder
<1>11. StampTold(g, t.stamp)
  BY <1>u, <1>3, <1>5, <1>7 DEF StampTold
<1>12. Reached(label, g)
  BY <1>2, <1>4, <1>5, <1>6, <1>7, <1>u DEF Reached
<1>13. label \in Looks /\ label # "stamp" /\ given.stamps
  BY <1>2, <1>5 DEF Looks
<1> QED BY <1>0, <1>1, <1>3, <1>4, <1>8, <1>9, <1>10, <1>11, <1>12, <1>13, Looking DEF f, g

\* A look at a timestamp, with what it finds and what its status comes to.
LEMMA StampLooking ==
  ASSUME SignaturesInv, pc \in Looks, pc # "end", NEW look \in StampFacts \ {"stamp"}, NEW v, NEW r \in StampSet,
         NEW label \in Looks \ {"stamp"},
         SE!SetStamp(look, v, r), SE!Go(label),
         \A g : /\ g[look] = v
                /\ \A l \in StampFacts : l # look => g[l] = walk.facts[l]
                /\ g["signature"] = walk.facts["signature"]
                => StampOrder(g) /\ StampTold(g, r) /\ Reached(label, g)
  PROVE  SignaturesInv'
<1> DEFINE f == walk.facts
           s == walk.status
           t == [s EXCEPT !.stamp = r]
           g == [f EXCEPT ![look] = v]
<1>1. Fine(pc, f, s)
  BY DEF SignaturesInv
<1>2. SE!Set(look, v, t)
  BY DEF SE!SetStamp, SE!Here
<1>3. /\ t \in StatusSet /\ t.stamp = r /\ look \in SE!Looked /\ Order(g) /\ Told(g, t)
      /\ g[look] = v /\ (\A l \in StampFacts : l # look => g[l] = f[l])
      /\ g["stamp"] = f["stamp"] /\ g["signature"] = f["signature"]
  <2>1. t = [s EXCEPT !.stamp = r]
    OBVIOUS
  <2> HIDE DEF t, f, s
  <2> QED BY <1>1, <2>1, StampFact DEF f, s
<1>4. StampOrder(g) /\ StampTold(g, r) /\ Reached(label, g)
  BY <1>3
<1>5. (g["stamp"] # "unread" => given.stamps) /\ label # "stamp"
  BY <1>1, <1>3 DEF Fine
<1> HIDE DEF t
<1> QED BY <1>2, <1>3, <1>4, <1>5, Looking

LEMMA LookAtStamp == ASSUME SignaturesInv, SE!LookAtStamp PROVE SignaturesInv'
<1> DEFINE f == walk.facts
           s == walk.status.stamp
<1>0. pc = "stamp_format" /\ pc \in Looks /\ pc # "end" /\ Fine("stamp_format", f, walk.status)
  BY DEF SE!LookAtStamp, SignaturesInv, Looks
<1>1. PICK v, r, label :
        /\ SE!SetStamp("stamp_format", v, r) /\ SE!Go(label)
        /\ \/ v = "good" /\ r = s /\ label = "stamp_algorithms"
           \/ v = "bad" /\ r = [s EXCEPT !.errors = s.errors \cup {"invalid_tst_info_version"}] /\ label = "end"
  BY Zenon DEF SE!LookAtStamp, SE!Ts, SE!StampError
<1>2. (v = "good" /\ label = "stamp_algorithms") \/ (v = "bad" /\ label = "end")
  BY <1>1
<1>3. s \in StampSet /\ StampOrder(f) /\ StampTold(f, s) /\ f["stamp"] = "token" /\ f["stamp_format"] = "unread"
  BY <1>0 DEF Fine, Reached, StatusSet
<1>4. /\ r \in StampSet /\ (r.errors = {} <=> s.errors = {} /\ v = "good") /\ r.hash = s.hash
      /\ r.digest = s.digest /\ r.signature = s.signature /\ (r.time <=> s.time)
  <2>1. "invalid_tst_info_version" \in Errors
    BY DEF Errors
  <2>2. CASE v = "good" /\ r = s
    BY <1>3, <2>2
  <2>3. CASE v = "bad" /\ r = [s EXCEPT !.errors = s.errors \cup {"invalid_tst_info_version"}]
    BY <1>3, <2>1, <2>3, StampError
  <2> QED BY <1>1, <2>2, <2>3
<1>5. label \in Looks \ {"stamp"} /\ "stamp_format" \in StampFacts \ {"stamp"}
  BY <1>2 DEF Looks, StampFacts
<1> HIDE DEF f, s
<1>6. ASSUME NEW g, g["stamp_format"] = v, \A l \in StampFacts : l # "stamp_format" => g[l] = f[l],
             g["signature"] = f["signature"]
      PROVE  StampOrder(g) /\ StampTold(g, r) /\ Reached(label, g)
  <2>1. \A l \in {"stamp", "stamp_algorithms", "stamp_time", "stamp_hash", "stamp_digest", "stamp_signature"} : g[l] = f[l]
    BY <1>6 DEF StampFacts
  <2>2. StampOrder(g)
    BY <1>3, <1>6, <2>1 DEF StampOrder
  <2>3. StampTold(g, r)
    BY <1>2, <1>3, <1>4, <1>6, <2>1 DEF StampTold
  <2>4. Reached(label, g)
    BY <1>2, <1>3, <1>6, <2>1 DEF Reached, StampOrder
  <2> QED BY <2>2, <2>3, <2>4
<1> QED BY <1>0, <1>1, <1>4, <1>5, <1>6, StampLooking DEF f

LEMMA LookAtStampAlgorithms == ASSUME SignaturesInv, SE!LookAtStampAlgorithms PROVE SignaturesInv'
<1> DEFINE f == walk.facts
           s == walk.status.stamp
           bad == [s EXCEPT !.errors = s.errors \cup {"unsupported_digest_algorithm"}]
           token == f["stamp"] = "token"
<1>0. pc = "stamp_algorithms" /\ pc \in Looks /\ pc # "end" /\ Fine("stamp_algorithms", f, walk.status)
  BY DEF SE!LookAtStampAlgorithms, SignaturesInv, Looks
<1>1. PICK v, r, label :
        /\ SE!SetStamp("stamp_algorithms", v, r) /\ SE!Go(label)
        /\ \/ v = "good" /\ r = SE!Timed(s) /\ label = (IF token THEN "stamp_hash" ELSE "stamp_time")
           \/ v = "unknown" /\ r = SE!Timed(bad) /\ label = "end"
  BY Zenon DEF SE!LookAtStampAlgorithms, SE!Ts, SE!StampError, SE!IsToken
<1>2. \/ v = "good" /\ token /\ label = "stamp_hash"
      \/ v = "good" /\ ~token /\ label = "stamp_time"
      \/ v = "unknown" /\ label = "end"
  BY <1>1
<1>3. /\ s \in StampSet /\ StampOrder(f) /\ StampTold(f, s) /\ f["stamp_algorithms"] = "unread"
      /\ f["stamp"] = "counter_signature" \/ (f["stamp"] = "token" /\ f["stamp_format"] = "good")
  BY <1>0 DEF Fine, Reached, StatusSet
<1>4. /\ r \in StampSet /\ (r.errors = {} <=> s.errors = {} /\ v = "good") /\ r.hash = s.hash
      /\ r.digest = s.digest /\ r.signature = s.signature /\ (r.time <=> s.time \/ token)
  <2>1. ASSUME NEW x \in StampSet, r = SE!Timed(x)
        PROVE  /\ r \in StampSet /\ r.errors = x.errors /\ r.hash = x.hash /\ r.digest = x.digest
               /\ r.signature = x.signature /\ (r.time <=> x.time \/ token)
    <3>1. CASE token
      <4>1. r = [x EXCEPT !.time = TRUE]
        BY <2>1, <3>1 DEF SE!Timed, SE!IsToken
      <4> QED BY <3>1, <4>1, StampTimed
    <3>2. CASE ~token
      <4>1. r = x
        BY <2>1, <3>2 DEF SE!Timed, SE!IsToken
      <4> QED BY <3>2, <4>1
    <3> QED BY <3>1, <3>2
  <2>2. "unsupported_digest_algorithm" \in Errors
    BY DEF Errors
  <2>3. /\ bad \in StampSet /\ bad.errors # {} /\ bad.hash = s.hash /\ bad.digest = s.digest
        /\ bad.signature = s.signature /\ (bad.time <=> s.time)
    BY <1>3, <2>2, StampError
  <2> HIDE DEF bad, s, token
  <2>4. CASE v = "good" /\ r = SE!Timed(s)
    BY <1>3, <2>1, <2>4
  <2>5. CASE v = "unknown" /\ r = SE!Timed(bad)
    BY <2>1, <2>3, <2>5
  <2> QED BY <1>1, <2>4, <2>5
<1>5. label \in Looks \ {"stamp"} /\ "stamp_algorithms" \in StampFacts \ {"stamp"}
  BY <1>2 DEF Looks, StampFacts
<1> HIDE DEF f, s
<1>6. ASSUME NEW g, g["stamp_algorithms"] = v, \A l \in StampFacts : l # "stamp_algorithms" => g[l] = f[l],
             g["signature"] = f["signature"]
      PROVE  StampOrder(g) /\ StampTold(g, r) /\ Reached(label, g)
  <2>1. \A l \in {"stamp", "stamp_format", "stamp_time", "stamp_hash", "stamp_digest", "stamp_signature"} : g[l] = f[l]
    BY <1>6 DEF StampFacts
  <2>2. StampOrder(g)
    BY <1>3, <1>6, <2>1 DEF StampOrder
  <2>3. StampTold(g, r)
    <3>1. v # "unread" /\ f["stamp_time"] = "unread"
      BY <1>2, <1>3 DEF StampOrder
    <3> QED BY <1>2, <1>3, <1>4, <1>6, <2>1, <3>1 DEF StampTold
  <2>4. Reached(label, g)
    BY <1>2, <1>3, <1>6, <2>1 DEF Reached, StampOrder
  <2> QED BY <2>2, <2>3, <2>4
<1> QED BY <1>0, <1>1, <1>4, <1>5, <1>6, StampLooking DEF f

LEMMA LookAtStampTime == ASSUME SignaturesInv, SE!LookAtStampTime PROVE SignaturesInv'
<1> DEFINE f == walk.facts
           s == walk.status.stamp
<1>0. pc = "stamp_time" /\ pc \in Looks /\ pc # "end" /\ Fine("stamp_time", f, walk.status)
  BY DEF SE!LookAtStampTime, SignaturesInv, Looks
<1>1. PICK v, r :
        /\ SE!SetStamp("stamp_time", v, r) /\ SE!Go("stamp_hash")
        /\ \/ v = "good" /\ r = [s EXCEPT !.time = TRUE]
           \/ v = "absent" /\ r = s
           \/ v = "invalid" /\ r = [s EXCEPT !.errors = s.errors \cup {"invalid_signing_time"}]
  BY Zenon DEF SE!LookAtStampTime, SE!Ts, SE!StampError
<1>2. v \in {"good", "absent", "invalid"}
  BY <1>1
<1>3. /\ s \in StampSet /\ StampOrder(f) /\ StampTold(f, s) /\ f["stamp_time"] = "unread"
      /\ f["stamp"] = "counter_signature" /\ f["stamp_algorithms"] = "good"
  BY <1>0 DEF Fine, Reached, StatusSet
<1>4. /\ r \in StampSet /\ (r.errors = {} <=> s.errors = {} /\ v # "invalid") /\ r.hash = s.hash
      /\ r.digest = s.digest /\ r.signature = s.signature /\ (r.time <=> v = "good")
  <2>s. ~s.time
    BY <1>3 DEF StampTold
  <2>1. "invalid_signing_time" \in Errors
    BY DEF Errors
  <2> HIDE DEF s
  <2>2. CASE v = "good" /\ r = [s EXCEPT !.time = TRUE]
    BY <1>3, <2>2, StampTimed
  <2>3. CASE v = "absent" /\ r = s
    BY <1>3, <2>3, <2>s
  <2>4. CASE v = "invalid" /\ r = [s EXCEPT !.errors = s.errors \cup {"invalid_signing_time"}]
    <3>1. /\ r \in StampSet /\ r.errors # {} /\ r.hash = s.hash /\ r.digest = s.digest
          /\ r.signature = s.signature /\ (r.time <=> s.time)
      BY <1>3, <2>1, <2>4, StampError
    <3> QED BY <2>4, <3>1, <2>s
  <2> QED BY <1>1, <2>2, <2>3, <2>4 DEF s
<1>5. "stamp_hash" \in Looks \ {"stamp"} /\ "stamp_time" \in StampFacts \ {"stamp"}
  BY DEF Looks, StampFacts
<1> HIDE DEF f, s
<1>6. ASSUME NEW g, g["stamp_time"] = v, \A l \in StampFacts : l # "stamp_time" => g[l] = f[l],
             g["signature"] = f["signature"]
      PROVE  StampOrder(g) /\ StampTold(g, r) /\ Reached("stamp_hash", g)
  <2>1. \A l \in {"stamp", "stamp_format", "stamp_algorithms", "stamp_hash", "stamp_digest", "stamp_signature"} : g[l] = f[l]
    BY <1>6 DEF StampFacts
  <2>2. StampOrder(g)
    BY <1>2, <1>3, <1>6, <2>1 DEF StampOrder
  <2>3. StampTold(g, r)
    BY <1>2, <1>3, <1>4, <1>6, <2>1 DEF StampTold
  <2>4. Reached("stamp_hash", g)
    BY <1>2, <1>3, <1>6, <2>1 DEF Reached, StampOrder
  <2> QED BY <2>2, <2>3, <2>4
<1> QED BY <1>0, <1>1, <1>4, <1>5, <1>6, StampLooking DEF f

LEMMA HashStamp == ASSUME SignaturesInv, SE!HashStamp PROVE SignaturesInv'
<1> DEFINE f == walk.facts
           s == walk.status.stamp
           token == f["stamp"] = "token"
<1>0. pc = "stamp_hash" /\ pc \in Looks /\ pc # "end" /\ Fine("stamp_hash", f, walk.status)
  BY DEF SE!HashStamp, SignaturesInv, Looks
<1>1. PICK v, r, label :
        /\ SE!SetStamp("stamp_hash", v, r) /\ SE!Go(label)
        /\ \/ /\ v \in {"good", "wrong"} /\ r = [s EXCEPT !.hash = IF v = "good" THEN "valid" ELSE "invalid"]
              /\ label = (IF token THEN "stamp_digest" ELSE "stamp_signature")
           \/ v = "throws" /\ r = [s EXCEPT !.errors = s.errors \cup {"invalid_message_digest"}] /\ label = "end"
  BY Zenon DEF SE!HashStamp, SE!Ts, SE!StampError, SE!IsToken
<1>2. \/ v \in {"good", "wrong"} /\ token /\ label = "stamp_digest"
      \/ v \in {"good", "wrong"} /\ ~token /\ label = "stamp_signature"
      \/ v = "throws" /\ label = "end"
  BY <1>1
<1>3. /\ s \in StampSet /\ StampOrder(f) /\ StampTold(f, s) /\ f["stamp_hash"] = "unread"
      /\ f["stamp_algorithms"] = "good"
      /\ f["stamp"] = "counter_signature" => f["stamp_time"] # "unread"
  BY <1>0 DEF Fine, Reached, StatusSet
<1>4. /\ r \in StampSet /\ (r.errors = {} <=> s.errors = {} /\ v # "throws") /\ Outcome(r.hash, v)
      /\ r.digest = s.digest /\ r.signature = s.signature /\ (r.time <=> s.time)
  <2>1. CASE v \in {"good", "wrong"} /\ r = [s EXCEPT !.hash = IF v = "good" THEN "valid" ELSE "invalid"]
    <3> DEFINE hash == IF v = "good" THEN "valid" ELSE "invalid"
    <3>1. r = [s EXCEPT !.hash = hash] /\ hash \in Values /\ Outcome(hash, v) /\ v # "throws"
      BY <2>1 DEF Values, Outcome
    <3> HIDE DEF hash, s
    <3>2. r \in StampSet
      BY <1>3, <3>1, Zenon DEF StampSet
    <3>3. r.errors = s.errors /\ r.hash = hash /\ r.digest = s.digest /\ r.signature = s.signature
      BY <1>3, <3>1, Zenon DEF StampSet
    <3>4. r.time <=> s.time
      BY <1>3, <3>1, Zenon DEF StampSet
    <3> QED BY <3>1, <3>2, <3>3, <3>4
  <2>2. CASE v = "throws" /\ r = [s EXCEPT !.errors = s.errors \cup {"invalid_message_digest"}]
    <3>1. "invalid_message_digest" \in Errors
      BY DEF Errors
    <3>2. /\ r \in StampSet /\ r.errors # {} /\ r.hash = s.hash /\ r.digest = s.digest
          /\ r.signature = s.signature /\ (r.time <=> s.time)
      BY <1>3, <2>2, <3>1, StampError
    <3>3. Outcome(r.hash, v)
      BY <1>3, <2>2, <3>2 DEF StampTold, Outcome
    <3> QED BY <2>2, <3>2, <3>3
  <2> QED BY <1>1, <2>1, <2>2
<1>5. label \in Looks \ {"stamp"} /\ "stamp_hash" \in StampFacts \ {"stamp"}
  BY <1>2 DEF Looks, StampFacts
<1> HIDE DEF f, s
<1>6. ASSUME NEW g, g["stamp_hash"] = v, \A l \in StampFacts : l # "stamp_hash" => g[l] = f[l],
             g["signature"] = f["signature"]
      PROVE  StampOrder(g) /\ StampTold(g, r) /\ Reached(label, g)
  <2>1. \A l \in {"stamp", "stamp_format", "stamp_algorithms", "stamp_time", "stamp_digest", "stamp_signature"} : g[l] = f[l]
    BY <1>6 DEF StampFacts
  <2>2. f["stamp_digest"] = "unread" /\ f["stamp_signature"] = "unread"
    BY <1>3 DEF StampOrder
  <2>3. StampOrder(g)
    BY <1>2, <1>3, <1>6, <2>1, <2>2 DEF StampOrder
  <2>4. StampTold(g, r)
    BY <1>2, <1>3, <1>4, <1>6, <2>1 DEF StampTold
  <2>5. Reached(label, g)
    <3>1. f["stamp"] # "unread" /\ g["stamp"] = f["stamp"] /\ g["stamp_hash"] = v
          /\ g["stamp_digest"] = "unread" /\ g["stamp_signature"] = "unread"
      BY <1>3, <1>6, <2>1, <2>2 DEF StampOrder
    <3> QED BY <1>2, <3>1 DEF Reached
  <2> QED BY <2>3, <2>4, <2>5
<1> QED BY <1>0, <1>1, <1>4, <1>5, <1>6, StampLooking DEF f

LEMMA HashStampContent == ASSUME SignaturesInv, SE!HashStampContent PROVE SignaturesInv'
<1> DEFINE f == walk.facts
           s == walk.status.stamp
<1>0. pc = "stamp_digest" /\ pc \in Looks /\ pc # "end" /\ Fine("stamp_digest", f, walk.status)
  BY DEF SE!HashStampContent, SignaturesInv, Looks
<1>1. PICK v, r, label :
        /\ SE!SetStamp("stamp_digest", v, r) /\ SE!Go(label)
        /\ \/ /\ v \in {"good", "wrong"} /\ r = [s EXCEPT !.digest = IF v = "good" THEN "valid" ELSE "invalid"]
              /\ label = "stamp_signature"
           \/ v = "throws" /\ r = [s EXCEPT !.errors = s.errors \cup {"invalid_message_digest"}] /\ label = "end"
  BY Zenon DEF SE!HashStampContent, SE!Ts, SE!StampError
<1>2. (v \in {"good", "wrong"} /\ label = "stamp_signature") \/ (v = "throws" /\ label = "end")
  BY <1>1
<1>3. /\ s \in StampSet /\ StampOrder(f) /\ StampTold(f, s) /\ f["stamp_digest"] = "unread"
      /\ f["stamp"] = "token" /\ f["stamp_hash"] \in {"good", "wrong"}
  BY <1>0 DEF Fine, Reached, StatusSet
<1>4. /\ r \in StampSet /\ (r.errors = {} <=> s.errors = {} /\ v # "throws") /\ Outcome(r.digest, v)
      /\ r.hash = s.hash /\ r.signature = s.signature /\ (r.time <=> s.time)
  <2>1. CASE v \in {"good", "wrong"} /\ r = [s EXCEPT !.digest = IF v = "good" THEN "valid" ELSE "invalid"]
    <3> DEFINE digest == IF v = "good" THEN "valid" ELSE "invalid"
    <3>1. r = [s EXCEPT !.digest = digest] /\ digest \in Values /\ Outcome(digest, v) /\ v # "throws"
      BY <2>1 DEF Values, Outcome
    <3> HIDE DEF digest, s
    <3>2. r \in StampSet
      BY <1>3, <3>1, Zenon DEF StampSet
    <3>3. r.errors = s.errors /\ r.hash = s.hash /\ r.digest = digest /\ r.signature = s.signature
      BY <1>3, <3>1, Zenon DEF StampSet
    <3>4. r.time <=> s.time
      BY <1>3, <3>1, Zenon DEF StampSet
    <3> QED BY <3>1, <3>2, <3>3, <3>4
  <2>2. CASE v = "throws" /\ r = [s EXCEPT !.errors = s.errors \cup {"invalid_message_digest"}]
    <3>1. "invalid_message_digest" \in Errors
      BY DEF Errors
    <3>2. /\ r \in StampSet /\ r.errors # {} /\ r.hash = s.hash /\ r.digest = s.digest
          /\ r.signature = s.signature /\ (r.time <=> s.time)
      BY <1>3, <2>2, <3>1, StampError
    <3>3. Outcome(r.digest, v)
      BY <1>3, <2>2, <3>2 DEF StampTold, Outcome
    <3> QED BY <2>2, <3>2, <3>3
  <2> QED BY <1>1, <2>1, <2>2
<1>5. label \in Looks \ {"stamp"} /\ "stamp_digest" \in StampFacts \ {"stamp"}
  BY <1>2 DEF Looks, StampFacts
<1> HIDE DEF f, s
<1>6. ASSUME NEW g, g["stamp_digest"] = v, \A l \in StampFacts : l # "stamp_digest" => g[l] = f[l],
             g["signature"] = f["signature"]
      PROVE  StampOrder(g) /\ StampTold(g, r) /\ Reached(label, g)
  <2>1. \A l \in {"stamp", "stamp_format", "stamp_algorithms", "stamp_time", "stamp_hash", "stamp_signature"} : g[l] = f[l]
    BY <1>6 DEF StampFacts
  <2>2. f["stamp_signature"] = "unread"
    BY <1>3 DEF StampOrder
  <2>3. StampOrder(g)
    BY <1>2, <1>3, <1>6, <2>1, <2>2 DEF StampOrder
  <2>4. StampTold(g, r)
    BY <1>2, <1>3, <1>4, <1>6, <2>1 DEF StampTold
  <2>5. Reached(label, g)
    BY <1>0, <1>2, <1>3, <1>6, <2>1, <2>2 DEF Reached, Fine
  <2> QED BY <2>3, <2>4, <2>5
<1> QED BY <1>0, <1>1, <1>4, <1>5, <1>6, StampLooking DEF f

LEMMA VerifyStamp == ASSUME SignaturesInv, SE!VerifyStamp PROVE SignaturesInv'
<1> DEFINE f == walk.facts
           s == walk.status.stamp
<1>0. pc = "stamp_signature" /\ pc \in Looks /\ pc # "end" /\ Fine("stamp_signature", f, walk.status)
  BY DEF SE!VerifyStamp, SignaturesInv, Looks
<1>10. /\ SE!Go("end")
       /\ \E v \in {"good", "wrong"} :
            SE!SetStamp("stamp_signature", v, [s EXCEPT !.signature = IF v = "good" THEN "valid" ELSE "invalid"])
  BY Zenon DEF SE!VerifyStamp, SE!Ts
<1>11. PICK v \in {"good", "wrong"} :
        SE!SetStamp("stamp_signature", v, [s EXCEPT !.signature = IF v = "good" THEN "valid" ELSE "invalid"])
  BY <1>10, Zenon
<1> DEFINE r == [s EXCEPT !.signature = IF v = "good" THEN "valid" ELSE "invalid"]
<1>1. /\ SE!SetStamp("stamp_signature", v, r) /\ SE!Go("end")
      /\ r = [s EXCEPT !.signature = IF v = "good" THEN "valid" ELSE "invalid"]
  BY <1>10, <1>11, Zenon
<1> HIDE DEF r
<1>3. /\ s \in StampSet /\ StampOrder(f) /\ StampTold(f, s) /\ f["stamp_signature"] = "unread"
      /\ f["stamp_hash"] \in {"good", "wrong"}
      /\ f["stamp"] = "token" => f["stamp_digest"] \in {"good", "wrong"}
  BY <1>0 DEF Fine, Reached, StatusSet
<1>4. /\ r \in StampSet /\ r.errors = s.errors /\ r.hash = s.hash /\ r.digest = s.digest
      /\ (r.signature = "valid" <=> v = "good") /\ (r.time <=> s.time)
  <2> DEFINE signature == IF v = "good" THEN "valid" ELSE "invalid"
  <2>1. r = [s EXCEPT !.signature = signature] /\ signature \in Values /\ (signature = "valid" <=> v = "good")
    BY <1>1 DEF Values
  <2> HIDE DEF signature, s
  <2>2. r \in StampSet
    BY <1>3, <2>1, Zenon DEF StampSet
  <2>3. r.errors = s.errors /\ r.hash = s.hash /\ r.digest = s.digest /\ r.signature = signature
    BY <1>3, <2>1, Zenon DEF StampSet
  <2>4. r.time <=> s.time
    BY <1>3, <2>1, Zenon DEF StampSet
  <2> QED BY <2>1, <2>2, <2>3, <2>4
<1>5. "end" \in Looks \ {"stamp"} /\ "stamp_signature" \in StampFacts \ {"stamp"}
  BY DEF Looks, StampFacts
<1> HIDE DEF f, s
<1>6. ASSUME NEW g, g["stamp_signature"] = v, \A l \in StampFacts : l # "stamp_signature" => g[l] = f[l],
             g["signature"] = f["signature"]
      PROVE  StampOrder(g) /\ StampTold(g, r) /\ Reached("end", g)
  <2>1. \A l \in {"stamp", "stamp_format", "stamp_algorithms", "stamp_time", "stamp_hash", "stamp_digest"} : g[l] = f[l]
    BY <1>6 DEF StampFacts
  <2>3. StampOrder(g)
    BY <1>1, <1>3, <1>6, <2>1 DEF StampOrder
  <2>4. StampTold(g, r)
    BY <1>1, <1>3, <1>4, <1>6, <2>1 DEF StampTold
  <2>5. f["stamp"] # "unread"
    BY <1>0, <1>3 DEF StampOrder, Fine
  <2>6. Reached("end", g)
    BY <2>1, <2>5 DEF Reached
  <2> QED BY <2>3, <2>4, <2>6
<1> QED BY <1>0, <1>1, <1>4, <1>5, <1>6, StampLooking DEF f

\* Before anything is looked at, nothing is said.
LEMMA BlankIsFine == Fine("format", SE!NoFacts, SE!Status)
<1> DEFINE f == SE!NoFacts
           s == SE!Status
<1>1. f = [l \in SE!Looked |-> f[l]] /\ \A l \in SE!Looked : f[l] = "unread"
  BY DEF SE!NoFacts
<1>2. s \in StatusSet /\ s.errors = {} /\ s.image = "unset" /\ s.pages = "unset" /\ s.digest = "unset"
      /\ s.signature = "unset" /\ ~s.errc /\ ~s.stamped
  BY DEF SE!Status, SE!Stamp, SE!Unset, StatusSet, StampSet, Values
<1>3. s.stamp.errors = {} /\ s.stamp.hash = "unset" /\ s.stamp.digest = "unset"
      /\ s.stamp.signature = "unset" /\ ~s.stamp.time
  BY DEF SE!Status, SE!Stamp, SE!Unset
<1> HIDE DEF f, s
<1>4. \A l \in {"format", "attributes", "certificates", "algorithms", "pages", "image", "digest", "signature", "stamp",
                "stamp_format", "stamp_algorithms", "stamp_time", "stamp_hash", "stamp_digest", "stamp_signature"} :
        f[l] = "unread"
  BY <1>1 DEF SE!Looked
<1>5. Order(f) /\ StampOrder(f)
  BY <1>4 DEF Order, StampOrder
<1>6. Told(f, s)
  BY <1>2, <1>4 DEF Told, Outcome
<1>7. StampTold(f, s.stamp)
  BY <1>3, <1>4 DEF StampTold, Outcome
<1>8. Reached("format", f)
  BY <1>4 DEF Reached
<1>9. f["stamp"] = "unread"
  BY <1>4
<1> QED BY <1>1, <1>2, <1>5, <1>6, <1>7, <1>8, <1>9 DEF Fine, f, s

LEMMA EndSignature == ASSUME SignaturesInv, SE!EndSignature PROVE SignaturesInv'
<1> DEFINE valid == SE!RootVerdict(walk.status)
           good == SE!Good(walk.facts)
           sign == [valid |-> valid, good |-> good]
<1>1. /\ pc = "end" /\ UNCHANGED <<given, errors>>
      /\ result' = [result EXCEPT !.signatures = Append(result.signatures, sign)]
      /\ walk' = [walk EXCEPT !.left = walk.left - 1, !.facts = SE!NoFacts, !.status = SE!Status]
      /\ pc' = IF walk.left = 1 THEN "done" ELSE "format"
  BY Zenon DEF SE!EndSignature
<1>2. /\ walk = [left |-> walk.left, facts |-> walk.facts, status |-> walk.status]
      /\ result \in [answer : BOOLEAN, signatures : Seq(SignatureSet)]
      /\ given.directory = "signed" /\ result.answer /\ walk.left \in Nat \ {0}
      /\ Fine("end", walk.facts, walk.status)
      /\ \A i \in DOMAIN result.signatures : result.signatures[i].valid <=> result.signatures[i].good
  BY <1>1 DEF SignaturesInv, SE!VerdictJust, Looks
<1>3. (valid <=> good) /\ valid \in BOOLEAN /\ good \in BOOLEAN
  <2>1. valid <=> good
    BY <1>2, Judged
  <2>2. valid \in BOOLEAN /\ good \in BOOLEAN
    BY Zenon DEF SE!RootVerdict, SE!Good
  <2> QED BY <2>1, <2>2
<1> HIDE DEF valid, good
<1>4. sign \in SignatureSet /\ (sign.valid <=> sign.good)
  <2>1. sign \in SignatureSet
    BY <1>3, Zenon DEF SignatureSet
  <2>2. (sign.valid <=> valid) /\ (sign.good <=> good)
    BY Zenon
  <2> QED BY <1>3, <2>1, <2>2
<1> HIDE DEF sign
<1> DEFINE more == Append(result.signatures, sign)
           n == Len(result.signatures)
<1>5. result.signatures \in Seq(SignatureSet) /\ result.answer \in BOOLEAN
  BY <1>2
<1>6. /\ more \in Seq(SignatureSet) /\ Len(more) = n + 1 /\ n \in Nat /\ more[n + 1] = sign
      /\ DOMAIN result.signatures = 1 .. n /\ DOMAIN more = 1 .. n + 1
      /\ \A i \in 1 .. n : more[i] = result.signatures[i]
  BY <1>4, <1>5, Appended
<1>7. result' = [result EXCEPT !.signatures = more]
  BY <1>1
<1> HIDE DEF more, n
<1>8. result' \in [answer : BOOLEAN, signatures : Seq(SignatureSet)] /\ result'.signatures = more
      /\ (result'.answer <=> result.answer)
  <2>1. result' \in [answer : BOOLEAN, signatures : Seq(SignatureSet)]
    BY <1>2, <1>6, <1>7, Zenon
  <2>2. result'.signatures = more /\ (result'.answer <=> result.answer)
    BY <1>2, <1>7, Zenon
  <2> QED BY <2>1, <2>2
<1>9. \A i \in DOMAIN more : more[i].valid <=> more[i].good
  <2>1. ASSUME NEW i \in DOMAIN more PROVE more[i].valid <=> more[i].good
    <3>1. CASE i = n + 1
      BY <3>1, <1>4, <1>6
    <3>2. CASE i \in 1 .. n
      <4>1. more[i] = result.signatures[i] /\ i \in DOMAIN result.signatures
        BY <3>2, <1>6
      <4> QED BY <4>1, <1>2
    <3>3. i = n + 1 \/ i \in 1 .. n
      BY <1>6, <2>1
    <3> QED BY <3>1, <3>2, <3>3
  <2> QED BY <2>1
<1>10. walk' = [left |-> walk.left - 1, facts |-> SE!NoFacts, status |-> SE!Status]
  BY <1>1, <1>2, Zenon
<1>11. /\ walk'.left = walk.left - 1 /\ walk'.facts = SE!NoFacts /\ walk'.status = SE!Status
       /\ walk' = [left |-> walk'.left, facts |-> walk'.facts, status |-> walk'.status]
  BY <1>10
<1>12. \/ pc' = "done" /\ walk'.left = 0
       \/ pc' = "format" /\ walk'.left \in Nat \ {0}
  BY <1>1, <1>2, <1>11
<1>13. Fine("format", SE!NoFacts, SE!Status)
  BY BlankIsFine
<1>14. pc' = "format" => Fine(pc, walk.facts, walk.status)'
  <2>1. Reached("format", SE!NoFacts)'
    BY <1>13, <1>1 DEF Fine, Reached
  <2> QED BY <1>11, <1>13, <1>1, <2>1 DEF Fine
<1>15. SE!VerdictJust'
  <2>1. pc' = "done" => more # <<>> /\ given'.directory = "signed" /\ walk'.left = 0
    <3>1. more # <<>>
      BY <1>6
    <3>2. pc' = "done" => walk'.left = 0
      BY <1>12
    <3> QED BY <1>1, <1>2, <3>1, <3>2
  <2> QED BY <1>8, <1>9, <2>1 DEF SE!VerdictJust
<1>16. pc' \in Looks \cup {"done"} /\ pc' \notin {"directory", "unauthenticated", "throws"} /\ "format" \in Looks
  BY <1>12 DEF Looks
<1>17. pc' \in Looks => pc' = "format"
  BY <1>12 DEF Looks
<1>18. given'.directory = "signed" /\ result'.answer
  BY <1>1, <1>2, <1>8
<1>19. pc' = "format" => walk'.left \in Nat \ {0}
  BY <1>12
<1> QED BY <1>8, <1>11, <1>14, <1>15, <1>16, <1>17, <1>18, <1>19 DEF SignaturesInv

\* The verdict on an image that was not checked any further is no.
LEMMA RootOnlyIsNo ==
  ASSUME NEW e PROVE /\ SE!RootOnly(e) \in Seq(SignatureSet) /\ SE!RootOnly(e) # <<>>
                     /\ DOMAIN SE!RootOnly(e) = 1 .. 1
                     /\ ~SE!RootOnly(e)[1].valid /\ ~SE!RootOnly(e)[1].good
<1> DEFINE s == [SE!Status EXCEPT !.errors = {e}]
           sign == [valid |-> SE!RootVerdict(s), good |-> FALSE]
<1>1. s.errors = {e}
  BY DEF SE!Status
<1> HIDE DEF s
<1>2. SE!RootVerdict(s) = FALSE
  BY <1>1 DEF SE!RootVerdict
<1>3. sign = [valid |-> FALSE, good |-> FALSE]
  BY <1>2, Zenon
<1> HIDE DEF sign
<1>4. sign \in SignatureSet /\ ~sign.valid /\ ~sign.good
  <2>1. sign \in SignatureSet
    BY <1>3, Zenon DEF SignatureSet
  <2>2. ~sign.valid /\ ~sign.good
    BY <1>3, Zenon
  <2> QED BY <2>1, <2>2
<1>5. SE!RootOnly(e) = <<sign>>
  BY DEF SE!RootOnly, sign, s
<1>6. <<sign>> \in Seq(SignatureSet) /\ <<sign>> # <<>> /\ DOMAIN <<sign>> = 1 .. 1 /\ <<sign>>[1] = sign
  BY <1>4
<1> QED BY <1>4, <1>5, <1>6

\* A check that ends with the root only, as something is wrong with it.
LEMMA EndsWithRoot ==
  ASSUME SignaturesInv, NEW e, walk' = walk, given' = given, pc' = "done",
         result' \in [answer : BOOLEAN, signatures : Seq(SignatureSet)], result'.signatures = SE!RootOnly(e)
  PROVE  SignaturesInv'
<1>1. walk = [left |-> walk.left, facts |-> walk.facts, status |-> walk.status]
  BY DEF SignaturesInv
<1> DEFINE root == SE!RootOnly(e)
<1>2. root # <<>> /\ DOMAIN root = 1 .. 1 /\ ~root[1].valid /\ ~root[1].good
  BY RootOnlyIsNo
<1>3. result'.signatures = root
  OBVIOUS
<1> HIDE DEF root
<1>4. 1 \in DOMAIN root /\ \A i \in DOMAIN root : i = 1
  BY <1>2
<1>5. ~SE!Verdict'
  BY <1>2, <1>3, <1>4 DEF SE!Verdict
<1>6. SE!VerdictJust'
  BY <1>2, <1>3, <1>4, <1>5 DEF SE!VerdictJust
<1>7. pc' \notin Looks \cup {"directory", "unauthenticated"}
  BY DEF Looks
<1> QED BY <1>1, <1>6, <1>7 DEF SignaturesInv

LEMMA Load == ASSUME SignaturesInv, SE!Load PROVE SignaturesInv'
<1>1. pc = "directory" /\ UNCHANGED <<given, walk, errors>>
  BY DEF SE!Load
<1>2. /\ walk = [left |-> walk.left, facts |-> walk.facts, status |-> walk.status]
      /\ result \in [answer : BOOLEAN, signatures : Seq(SignatureSet)]
      /\ walk.facts = SE!NoFacts /\ walk.status = SE!Status /\ result.signatures = <<>> /\ ~result.answer
      /\ SE!VerdictJust
  BY <1>1 DEF SignaturesInv
<1>3. CASE pc' = "done" /\ result' = result
  <2>1. SE!VerdictJust'
    BY <1>1, <1>2, <1>3 DEF SE!VerdictJust
  <2>2. pc' \notin Looks \cup {"directory", "unauthenticated"}
    BY <1>3 DEF Looks
  <2> QED BY <1>1, <1>2, <1>3, <2>1, <2>2 DEF SignaturesInv
<1>4. ASSUME NEW e, pc' = "done", result' = [answer |-> TRUE, signatures |-> SE!RootOnly(e)] PROVE SignaturesInv'
  <2> DEFINE root == SE!RootOnly(e)
  <2>1. root \in Seq(SignatureSet)
    BY RootOnlyIsNo
  <2>2. result' = [answer |-> TRUE, signatures |-> root]
    BY <1>4
  <2> HIDE DEF root
  <2>3. result' \in [answer : BOOLEAN, signatures : Seq(SignatureSet)]
    <3>1. TRUE \in BOOLEAN
      OBVIOUS
    <3> QED BY <2>1, <2>2, <3>1, Zenon
  <2>4. result'.signatures = root
    BY <2>2, Zenon
  <2> QED BY <1>1, <1>4, <2>3, <2>4, EndsWithRoot DEF root
<1>5. CASE given.directory = "signed" /\ result' = [result EXCEPT !.answer = TRUE] /\ pc' = "unauthenticated"
  <2>1. result' \in [answer : BOOLEAN, signatures : Seq(SignatureSet)]
    BY <1>2, <1>5, Zenon
  <2>2. result'.signatures = result.signatures /\ result'.answer
    BY <1>2, <1>5, Zenon
  <2>3. SE!VerdictJust'
    BY <1>2, <1>5, <2>2 DEF SE!VerdictJust
  <2>4. pc' \notin Looks \cup {"directory", "done"}
    BY <1>5 DEF Looks
  <2> QED BY <1>1, <1>2, <1>5, <2>1, <2>2, <2>3, <2>4 DEF SignaturesInv
<1>6. \/ pc' = "done" /\ result' = result
      \/ \E e : pc' = "done" /\ result' = [answer |-> TRUE, signatures |-> SE!RootOnly(e)]
      \/ given.directory = "signed" /\ result' = [result EXCEPT !.answer = TRUE] /\ pc' = "unauthenticated"
  <2>1. given.directory \in {"none", "bad", "empty", "undecodable", "signed"}
    BY <1>1 DEF SignaturesInv
  <2> QED BY <2>1 DEF SE!Load
<1> QED BY <1>3, <1>4, <1>5, <1>6

LEMMA Unauthenticated == ASSUME SignaturesInv, SE!Unauthenticated \/ SE!NestedUndecodable PROVE SignaturesInv'
<1>1. pc = "unauthenticated" /\ given' = given
  BY DEF SE!Unauthenticated, SE!NestedUndecodable
<1>2. /\ walk = [left |-> walk.left, facts |-> walk.facts, status |-> walk.status]
      /\ result \in [answer : BOOLEAN, signatures : Seq(SignatureSet)]
      /\ walk.facts = SE!NoFacts /\ walk.status = SE!Status /\ result.signatures = <<>> /\ result.answer
      /\ given.directory = "signed"
  BY <1>1 DEF SignaturesInv
<1>3. CASE result' = [result EXCEPT !.signatures = SE!RootOnly("duplicate_attribute_oid")] /\ pc' = "done" /\ walk' = walk
  <2> DEFINE root == SE!RootOnly("duplicate_attribute_oid")
  <2>1. root \in Seq(SignatureSet)
    BY RootOnlyIsNo
  <2>2. result' = [result EXCEPT !.signatures = root]
    BY <1>3
  <2> HIDE DEF root
  <2>3. result' \in [answer : BOOLEAN, signatures : Seq(SignatureSet)] /\ result'.signatures = root
    BY <1>2, <2>1, <2>2, Zenon
  <2> QED BY <1>1, <1>3, <2>3, EndsWithRoot DEF root
<1>4. ASSUME NEW nested \in 0 .. MaxNested, walk' = [walk EXCEPT !.left = nested + 1], pc' = "format", result' = result
      PROVE  SignaturesInv'
  <2>1. walk' = [left |-> nested + 1, facts |-> SE!NoFacts, status |-> SE!Status]
    BY <1>2, <1>4, Zenon
  <2>2. walk'.left = nested + 1 /\ walk'.facts = SE!NoFacts /\ walk'.status = SE!Status
        /\ walk' = [left |-> walk'.left, facts |-> walk'.facts, status |-> walk'.status]
    BY <2>1
  <2>3. walk'.left \in Nat \ {0}
    BY <2>2
  <2>4. Fine(pc, walk.facts, walk.status)'
    <3>1. Fine("format", SE!NoFacts, SE!Status)
      BY BlankIsFine
    <3>2. Reached("format", SE!NoFacts)'
      BY <3>1, <1>1 DEF Fine, Reached
    <3> QED BY <1>1, <1>4, <2>2, <3>1, <3>2 DEF Fine
  <2>5. SE!VerdictJust'
    BY <1>2, <1>4 DEF SE!VerdictJust
  <2>6. pc' \in Looks /\ pc' \notin {"directory", "unauthenticated", "throws", "done"}
    BY <1>4 DEF Looks
  <2> QED BY <1>1, <1>2, <1>4, <2>2, <2>3, <2>4, <2>5, <2>6 DEF SignaturesInv
<1>5. CASE SE!NestedUndecodable
  <2>1. pc' = "throws" /\ walk' = walk /\ result' = result
    BY <1>5 DEF SE!NestedUndecodable
  <2>2. pc' \notin Looks \cup {"directory", "unauthenticated", "done"}
    BY <2>1 DEF Looks
  <2>3. SE!VerdictJust'
    BY <1>2, <2>1 DEF SE!VerdictJust
  <2> QED BY <1>1, <1>2, <2>1, <2>2, <2>3 DEF SignaturesInv
<1> QED BY <1>3, <1>4, <1>5, Zenon DEF SE!Unauthenticated

LEMMA SignaturesStart == SE!SignaturesInit => SignaturesInv
<1> SUFFICES ASSUME SE!SignaturesInit PROVE SignaturesInv
  OBVIOUS
<1>0. given.directory \in {"none", "bad", "empty", "undecodable", "signed"}
  BY DEF SE!SignaturesInit
<1>1. /\ pc = "directory" /\ walk = [left |-> 0, facts |-> SE!NoFacts, status |-> SE!Status]
      /\ result = [answer |-> FALSE, signatures |-> <<>>]
  BY DEF SE!SignaturesInit
<1>2. walk.facts = SE!NoFacts /\ walk.status = SE!Status
      /\ walk = [left |-> walk.left, facts |-> walk.facts, status |-> walk.status]
  BY <1>1
<1>3. result.signatures = <<>> /\ ~result.answer
  BY <1>1
<1>4. result \in [answer : BOOLEAN, signatures : Seq(SignatureSet)]
  <2>1. <<>> \in Seq(SignatureSet) /\ FALSE \in BOOLEAN
    OBVIOUS
  <2> QED BY <1>1, <2>1, Zenon
<1>5. SE!VerdictJust
  BY <1>1, <1>3 DEF SE!VerdictJust
<1>6. pc \notin Looks \cup {"unauthenticated", "throws", "done"}
  BY <1>1 DEF Looks
<1> QED BY <1>0, <1>1, <1>2, <1>3, <1>4, <1>5, <1>6 DEF SignaturesInv

LEMMA SignaturesStep == SignaturesInv /\ SE!SignaturesNext => SignaturesInv'
  BY Load, Unauthenticated, LookForErrors, BuildStore, LookAtPages, HashImage, HashContent, VerifySignature,
     LoadStamp, LookAtStamp, LookAtStampAlgorithms, LookAtStampTime, HashStamp, HashStampContent, VerifyStamp,
     EndSignature, Zenon DEF SE!SignaturesNext

-----------------------------------------------------------------------------
(* All of them. *)

\* Where nothing is written an invariant stays: each of these expands what its invariant
\* reads of the variables.
LEMMA TrustletStutter == TrustletInv /\ UNCHANGED vars => TrustletInv'
  BY DEF vars, TrustletInv, TR!Place, TR!EntriesWhole, TR!LastRead

LEMMA DebugListStutter == DebugListInv /\ UNCHANGED vars => DebugListInv'
  BY DEF vars, DebugListInv, DE!DataFound

LEMMA CertificatesStutter == CertificatesInv /\ UNCHANGED vars => CertificatesInv'
  BY DEF vars, CertificatesInv, NothingReported, SE!CertificatesApart, SE!Va

LEMMA DotNetStutter == DotNetInv /\ UNCHANGED vars => DotNetInv'
  BY DEF vars, DotNetInv, NamedRegions, DN!NamesDistinct, DN!OnlyLastUnread,
     DN!LastRead

LEMMA LoadConfigStutter == LoadConfigInv /\ UNCHANGED vars => LoadConfigInv'
  BY DEF vars, LoadConfigInv, InPlace, EntryBytes, LC!EntrySize, LC!PointerSize,
     LC!Part, IsPrefixes, TableNamed, LC!Looked, LC!Va, LC!HasPointer,
     LC!CfInstrumented, LC!GuardFlags, LC!HasNumber, AllOf, Counted, LC!EntryCount,
     LC!Number, IsCf, LC!Fits, CountIsCut, LC!Clamped

LEMMA DebugDataStutter == DebugDataInv /\ UNCHANGED vars => DebugDataInv'
  BY DEF vars, DebugDataInv, AllRead, LastEntry, DE!GapAfter, DE!Contiguous,
     DE!LastRead, DE!Complete, DE!Buf, DE!OnlyLastUnread

LEMMA DynStutter == DynInv /\ UNCHANGED vars => DynInv'
  BY DEF vars, DynInv

LEMMA RichStutter == RichInv /\ UNCHANGED vars => RichInv'
  BY DEF vars, RichInv, RI!HeaderWhole

LEMMA SignaturesStutter == SignaturesInv /\ UNCHANGED vars => SignaturesInv'
  BY DEF vars, SignaturesInv, Fine, Reached, SE!VerdictJust, SE!Verdict

\* The invariant of the load a state belongs to.
DirectoriesInv ==
    /\ part = "load_config" => LoadConfigInv
    /\ part = "dynamic_relocations" => DynInv
    /\ part = "debug" => DebugListInv
    /\ part = "debug_data" => DebugDataInv
    /\ part = "rich" => RichInv
    /\ part = "dotnet" => DotNetInv
    /\ part = "trustlet" => TrustletInv
    /\ part = "certificates" => CertificatesInv
    /\ part = "authenticode" => SignaturesInv

LEMMA DirectoriesStart == Init => DirectoriesInv
  BY LoadConfigStart, DynamicStart, DebugListStart, DebugDataStart, RichStart, DotNetStart,
     TrustletStart, CertificatesStart, SignaturesStart DEF Init, DirectoriesInv

\* A step is one of the load that part names, and no other load's invariant is about it.
LEMMA DirectoriesStep == DirectoriesInv /\ Next => DirectoriesInv'
<1> SUFFICES ASSUME DirectoriesInv, Next PROVE DirectoriesInv'
  OBVIOUS
<1> part' = part
  BY DEF Next
<1>1. CASE part = "load_config" /\ LC!Next
  <2>1. LoadConfigInv'
    BY <1>1, LoadConfigStep DEF DirectoriesInv
  <2> QED BY <1>1, <2>1 DEF DirectoriesInv
<1>2. CASE part = "dynamic_relocations" /\ DR!Next
  <2>1. DynInv'
    BY <1>2, DynamicStep DEF DirectoriesInv
  <2> QED BY <1>2, <2>1 DEF DirectoriesInv
<1>3. CASE part = "debug" /\ DE!ListNext
  <2>1. DebugListInv'
    BY <1>3, DebugListStep DEF DirectoriesInv
  <2> QED BY <1>3, <2>1 DEF DirectoriesInv
<1>4. CASE part = "debug_data" /\ DE!DataNext
  <2>1. DebugDataInv'
    BY <1>4, DebugDataStep DEF DirectoriesInv
  <2> QED BY <1>4, <2>1 DEF DirectoriesInv
<1>5. CASE part = "rich" /\ RI!Next
  <2>1. RichInv'
    BY <1>5, RichStep DEF DirectoriesInv
  <2> QED BY <1>5, <2>1 DEF DirectoriesInv
<1>6. CASE part = "dotnet" /\ DN!Next
  <2>1. DotNetInv'
    BY <1>6, DotNetStep DEF DirectoriesInv
  <2> QED BY <1>6, <2>1 DEF DirectoriesInv
<1>7. CASE part = "trustlet" /\ TR!Next
  <2>1. TrustletInv'
    BY <1>7, TrustletStep DEF DirectoriesInv
  <2> QED BY <1>7, <2>1 DEF DirectoriesInv
<1>8. CASE part = "certificates" /\ SE!CertificatesNext
  <2>1. CertificatesInv'
    BY <1>8, CertificatesStep DEF DirectoriesInv
  <2> QED BY <1>8, <2>1 DEF DirectoriesInv
<1>9. CASE part = "authenticode" /\ SE!SignaturesNext
  <2>1. SignaturesInv'
    BY <1>9, SignaturesStep DEF DirectoriesInv
  <2> QED BY <1>9, <2>1 DEF DirectoriesInv
<1> QED BY <1>1, <1>2, <1>3, <1>4, <1>5, <1>6, <1>7, <1>8, <1>9 DEF Next

LEMMA DirectoriesStutter == DirectoriesInv /\ UNCHANGED vars => DirectoriesInv'
<1> SUFFICES ASSUME DirectoriesInv, UNCHANGED vars PROVE DirectoriesInv'
  OBVIOUS
<1> part' = part
  BY DEF vars
<1> QED BY LoadConfigStutter, DynStutter, DebugListStutter, DebugDataStutter, RichStutter, DotNetStutter,
           TrustletStutter, CertificatesStutter, SignaturesStutter DEF DirectoriesInv

\* The invariant holds in every state of every load.
THEOREM DirectoriesInvariant == Spec => []DirectoriesInv
<1>1. Init => DirectoriesInv
  BY DirectoriesStart
<1>2. DirectoriesInv /\ [Next]_vars => DirectoriesInv'
  BY DirectoriesStep, DirectoriesStutter
<1> QED BY <1>1, <1>2, PTL DEF Spec

\* What a loader keeps is whole: a table about which nothing is reported holds every entry
\* its header counts (load configuration), the debug entries' data, the streams of .NET
\* metadata, the policy and the certificates are those the headers place, and a cursor of
\* the nested dynamic relocations passes over no byte in silence.
THEOREM TablesAreWhole == Spec => []WholeTables
<1>1. DirectoriesInv => WholeTables
  BY LoadConfigWhole, VersionsAreKept, DebugListWhole, DebugDataIsWhole, RichProducts, DotNetWhole,
     TrustletWhole, CertificatesAreWhole, DynamicNested DEF DirectoriesInv, WholeTables, RichInv
<1> QED BY <1>1, DirectoriesInvariant, PTL

\* A signature is answered to be valid exactly if everything there is to say about it is:
\* the checks of verify_authenticode, in whichever of them it stops, give no other answer.
THEOREM VerdictsAreJust == Spec => []VerdictsJust
<1>1. DirectoriesInv => VerdictsJust
  BY DEF DirectoriesInv, VerdictsJust, SignaturesInv
<1> QED BY <1>1, DirectoriesInvariant, PTL

=============================================================================
