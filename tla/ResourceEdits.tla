---------------------------- MODULE ResourceEdits ----------------------------
(***************************************************************************)
(* A tree of resources that is looked up and changed by type, by id or name  *)
(* and by language: resource_directory.cpp, resource_reader.h and            *)
(* resource_writer.h.  The entries of all directories are one list, in which *)
(* each says which entry its directory is in; those of one directory are in  *)
(* their order.                                                              *)
(***************************************************************************)
EXTENDS Integers, Sequences, FiniteSets, FiniteSetsExt, TLC

CONSTANTS
    Trees,       \* the trees that a loader may have made
    ResourceIds, ResourceNames,  \* what entries are called, and
    MaxEdits     \* bounds the entries that are added

VARIABLES
    given,   \* [edits]: how many are left
    pc,      \* "editing" or "done"
    walk,    \* of the last call: [path, outcome, before]
    result,  \* the entries: [in, key, holds, value]
    errors

vars == <<given, pc, walk, result, errors>>

Root == 0
Missing == 0
Keys == ResourceIds \cup ResourceNames
Languages == ResourceIds
Path(type, key, language) == <<type, key, language>>

Init ==
    /\ given = [edits |-> MaxEdits] /\ pc = "editing" /\ errors = {}
    /\ result \in Trees
    /\ walk = [path |-> <<>>, outcome |-> "none", before |-> result]

-----------------------------------------------------------------------------
(* Looking up. *)

\* entry_iterator_by_id, entry_iterator_by_name: the first that is called so.
entry(tree) ==
    [in \in 0 .. Len(tree), key \in Keys |->
        LET found == {i \in DOMAIN tree : tree[i].in = in /\ tree[i].key = key}
        IN IF found = {} THEN Missing ELSE Min(found)]

\* entry_by_id, get_directory, get_data: what is thrown where there is no entry, or
\* it holds something else.
Step(tree, in, key, holds) ==
    LET i == entry(tree)[in, key] IN
    IF i = Missing THEN [at |-> Missing, thrown |-> "entry_does_not_exist"]
    ELSE IF tree[i].holds # holds
    THEN [at |-> Missing, thrown |-> IF holds = "data" THEN "entry_does_not_contain_data"
                                     ELSE "entry_does_not_contain_directory"]
    ELSE [at |-> i, thrown |-> "nothing"]

\* What follows the step before, if that did not throw.
Then(tree, step, key, holds) ==
    IF step.thrown # "nothing" THEN step ELSE Step(tree, step.at, key, holds)

\* get_resource_data_by_id, get_resource_data_by_name.
directory_by_path(tree, path) == Then(tree, Step(tree, Root, path[1], "directory"), path[2], "directory")
data_by_path(tree, path) == Then(tree, directory_by_path(tree, path), path[3], "data")

\* The same, by the place of the language in its directory.
Listed(tree, in) == {i \in DOMAIN tree : tree[i].in = in}
PlaceOf(tree, i) == Cardinality({j \in Listed(tree, tree[i].in) : j < i})
data_by_index(tree, path, index) ==
    LET dir == directory_by_path(tree, path)
        entries == Listed(tree, dir.at)
    IN IF dir.thrown # "nothing" THEN dir
       ELSE IF index >= Cardinality(entries) THEN [at |-> Missing, thrown |-> "entry_does_not_exist"]
       ELSE LET i == CHOOSE i \in entries : PlaceOf(tree, i) = index
            IN IF tree[i].holds = "data" THEN [at |-> i, thrown |-> "nothing"]
               ELSE [at |-> Missing, thrown |-> "entry_does_not_contain_data"]

\* for_each_resource: the data that are called by a language, below a directory that
\* is called by anything.
for_each_resource(tree, type) ==
    LET i == entry(tree)[Root, type] IN
    IF i = Missing \/ (i # Missing /\ tree[i].holds # "directory") THEN {}
    ELSE {k \in DOMAIN tree :
            /\ tree[k].holds = "data" /\ tree[k].key \in Languages
            /\ tree[k].in # Root
            /\ LET dir == tree[tree[k].in]
               IN dir.in = i /\ dir.holds = "directory" /\ dir.key \in Keys}

-----------------------------------------------------------------------------
(* Changing. *)

\* try_emplace_entry: an entry that is not there is added at the end; one that holds
\* nothing is given contents; one that holds something else is left as it is.
Emplaced(tree, in, key, holds) ==
    LET i == entry(tree)[in, key] IN
    IF i = Missing
    THEN [tree |-> Append(tree, [in |-> in, key |-> key, holds |-> holds, value |-> "empty"]),
          at |-> Len(tree) + 1, thrown |-> "nothing"]
    ELSE IF tree[i].holds = "nothing"
    THEN [tree |-> [tree EXCEPT ![i].holds = holds], at |-> i, thrown |-> "nothing"]
    ELSE [tree |-> tree] @@ Step(tree, in, key, holds)

ThenEmplaced(step, key, holds) ==
    IF step.thrown # "nothing" THEN step ELSE Emplaced(step.tree, step.at, key, holds)

\* try_emplace_resource_data_by_id, try_emplace_resource_data_by_name: three levels, of
\* which the ones that are missing are made.
try_emplace(tree, path) ==
    ThenEmplaced(ThenEmplaced(Emplaced(tree, Root, path[1], "directory"), path[2], "directory"),
                 path[3], "data")

\* The caller fills the entry it is given.
Emplace ==
    /\ pc = "editing" /\ given.edits > 0
    /\ \E type, language \in ResourceIds, key \in Keys :
       \E made \in {try_emplace(result, Path(type, key, language))} :
        /\ result' = IF made.thrown # "nothing" THEN made.tree
                     ELSE [made.tree EXCEPT ![made.at].value = "new"]
        /\ walk' = [path |-> Path(type, key, language), outcome |-> made.thrown, before |-> result]
        /\ errors' = IF made.thrown # "nothing" THEN {made.thrown} ELSE {}
    /\ given' = [given EXCEPT !.edits = @ - 1] /\ UNCHANGED pc

EditsEnd == pc = "editing" /\ pc' = "done" /\ UNCHANGED <<given, walk, result, errors>>

Next == Emplace \/ EditsEnd

-----------------------------------------------------------------------------
(* What is checked. *)

Paths == {Path(type, key, language) : type \in ResourceIds, key \in Keys, language \in Languages}

\* A call that is refused leaves nothing of the path it was given behind.
RefusalLeavesNothing ==
    walk.outcome \notin {"none", "nothing"} => result = walk.before

\* What was added is found by its path, and every other path finds what it found.
FoundAgain ==
    walk.outcome = "nothing" =>
        \A path \in Paths :
            IF path = walk.path
            THEN LET found == data_by_path(result, path)
                 IN found.thrown = "nothing" /\ result[found.at].value = "new"
            ELSE LET was == data_by_path(walk.before, path)
                     is == data_by_path(result, path)
                 IN /\ is.at = was.at
                    /\ was.at # Missing => result[is.at] = walk.before[was.at]

\* What a path finds is among what the walk over its type visits, and the place of a
\* language in its directory leads to it too.
WaysAgree ==
    \A path \in Paths :
        LET found == data_by_path(result, path) IN
        found.thrown = "nothing" =>
            /\ found.at \in for_each_resource(result, path[1])
            /\ data_by_index(result, path, PlaceOf(result, found.at)).at = found.at

TreeKept == RefusalLeavesNothing /\ FoundAgain /\ WaysAgree

=============================================================================
