--------------------------- MODULE ResourceLoader ---------------------------
(***************************************************************************)
(* resources::load: the tree of resource directories, read depth first.    *)
(* Directories are found by the RVAs their entries give, so a directory    *)
(* may be reached twice, or reach itself: the RVAs of the directories now  *)
(* being read are kept in a set, and an entry that leads to one of them    *)
(* keeps the RVA instead of a directory.                                   *)
(*                                                                         *)
(* The recursion of the code is the stack of this module.  The tree built  *)
(* is a function from paths (the positions of the entries from the root    *)
(* on) to what the entry at that path holds; the root is at <<>>.          *)
(***************************************************************************)
EXTENDS Integers, Sequences, FiniteSets

CONSTANTS
  Files,          \* what the resource section may hold where
  U32Max,         \* the largest rva_type
  DirectorySize, EntrySize, DataEntrySize   \* packed sizes

U32 == 0..U32Max

Contents == {"nothing", "directory", "data", "link"}

Errors == {"size", "directory", "entry", "name", "data_entry", "raw_data",
           "unsorted", "duplicates", "number"}

(* A name that cannot be read, or lies past the last RVA, is "none".       *)
Names == [kind : {"none", "id", "name"}, value : Nat, end : Nat]

Entries == [name : Names, string : BOOLEAN, directory : BOOLEAN, offset : U32]

Data == [rva : U32, size : U32, there : BOOLEAN]

(* By RVA: the descriptors, entries and data entries that can be read, and *)
(* whether the data a data entry describes is there.                       *)
IsFile(f) ==
  /\ f.root \in U32 /\ f.size \in U32
  /\ DOMAIN f.dirs \subseteq U32
  /\ \A r \in DOMAIN f.dirs : f.dirs[r] \in [named : Nat, ids : Nat]
  /\ \A r \in DOMAIN f.entries : f.entries[r] \in Entries
  /\ \A r \in DOMAIN f.data : f.data[r] \in Data

ASSUME ResourceAssumption ==
  /\ U32Max \in Nat
  /\ DirectorySize \in Nat /\ EntrySize \in Nat /\ DataEntrySize \in Nat
  /\ \A f \in Files : IsFile(f)

VARIABLES
  file,     \* the file read
  stack,    \* the calls of load_resource_directory, the current one last
  visited,  \* visited_directories
  tree,     \* the entries made so far, by path
  maxRva,   \* the end of all that was read
  done      \* load has returned

vars == <<file, stack, visited, tree, maxRva, done>>

Paths == Seq(Nat \ {0})

Frames ==
  [path : Paths, rva : U32, pos : U32, read : Nat, named : Nat,
   step : {"descriptor", "entries", "advance", "leaving"}]

Nodes == [is : Contents, name : Names, rva : U32, errors : SUBSET Errors]

NoName == [kind |-> "none", value |-> 0, end |-> 0]

Node(content, name, rva, errors) ==
  [is |-> content, name |-> name, rva |-> rva, errors |-> errors]

Frame(path, rva) ==
  [path |-> path, rva |-> rva, pos |-> rva, read |-> 0, named |-> 0, step |-> "descriptor"]

Top == stack[Len(stack)]

Count == file.dirs[Top.rva].named + file.dirs[Top.rva].ids

Larger(x, y) == IF x < y THEN y ELSE x

Extend(t, path, node) == [p \in DOMAIN t \cup {path} |-> IF p = path THEN node ELSE t[p]]

AddErrors(t, path, errors) == [t EXCEPT ![path].errors = @ \cup errors]

-----------------------------------------------------------------------------
(* One call of load_resource_directory.                                    *)

Init ==
  /\ file \in Files
  /\ stack = <<Frame(<<>>, file.root)>>
  /\ visited = {file.root}
  /\ tree = [p \in {<<>>} |-> Node("directory", NoName, file.root, {})]
  /\ maxRva = file.root
  /\ done = FALSE

Replace(frame) == stack' = [stack EXCEPT ![Len(stack)] = frame]

(* Faulty: the guard refers to current_rva, which has moved on.            *)
ReturnErasingCurrent ==
  /\ stack' = SubSeq(stack, 1, Len(stack) - 1)
  /\ visited' = visited \ {Top.pos}

(* The scoped_guard holds the RVA the call began with.                     *)
Return ==
  /\ stack' = SubSeq(stack, 1, Len(stack) - 1)
  /\ visited' = visited \ {Top.rva}

ReadDescriptor ==
  /\ stack # <<>> /\ Top.step = "descriptor"
  /\ IF Top.rva \notin DOMAIN file.dirs \/ Top.rva + DirectorySize > U32Max
     THEN /\ tree' = AddErrors(tree, Top.path, {"directory"})
          /\ Return
          /\ UNCHANGED maxRva
     ELSE /\ Replace([Top EXCEPT !.pos = Top.rva + DirectorySize, !.step = "entries"])
          /\ maxRva' = Larger(maxRva, Top.rva + DirectorySize)
          /\ UNCHANGED <<visited, tree>>
  /\ UNCHANGED <<file, done>>

(* What the entry is named; name_or_id is an RVA when its top bit is set.  *)
NameOf(e) == IF e.string /\ e.name.kind # "name" THEN NoName ELSE e.name

Target(e) == file.root + e.offset

DataErrors(e) ==
  IF Target(e) > U32Max \/ Target(e) \notin DOMAIN file.data THEN {"data_entry"}
  ELSE IF file.data[Target(e)].there THEN {} ELSE {"raw_data"}

DataEnd(e) ==
  IF "data_entry" \in DataErrors(e) THEN 0
  ELSE LET d == file.data[Target(e)] IN Larger(Target(e) + DataEntrySize, d.rva + d.size)

(* load_resource_directory_entry: the entry is made before it is read.     *)
EntryUnread(path) ==
  /\ Top.pos \notin DOMAIN file.entries
  /\ tree' = Extend(tree, path, Node("nothing", NoName, 0, {"entry"}))
  /\ Replace([Top EXCEPT !.step = "leaving"])
  /\ UNCHANGED <<visited, maxRva>>

(* Faulty: an entry whose name cannot be read ends the directory.          *)
EntryUnnamedLeaves(path, e) ==
  /\ e.string /\ NameOf(e) = NoName
  /\ tree' = Extend(tree, path, Node("nothing", NoName, 0, {"name"}))
  /\ Replace([Top EXCEPT !.step = "leaving"])
  /\ UNCHANGED <<visited, maxRva>>

EntryUnnamed(path, e) ==
  /\ e.string /\ NameOf(e) = NoName
  /\ tree' = Extend(tree, path, Node("nothing", NoName, 0, {"name"}))
  /\ Replace([Top EXCEPT !.step = "advance"])
  /\ UNCHANGED <<visited, maxRva>>

EntryDirectory(path, e) ==
  /\ e.string => NameOf(e) # NoName
  /\ e.directory
  /\ maxRva' = Larger(maxRva, NameOf(e).end)
  /\ LET back == [Top EXCEPT !.step = "advance"] IN
     \/ /\ Target(e) > U32Max
        /\ tree' = Extend(tree, path, Node("directory", NameOf(e), 0, {"directory"}))
        /\ Replace(back) /\ UNCHANGED visited
     \/ /\ Target(e) \in visited
        /\ tree' = Extend(tree, path, Node("link", NameOf(e), Target(e), {}))
        /\ Replace(back) /\ UNCHANGED visited
     \/ /\ Target(e) <= U32Max /\ Target(e) \notin visited
        /\ tree' = Extend(tree, path, Node("directory", NameOf(e), Target(e), {}))
        /\ stack' = Append([stack EXCEPT ![Len(stack)] = back], Frame(path, Target(e)))
        /\ visited' = visited \cup {Target(e)}

EntryData(path, e) ==
  /\ e.string => NameOf(e) # NoName
  /\ ~e.directory
  /\ tree' = Extend(tree, path,
                    Node("data", NameOf(e), IF Target(e) > U32Max THEN 0 ELSE Target(e),
                         DataErrors(e)))
  /\ maxRva' = Larger(Larger(maxRva, NameOf(e).end), DataEnd(e))
  /\ Replace([Top EXCEPT !.step = "advance"])
  /\ UNCHANGED visited

ReadEntry ==
  /\ stack # <<>> /\ Top.step = "entries" /\ Top.read # Count
  /\ LET path == Append(Top.path, Top.read + 1)
         e == file.entries[Top.pos]
     IN  \/ EntryUnread(path)
         \/ /\ Top.pos \in DOMAIN file.entries
            /\ EntryUnnamed(path, e) \/ EntryDirectory(path, e) \/ EntryData(path, e)
  /\ UNCHANGED <<file, done>>

(* Faulty: on to the next turn of the loop before i is incremented.        *)
AdvanceWithoutCounting ==
  /\ stack # <<>> /\ Top.step = "advance"
  /\ Replace([Top EXCEPT !.step = "entries"])
  /\ UNCHANGED <<file, visited, tree, maxRva, done>>

(* Faulty: an RVA past the last one.                                       *)
AdvanceUnchecked ==
  /\ stack # <<>> /\ Top.step = "advance"
  /\ Replace([Top EXCEPT !.step = "entries", !.read = @ + 1, !.pos = @ + EntrySize])
  /\ UNCHANGED <<file, visited, tree, maxRva, done>>

Advance ==
  /\ stack # <<>> /\ Top.step = "advance"
  /\ LET path == Append(Top.path, Top.read + 1)
         named == Top.named + (IF tree[path].name.kind = "name" THEN 1 ELSE 0)
     IN  IF Top.pos + EntrySize > U32Max
         THEN /\ tree' = AddErrors(tree, path, {"entry"})
              /\ Replace([Top EXCEPT !.named = named, !.step = "leaving"])
         ELSE /\ Replace([Top EXCEPT !.named = named, !.step = "entries",
                                     !.read = @ + 1, !.pos = @ + EntrySize])
              /\ UNCHANGED tree
  /\ UNCHANGED <<file, visited, maxRva, done>>

-----------------------------------------------------------------------------
(* The checks a directory is left with.                                    *)

ChildrenOf(t, path) == {p \in DOMAIN t : p # <<>> /\ SubSeq(p, 1, Len(p) - 1) = path}

NamesOf(t, path) ==
  [i \in 1..Cardinality(ChildrenOf(t, path)) |-> t[Append(path, i)].name]

(* The variant's order: no name, then IDs, then names; is_sorted's         *)
(* comparator puts names first.                                            *)
KindOrder(n) == CASE n.kind = "none" -> 0 [] n.kind = "id" -> 1 [] n.kind = "name" -> 2

SameName(l, r) == l.kind = r.kind /\ (l.kind # "none" => l.value = r.value)

VariantLess(l, r) ==
  \/ KindOrder(l) < KindOrder(r)
  \/ l.kind = r.kind /\ l.kind # "none" /\ l.value < r.value

Precedes(l, r) ==
  IF (l.kind = "name") = (r.kind = "name") THEN VariantLess(l, r) ELSE l.kind = "name"

Sorted(names) == \A i \in 1..(Len(names) - 1) : ~Precedes(names[i + 1], names[i])

Duplicates(names) == \E i \in 1..(Len(names) - 1) : SameName(names[i], names[i + 1])

DirectoryErrors(names, named) ==
  (IF ~Sorted(names) THEN {"unsorted"} ELSE IF Duplicates(names) THEN {"duplicates"} ELSE {})
    \cup (IF named # file.dirs[Top.rva].named THEN {"number"} ELSE {})

LeaveDirectory ==
  /\ stack # <<>>
  /\ Top.step = "leaving" \/ (Top.step = "entries" /\ Top.read = Count)
  /\ tree' = AddErrors(tree, Top.path, DirectoryErrors(NamesOf(tree, Top.path), Top.named))
  /\ maxRva' = Larger(maxRva, Top.pos)
  /\ Return
  /\ UNCHANGED <<file, done>>

(* A size that overflows counts as no size.                                *)
LastRva == IF file.root + file.size > U32Max THEN file.root ELSE file.root + file.size

Finish ==
  /\ stack = <<>> /\ ~done
  /\ done' = TRUE
  /\ tree' = IF file.root + file.size > U32Max \/ maxRva > LastRva
             THEN AddErrors(tree, <<>>, {"size"}) ELSE tree
  /\ UNCHANGED <<file, stack, visited, maxRva>>

Next == ReadDescriptor \/ ReadEntry \/ Advance \/ LeaveDirectory \/ Finish

(* Nothing in load waits: it goes on until it returns.                     *)
Spec == Init /\ [][Next]_vars /\ WF_vars(Next)

-----------------------------------------------------------------------------
TypeOK ==
  /\ IsFile(file)
  /\ stack \in Seq(Frames)
  /\ visited \subseteq U32
  /\ DOMAIN tree \subseteq Paths /\ \A p \in DOMAIN tree : tree[p] \in Nodes
  /\ maxRva \in Nat
  /\ done \in BOOLEAN

(* visited_directories holds the directories now being read, no others,    *)
(* and none of them is being read twice.                                   *)
VisitedIsStack ==
  /\ visited = {stack[i].rva : i \in DOMAIN stack}
  /\ \A i, j \in DOMAIN stack : stack[i].rva = stack[j].rva => i = j

Above(p) == {SubSeq(p, 1, n) : n \in 0..(Len(p) - 1)}

(* An entry is cut to an RVA exactly when its directory is one of those it *)
(* lies in: a loop is never followed, and a directory that is only shared  *)
(* is read in full at each place.                                          *)
LoopsAreCut ==
  \A p \in DOMAIN tree :
    /\ tree[p].is = "link" =>
         \E q \in Above(p) : q \in DOMAIN tree /\ tree[q].is = "directory"
                               /\ tree[q].rva = tree[p].rva
    /\ tree[p].is = "directory" /\ "directory" \notin tree[p].errors =>
         \A q \in Above(p) : tree[q].is = "directory" /\ tree[q].rva # tree[p].rva

(* What the finished tree holds: a directory that could be read has every  *)
(* entry it says it has, unless the last one carries the error that ended  *)
(* it; and each entry holds what the file has for it.                      *)
NothingSkipped ==
  done =>
    \A p \in DOMAIN tree :
      tree[p].is = "directory" /\ "directory" \notin tree[p].errors =>
        LET d == file.dirs[tree[p].rva]
            n == Cardinality(ChildrenOf(tree, p))
            At(i) == tree[p].rva + DirectorySize + (i - 1) * EntrySize
        IN  /\ ChildrenOf(tree, p) = {Append(p, i) : i \in 1..n}
            /\ n = d.named + d.ids \/ (n > 0 /\ "entry" \in tree[Append(p, n)].errors)
            /\ \A i \in 1..n :
                 LET c == tree[Append(p, i)]
                     e == file.entries[At(i)]
                 IN  c.is # "nothing" =>
                       /\ c.name = e.name
                       /\ c.is \in (IF e.directory THEN {"directory", "link"} ELSE {"data"})
                       /\ Target(e) <= U32Max => c.rva = Target(e)

(* However the directories refer to each other, load returns.              *)
Terminates == <>done

=============================================================================
