-------------------------- MODULE MCResourceLoader --------------------------
(* Files for ResourceLoader: three directories that refer to each other in *)
(* every way, and single directories with every list of names.             *)
EXTENDS ResourceLoader

Id(n) == [kind |-> "id", value |-> n, end |-> 0]
Name(n, end) == [kind |-> "name", value |-> n, end |-> end]

Named(name, directory, offset) ==
  [name |-> name, string |-> name.kind # "id", directory |-> directory, offset |-> offset]

(* Directories at 0, 4 and 8, data entries at 12 (whose data is there) and *)
(* 13 (whose data is not); nothing else can be read, and 31 is past the    *)
(* last RVA for every root but 0.                                          *)
Targets == {Named(Id(1), TRUE, o) : o \in {0, 4, 8, 20}} \cup {Named(Id(1), FALSE, 12)}

Second(e) == [e EXCEPT !.name = Id(2)]

AllData ==
  [r \in {12, 13} |-> IF r = 12 THEN [rva |-> 14, size |-> 2, there |-> TRUE]
                      ELSE [rva |-> 24, size |-> 3, there |-> FALSE]]

Graph(a, b, c, d, e, size) ==
  [root |-> 0, size |-> size,
   dirs |-> [r \in {0, 4, 8} |-> [named |-> 0, ids |-> IF r = 8 THEN 1 ELSE 2]],
   entries |-> [r \in {2, 3, 6, 7, 10} |->
                  CASE r = 2 -> a [] r = 3 -> Second(b)
                    [] r = 6 -> c [] r = 7 -> Second(d) [] r = 10 -> e],
   data |-> AllData]

GraphFiles ==
  {Graph(a, b, c, d, e, 16) : a \in Targets, b \in Targets, c \in Targets, d \in Targets,
                              e \in Targets}

EntryNames == {Id(1), Id(2), Name(1, 9), Name(2, 18), NoName}

(* One directory of three entries, of which the last may not be there.     *)
Flat(root, names, named, k, target) ==
  [root |-> root, size |-> 16,
   dirs |-> [r \in {root} |-> [named |-> named, ids |-> 3 - named]],
   entries |-> [r \in (root + 2)..(root + 1 + k) |->
                  Named(names[r - root - 1], FALSE, target)],
   data |-> AllData]

NameFiles ==
  {Flat(0, names, named, k, target) :
     names \in [1..3 -> EntryNames], named \in 0..2, k \in {2, 3}, target \in {12, 13, 20}}

(* A directory at the end of the address space, and a size past it.        *)
LastFiles ==
  {[Flat(root, [i \in 1..3 |-> Id(i)], 0, k, 29) EXCEPT !.size = size, !.entries[root + 2] = e] :
     root \in {27, 28}, k \in {2, 3}, size \in {2, 16},
     e \in {Named(Id(1), TRUE, 20), Named(Name(1, 30), FALSE, 2), Named(NoName, TRUE, 0)}}

MCFiles == GraphFiles \cup NameFiles \cup LastFiles
=============================================================================
