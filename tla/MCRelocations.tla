---------------------------- MODULE MCRelocations ----------------------------
(***************************************************************************)
(* The relocations of an image: a directory is loaded, built and loaded     *)
(* again, and an image is moved to other bases by the list that was loaded, *)
(* or by one that a caller put together.                                    *)
(***************************************************************************)
EXTENDS Relocations

CONSTANTS
  TypeNames,    \* the relocation types by their numbers
  MovedImages   \* images moved by a loaded list: cases but for their entries

allVars == <<vars, rebaseVars>>

(* What rebase sees of a list: the entries of all blocks, in order.        *)
EntriesOf(blocks) ==
  FlattenSeq([i \in DOMAIN blocks |->
    [k \in DOMAIN blocks[i].entries |->
      LET e == blocks[i].entries[k] IN
      [page |-> blocks[i].va, address |-> e.half % TypeUnit, type |-> TypeNames[TypeOf(e.half)],
       param |-> IF e.param = None THEN NoParam ELSE e.param[1]]]])

-----------------------------------------------------------------------------
IdleLoad ==
  /\ file = [start |-> 0, bytes |-> <<>>, virt |-> 0, rva |-> 0, size |-> 0, virtual |-> FALSE]
  /\ phase = "unused" /\ cur = 0 /\ count = 0 /\ list = <<>> /\ errors = {}
  /\ previous = <<>> /\ aligned = FALSE /\ rebuilds = 0

NoImage == [start |-> 0, bytes |-> <<>>, virt |-> 0, base |-> 0, bases |-> {}, entries |-> <<>>]

IdleRebase ==
  /\ given = NoImage /\ bytes = <<>> /\ base = 0 /\ step = Idle /\ ahead = <<>> /\ calls = 0

RelocationsInit ==
  \/ Init /\ IdleRebase
  \/ RebaseInit /\ IdleLoad

(* The caller hands the list to rebase, whatever errors its entries have.  *)
HandOver ==
  /\ phase = "returned" /\ given = NoImage /\ list # <<>>
  /\ \E i \in MovedImages :
       /\ given' = [i EXCEPT !.entries = EntriesOf(list)]
       /\ bytes' = i.bytes /\ base' = i.base
  /\ ahead' = [k \in DOMAIN given'.entries |-> 0]
  /\ phase' = "unused"
  /\ UNCHANGED <<file, cur, count, list, errors, previous, aligned, rebuilds>>
  /\ UNCHANGED <<step, calls>>

RelocationsNext ==
  \/ Next /\ UNCHANGED rebaseVars
  \/ RebaseNext /\ UNCHANGED vars
  \/ HandOver

(* load does not wait for anything, nor does rebase.                       *)
LoadOn == Load /\ UNCHANGED rebaseVars
RebaseOn == (Relocate \/ ThrowAt \/ SetBase) /\ UNCHANGED vars

RelocationsSpec ==
  RelocationsInit /\ [][RelocationsNext]_allVars /\ WF_allVars(LoadOn) /\ WF_allVars(RebaseOn)

-----------------------------------------------------------------------------
(* load comes to an end on any bytes, the sizes in the blocks never make   *)
(* it stand still; and a call of rebase comes to an end on what it loaded. *)
Ended ==
  /\ <>[](phase \in {"returned", "thrown", "unused"})
  /\ <>[](step = Idle)

-----------------------------------------------------------------------------
(* The instance. *)

Plain == 5       \* type 1
Adjusted == 9    \* type 2, highadj
Unknown == 12    \* type 3, not supported

Lists(n) == UNION {[1..k -> {0, Plain, Adjusted, Unknown}] : k \in 0..n}

Raw(va, size, halves) ==
  WordBytes(va) \o WordBytes(size) \o FlattenSeq([i \in DOMAIN halves |-> HalfBytes(halves[i])])

RawFile(start, data, virt, size, virtual) ==
  [start |-> start, bytes |-> data, virt |-> virt, rva |-> start, size |-> size,
   virtual |-> virtual]

(* One block with every list of up to three entries.                       *)
OneBlock ==
  {RawFile(start, Raw(6, size, halves), virt, dir, virt > 0) :
     start \in {0, 2}, size \in {8, 10, 12, 14}, halves \in Lists(3), virt \in {0, 3},
     dir \in {8, 12, 13, 14}}

(* Two blocks, the sizes of which may lie about them.                      *)
TwoBlocks ==
  {RawFile(0, Raw(4, first, one) \o Raw(7, second, two), 0, dir, FALSE) :
     first \in {0, 4, 8, 9, 10, 11, 12, 20, 255}, second \in {0, 8, 10, 12, 253, 254},
     one \in {<<>>, <<Plain>>, <<Adjusted>>, <<Plain, Adjusted>>, <<Adjusted, 3>>},
     two \in {<<>>, <<Plain>>, <<Adjusted, Plain>>},
     dir \in {18, 20, 22, 24}}

(* At the end of the address space.                                        *)
LastBlocks ==
  {RawFile(start, Raw(6, size, halves), 0, dir, FALSE) :
     start \in {236, 240, 245, 247}, size \in {7, 8, 10, 12, 13, 15},
     halves \in {<<Plain>>, <<Adjusted, 1>>, <<Plain, Adjusted>>}, dir \in 1..16}

MCFiles == OneBlock \cup TwoBlocks \cup LastBlocks

-----------------------------------------------------------------------------
(* Images for rebase.                                                      *)

E(page, address, type) == [page |-> page, address |-> address, type |-> type, param |-> NoParam]

A(page, address, param) ==
  [page |-> page, address |-> address, type |-> "highadj", param |-> param]

(* Entries in the image, over its end, behind it, and past the last RVA.   *)
Pool ==
  {E(1, 0, "absolute"), E(1, 0, "high"), E(1, 1, "low"), E(1, 2, "highlow"), E(2, 5, "highlow"),
   E(1, 0, "dir64"), E(2, 6, "low"), E(0, 0, "low"), E(2, 11, "low"), E(255, 8, "low"),
   E(1, 6, "other"),
   A(1, 0, 0), A(1, 4, 1), A(1, 4, 9), A(1, 4, NoParam), A(2, 6, 2)}

MovedLists == {<<e>> : e \in Pool} \cup {<<d, e>> : d \in Pool, e \in Pool}
           \cup {<<E(1, 0, "high"), A(1, 2, 1), f>> : f \in Pool}

Memory == {<<1, 0, 3, 2, 0, 1, 3, 0>>, <<3, 3, 3, 3, 3, 3, 3, 3>>}

MCCases ==
  {[start |-> 1, bytes |-> mem, virt |-> virt, base |-> 32, bases |-> bases, entries |-> l] :
     mem \in Memory, virt \in {0, 4}, bases \in {{32, 16, 65520}, {32, 7, 4000}}, l \in MovedLists}

(* Relocations of a loaded list are at the pages 6, 4 and 7.               *)
MCMoved ==
  {[start |-> 5, bytes |-> <<1, 0, 3, 2, 0, 1>>, virt |-> 1, base |-> 32, bases |-> {32, 48},
    entries |-> <<>>]}

MCTypeNames == [t \in 0..3 |-> CASE t = 0 -> "absolute" [] t = 1 -> "low" [] t = 2 -> "highadj" [] OTHER -> "other"]

=============================================================================
