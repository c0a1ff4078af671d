------------------------------ MODULE RefBuffer ------------------------------
(***************************************************************************)
(* buffers::ref_buffer: the handle every section, overlay, DOS stub and    *)
(* header buffer of an image is built from.  A handle either owns a        *)
(* container ("copied") or refers to somebody else's buffer ("ref");       *)
(* copying a handle never copies bytes, it makes the copy refer to the     *)
(* original's buffer.                                                      *)
(*                                                                         *)
(* Buffer objects live in cells: Sources are the caller's own buffers,     *)
(* Cells the containers ref_buffers allocate.  A byte is a number; 0 is    *)
(* what an input_virtual_buffer reads past its physical end.               *)
(***************************************************************************)
EXTENDS Integers, Sequences, FiniteSets

CONSTANTS
  Buffers,    \* the ref_buffer objects
  Cells,      \* containers they may allocate
  Sources,    \* buffers of the caller, passed to deserialize
  Streams,    \* the Sources backed by an istream, whose reads may fail
  Data,       \* byte values the caller writes
  MaxLen,     \* bound: physical bytes of one buffer
  Windows,    \* bound: offset and length of the sections taken of a buffer
  MaxVirt,    \* bound: virtual bytes of one source
  ChunkSize,  \* temp_buffer_size of buffers::copy
  SizeMax     \* the largest size_t; also npos

ASSUME ObjectsAssumption == /\ Buffers # {}
                            /\ Sources \cap Cells = {}
                            /\ Buffers \cap Sources = {}
                            /\ Streams \subseteq Sources
ASSUME SizesAssumption == /\ Data \subseteq Nat
                          /\ Windows \subseteq Nat \X Nat
                          /\ MaxLen \in Nat /\ MaxVirt \in Nat
                          /\ ChunkSize \in Nat \ {0}
                          /\ SizeMax \in Nat /\ MaxLen + MaxVirt <= SizeMax

VARIABLES
  heap,    \* cell -> its physical bytes and the virtual bytes behind them
  handle,  \* ref_buffer -> the alternative it holds and what it sees
  last     \* the last call: which one, on whom, and whether it threw

vars == <<heap, handle, last>>

Objects == Cells \cup Sources

Strings == UNION {[1..n -> Data] : n \in 0..MaxLen}

Contents == [phys : Strings, virt : Nat]

EmptyCell == [phys |-> <<>>, virt |-> 0]

Ops == {"none", "deserialize", "window", "assign", "move",
        "copy_referenced_buffer", "edit", "caller"}

(* A handle sees all of a cell (whole) or a fixed window of it, an         *)
(* input_buffer_section, whose length and virtual length were computed     *)
(* when the window was made.  "moved" is what std::move leaves behind.     *)
Handles == [kind : {"copied", "ref", "moved"}, cell : Objects,
            whole : BOOLEAN, off : Nat, len : Nat, virt : Nat]

Whole(k, c) == [kind |-> k, cell |-> c, whole |-> TRUE,
                off |-> 0, len |-> 0, virt |-> 0]

Live(b) == handle[b].kind # "moved"

Lesser(x, y) == IF x < y THEN x ELSE y

Phys(c) == Len(heap[c].phys)

Total(c) == Phys(c) + heap[c].virt

ByteAt(c, i) == IF i <= Phys(c) THEN heap[c].phys[i] ELSE 0

(* size(), virtual_size() and physical_size() of the buffer behind v.      *)
SizeOf(v) == IF v.whole THEN Total(v.cell) ELSE v.len

VirtOf(v) == IF v.whole THEN heap[v.cell].virt ELSE v.virt

PhysOf(v) == SizeOf(v) - VirtOf(v)

(* Bytes the underlying buffer still has from the start of v: a window     *)
(* reads through to its cell, which throws buffer_overrun past its end.    *)
Reach(v) == Total(v.cell) - v.off

Readable(v) == SizeOf(v) <= Reach(v)

Bytes(v, n) == [i \in 1..n |-> ByteAt(v.cell, v.off + i)]

(* What a read of n bytes reports: those that were physical.               *)
PhysicalRead(v, n) ==
  LET there == Phys(v.cell) - v.off
  IN  IF there < 0 THEN 0 ELSE Lesser(n, there)

Content(v) == Bytes(v, SizeOf(v))

(* input_buffer_section(buf, o, n) over the buffer v.                      *)
Window(v, o, n) ==
  LET end == o + n
      virt == IF end > PhysOf(v) THEN Lesser(end - PhysOf(v), n) ELSE 0
  IN  [kind |-> "ref", cell |-> v.cell, whole |-> FALSE,
       off |-> v.off + o, len |-> n, virt |-> virt]

(***************************************************************************)
(* serialize and serialize_until: const, so operators and not actions.     *)
(* buffers::copy moves ChunkSize bytes at a time, so a read that throws    *)
(* leaves the chunks before it in the output.                              *)
(***************************************************************************)
Copied(v, pos, n) ==
  LET reach == Reach(v) - pos
      whole == IF reach < 0 THEN 0 ELSE (reach \div ChunkSize) * ChunkSize
      done  == IF n <= reach THEN n ELSE whole
  IN  [ok |-> done = n, out |-> [i \in 1..done |-> ByteAt(v.cell, v.off + pos + i)]]

Serialize(v, virtual) == Copied(v, 0, IF virtual THEN SizeOf(v) ELSE PhysOf(v))

(* Faulty: npos means the whole size, not the rest from pos.               *)
SerializeUntilWhole(v, pos, size, virtual) ==
  LET ref == IF virtual THEN SizeOf(v) ELSE PhysOf(v)
      n   == IF size # SizeMax THEN size ELSE ref
  IN  IF n > 0 /\ n + pos > ref THEN [ok |-> FALSE, out |-> <<>>]
      ELSE Copied(v, pos, n)

SerializeUntil(v, pos, size, virtual) ==
  LET ref == IF virtual THEN SizeOf(v) ELSE PhysOf(v)
      n   == IF size # SizeMax THEN size
             ELSE IF pos > ref THEN 0 ELSE ref - pos
  IN  IF \/ size # SizeMax /\ size + pos > SizeMax
         \/ n > 0 /\ n + pos > ref
      THEN [ok |-> FALSE, out |-> <<>>]
      ELSE IF n = 0 THEN [ok |-> TRUE, out |-> <<>>] ELSE Copied(v, pos, n)

(***************************************************************************)
(* State changes.  A container dies with its last shared_ptr: cells no     *)
(* handle names are empty again and may be reused.                         *)
(***************************************************************************)
(* Faulty: only an owner keeps a container alive.                          *)
HeldByOwner(h, c) == \E b \in Buffers : h[b].kind = "copied" /\ h[b].cell = c

Held(h, c) == \E b \in Buffers : h[b].kind # "moved" /\ h[b].cell = c

FreeCells == {c \in Cells : ~Held(handle, c)}

Update(cells, h, op, b) ==
  /\ handle' = h
  /\ heap' = [c \in Objects |->
                IF c \in Sources \/ Held(h, c) THEN cells[c] ELSE EmptyCell]
  /\ last' = [op |-> op, buf |-> b, ok |-> TRUE]

Throw(op, b) ==
  /\ last' = [op |-> op, buf |-> b, ok |-> FALSE]
  /\ UNCHANGED <<heap, handle>>

(* Faulty: a short read is taken for a full one.                           *)
ReadFailsUnchecked(v) == FALSE

(* Faulty: the virtual tail is lost.                                       *)
ReadIntoPhysicalOnly(v) == [phys |-> Bytes(v, PhysOf(v)), virt |-> 0]

(* read_buffer: the bytes a copy of v is made of.  It throws, with the     *)
(* handle untouched, on a broken stream, an overrun or a short read.       *)
ReadFails(v) == \/ PhysOf(v) > 0 /\ PhysOf(v) > Reach(v)
                \/ PhysicalRead(v, PhysOf(v)) # PhysOf(v)

ReadInto(v) == [phys |-> Bytes(v, PhysOf(v)), virt |-> VirtOf(v)]

ReadBuffer(op, b, v) ==
  \/ /\ ReadFails(v) \/ (v.cell \in Streams /\ PhysOf(v) > 0)
     /\ Throw(op, b)
  \/ /\ ~ReadFails(v)
     /\ \E c \in FreeCells :
          Update([heap EXCEPT ![c] = ReadInto(v)],
                 [handle EXCEPT ![b] = Whole("copied", c)], op, b)

(* deserialize(buffer, copy_memory), of a caller's buffer ...              *)
Deserialize(b, s, copy) ==
  IF copy THEN ReadBuffer("deserialize", b, Whole("ref", s))
  ELSE Update(heap, [handle EXCEPT ![b] = Whole("ref", s)], "deserialize", b)

(* ... and of a section of another ref_buffer's data().                    *)
DeserializeWindow(b, a, o, n, copy) ==
  /\ Live(a)
  /\ IF o + n > SizeOf(handle[a]) THEN Throw("window", b)
     ELSE IF copy THEN ReadBuffer("window", b, Window(handle[a], o, n))
     ELSE Update(heap, [handle EXCEPT ![b] = Window(handle[a], o, n)], "window", b)

(* Faulty: the copy shares the alternative, not just the buffer.           *)
AssignShared(b, a) ==
  /\ a # b
  /\ Live(a)
  /\ Update(heap, [handle EXCEPT ![b] = handle[a]], "assign", b)

(* operator=(const ref_buffer&).                                           *)
Assign(b, a) ==
  /\ a # b
  /\ Live(a)
  /\ Update(heap, [handle EXCEPT ![b] = [handle[a] EXCEPT !.kind = "ref"]], "assign", b)

(* operator=(ref_buffer&&): a may only be assigned to afterwards.          *)
Move(b, a) ==
  /\ a # b
  /\ Live(a)
  /\ Update(heap, [handle EXCEPT ![b] = handle[a], ![a].kind = "moved"], "move", b)

CopyReferencedBuffer(b) ==
  /\ handle[b].kind = "ref"
  /\ ReadBuffer("copy_referenced_buffer", b, handle[b])

(* copied_data() = bytes, on a handle that already owns its container ...  *)
EditOwned(b, bytes) ==
  /\ handle[b].kind = "copied"
  /\ Update([heap EXCEPT ![handle[b].cell].phys = bytes], handle, "edit", b)

(* Faulty: editing through a reference writes the buffer referred to.      *)
EditInPlace(b, bytes) ==
  /\ handle[b].kind = "ref"
  /\ Update([heap EXCEPT ![handle[b].cell].phys = bytes], handle, "edit", b)

(* ... and on one that refers to another, which it copies first.           *)
EditReferenced(b, bytes) ==
  /\ handle[b].kind = "ref"
  /\ \/ /\ ReadFails(handle[b]) \/ (handle[b].cell \in Streams /\ PhysOf(handle[b]) > 0)
        /\ Throw("edit", b)
     \/ /\ ~ReadFails(handle[b])
        /\ \E c \in FreeCells :
             Update([heap EXCEPT ![c] = [ReadInto(handle[b]) EXCEPT !.phys = bytes]],
                    [handle EXCEPT ![b] = Whole("copied", c)], "edit", b)

(* The caller changes the memory a source refers to: same size, new bytes. *)
CallerWrites(s, bytes) ==
  /\ Len(bytes) = Phys(s)
  /\ heap' = [heap EXCEPT ![s].phys = bytes]
  /\ last' = [op |-> "caller", buf |-> s, ok |-> TRUE]
  /\ UNCHANGED handle

Init ==
  /\ \E own \in [Buffers -> Cells] :
       /\ \A a, b \in Buffers : own[a] = own[b] => a = b
       /\ handle = [b \in Buffers |-> Whole("copied", own[b])]
  /\ \E given \in [Sources -> [phys : Strings, virt : 0..MaxVirt]] :
       heap = [c \in Objects |-> IF c \in Sources THEN given[c] ELSE EmptyCell]
  /\ last = [op |-> "none", buf |-> CHOOSE b \in Buffers : TRUE, ok |-> TRUE]

Next ==
  \/ \E b \in Buffers, s \in Sources, copy \in BOOLEAN : Deserialize(b, s, copy)
  \/ \E a, b \in Buffers, w \in Windows, copy \in BOOLEAN :
       DeserializeWindow(b, a, w[1], w[2], copy)
  \/ \E a, b \in Buffers : Assign(b, a) \/ Move(b, a)
  \/ \E b \in Buffers : CopyReferencedBuffer(b)
  \/ \E b \in Buffers, bytes \in Strings : EditOwned(b, bytes) \/ EditReferenced(b, bytes)
  \/ \E s \in Sources, bytes \in Strings : CallerWrites(s, bytes)

Spec == Init /\ [][Next]_vars

(* Every handle and every cell holds a value of its kind (ref_buffer.h's   *)
(* variant and the two kinds of buffer it may hold).                       *)
TypeOK ==
  /\ heap \in [Objects -> Contents]
  /\ handle \in [Buffers -> Handles]
  /\ last \in [op : Ops, buf : Buffers \cup Sources, ok : BOOLEAN]

(* No container is owned twice: a write through one ref_buffer's           *)
(* copied_data() never lands in a container another one also owns, after   *)
(* any sequence of copies, moves and deserializations.                     *)
SoleOwner ==
  /\ \A b \in Buffers : handle[b].kind = "copied" =>
       handle[b].whole /\ handle[b].cell \in Cells
  /\ \A a, b \in Buffers :
       handle[a].kind = "copied" /\ handle[b].kind = "copied"
         /\ handle[a].cell = handle[b].cell => a = b

(* What a ref_buffer reads changes under it only when the caller rewrites  *)
(* the memory it refers to, or when the owner of the very container it     *)
(* refers to edits that container.  In particular an edit that had to copy *)
(* first (copied_data() on a reference) is seen by nobody else, and a      *)
(* container still referred to is never freed and reused.                  *)
IsolatedStep ==
  \A a \in Buffers :
    a # last'.buf /\ Live(a) /\ Live(a)' /\ Content(handle[a])' # Content(handle[a])
    => \/ last'.op = "caller" /\ handle[a].cell = last'.buf
       \/ /\ last'.op = "edit"
          /\ handle[last'.buf].kind = "copied"
          /\ handle[a].cell = handle[last'.buf].cell

WriteIsolation == [][IsolatedStep]_vars

(* A window is fresh while its buffer's physical part still ends where it  *)
(* ended when the window was made.                                         *)
UpToDate(v) == v.whole \/ v.virt = Window(Whole("ref", v.cell), v.off, v.len).virt

Fresh(b) == UpToDate(handle[b])

(* Copying the referenced bytes into the ref_buffer does not change what   *)
(* it reads, physical bytes and virtual tail, unless the window was stale. *)
CopyPreserves ==
  [][\A b \in Buffers :
       last'.op = "copy_referenced_buffer" /\ last'.buf = b /\ last'.ok /\ Fresh(b)
       => Content(handle[b])' = Content(handle[b])]_vars

(* Writing a buffer in two parts, up to k and from k on (npos), writes the *)
(* same bytes as serialize: image_builder fills the gaps of the headers    *)
(* with such partial writes.                                               *)
SplitSerialize ==
  \A b \in Buffers, virtual \in BOOLEAN : Live(b) /\ Readable(handle[b]) =>
    LET v == handle[b]
        size == IF virtual THEN SizeOf(v) ELSE PhysOf(v)
    IN  \A k \in 0..size :
          SerializeUntil(v, 0, k, virtual).out \o SerializeUntil(v, k, SizeMax, virtual).out
            = Serialize(v, virtual).out

(* RefBuffer implements BufferValues: containers, windows, virtual tails,  *)
(* and the freeing and reuse of containers are not seen by those who read  *)
(* ref_buffers, who see values and who shares with whom.                   *)
Reads(x) == IF x \in Sources THEN Content(Whole("ref", x))
            ELSE IF Live(x) THEN Content(handle[x]) ELSE <<>>

ValuesRead == [x \in Buffers \cup Sources |-> Reads(x)]

Owners == {b \in Buffers : handle[b].kind = "copied"}

Outdated == {b \in Buffers : Live(b) /\ ~Fresh(b)}

(* Who shares the bytes of c, and all who share, when the handles are h.   *)
OnCell(h, c) == {b \in Buffers : h[b].kind # "moved" /\ h[b].cell = c}
                  \cup ({c} \cap Sources)

Sharing(h) == {OnCell(h, c) : c \in Objects} \ {{}}

Values == INSTANCE BufferValues WITH
  reads <- ValuesRead, owners <- Owners, groups <- Sharing(handle), stale <- Outdated

KeepsValues == Values!Spec

=============================================================================
