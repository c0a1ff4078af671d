-------------------------- MODULE RefBufferProofs --------------------------
(* What RefBuffer promises for any number of buffers, cells and bytes.     *)
EXTENDS RefBuffer, SequenceTheorems, TLAPS

(* A window's virtual bytes are some of its bytes, and what sees the whole *)
(* of a buffer begins where it does.                                       *)
Sound(v) == IF v.whole THEN v.off = 0 ELSE v.virt <= v.len

HandleInv ==
  /\ handle \in [Buffers -> Handles]
  /\ \A b \in Buffers : Sound(handle[b])

CellInv == heap \in [Objects -> Contents]

IInv == TypeOK /\ HandleInv /\ SoleOwner

-----------------------------------------------------------------------------
(* Facts about cells and what is read from them.                           *)

LEMMA StringLen ==
  ASSUME NEW s \in Strings
  PROVE  /\ s \in Seq(Data)
         /\ Len(s) \in 0..MaxLen
         /\ \A i \in 1..Len(s) : s[i] \in Data
<1>1. PICK n \in 0..MaxLen : s \in [1..n -> Data]
  BY DEF Strings
<1>2. n \in Nat
  BY SizesAssumption
<1>3. s \in Seq(Data)
  BY <1>1, <1>2
<1>4. Len(s) = n
  BY <1>1, <1>2, <1>3
<1> QED
  BY <1>1, <1>3, <1>4

LEMMA CellTypes ==
  ASSUME CellInv, NEW c \in Objects
  PROVE  /\ heap[c] \in Contents
         /\ Phys(c) \in 0..MaxLen
         /\ Total(c) \in Nat
         /\ \A i \in 1..Phys(c) : ByteAt(c, i) \in Data
<1>1. heap[c] \in Contents
  BY DEF CellInv
<1>2. heap[c].phys \in Strings /\ heap[c].virt \in Nat
  BY <1>1 DEF Contents
<1> QED
  BY <1>1, <1>2, StringLen, SizesAssumption DEF Phys, Total, ByteAt

LEMMA ReadIntoType ==
  ASSUME CellInv, NEW v \in Handles, ~ReadFails(v),
         Sound(v)
  PROVE  ReadInto(v) \in Contents
<1> DEFINE n == PhysOf(v)
<1>1. v.cell \in Objects /\ v.off \in Nat /\ v.len \in Nat /\ v.virt \in Nat /\ v.whole \in BOOLEAN
  BY DEF Handles
<1>2. heap[v.cell].virt \in Nat /\ Phys(v.cell) \in 0..MaxLen /\ Phys(v.cell) \in Nat
  BY <1>1, CellTypes, SizesAssumption DEF Contents
<1>3. VirtOf(v) \in Nat
  BY <1>1, <1>2 DEF VirtOf
<1>4. n \in Nat
  <2>1. CASE v.whole
    BY <2>1, <1>1, <1>2 DEF PhysOf, SizeOf, VirtOf, Total
  <2>2. CASE ~v.whole
    BY <2>2, <1>1 DEF PhysOf, SizeOf, VirtOf, Sound
  <2> QED
    BY <2>1, <2>2, <1>1
<1>5. n = 0 \/ v.off + n <= Phys(v.cell)
  BY <1>1, <1>2, <1>4 DEF ReadFails, PhysicalRead, Lesser
<1>6. n \in 0..MaxLen
  BY <1>1, <1>2, <1>4, <1>5, SizesAssumption
<1>7. \A i \in 1..n : ByteAt(v.cell, v.off + i) \in Data
  BY <1>1, <1>2, <1>4, <1>5, CellTypes
<1>8. Bytes(v, n) \in [1..n -> Data]
  BY <1>7 DEF Bytes
<1>9. Bytes(v, n) \in Strings
  BY <1>6, <1>8 DEF Strings
<1> QED
  BY <1>3, <1>9 DEF ReadInto, Contents

LEMMA WindowType ==
  ASSUME CellInv, NEW v \in Handles, NEW o \in Nat, NEW m \in Nat,
         Sound(v)
  PROVE  /\ Window(v, o, m) \in Handles
         /\ Sound(Window(v, o, m))
<1>1. v.cell \in Objects /\ v.off \in Nat /\ v.len \in Nat /\ v.virt \in Nat /\ v.whole \in BOOLEAN
  BY DEF Handles
<1>2. heap[v.cell].virt \in Nat /\ Phys(v.cell) \in Nat
  BY <1>1, CellTypes, SizesAssumption DEF Contents
<1>3. PhysOf(v) \in Int
  BY <1>1, <1>2 DEF PhysOf, SizeOf, VirtOf, Total
<1>4. Window(v, o, m).virt \in Nat /\ Window(v, o, m).virt <= m
  BY <1>3 DEF Window, Lesser
<1>5. Window(v, o, m) = [kind |-> "ref", cell |-> v.cell, whole |-> FALSE,
                         off |-> v.off + o, len |-> m, virt |-> Window(v, o, m).virt]
  BY DEF Window
<1>6. v.off + o \in Nat /\ FALSE \in BOOLEAN
  BY <1>1
<1>7. [kind |-> "ref", cell |-> v.cell, whole |-> FALSE, off |-> v.off + o,
       len |-> m, virt |-> Window(v, o, m).virt] \in Handles
  BY <1>1, <1>4, <1>6 DEF Handles
<1>8. Window(v, o, m).len = m /\ ~Window(v, o, m).whole
  BY DEF Window
<1> QED
  BY <1>4, <1>5, <1>7, <1>8 DEF Sound

-----------------------------------------------------------------------------
(* The two shapes of step: throw, or install new handles and free cells.   *)

LEMMA UpdateInv ==
  ASSUME HandleInv, SoleOwner,
         NEW cells \in [Objects -> Contents],
         NEW h \in [Buffers -> Handles],
         \A b \in Buffers : Sound(h[b]),
         \A b \in Buffers : h[b].kind = "copied" => h[b].whole /\ h[b].cell \in Cells,
         \A a, b \in Buffers : h[a].kind = "copied" /\ h[b].kind = "copied"
                                /\ h[a].cell = h[b].cell => a = b,
         NEW op \in Ops, NEW b \in Buffers,
         Update(cells, h, op, b)
  PROVE  IInv'
<1>1. EmptyCell \in Contents
  <2>1. <<>> \in [1..0 -> Data] /\ 0 \in 0..MaxLen
    BY SizesAssumption
  <2> QED
    BY <2>1 DEF EmptyCell, Contents, Strings
<1>2. heap' \in [Objects -> Contents]
  BY <1>1 DEF Update
<1>3. last' \in [op : Ops, buf : Buffers \cup Sources, ok : BOOLEAN]
  BY DEF Update
<1>4. handle' = h
  BY DEF Update
<1> QED
  BY <1>2, <1>3, <1>4 DEF IInv, TypeOK, HandleInv, SoleOwner

LEMMA ThrowInv ==
  ASSUME IInv, NEW op \in Ops, NEW b \in Buffers, Throw(op, b)
  PROVE  IInv'
BY DEF IInv, TypeOK, HandleInv, SoleOwner, Throw

(* A handle that copies v owns a container nobody else names.              *)
LEMMA OwnFreshInv ==
  ASSUME IInv, NEW b \in Buffers, NEW c \in FreeCells, NEW data \in Contents,
         NEW op \in Ops,
         Update([heap EXCEPT ![c] = data],
                [handle EXCEPT ![b] = Whole("copied", c)], op, b)
  PROVE  IInv'
<1> DEFINE h == [handle EXCEPT ![b] = Whole("copied", c)]
<1>1. c \in Cells /\ c \in Objects
  BY DEF FreeCells, Objects
<1>2. Whole("copied", c) \in Handles
  BY <1>1 DEF Whole, Handles
<1>3. h \in [Buffers -> Handles]
  BY <1>2 DEF IInv, HandleInv
<1>4. [heap EXCEPT ![c] = data] \in [Objects -> Contents]
  BY DEF IInv, TypeOK
<1>5. \A a \in Buffers : h[a] = IF a = b THEN Whole("copied", c) ELSE handle[a]
  BY DEF IInv, HandleInv
<1>6. \A a \in Buffers : Sound(h[a])
  BY <1>5 DEF IInv, HandleInv, Whole, Sound
<1>7. \A a \in Buffers : h[a].kind = "copied" => h[a].whole /\ h[a].cell \in Cells
  BY <1>1, <1>5 DEF IInv, SoleOwner, Whole
<1>8. \A a \in Buffers : handle[a].kind = "copied" => handle[a].cell # c
  BY DEF FreeCells, Held
<1>9. \A a1, a2 \in Buffers : h[a1].kind = "copied" /\ h[a2].kind = "copied"
                               /\ h[a1].cell = h[a2].cell => a1 = a2
  BY <1>5, <1>8 DEF IInv, SoleOwner, Whole
<1> HIDE DEF h
<1> QED
  BY <1>3, <1>4, <1>6, <1>7, <1>9, UpdateInv DEF IInv, h

(* A handle that is made to refer to another buffer owns nothing.          *)
LEMMA ReferInv ==
  ASSUME IInv, NEW b \in Buffers, NEW v \in Handles, v.kind = "ref",
         Sound(v), NEW op \in Ops,
         Update(heap, [handle EXCEPT ![b] = v], op, b)
  PROVE  IInv'
<1> DEFINE h == [handle EXCEPT ![b] = v]
<1>1. h \in [Buffers -> Handles] /\ heap \in [Objects -> Contents]
  BY DEF IInv, HandleInv, TypeOK
<1>2. \A a \in Buffers : h[a] = IF a = b THEN v ELSE handle[a]
  BY DEF IInv, HandleInv
<1>3. \A a \in Buffers : Sound(h[a])
  BY <1>2 DEF IInv, HandleInv
<1>4. \A a \in Buffers : h[a].kind = "copied" => h[a].whole /\ h[a].cell \in Cells
  BY <1>2 DEF IInv, SoleOwner
<1>5. \A a1, a2 \in Buffers : h[a1].kind = "copied" /\ h[a2].kind = "copied"
                               /\ h[a1].cell = h[a2].cell => a1 = a2
  BY <1>2 DEF IInv, SoleOwner
<1> HIDE DEF h
<1> QED
  BY <1>1, <1>3, <1>4, <1>5, UpdateInv DEF IInv, h

LEMMA ReadBufferInv ==
  ASSUME IInv, NEW b \in Buffers, NEW v \in Handles, Sound(v),
         NEW op \in Ops, ReadBuffer(op, b, v)
  PROVE  IInv'
<1>1. CASE Throw(op, b)
  BY <1>1, ThrowInv
<1>2. CASE /\ ~ReadFails(v)
           /\ \E c \in FreeCells :
                Update([heap EXCEPT ![c] = ReadInto(v)],
                       [handle EXCEPT ![b] = Whole("copied", c)], op, b)
  <2>1. ReadInto(v) \in Contents
    BY <1>2, ReadIntoType DEF IInv, TypeOK, CellInv
  <2> QED
    BY <1>2, <2>1, OwnFreshInv
<1> QED
  BY <1>1, <1>2 DEF ReadBuffer

-----------------------------------------------------------------------------
(* TypeOK and SoleOwner, action by action.                                 *)

LEMMA InitInv == Init => IInv
<1> SUFFICES ASSUME Init PROVE IInv
  OBVIOUS
<1>1. PICK own \in [Buffers -> Cells] :
        /\ \A a, b \in Buffers : own[a] = own[b] => a = b
        /\ handle = [b \in Buffers |-> Whole("copied", own[b])]
  BY DEF Init
<1>2. PICK given \in [Sources -> [phys : Strings, virt : 0..MaxVirt]] :
        heap = [c \in Objects |-> IF c \in Sources THEN given[c] ELSE EmptyCell]
  BY DEF Init
<1>3. EmptyCell \in Contents
  <2>1. <<>> \in [1..0 -> Data] /\ 0 \in 0..MaxLen
    BY SizesAssumption
  <2> QED
    BY <2>1 DEF EmptyCell, Contents, Strings
<1>4. \A s \in Sources : given[s] \in Contents
  BY SizesAssumption DEF Contents
<1>5. heap \in [Objects -> Contents]
  BY <1>2, <1>3, <1>4
<1>6. \A b \in Buffers : own[b] \in Objects /\ Whole("copied", own[b]) \in Handles
  BY DEF Whole, Handles, Objects
<1>7. HandleInv
  BY <1>1, <1>6 DEF HandleInv, Whole, Sound
<1>8. SoleOwner
  BY <1>1 DEF SoleOwner, Whole
<1>9. last \in [op : Ops, buf : Buffers \cup Sources, ok : BOOLEAN]
  <2>1. (CHOOSE b \in Buffers : TRUE) \in Buffers
    BY ObjectsAssumption
  <2>2. "none" \in Ops
    BY DEF Ops
  <2> QED
    BY <2>1, <2>2 DEF Init
<1> QED
  BY <1>5, <1>7, <1>8, <1>9 DEF IInv, TypeOK, HandleInv

LEMMA NextInv == IInv /\ [Next]_vars => IInv'
<1> SUFFICES ASSUME IInv, [Next]_vars PROVE IInv'
  OBVIOUS
<1>a. TypeOK /\ HandleInv /\ SoleOwner
  BY DEF IInv
<1>b. \A op \in {"deserialize", "window", "assign", "move",
                 "copy_referenced_buffer", "edit", "caller"} : op \in Ops
  BY DEF Ops
<1>0. \A b \in Buffers : /\ handle[b] \in Handles
                         /\ Sound(handle[b])
  BY <1>a DEF HandleInv
<1>1. ASSUME NEW b \in Buffers, NEW s \in Sources, NEW copy \in BOOLEAN,
             Deserialize(b, s, copy)
      PROVE  IInv'
  <2>1. Whole("ref", s) \in Handles /\ Whole("ref", s).kind = "ref" /\ Sound(Whole("ref", s))
    BY DEF Whole, Handles, Objects, Sound
  <2> QED
    BY <1>1, <2>1, ReadBufferInv, ReferInv, <1>b DEF Deserialize
<1>2. ASSUME NEW a \in Buffers, NEW b \in Buffers, NEW w \in Windows,
             NEW copy \in BOOLEAN, DeserializeWindow(b, a, w[1], w[2], copy)
      PROVE  IInv'
  <2> DEFINE v == Window(handle[a], w[1], w[2])
  <2>0. w[1] \in Nat /\ w[2] \in Nat
    BY SizesAssumption
  <2>1. v \in Handles /\ Sound(v)
    BY <1>0, <2>0, WindowType, <1>a DEF CellInv, TypeOK
  <2>2. v.kind = "ref"
    BY DEF Window
  <2>3. \/ Throw("window", b)
        \/ ReadBuffer("window", b, v)
        \/ Update(heap, [handle EXCEPT ![b] = v], "window", b)
    BY <1>2 DEF DeserializeWindow
  <2> HIDE DEF v
  <2> QED
    BY <1>b, <2>1, <2>2, <2>3, ReadBufferInv, ReferInv, ThrowInv
<1>3. ASSUME NEW a \in Buffers, NEW b \in Buffers, Assign(b, a)
      PROVE  IInv'
  <2> DEFINE v == [handle[a] EXCEPT !.kind = "ref"]
  <2>1. v \in Handles /\ v.kind = "ref" /\ Sound(v)
    BY <1>0 DEF Handles, Sound
  <2>2. Update(heap, [handle EXCEPT ![b] = v], "assign", b)
    BY <1>3 DEF Assign
  <2> HIDE DEF v
  <2> QED
    BY <1>b, <2>1, <2>2, ReferInv
<1>4. ASSUME NEW a \in Buffers, NEW b \in Buffers, Move(b, a)
      PROVE  IInv'
  <2> DEFINE h == [handle EXCEPT ![b] = handle[a], ![a].kind = "moved"]
  <2>1. a # b /\ handle \in [Buffers -> Handles]
    BY <1>a, <1>4 DEF Move, HandleInv
  <2>2. /\ h \in [Buffers -> Handles]
        /\ h[a] = [handle[a] EXCEPT !.kind = "moved"]
        /\ h[b] = handle[a]
        /\ \A d \in Buffers \ {a, b} : h[d] = handle[d]
    BY <1>0, <2>1 DEF Handles
  <2>3. \A d \in Buffers : Sound(h[d])
    BY <1>0, <2>2 DEF Handles, Sound
  <2>4. h[a].kind = "moved"
    BY <1>0, <2>2 DEF Handles
  <2>5. \A d \in Buffers : h[d].kind = "copied" => h[d].whole /\ h[d].cell \in Cells
    BY <1>a, <2>2, <2>4 DEF SoleOwner
  <2>6. \A d, e \in Buffers : h[d].kind = "copied" /\ h[e].kind = "copied"
                              /\ h[d].cell = h[e].cell => d = e
    BY <1>a, <2>2, <2>4 DEF SoleOwner
  <2>7. Update(heap, h, "move", b)
    BY <1>4 DEF Move
  <2> HIDE DEF h
  <2> QED
    BY <1>a, <1>b, <2>2, <2>3, <2>5, <2>6, <2>7, UpdateInv DEF TypeOK
<1>5. ASSUME NEW b \in Buffers, CopyReferencedBuffer(b)
      PROVE  IInv'
  BY <1>0, <1>b, <1>5, ReadBufferInv DEF CopyReferencedBuffer
<1>6. ASSUME NEW b \in Buffers, NEW bytes \in Strings, EditOwned(b, bytes)
      PROVE  IInv'
  <2>1. [heap EXCEPT ![handle[b].cell].phys = bytes] \in [Objects -> Contents]
    BY <1>a, <1>0 DEF TypeOK, Contents, Handles
  <2> QED
    BY <1>a, <1>b, <1>0, <1>6, <2>1, UpdateInv DEF EditOwned, HandleInv, SoleOwner
<1>7. ASSUME NEW b \in Buffers, NEW bytes \in Strings, EditReferenced(b, bytes)
      PROVE  IInv'
  <2>1. CASE Throw("edit", b)
    BY <1>b, <2>1, ThrowInv
  <2>2. CASE /\ ~ReadFails(handle[b])
             /\ \E c \in FreeCells :
                  Update([heap EXCEPT ![c] = [ReadInto(handle[b]) EXCEPT !.phys = bytes]],
                         [handle EXCEPT ![b] = Whole("copied", c)], "edit", b)
    <3>1. ReadInto(handle[b]) \in Contents
      BY <1>0, <2>2, ReadIntoType, <1>a DEF TypeOK, CellInv
    <3>2. [ReadInto(handle[b]) EXCEPT !.phys = bytes] \in Contents
      BY <3>1 DEF Contents
    <3> QED
      BY <1>b, <2>2, <3>2, OwnFreshInv
  <2> QED
    BY <1>7, <2>1, <2>2 DEF EditReferenced
<1>8. ASSUME NEW s \in Sources, NEW bytes \in Strings, CallerWrites(s, bytes)
      PROVE  IInv'
  <2>1. heap' \in [Objects -> Contents]
    BY <1>a, <1>8 DEF CallerWrites, TypeOK, Contents, Objects
  <2> QED
    BY <1>a, <1>b, <1>8, <2>1 DEF IInv, CallerWrites, TypeOK, HandleInv, SoleOwner
<1>9. CASE UNCHANGED vars
  BY <1>a, <1>9 DEF IInv, vars, TypeOK, HandleInv, SoleOwner
<1> QED
  BY <1>1, <1>2, <1>3, <1>4, <1>5, <1>6, <1>7, <1>8, <1>9 DEF Next

(* The inductive invariant holds of every behaviour of the library.        *)
THEOREM Invariance == Spec => []IInv
BY InitInv, NextInv, PTL DEF Spec

(* Type correctness for every choice of buffers, cells, bytes and bounds.  *)
THEOREM TypeCorrect == Spec => []TypeOK
<1>1. IInv => TypeOK
  BY DEF IInv
<1> QED
  BY <1>1, Invariance, PTL

(* No container ever has two owners, for every number of ref_buffers.      *)
THEOREM OwnersAreUnique == Spec => []SoleOwner
<1>1. IInv => SoleOwner
  BY DEF IInv
<1> QED
  BY <1>1, Invariance, PTL

-----------------------------------------------------------------------------
(* Isolation of writes: what a handle reads is a function of the handle    *)
(* and of its own cell.                                                    *)

LEMMA ContentOfCell ==
  ASSUME NEW a \in Buffers, handle'[a] = handle[a],
         heap'[handle[a].cell] = heap[handle[a].cell]
  PROVE  Content(handle[a])' = Content(handle[a])
BY DEF Content, Bytes, ByteAt, SizeOf, Total, Phys

(* An update that leaves a's handle alone and writes no cell that a reads  *)
(* leaves a's content alone: a's own cell is held, hence never freed.      *)
LEMMA UpdateIsolated ==
  ASSUME NEW a \in Buffers, NEW cells \in [Objects -> Contents], NEW h, NEW op, NEW b,
         Update(cells, h, op, b), HandleInv, Live(a),
         h[a] = handle[a], cells[handle[a].cell] = heap[handle[a].cell]
  PROVE  Content(handle[a])' = Content(handle[a])
<1>1. handle'[a] = handle[a]
  BY DEF Update
<1>2. handle[a].cell \in Objects
  BY DEF HandleInv, Handles
<1>3. Held(h, handle[a].cell)
  BY DEF Held, Live
<1>4. heap'[handle[a].cell] = cells[handle[a].cell]
  BY <1>2, <1>3 DEF Update
<1> QED
  BY <1>1, <1>4, ContentOfCell

LEMMA ThrowIsolated ==
  ASSUME NEW a \in Buffers, NEW op, NEW b, Throw(op, b)
  PROVE  Content(handle[a])' = Content(handle[a])
BY ContentOfCell DEF Throw

LEMMA OwnFreshIsolated ==
  ASSUME IInv, NEW a \in Buffers, NEW b \in Buffers, a # b, Live(a),
         NEW c \in FreeCells, NEW data \in Contents, NEW op,
         Update([heap EXCEPT ![c] = data],
                [handle EXCEPT ![b] = Whole("copied", c)], op, b)
  PROVE  Content(handle[a])' = Content(handle[a])
<1>1. handle[a].cell # c
  BY DEF FreeCells, Held, Live
<1>2. /\ [heap EXCEPT ![c] = data] \in [Objects -> Contents]
      /\ [heap EXCEPT ![c] = data][handle[a].cell] = heap[handle[a].cell]
      /\ [handle EXCEPT ![b] = Whole("copied", c)][a] = handle[a]
  BY <1>1 DEF IInv, TypeOK, HandleInv, Handles
<1> QED
  BY <1>2, UpdateIsolated DEF IInv

LEMMA ReferIsolated ==
  ASSUME IInv, NEW a \in Buffers, NEW b \in Buffers, a # b, Live(a), NEW v, NEW op,
         Update(heap, [handle EXCEPT ![b] = v], op, b)
  PROVE  Content(handle[a])' = Content(handle[a])
<1>1. heap \in [Objects -> Contents] /\ [handle EXCEPT ![b] = v][a] = handle[a]
  BY DEF IInv, TypeOK, HandleInv
<1> QED
  BY <1>1, UpdateIsolated DEF IInv

LEMMA ReadBufferIsolated ==
  ASSUME IInv, NEW a \in Buffers, NEW b \in Buffers, a # b, Live(a),
         NEW v \in Handles, Sound(v), NEW op, ReadBuffer(op, b, v)
  PROVE  Content(handle[a])' = Content(handle[a])
<1>1. CASE Throw(op, b)
  BY <1>1, ThrowIsolated
<1>2. CASE /\ ~ReadFails(v)
           /\ \E c \in FreeCells :
                Update([heap EXCEPT ![c] = ReadInto(v)],
                       [handle EXCEPT ![b] = Whole("copied", c)], op, b)
  <2>1. ReadInto(v) \in Contents
    BY <1>2, ReadIntoType DEF IInv, TypeOK, CellInv
  <2> QED
    BY <1>2, <2>1, OwnFreshIsolated
<1> QED
  BY <1>1, <1>2 DEF ReadBuffer

(* Every operation records whom it was called on.                          *)
LEMMA UpdateLast == ASSUME NEW cells, NEW h, NEW op, NEW b, Update(cells, h, op, b)
                    PROVE  last'.buf = b
BY DEF Update

LEMMA ThrowLast == ASSUME NEW op, NEW b, Throw(op, b) PROVE last'.buf = b
BY DEF Throw

LEMMA ReadBufferLast == ASSUME NEW op, NEW b, NEW v, ReadBuffer(op, b, v)
                        PROVE  last'.buf = b
BY UpdateLast, ThrowLast DEF ReadBuffer

LEMMA StepIsolated == IInv /\ [Next]_vars => IsolatedStep \/ UNCHANGED vars
<1> SUFFICES ASSUME IInv, Next, NEW a \in Buffers,
                    a # last'.buf, Live(a), Live(a)',
                    Content(handle[a])' # Content(handle[a])
             PROVE  \/ last'.op = "caller" /\ handle[a].cell = last'.buf
                    \/ /\ last'.op = "edit"
                       /\ handle[last'.buf].kind = "copied"
                       /\ handle[a].cell = handle[last'.buf].cell
  BY DEF IsolatedStep
<1>a. TypeOK /\ HandleInv /\ SoleOwner
  BY DEF IInv
<1>0. \A b \in Buffers : /\ handle[b] \in Handles
                         /\ Sound(handle[b])
  BY <1>a DEF HandleInv
<1>1. ASSUME NEW b \in Buffers, NEW s \in Sources, NEW copy \in BOOLEAN,
             Deserialize(b, s, copy)
      PROVE  FALSE
  <2>1. Whole("ref", s) \in Handles /\ Sound(Whole("ref", s))
    BY DEF Whole, Handles, Objects, Sound
  <2>2. last'.buf = b
    BY <1>1, UpdateLast, ReadBufferLast DEF Deserialize
  <2> QED
    BY <1>1, <2>1, <2>2, ReadBufferIsolated, ReferIsolated DEF Deserialize
<1>2. ASSUME NEW d \in Buffers, NEW b \in Buffers, NEW w \in Windows,
             NEW copy \in BOOLEAN, DeserializeWindow(b, d, w[1], w[2], copy)
      PROVE  FALSE
  <2> DEFINE v == Window(handle[d], w[1], w[2])
  <2>0. w[1] \in Nat /\ w[2] \in Nat
    BY SizesAssumption
  <2>1. v \in Handles /\ Sound(v)
    BY <1>a, <1>0, <2>0, WindowType DEF CellInv, TypeOK
  <2>2. \/ Throw("window", b)
        \/ ReadBuffer("window", b, v)
        \/ Update(heap, [handle EXCEPT ![b] = v], "window", b)
    BY <1>2 DEF DeserializeWindow
  <2> HIDE DEF v
  <2>3. last'.buf = b
    BY <2>2, UpdateLast, ThrowLast, ReadBufferLast
  <2> QED
    BY <2>1, <2>2, <2>3, ReadBufferIsolated, ReferIsolated, ThrowIsolated
<1>3. ASSUME NEW d \in Buffers, NEW b \in Buffers, Assign(b, d)
      PROVE  FALSE
  <2>1. last'.buf = b
    BY <1>3 DEF Assign, Update
  <2> QED
    BY <1>3, <2>1, ReferIsolated DEF Assign
<1>4. ASSUME NEW d \in Buffers, NEW b \in Buffers, Move(b, d)
      PROVE  FALSE
  <2> DEFINE h == [handle EXCEPT ![b] = handle[d], ![d].kind = "moved"]
  <2>1. Update(heap, h, "move", b) /\ a # b /\ b # d
    BY <1>4 DEF Move, Update
  <2>2. a # d
    <3>1. handle' = h
      BY <2>1 DEF Update
    <3>2. h[d].kind = "moved"
      BY <1>a, <2>1 DEF HandleInv, Handles
    <3> QED
      BY <3>1, <3>2 DEF Live
  <2>3. h[a] = handle[a]
    BY <1>a, <2>1, <2>2 DEF HandleInv
  <2> HIDE DEF h
  <2> QED
    BY <1>a, <2>1, <2>3, UpdateIsolated DEF TypeOK
<1>5. ASSUME NEW b \in Buffers, CopyReferencedBuffer(b)
      PROVE  FALSE
  <2>1. last'.buf = b
    BY <1>5, ReadBufferLast DEF CopyReferencedBuffer
  <2> QED
    BY <1>0, <1>5, <2>1, ReadBufferIsolated DEF CopyReferencedBuffer
<1>6. ASSUME NEW b \in Buffers, NEW bytes \in Strings, EditOwned(b, bytes)
      PROVE  /\ last'.op = "edit"
             /\ handle[last'.buf].kind = "copied"
             /\ handle[a].cell = handle[last'.buf].cell
  <2>1. last'.buf = b /\ last'.op = "edit" /\ handle[b].kind = "copied"
    BY <1>6 DEF EditOwned, Update
  <2>2. ASSUME handle[a].cell # handle[b].cell
        PROVE  FALSE
    <3>1. /\ [heap EXCEPT ![handle[b].cell].phys = bytes] \in [Objects -> Contents]
          /\ [heap EXCEPT ![handle[b].cell].phys = bytes][handle[a].cell] = heap[handle[a].cell]
      BY <1>a, <1>0, <2>2 DEF TypeOK, Contents, Handles
    <3> QED
      BY <1>a, <1>6, <3>1, UpdateIsolated DEF EditOwned
  <2> QED
    BY <2>1, <2>2
<1>7. ASSUME NEW b \in Buffers, NEW bytes \in Strings, EditReferenced(b, bytes)
      PROVE  FALSE
  <2>0. last'.buf = b
    BY <1>7, UpdateLast, ThrowLast DEF EditReferenced
  <2>1. CASE Throw("edit", b)
    BY <2>1, ThrowIsolated
  <2>2. CASE /\ ~ReadFails(handle[b])
             /\ \E c \in FreeCells :
                  Update([heap EXCEPT ![c] = [ReadInto(handle[b]) EXCEPT !.phys = bytes]],
                         [handle EXCEPT ![b] = Whole("copied", c)], "edit", b)
    <3>1. ReadInto(handle[b]) \in Contents
      BY <1>a, <1>0, <2>2, ReadIntoType DEF TypeOK, CellInv
    <3>2. [ReadInto(handle[b]) EXCEPT !.phys = bytes] \in Contents
      BY <3>1 DEF Contents
    <3> QED
      BY <2>0, <2>2, <3>2, OwnFreshIsolated
  <2> QED
    BY <1>7, <2>1, <2>2 DEF EditReferenced
<1>8. ASSUME NEW s \in Sources, NEW bytes \in Strings, CallerWrites(s, bytes)
      PROVE  last'.op = "caller" /\ handle[a].cell = last'.buf
  <2>1. last'.op = "caller" /\ last'.buf = s
    BY <1>8 DEF CallerWrites
  <2>2. ASSUME handle[a].cell # s
        PROVE  FALSE
    <3>1. heap'[handle[a].cell] = heap[handle[a].cell] /\ handle'[a] = handle[a]
      BY <1>a, <1>0, <1>8, <2>2 DEF CallerWrites, TypeOK, Handles
    <3> QED
      BY <3>1, ContentOfCell
  <2> QED
    BY <2>1, <2>2
<1> QED
  BY <1>1, <1>2, <1>3, <1>4, <1>5, <1>6, <1>7, <1>8 DEF Next

(* An edit of one ref_buffer shows only through references to its own      *)
(* container, for every number of buffers, sources and bytes.              *)
THEOREM WritesAreIsolated == Spec => WriteIsolation
<1>1. IInv /\ [Next]_vars => [IsolatedStep]_vars
  BY StepIsolated
<1> QED
  BY <1>1, Invariance, PTL DEF Spec, WriteIsolation

-----------------------------------------------------------------------------
(* What is read of a handle: a sequence of SizeOf bytes.                   *)

LEMMA ViewTypes ==
  ASSUME CellInv, NEW v \in Handles, Sound(v)
  PROVE  /\ v.cell \in Objects /\ v.off \in Nat /\ v.len \in Nat /\ v.virt \in Nat
         /\ Phys(v.cell) \in 0..MaxLen /\ Phys(v.cell) \in Nat /\ heap[v.cell].virt \in Nat
         /\ SizeOf(v) \in Nat /\ VirtOf(v) \in Nat /\ PhysOf(v) \in Nat
         /\ SizeOf(v) = PhysOf(v) + VirtOf(v)
         /\ v.whole => PhysOf(v) = Phys(v.cell) /\ SizeOf(v) = Phys(v.cell) + heap[v.cell].virt
         /\ ~v.whole => SizeOf(v) = v.len /\ VirtOf(v) = v.virt /\ v.virt <= v.len
<1>1. v.cell \in Objects /\ v.off \in Nat /\ v.len \in Nat /\ v.virt \in Nat /\ v.whole \in BOOLEAN
  BY DEF Handles
<1>2. heap[v.cell].virt \in Nat /\ Phys(v.cell) \in 0..MaxLen /\ Phys(v.cell) \in Nat
  BY <1>1, CellTypes, SizesAssumption DEF Contents
<1>3. CASE v.whole
  BY <1>1, <1>2, <1>3 DEF PhysOf, SizeOf, VirtOf, Total
<1>4. CASE ~v.whole
  BY <1>1, <1>2, <1>4 DEF PhysOf, SizeOf, VirtOf, Sound
<1> QED
  BY <1>1, <1>2, <1>3, <1>4

LEMMA ByteTypes ==
  ASSUME CellInv, NEW c \in Objects, NEW i \in Nat \ {0}
  PROVE  /\ ByteAt(c, i) \in Nat
         /\ i > Phys(c) => ByteAt(c, i) = 0
<1>1. Phys(c) \in 0..MaxLen /\ \A j \in 1..Phys(c) : ByteAt(c, j) \in Data
  BY CellTypes
<1>2. Phys(c) \in Nat /\ Data \subseteq Nat
  BY <1>1, SizesAssumption
<1>3. CASE i <= Phys(c)
  <2>1. i \in 1..Phys(c)
    BY <1>2, <1>3
  <2>2. ByteAt(c, i) \in Data
    BY <1>1, <2>1
  <2>3. ~(i > Phys(c))
    BY <1>2, <1>3
  <2> QED
    BY <1>2, <2>2, <2>3
<1>4. CASE ~(i <= Phys(c))
  BY <1>2, <1>4 DEF ByteAt
<1> QED
  BY <1>2, <1>3, <1>4

LEMMA ContentSeq ==
  ASSUME CellInv, NEW v \in Handles, Sound(v)
  PROVE  /\ Content(v) \in Seq(Nat)
         /\ Len(Content(v)) = SizeOf(v)
         /\ \A i \in 1..SizeOf(v) : Content(v)[i] = ByteAt(v.cell, v.off + i)
<1>1. SizeOf(v) \in Nat /\ v.off \in Nat /\ v.cell \in Objects
  BY ViewTypes
<1>2. \A i \in 1..SizeOf(v) : v.off + i \in Nat \ {0}
  BY <1>1
<1>3. \A i \in 1..SizeOf(v) : ByteAt(v.cell, v.off + i) \in Nat
  BY <1>1, <1>2, ByteTypes
<1>4. Content(v) = [i \in 1..SizeOf(v) |-> ByteAt(v.cell, v.off + i)]
  BY DEF Content, Bytes
<1>5. Content(v) \in [1..SizeOf(v) -> Nat]
  BY <1>3, <1>4
<1> QED
  BY <1>1, <1>4, <1>5

LEMMA SubSeqIsPart ==
  ASSUME NEW s, NEW m \in 0..Len(s), NEW n \in 0..Len(s)
  PROVE  SubSeq(s, m + 1, n) \in Values!Parts(s)
BY DEF Values!Parts

(* What reads the same cell from o on, and not past the end of v, reads a  *)
(* part of what v reads.                                                   *)
LEMMA ContentPart ==
  ASSUME CellInv, NEW v \in Handles, Sound(v), NEW w \in Handles, Sound(w),
         NEW o \in Nat, w.cell = v.cell, w.off = v.off + o, o + SizeOf(w) <= SizeOf(v)
  PROVE  /\ Content(w) = SubSeq(Content(v), o + 1, o + SizeOf(w))
         /\ Content(w) \in Values!Parts(Content(v))
<1> DEFINE m == SizeOf(w)
           part == SubSeq(Content(v), o + 1, o + m)
<1>1. /\ m \in Nat /\ SizeOf(v) \in Nat /\ v.off \in Nat
      /\ Content(v) \in Seq(Nat) /\ Len(Content(v)) = SizeOf(v)
      /\ \A i \in 1..SizeOf(v) : Content(v)[i] = ByteAt(v.cell, v.off + i)
      /\ Content(w) \in Seq(Nat) /\ Len(Content(w)) = m
      /\ \A i \in 1..m : Content(w)[i] = ByteAt(w.cell, w.off + i)
  BY ViewTypes, ContentSeq
<1>0. o + m <= SizeOf(v)
  OBVIOUS
<1> HIDE DEF m
<1>2. \A i \in (o + 1)..(o + m) : Content(v)[i] \in Nat
  <2> SUFFICES ASSUME NEW i \in (o + 1)..(o + m) PROVE Content(v)[i] \in Nat
    OBVIOUS
  <2>1. i \in 1..Len(Content(v))
    BY <1>0, <1>1
  <2> QED
    BY <1>1, <2>1, ElementOfSeq
<1>3. /\ part \in Seq(Nat)
      /\ Len(part) = IF o + 1 <= o + m THEN (o + m) - (o + 1) + 1 ELSE 0
      /\ \A i \in 1..((o + m) - (o + 1) + 1) : part[i] = Content(v)[(o + 1) + i - 1]
  <2>1. o + 1 \in Int /\ o + m \in Int
    BY <1>1
  <2> QED
    BY <1>2, <2>1, SubSeqProperties
<1> HIDE DEF part
<1>4. Len(part) = m
  BY <1>1, <1>3
<1>5. \A i \in 1..m : part[i] = Content(w)[i]
  <2> SUFFICES ASSUME NEW i \in 1..m PROVE part[i] = Content(w)[i]
    OBVIOUS
  <2>1. i \in 1..((o + m) - (o + 1) + 1) /\ o + i \in 1..SizeOf(v) /\ (o + 1) + i - 1 = o + i
    BY <1>0, <1>1
  <2>2. part[i] = ByteAt(v.cell, v.off + (o + i))
    BY <1>1, <1>3, <2>1
  <2>3. v.off + (o + i) = w.off + i
    BY <1>1, <2>1
  <2> QED
    BY <1>1, <2>2, <2>3
<1>6. Content(w) = part
  BY <1>1, <1>3, <1>4, <1>5, SeqEqual
<1>7. o \in 0..Len(Content(v)) /\ o + m \in 0..Len(Content(v))
  BY <1>0, <1>1
<1>8. part \in Values!Parts(Content(v))
  BY <1>7, SubSeqIsPart DEF part
<1>9. Content(w) = SubSeq(Content(v), o + 1, o + SizeOf(w))
  BY <1>6 DEF part, m
<1> QED
  BY <1>6, <1>8, <1>9

-----------------------------------------------------------------------------
(* No buffer is larger than what a caller may pass: a size_t counts it.    *)

Bounded(v) == ~v.whole => v.len <= MaxLen + MaxVirt /\ v.virt <= MaxVirt

SizesBounded ==
  /\ \A c \in Objects : heap[c].virt <= MaxVirt
  /\ \A b \in Buffers : Bounded(handle[b])

LEMMA BoundedSize ==
  ASSUME CellInv, SizesBounded, NEW v \in Handles, Sound(v), Bounded(v)
  PROVE  SizeOf(v) <= MaxLen + MaxVirt /\ VirtOf(v) <= MaxVirt
<1>1. heap[v.cell].virt <= MaxVirt /\ Phys(v.cell) <= MaxLen
  BY ViewTypes, SizesAssumption DEF SizesBounded
<1>2. CASE v.whole
  BY <1>1, <1>2, ViewTypes, SizesAssumption DEF VirtOf
<1>3. CASE ~v.whole
  BY <1>3, ViewTypes DEF Bounded
<1> QED
  BY <1>2, <1>3

LEMMA BoundedWindow ==
  ASSUME CellInv, SizesBounded, NEW v \in Handles, Sound(v), Bounded(v),
         NEW o \in Nat, NEW m \in Nat, o + m <= SizeOf(v)
  PROVE  Bounded(Window(v, o, m))
<1>1. /\ SizeOf(v) <= MaxLen + MaxVirt /\ VirtOf(v) <= MaxVirt
      /\ SizeOf(v) \in Nat /\ VirtOf(v) \in Nat /\ PhysOf(v) \in Nat
      /\ SizeOf(v) = PhysOf(v) + VirtOf(v)
  BY BoundedSize, ViewTypes
<1>2. Window(v, o, m).len = m
  BY DEF Window
<1>3. Window(v, o, m).virt <= MaxVirt
  BY <1>1, SizesAssumption DEF Window, Lesser
<1> QED
  BY <1>1, <1>2, <1>3, SizesAssumption DEF Bounded

LEMMA UpdateBounded ==
  ASSUME NEW cells, NEW h, NEW op, NEW b, Update(cells, h, op, b),
         \A c \in Objects : cells[c].virt <= MaxVirt, \A a \in Buffers : Bounded(h[a])
  PROVE  SizesBounded'
<1>1. \A c \in Objects : heap'[c].virt <= MaxVirt
  BY SizesAssumption DEF Update, EmptyCell
<1>2. handle' = h
  BY DEF Update
<1> QED
  BY <1>1, <1>2 DEF SizesBounded, Bounded

LEMMA OwnFreshBounded ==
  ASSUME IInv, SizesBounded, NEW b \in Buffers, NEW c \in FreeCells,
         NEW data, data.virt <= MaxVirt, NEW op,
         Update([heap EXCEPT ![c] = data],
                [handle EXCEPT ![b] = Whole("copied", c)], op, b)
  PROVE  SizesBounded'
<1>1. \A d \in Objects : [heap EXCEPT ![c] = data][d].virt <= MaxVirt
  BY DEF IInv, TypeOK, SizesBounded
<1>2. \A a \in Buffers : Bounded([handle EXCEPT ![b] = Whole("copied", c)][a])
  BY DEF IInv, TypeOK, SizesBounded, Bounded, Whole
<1> QED
  BY <1>1, <1>2, UpdateBounded

LEMMA ReferBounded ==
  ASSUME IInv, SizesBounded, NEW b \in Buffers, NEW v, Bounded(v), NEW op,
         Update(heap, [handle EXCEPT ![b] = v], op, b)
  PROVE  SizesBounded'
<1>1. \A a \in Buffers : Bounded([handle EXCEPT ![b] = v][a])
  BY DEF IInv, TypeOK, SizesBounded
<1> QED
  BY <1>1, UpdateBounded DEF SizesBounded

LEMMA ThrowBounded ==
  ASSUME SizesBounded, NEW op, NEW b, Throw(op, b)
  PROVE  SizesBounded'
BY DEF SizesBounded, Throw

LEMMA ReadBufferBounded ==
  ASSUME IInv, SizesBounded, NEW b \in Buffers, NEW v \in Handles, Sound(v), Bounded(v),
         NEW op, ReadBuffer(op, b, v)
  PROVE  SizesBounded'
<1>1. ReadInto(v).virt <= MaxVirt
  BY BoundedSize DEF ReadInto, IInv, TypeOK, CellInv
<1> QED
  BY <1>1, OwnFreshBounded, ThrowBounded DEF ReadBuffer

LEMMA InitBounded == Init => SizesBounded
<1> SUFFICES ASSUME Init PROVE SizesBounded
  OBVIOUS
<1>1. \A c \in Objects : heap[c].virt <= MaxVirt
  BY SizesAssumption DEF Init, EmptyCell
<1>2. \A b \in Buffers : handle[b].whole
  BY DEF Init, Whole
<1> QED
  BY <1>1, <1>2 DEF SizesBounded, Bounded

LEMMA NextBounded == IInv /\ SizesBounded /\ [Next]_vars => SizesBounded'
<1> SUFFICES ASSUME IInv, SizesBounded, [Next]_vars PROVE SizesBounded'
  OBVIOUS
<1>a. CellInv /\ TypeOK /\ HandleInv
  BY DEF IInv, TypeOK, CellInv
<1>0. \A b \in Buffers : handle[b] \in Handles /\ Sound(handle[b]) /\ Bounded(handle[b])
  BY <1>a DEF HandleInv, SizesBounded
<1>1. ASSUME NEW b \in Buffers, NEW s \in Sources, NEW copy \in BOOLEAN,
             Deserialize(b, s, copy)
      PROVE  SizesBounded'
  <2>1. /\ Whole("ref", s) \in Handles
        /\ Sound(Whole("ref", s)) /\ Bounded(Whole("ref", s))
    BY DEF Whole, Handles, Objects, Sound, Bounded
  <2> QED
    BY <1>1, <2>1, ReadBufferBounded, ReferBounded DEF Deserialize
<1>2. ASSUME NEW a \in Buffers, NEW b \in Buffers, NEW w \in Windows,
             NEW copy \in BOOLEAN, DeserializeWindow(b, a, w[1], w[2], copy)
      PROVE  SizesBounded'
  <2> DEFINE v == Window(handle[a], w[1], w[2])
  <2>0. w[1] \in Nat /\ w[2] \in Nat
    BY SizesAssumption
  <2>1. CASE w[1] + w[2] > SizeOf(handle[a])
    BY <1>2, <2>1, ThrowBounded DEF DeserializeWindow
  <2>2. CASE ~(w[1] + w[2] > SizeOf(handle[a]))
    <3>1. w[1] + w[2] <= SizeOf(handle[a])
      BY <2>0, <2>2, <1>0, <1>a, ViewTypes
    <3>2. v \in Handles /\ Sound(v) /\ Bounded(v)
      BY <1>0, <1>a, <2>0, <3>1, WindowType, BoundedWindow
    <3>3. \/ ReadBuffer("window", b, v)
          \/ Update(heap, [handle EXCEPT ![b] = v], "window", b)
      BY <1>2, <2>2 DEF DeserializeWindow
    <3> HIDE DEF v
    <3> QED
      BY <3>2, <3>3, ReadBufferBounded, ReferBounded
  <2> QED
    BY <2>1, <2>2
<1>3. ASSUME NEW a \in Buffers, NEW b \in Buffers, Assign(b, a)
      PROVE  SizesBounded'
  <2>1. Bounded([handle[a] EXCEPT !.kind = "ref"])
    BY <1>0 DEF Bounded, Handles
  <2> QED
    BY <1>3, <2>1, ReferBounded DEF Assign
<1>4. ASSUME NEW a \in Buffers, NEW b \in Buffers, Move(b, a)
      PROVE  SizesBounded'
  <2> DEFINE h == [handle EXCEPT ![b] = handle[a], ![a].kind = "moved"]
  <2>1. \A d \in Buffers : Bounded(h[d])
    BY <1>0, <1>4, <1>a DEF Bounded, Handles, Move, HandleInv
  <2>2. Update(heap, h, "move", b)
    BY <1>4 DEF Move
  <2> HIDE DEF h
  <2> QED
    BY <2>1, <2>2, UpdateBounded DEF SizesBounded
<1>5. ASSUME NEW b \in Buffers, CopyReferencedBuffer(b)
      PROVE  SizesBounded'
  BY <1>0, <1>5, ReadBufferBounded DEF CopyReferencedBuffer
<1>6. ASSUME NEW b \in Buffers, NEW bytes \in Strings, EditOwned(b, bytes)
      PROVE  SizesBounded'
  <2>1. \A c \in Objects : [heap EXCEPT ![handle[b].cell].phys = bytes][c].virt <= MaxVirt
    BY <1>a DEF SizesBounded, CellInv, Contents
  <2> QED
    BY <1>0, <1>6, <2>1, UpdateBounded DEF EditOwned
<1>7. ASSUME NEW b \in Buffers, NEW bytes \in Strings, EditReferenced(b, bytes)
      PROVE  SizesBounded'
  <2>1. [ReadInto(handle[b]) EXCEPT !.phys = bytes].virt <= MaxVirt
    BY <1>0, <1>a, BoundedSize DEF ReadInto
  <2> QED
    BY <1>7, <2>1, ThrowBounded, OwnFreshBounded DEF EditReferenced
<1>8. ASSUME NEW s \in Sources, NEW bytes \in Strings, CallerWrites(s, bytes)
      PROVE  SizesBounded'
  BY <1>a, <1>8 DEF CallerWrites, SizesBounded, CellInv, Contents, Bounded
<1>9. CASE UNCHANGED vars
  BY <1>9 DEF vars, SizesBounded, Bounded
<1> QED
  BY <1>1, <1>2, <1>3, <1>4, <1>5, <1>6, <1>7, <1>8, <1>9 DEF Next

LEMMA Boundedness == Spec => []SizesBounded
BY InitBounded, NextBounded, Invariance, PTL DEF Spec

-----------------------------------------------------------------------------
(* Writing in two parts.                                                   *)

LEMMA CopiedWithin ==
  ASSUME CellInv, NEW v \in Handles, Sound(v), NEW pos \in Nat, NEW n \in Nat,
         pos + n <= Reach(v)
  PROVE  Copied(v, pos, n).out = [i \in 1..n |-> ByteAt(v.cell, v.off + pos + i)]
<1>1. Total(v.cell) \in Nat /\ v.off \in Nat
  BY ViewTypes, CellTypes
<1>2. Reach(v) \in Int
  BY <1>1 DEF Reach
<1>3. n <= Reach(v) - pos
  BY <1>2
<1> QED
  BY <1>3 DEF Copied

LEMMA CopiedBytes ==
  ASSUME CellInv, NEW v \in Handles, Sound(v), NEW pos \in Nat, NEW n \in Nat,
         pos + n <= Reach(v)
  PROVE  /\ Copied(v, pos, n).out \in Seq(Nat)
         /\ Len(Copied(v, pos, n).out) = n
         /\ \A i \in 1..n : Copied(v, pos, n).out[i] = ByteAt(v.cell, v.off + pos + i)
<1> DEFINE out == [i \in 1..n |-> ByteAt(v.cell, v.off + pos + i)]
<1>1. v.off \in Nat /\ v.cell \in Objects
  BY ViewTypes
<1>2. \A i \in 1..n : v.off + pos + i \in Nat \ {0}
  BY <1>1
<1>3. \A i \in 1..n : ByteAt(v.cell, v.off + pos + i) \in Nat
  BY <1>1, <1>2, ByteTypes
<1>4. out \in [1..n -> Nat]
  BY <1>3
<1>5. out \in Seq(Nat) /\ Len(out) = n
  BY <1>4
<1>6. Copied(v, pos, n).out = out
  BY CopiedWithin
<1> QED
  BY <1>5, <1>6

LEMMA SplitWritesAll ==
  ASSUME IInv, SizesBounded
  PROVE  SplitSerialize
<1> SUFFICES ASSUME NEW b \in Buffers, NEW virtual \in BOOLEAN, Live(b), Readable(handle[b]),
                    NEW k \in 0..(IF virtual THEN SizeOf(handle[b]) ELSE PhysOf(handle[b]))
             PROVE  SerializeUntil(handle[b], 0, k, virtual).out
                      \o SerializeUntil(handle[b], k, SizeMax, virtual).out
                    = Serialize(handle[b], virtual).out
  BY DEF SplitSerialize
<1> DEFINE v == handle[b]
           size == IF virtual THEN SizeOf(v) ELSE PhysOf(v)
           first == SerializeUntil(v, 0, k, virtual).out
           second == SerializeUntil(v, k, SizeMax, virtual).out
           all == Serialize(v, virtual).out
<1>1. CellInv /\ v \in Handles /\ Sound(v) /\ Bounded(v)
  BY DEF IInv, TypeOK, CellInv, HandleInv, SizesBounded
<1>2. /\ size \in Nat /\ SizeOf(v) \in Nat /\ PhysOf(v) \in Nat /\ size <= SizeOf(v)
      /\ v.off \in Nat /\ v.cell \in Objects
  BY <1>1, ViewTypes
<1>3. Reach(v) \in Int /\ size <= Reach(v)
  <2>1. Total(v.cell) \in Nat
    BY <1>2, <1>1, CellTypes
  <2> QED
    BY <1>2, <2>1 DEF Readable, Reach
<1>4. size <= SizeMax /\ SizeMax \in Nat
  BY <1>1, <1>2, BoundedSize, SizesAssumption
<1>5. k \in Nat /\ k <= size
  BY <1>2
<1> HIDE DEF v
<1>6. all = Copied(v, 0, size).out
  BY DEF Serialize, v
<1>7. first = IF k = 0 THEN <<>> ELSE Copied(v, 0, k).out
  <2>1. CASE k = SizeMax
    BY <1>2, <1>4, <1>5, <2>1 DEF SerializeUntil, v
  <2>2. CASE k # SizeMax
    BY <1>2, <1>4, <1>5, <2>2 DEF SerializeUntil, v
  <2> QED
    BY <2>1, <2>2
<1>8. second = IF size - k = 0 THEN <<>> ELSE Copied(v, k, size - k).out
  BY <1>4, <1>5, <1>2 DEF SerializeUntil, v
<1> HIDE DEF size, first, second, all
<1>9. /\ all \in Seq(Nat) /\ Len(all) = size
      /\ \A i \in 1..size : all[i] = ByteAt(v.cell, v.off + 0 + i)
  <2>1. 0 \in Nat /\ size \in Nat /\ 0 + size <= Reach(v)
    BY <1>2, <1>3
  <2> QED
    BY <1>1, <1>6, <2>1, CopiedBytes
<1>10. /\ first \in Seq(Nat) /\ Len(first) = k
       /\ \A i \in 1..k : first[i] = ByteAt(v.cell, v.off + 0 + i)
  <2>1. CASE k = 0
    BY <1>7, <2>1
  <2>2. CASE k # 0
    <3>1. 0 + k <= Reach(v) /\ 0 \in Nat
      BY <1>2, <1>3, <1>5
    <3> QED
      BY <1>1, <1>5, <1>7, <2>2, <3>1, CopiedBytes DEF v
  <2> QED
    BY <2>1, <2>2
<1>11. /\ second \in Seq(Nat) /\ Len(second) = size - k
       /\ \A i \in 1..(size - k) : second[i] = ByteAt(v.cell, v.off + k + i)
  <2>1. CASE size - k = 0
    BY <1>2, <1>5, <1>8, <2>1
  <2>2. CASE size - k # 0
    <3>1. k + (size - k) <= Reach(v) /\ size - k \in Nat
      BY <1>2, <1>3, <1>5
    <3> QED
      BY <1>1, <1>5, <1>8, <2>2, <3>1, CopiedBytes DEF v
  <2> QED
    BY <2>1, <2>2
<1>12. /\ first \o second \in Seq(Nat)
       /\ Len(first \o second) = size
       /\ \A i \in 1..size : (first \o second)[i] = IF i <= k THEN first[i] ELSE second[i - k]
  <2>1. Len(first) + Len(second) = size
    BY <1>2, <1>5, <1>10, <1>11
  <2>2. /\ first \o second \in Seq(Nat)
        /\ Len(first \o second) = Len(first) + Len(second)
        /\ \A i \in 1..Len(first) + Len(second) :
             (first \o second)[i] = IF i <= Len(first) THEN first[i] ELSE second[i - Len(first)]
    BY <1>10, <1>11, ConcatProperties
  <2> QED
    BY <1>10, <2>1, <2>2
<1>13. \A i \in 1..size : (first \o second)[i] = all[i]
  <2> SUFFICES ASSUME NEW i \in 1..size PROVE (first \o second)[i] = all[i]
    OBVIOUS
  <2>0. i \in Nat /\ v.off \in Nat
    BY <1>2 DEF v
  <2>1. CASE i <= k
    BY <1>9, <1>10, <1>12, <1>5, <2>0, <2>1
  <2>2. CASE ~(i <= k)
    <3>1. i - k \in 1..(size - k)
      BY <1>2, <1>5, <2>0, <2>2
    <3>2. v.off + k + (i - k) = v.off + 0 + i
      BY <1>5, <2>0
    <3> QED
      BY <1>9, <1>11, <1>12, <2>2, <3>1, <3>2
  <2> QED
    BY <2>1, <2>2
<1>14. first \o second = all
  BY <1>9, <1>12, <1>13, SeqEqual
<1> QED
  BY <1>14 DEF first, second, all, v

(* Any buffer that can be read at all is written whole by two calls of     *)
(* serialize_until, wherever the first of them stops.                      *)
THEOREM PartsWriteWhole == Spec => []SplitSerialize
<1>1. IInv /\ SizesBounded => SplitSerialize
  BY SplitWritesAll
<1> QED
  BY <1>1, Invariance, Boundedness, PTL

-----------------------------------------------------------------------------
(* A window that is up to date says rightly which of its bytes are         *)
(* virtual; a window of it is up to date too.                              *)

LEMMA WindowFields ==
  ASSUME NEW v, NEW o \in Nat, NEW m \in Nat, PhysOf(v) \in Nat
  PROVE  /\ Window(v, o, m).cell = v.cell /\ Window(v, o, m).off = v.off + o
         /\ Window(v, o, m).len = m /\ ~Window(v, o, m).whole
         /\ o + m <= PhysOf(v) => Window(v, o, m).virt = 0
         /\ o <= PhysOf(v) /\ PhysOf(v) < o + m => Window(v, o, m).virt = o + m - PhysOf(v)
         /\ PhysOf(v) < o => Window(v, o, m).virt = m
BY DEF Window, Lesser

LEMMA WindowOfWhole ==
  ASSUME CellInv, NEW c \in Objects, NEW o \in Nat, NEW m \in Nat
  PROVE  LET virt == Window(Whole("ref", c), o, m).virt
         IN  /\ o + m <= Phys(c) => virt = 0
             /\ o <= Phys(c) /\ Phys(c) < o + m => virt = o + m - Phys(c)
             /\ Phys(c) < o => virt = m
<1> DEFINE w == Whole("ref", c)
<1>1. w \in Handles /\ Sound(w) /\ w.whole /\ w.cell = c
  BY DEF Whole, Handles, Sound
<1>2. PhysOf(w) = Phys(c) /\ PhysOf(w) \in Nat
  BY <1>1, ViewTypes
<1> HIDE DEF w
<1>3. /\ o + m <= PhysOf(w) => Window(w, o, m).virt = 0
      /\ o <= PhysOf(w) /\ PhysOf(w) < o + m => Window(w, o, m).virt = o + m - PhysOf(w)
      /\ PhysOf(w) < o => Window(w, o, m).virt = m
  BY <1>2, WindowFields
<1> QED
  BY <1>2, <1>3 DEF w

LEMMA UpToDateVirtual ==
  ASSUME CellInv, NEW v \in Handles, Sound(v), UpToDate(v),
         NEW i \in 1..SizeOf(v), i > PhysOf(v)
  PROVE  v.off + i > Phys(v.cell)
<1>1. CASE v.whole
  BY <1>1, ViewTypes DEF Sound
<1>2. CASE ~v.whole
  <2>1. /\ v.cell \in Objects /\ v.off \in Nat /\ v.len \in Nat /\ v.virt \in Nat
        /\ Phys(v.cell) \in Nat /\ SizeOf(v) = v.len /\ VirtOf(v) = v.virt
        /\ PhysOf(v) \in Nat /\ SizeOf(v) = PhysOf(v) + VirtOf(v)
    BY <1>2, ViewTypes
  <2>2. v.virt = Window(Whole("ref", v.cell), v.off, v.len).virt
    BY <1>2 DEF UpToDate
  <2>3. /\ v.off + v.len <= Phys(v.cell) => v.virt = 0
        /\ v.off <= Phys(v.cell) /\ Phys(v.cell) < v.off + v.len
           => v.virt = v.off + v.len - Phys(v.cell)
        /\ Phys(v.cell) < v.off => v.virt = v.len
    BY <2>1, <2>2, WindowOfWhole
  <2> QED
    BY <2>1, <2>3
<1> QED
  BY <1>1, <1>2

LEMMA WindowUpToDate ==
  ASSUME CellInv, NEW v \in Handles, Sound(v), UpToDate(v),
         NEW o \in Nat, NEW m \in Nat, o + m <= SizeOf(v)
  PROVE  UpToDate(Window(v, o, m))
<1> DEFINE w == Whole("ref", v.cell)
<1>0. /\ v.cell \in Objects /\ v.off \in Nat /\ v.len \in Nat /\ v.virt \in Nat
      /\ Phys(v.cell) \in Nat /\ PhysOf(v) \in Nat /\ SizeOf(v) = PhysOf(v) + VirtOf(v)
      /\ v.whole => PhysOf(v) = Phys(v.cell)
      /\ ~v.whole => SizeOf(v) = v.len /\ VirtOf(v) = v.virt
  BY ViewTypes
<1>1. w \in Handles /\ Sound(w) /\ w.whole /\ w.cell = v.cell /\ w.off = 0
  BY <1>0 DEF Whole, Handles, Sound
<1>2. PhysOf(w) = Phys(v.cell)
  BY <1>1, ViewTypes
<1> DEFINE inner == Window(v, o, m)
           there == Window(w, v.off + o, m)
           whole == Window(w, v.off, v.len)
<1> HIDE DEF w
<1>3. v.off + o \in Nat /\ PhysOf(w) \in Nat
  BY <1>0, <1>2
<1>4. /\ inner.cell = v.cell /\ inner.off = v.off + o /\ inner.len = m /\ ~inner.whole
      /\ o + m <= PhysOf(v) => inner.virt = 0
      /\ o <= PhysOf(v) /\ PhysOf(v) < o + m => inner.virt = o + m - PhysOf(v)
      /\ PhysOf(v) < o => inner.virt = m
  BY <1>0, WindowFields
<1>5. /\ v.off + o + m <= PhysOf(w) => there.virt = 0
      /\ v.off + o <= PhysOf(w) /\ PhysOf(w) < v.off + o + m
         => there.virt = v.off + o + m - PhysOf(w)
      /\ PhysOf(w) < v.off + o => there.virt = m
  <2> DEFINE x == v.off + o
  <2>1. x \in Nat
    BY <1>3
  <2> HIDE DEF x
  <2>2. /\ x + m <= PhysOf(w) => Window(w, x, m).virt = 0
        /\ x <= PhysOf(w) /\ PhysOf(w) < x + m
           => Window(w, x, m).virt = x + m - PhysOf(w)
        /\ PhysOf(w) < x => Window(w, x, m).virt = m
    BY <1>3, <2>1, WindowFields
  <2> QED
    BY <2>2 DEF x
<1>6. /\ v.off + v.len <= PhysOf(w) => whole.virt = 0
      /\ v.off <= PhysOf(w) /\ PhysOf(w) < v.off + v.len
         => whole.virt = v.off + v.len - PhysOf(w)
      /\ PhysOf(w) < v.off => whole.virt = v.len
  <2>1. v.off \in Nat /\ v.len \in Nat /\ PhysOf(w) \in Nat
    BY <1>0, <1>3
  <2> QED
    BY <2>1, WindowFields
<1>7. UpToDate(v) => v.whole \/ v.virt = whole.virt
  BY DEF UpToDate, w
<1>8. inner.virt = there.virt
  <2> HIDE DEF inner, there, whole
  <2>1. CASE v.whole
    <3>1. v.off = 0
      BY <2>1 DEF Sound
    <3> QED
      BY <1>0, <1>2, <1>4, <1>5, <2>1, <3>1
  <2>2. CASE ~v.whole
    BY <1>0, <1>2, <1>4, <1>5, <1>6, <1>7, <2>2
  <2> QED
    BY <2>1, <2>2
<1> QED
  BY <1>4, <1>8 DEF UpToDate, w

(* A container filled by read_buffer is as long as what was read, and      *)
(* reads the same unless that was stale.                                   *)
LEMMA ReadBack ==
  ASSUME CellInv, NEW v \in Handles, Sound(v), NEW c,
         heap'[c] = ReadInto(v)
  PROVE  /\ Len(Content(Whole("copied", c))') = SizeOf(v)
         /\ UpToDate(v) => Content(Whole("copied", c))' = Content(v)
<1> DEFINE n == PhysOf(v)
<1>1. /\ n \in Nat /\ VirtOf(v) \in Nat /\ SizeOf(v) = n + VirtOf(v) /\ SizeOf(v) \in Nat
      /\ v.cell \in Objects /\ v.off \in Nat
  BY ViewTypes
<1>2. heap'[c].phys = Bytes(v, n) /\ heap'[c].virt = VirtOf(v)
  BY DEF ReadInto
<1>3. /\ Len(heap'[c].phys) = n
      /\ \A i \in 1..n : heap'[c].phys[i] = ByteAt(v.cell, v.off + i)
  <2>1. Bytes(v, n) = [i \in 1..n |-> ByteAt(v.cell, v.off + i)]
    BY DEF Bytes
  <2> HIDE DEF n
  <2>2. Len([i \in 1..n |-> ByteAt(v.cell, v.off + i)]) = n
    BY <1>1
  <2> QED
    BY <1>2, <2>1, <2>2
<1> DEFINE read == [i \in 1..SizeOf(v) |-> IF i <= n THEN heap'[c].phys[i] ELSE 0]
<1> HIDE DEF n
<1>4. Content(Whole("copied", c))' = read
  <2>1. Content(Whole("copied", c))'
          = [i \in 1..(n + VirtOf(v)) |-> IF 0 + i <= n THEN heap'[c].phys[0 + i] ELSE 0]
    BY <1>2, <1>3 DEF Content, Whole, Bytes, SizeOf, Total, Phys, ByteAt
  <2>2. \A i \in 1..(n + VirtOf(v)) : 0 + i = i
    BY <1>1
  <2> QED
    BY <1>1, <2>1, <2>2
<1>5. ASSUME UpToDate(v) PROVE read = Content(v)
  <2>1. Content(v) = [i \in 1..SizeOf(v) |-> ByteAt(v.cell, v.off + i)]
    BY DEF Content, Bytes
  <2>2. ASSUME NEW i \in 1..SizeOf(v)
        PROVE  (IF i <= n THEN heap'[c].phys[i] ELSE 0) = ByteAt(v.cell, v.off + i)
    <3>1. CASE i <= n
      <4>1. i \in 1..n
        BY <1>1, <3>1
      <4> QED
        BY <1>3, <3>1, <4>1
    <3>2. CASE ~(i <= n)
      <4>1. i > PhysOf(v)
        BY <1>1, <3>2 DEF n
      <4>2. v.off + i > Phys(v.cell) /\ v.off + i \in Nat \ {0}
        BY <1>1, <1>5, <4>1, UpToDateVirtual
      <4> QED
        BY <1>1, <3>2, <4>2, ByteTypes
    <3> QED
      BY <3>1, <3>2
  <2> QED
    BY <2>1, <2>2
<1>6. Len(read) = SizeOf(v)
  BY <1>1
<1> QED
  BY <1>4, <1>5, <1>6

(* Copying what is referred to keeps what is read, step by step.           *)
LEMMA CopyKeeps ==
  ASSUME IInv, NEW b \in Buffers, CopyReferencedBuffer(b), last'.ok, Fresh(b)
  PROVE  Content(handle[b])' = Content(handle[b])
<1> DEFINE v == handle[b]
<1>1. CellInv /\ v \in Handles /\ Sound(v) /\ UpToDate(v)
  BY DEF IInv, TypeOK, CellInv, HandleInv, Fresh
<1>2. PICK c \in FreeCells :
        Update([heap EXCEPT ![c] = ReadInto(v)], [handle EXCEPT ![b] = Whole("copied", c)],
               "copy_referenced_buffer", b)
  <2>1. ~Throw("copy_referenced_buffer", b)
    BY DEF Throw
  <2> QED
    BY <2>1 DEF CopyReferencedBuffer, ReadBuffer
<1>3. handle'[b] = Whole("copied", c)
  BY <1>2 DEF Update, IInv, TypeOK
<1>4. heap'[c] = ReadInto(v)
  <2>1. c \in Objects /\ Held([handle EXCEPT ![b] = Whole("copied", c)], c)
    BY DEF FreeCells, Objects, Held, Whole, IInv, TypeOK
  <2> QED
    BY <1>2, <2>1 DEF Update, IInv, TypeOK
<1>5. Content(Whole("copied", c))' = Content(v)
  BY <1>1, <1>4, ReadBack
<1> QED
  BY <1>3, <1>5 DEF Content, Bytes, SizeOf, ByteAt, Total, Phys

(* Only copy_referenced_buffer is recorded as such.                        *)
LEMMA CopyIsCopy ==
  ASSUME Next, NEW b \in Buffers,
         last'.op = "copy_referenced_buffer", last'.buf = b
  PROVE  CopyReferencedBuffer(b)
<1>a. \A op, d, cells, h : Update(cells, h, op, d) => last'.op = op /\ last'.buf = d
  BY DEF Update
<1>b. \A op, d : Throw(op, d) => last'.op = op /\ last'.buf = d
  BY DEF Throw
<1>1. \A op, d, v : ReadBuffer(op, d, v) => last'.op = op /\ last'.buf = d
  BY <1>a, <1>b DEF ReadBuffer
<1>2. ASSUME NEW d \in Buffers, NEW s \in Sources, NEW copy \in BOOLEAN, Deserialize(d, s, copy)
      PROVE  FALSE
  BY <1>1, <1>a, <1>2 DEF Deserialize
<1>3. ASSUME NEW a \in Buffers, NEW d \in Buffers, NEW w \in Windows,
             NEW copy \in BOOLEAN, DeserializeWindow(d, a, w[1], w[2], copy)
      PROVE  FALSE
  BY <1>1, <1>a, <1>b, <1>3 DEF DeserializeWindow
<1>4. ASSUME NEW a \in Buffers, NEW d \in Buffers, Assign(d, a) \/ Move(d, a)
      PROVE  FALSE
  BY <1>4 DEF Assign, Move, Update
<1>5. ASSUME NEW d \in Buffers, CopyReferencedBuffer(d)
      PROVE  CopyReferencedBuffer(b)
  BY <1>1, <1>5 DEF CopyReferencedBuffer
<1>6. ASSUME NEW d \in Buffers, NEW bytes \in Strings, EditOwned(d, bytes) \/ EditReferenced(d, bytes)
      PROVE  FALSE
  <2>1. EditOwned(d, bytes) => last'.op = "edit"
    BY <1>a DEF EditOwned
  <2>2. EditReferenced(d, bytes) => last'.op = "edit"
    BY <1>a, <1>b DEF EditReferenced
  <2> QED
    BY <1>6, <2>1, <2>2
<1>7. ASSUME NEW s \in Sources, NEW bytes \in Strings, CallerWrites(s, bytes)
      PROVE  FALSE
  BY <1>7 DEF CallerWrites
<1> QED
  BY <1>2, <1>3, <1>4, <1>5, <1>6, <1>7 DEF Next

(* copy_referenced_buffer never changes what is read of a handle whose     *)
(* window was not measured before an edit, for every buffer and window.    *)
THEOREM CopiesReadTheSame == Spec => CopyPreserves
<1> DEFINE Kept == \A b \in Buffers :
             last'.op = "copy_referenced_buffer" /\ last'.buf = b /\ last'.ok /\ Fresh(b)
             => Content(handle[b])' = Content(handle[b])
<1>1. IInv /\ [Next]_vars => [Kept]_vars
  BY CopyIsCopy, CopyKeeps
<1> QED
  BY <1>1, Invariance, PTL DEF Spec, CopyPreserves

-----------------------------------------------------------------------------
(* Who shares with whom: each reader is on one cell, and a handle that is  *)
(* set leaves its group for another, for one of its own, or for the place  *)
(* of a third.                                                             *)

LEMMA OneCell ==
  ASSUME NEW h, NEW c, NEW x \in OnCell(h, c)
  PROVE  \A d : x \in OnCell(h, d) <=> d = c
<1>1. CASE x \in Sources
  BY <1>1, ObjectsAssumption DEF OnCell
<1>2. CASE x \notin Sources
  BY <1>2 DEF OnCell
<1> QED
  BY <1>1, <1>2

LEMMA LeftOf ==
  ASSUME NEW b, NEW g
  PROVE  g \in Values!Left(b) <=> \E c \in Objects : g = OnCell(handle, c) \ {b} /\ g # {}
BY DEF Values!Left, Sharing

LEMMA SharingOf ==
  ASSUME NEW h, NEW g
  PROVE  g \in Sharing(h) <=> \E c \in Objects : g = OnCell(h, c) /\ g # {}
BY DEF Sharing

(* Handle b is given the value v: it moves to the cell of v.               *)
LEMMA OnCellSet ==
  ASSUME NEW h \in [Buffers -> Handles], NEW b \in Buffers, NEW v \in Handles,
         v.kind # "moved", NEW c
  PROVE  OnCell([h EXCEPT ![b] = v], c)
           = IF c = v.cell THEN (OnCell(h, c) \ {b}) \cup {b} ELSE OnCell(h, c) \ {b}
<1> DEFINE h2 == [h EXCEPT ![b] = v]
<1>1. \A a \in Buffers : h2[a] = IF a = b THEN v ELSE h[a]
  OBVIOUS
<1>2. b \notin Sources
  BY ObjectsAssumption
<1> HIDE DEF h2
<1>3. \A x : x \in OnCell(h2, c) <=> \/ x \in OnCell(h, c) /\ x # b
                                     \/ x = b /\ c = v.cell
  BY <1>1, <1>2 DEF OnCell
<1> QED
  BY <1>3 DEF h2

LEMMA SharingJoined ==
  ASSUME HandleInv, NEW b \in Buffers, NEW v \in Handles, v.kind # "moved",
         NEW x \in OnCell(handle, v.cell)
  PROVE  Sharing([handle EXCEPT ![b] = v]) = Values!Joined(b, x)
<1> DEFINE h == [handle EXCEPT ![b] = v]
           On(c) == OnCell(handle, c)
<1>1. handle \in [Buffers -> Handles] /\ v.cell \in Objects
  BY DEF HandleInv, Handles
<1>2. \A c : OnCell(h, c) = IF c = v.cell THEN (On(c) \ {b}) \cup {b} ELSE On(c) \ {b}
  BY <1>1, OnCellSet
<1>3. \A c : x \in On(c) <=> c = v.cell
  BY OneCell
<1> HIDE DEF h
<1>4. CASE b = x
  <2>1. \A c : OnCell(h, c) = On(c)
    <3> SUFFICES ASSUME NEW c PROVE OnCell(h, c) = On(c)
      OBVIOUS
    <3>1. c = v.cell => b \in On(c)
      BY <1>3, <1>4
    <3>2. c # v.cell => b \notin On(c)
      BY <1>3, <1>4
    <3> QED
      BY <1>2, <3>1, <3>2
  <2>2. Sharing(h) = Sharing(handle)
    BY <2>1 DEF Sharing
  <2> QED
    BY <1>4, <2>2 DEF Values!Joined, h
<1>5. CASE b # x
  <2> DEFINE Joined == {IF x \in g THEN g \cup {b} ELSE g : g \in Values!Left(b)}
  <2>1. \A g \in Sharing(h) : g \in Joined
    <3> SUFFICES ASSUME NEW g \in Sharing(h) PROVE g \in Joined
      OBVIOUS
    <3>1. PICK c \in Objects : g = OnCell(h, c) /\ g # {}
      BY SharingOf
    <3>2. CASE c = v.cell
      <4>1. x \in On(c) \ {b}
        BY <1>3, <1>5, <3>2
      <4>2. On(c) \ {b} \in Values!Left(b)
        BY <4>1, LeftOf
      <4>3. g = (On(c) \ {b}) \cup {b}
        BY <1>2, <3>1, <3>2
      <4> QED
        BY <4>1, <4>2, <4>3
    <3>3. CASE c # v.cell
      <4>1. x \notin On(c) /\ g = On(c) \ {b}
        BY <1>2, <1>3, <3>1, <3>3
      <4>2. g \in Values!Left(b)
        BY <3>1, <4>1, LeftOf
      <4> QED
        BY <4>1, <4>2
    <3> QED
      BY <3>2, <3>3
  <2>2. \A g \in Values!Left(b) : (IF x \in g THEN g \cup {b} ELSE g) \in Sharing(h)
    <3> SUFFICES ASSUME NEW g \in Values!Left(b)
                 PROVE  (IF x \in g THEN g \cup {b} ELSE g) \in Sharing(h)
      OBVIOUS
    <3>1. PICK c \in Objects : g = On(c) \ {b} /\ g # {}
      BY LeftOf
    <3>2. x \in g <=> c = v.cell
      BY <1>3, <1>5, <3>1
    <3>3. (IF x \in g THEN g \cup {b} ELSE g) = OnCell(h, c)
      BY <1>2, <3>1, <3>2
    <3>4. OnCell(h, c) # {}
      BY <1>2, <3>1
    <3> QED
      BY <3>3, <3>4, SharingOf
  <2>3. Sharing(h) = Joined
    BY <2>1, <2>2
  <2> QED
    BY <1>5, <2>3 DEF Values!Joined, h
<1> QED
  BY <1>4, <1>5

LEMMA SharingAlone ==
  ASSUME HandleInv, NEW b \in Buffers, NEW c \in FreeCells
  PROVE  Sharing([handle EXCEPT ![b] = Whole("copied", c)]) = Values!Alone(b)
<1> DEFINE v == Whole("copied", c)
           h == [handle EXCEPT ![b] = v]
<1>1. handle \in [Buffers -> Handles] /\ v \in Handles /\ v.kind # "moved" /\ v.cell = c /\ c \in Objects
  BY DEF HandleInv, Handles, Whole, FreeCells, Objects
<1> HIDE DEF v
<1>2. \A d : OnCell(h, d) = IF d = c THEN (OnCell(handle, d) \ {b}) \cup {b}
                            ELSE OnCell(handle, d) \ {b}
  <2>1. \A d : OnCell(h, d) = IF d = v.cell THEN (OnCell(handle, d) \ {b}) \cup {b}
                              ELSE OnCell(handle, d) \ {b}
    BY <1>1, OnCellSet
  <2> QED
    BY <1>1, <2>1
<1>3. OnCell(handle, c) = {}
  BY ObjectsAssumption DEF OnCell, FreeCells, Held
<1> HIDE DEF h
<1>4. OnCell(h, c) = {b} /\ \A d : d # c => OnCell(h, d) = OnCell(handle, d) \ {b}
  BY <1>2, <1>3
<1>5. \A g \in Sharing(h) : g \in Values!Left(b) \cup {{b}}
  <2> SUFFICES ASSUME NEW g \in Sharing(h) PROVE g \in Values!Left(b) \cup {{b}}
    OBVIOUS
  <2>1. PICK d \in Objects : g = OnCell(h, d) /\ g # {}
    BY SharingOf
  <2>2. CASE d = c
    BY <1>4, <2>1, <2>2
  <2>3. CASE d # c
    BY <1>4, <2>1, <2>3, LeftOf
  <2> QED
    BY <2>2, <2>3
<1>6. \A g \in Values!Left(b) \cup {{b}} : g \in Sharing(h)
  <2>1. {b} \in Sharing(h)
    BY <1>1, <1>4, SharingOf
  <2>2. ASSUME NEW g \in Values!Left(b) PROVE g \in Sharing(h)
    <3>1. PICK d \in Objects : g = OnCell(handle, d) \ {b} /\ g # {}
      BY LeftOf
    <3>2. d # c
      BY <1>3, <3>1
    <3> QED
      BY <1>4, <3>1, <3>2, SharingOf
  <2> QED
    BY <2>1, <2>2
<1> QED
  BY <1>5, <1>6 DEF Values!Alone, h, v

LEMMA SharingMoved ==
  ASSUME HandleInv, NEW a \in Buffers, NEW b \in Buffers, a # b, Live(a)
  PROVE  Sharing([handle EXCEPT ![b] = handle[a], ![a].kind = "moved"])
           = {IF a \in g THEN (g \ {a}) \cup {b} ELSE g : g \in Values!Left(b)}
<1> DEFINE h == [handle EXCEPT ![b] = handle[a], ![a].kind = "moved"]
           k == handle[a].cell
           Moved == {IF a \in g THEN (g \ {a}) \cup {b} ELSE g : g \in Values!Left(b)}
<1>1. handle \in [Buffers -> Handles] /\ handle[a] \in Handles /\ k \in Objects
  BY DEF HandleInv, Handles
<1>2. \A d \in Buffers : /\ d = a => h[d].kind = "moved"
                         /\ d = b => h[d] = handle[a]
                         /\ d # a /\ d # b => h[d] = handle[d]
  BY <1>1 DEF Handles
<1>3. a \notin Sources /\ b \notin Sources
  BY ObjectsAssumption
<1>4. \A c : a \in OnCell(handle, c) <=> c = k
  BY <1>3 DEF OnCell, Live
<1> HIDE DEF h
<1>5. \A c, x : x \in OnCell(h, c) <=> \/ x \in OnCell(handle, c) /\ x # b /\ x # a
                                       \/ x = b /\ c = k
  BY <1>2, <1>3 DEF OnCell, Live
<1> HIDE DEF k
<1>6. \A c : OnCell(h, c) = IF c = k THEN ((OnCell(handle, c) \ {b}) \ {a}) \cup {b}
                            ELSE OnCell(handle, c) \ {b}
  <2> SUFFICES ASSUME NEW c
               PROVE  OnCell(h, c) = IF c = k THEN ((OnCell(handle, c) \ {b}) \ {a}) \cup {b}
                                     ELSE OnCell(handle, c) \ {b}
    OBVIOUS
  <2>1. CASE c = k
    BY <1>5, <2>1
  <2>2. CASE c # k
    BY <1>4, <1>5, <2>2
  <2> QED
    BY <2>1, <2>2
<1>7. \A g \in Sharing(h) : g \in Moved
  <2> SUFFICES ASSUME NEW g \in Sharing(h) PROVE g \in Moved
    OBVIOUS
  <2>1. PICK c \in Objects : g = OnCell(h, c) /\ g # {}
    BY SharingOf
  <2> DEFINE left == OnCell(handle, c) \ {b}
  <2>2. CASE c = k
    <3>1. a \in left
      BY <1>4, <2>2
    <3>2. left \in Values!Left(b)
      BY <3>1, LeftOf
    <3>3. g = (left \ {a}) \cup {b}
      BY <1>6, <2>1, <2>2
    <3> QED
      BY <3>1, <3>2, <3>3
  <2>3. CASE c # k
    <3>1. a \notin left /\ g = left
      BY <1>4, <1>6, <2>1, <2>3
    <3>2. left \in Values!Left(b)
      BY <2>1, <3>1, LeftOf
    <3> QED
      BY <3>1, <3>2
  <2> QED
    BY <2>2, <2>3
<1>8. \A g \in Values!Left(b) : (IF a \in g THEN (g \ {a}) \cup {b} ELSE g) \in Sharing(h)
  <2> SUFFICES ASSUME NEW g \in Values!Left(b)
               PROVE  (IF a \in g THEN (g \ {a}) \cup {b} ELSE g) \in Sharing(h)
    OBVIOUS
  <2>1. PICK c \in Objects : g = OnCell(handle, c) \ {b} /\ g # {}
    BY LeftOf
  <2>2. a \in g <=> c = k
    BY <1>4, <2>1
  <2>3. (IF a \in g THEN (g \ {a}) \cup {b} ELSE g) = OnCell(h, c)
    BY <1>6, <2>1, <2>2
  <2>4. OnCell(h, c) # {}
    BY <1>6, <2>1
  <2> QED
    BY <2>3, <2>4, SharingOf
<1>9. Sharing(h) = Moved
  BY <1>7, <1>8
<1> QED
  BY <1>9 DEF h

-----------------------------------------------------------------------------
(* RefBuffer implements BufferValues: what a step leaves alone.            *)

Readers == Buffers \cup Sources

(* What a view reads depends on its cell alone.                            *)
LEMMA ViewKept ==
  ASSUME NEW v, heap'[v.cell] = heap[v.cell]
  PROVE  /\ Content(v)' = Content(v)
         /\ UpToDate(v)' <=> UpToDate(v)
BY DEF Content, Bytes, ByteAt, SizeOf, Total, Phys, UpToDate, Window, PhysOf, VirtOf, Whole

LEMMA ViewOfHandle ==
  ASSUME NEW x, NEW v, handle'[x] = v
  PROVE  /\ Content(handle[x])' = Content(v)'
         /\ UpToDate(handle[x])' <=> UpToDate(v)'
BY DEF Content, Bytes, ByteAt, SizeOf, Total, Phys, UpToDate, Window, PhysOf, VirtOf, Whole

LEMMA HandleFacts ==
  ASSUME IInv, NEW b \in Buffers
  PROVE  /\ CellInv /\ handle \in [Buffers -> Handles] /\ heap \in [Objects -> Contents]
         /\ handle[b] \in Handles /\ Sound(handle[b]) /\ handle[b].cell \in Objects
         /\ b \notin Sources
BY ObjectsAssumption DEF IInv, TypeOK, CellInv, HandleInv, Handles

LEMMA SourceView ==
  ASSUME NEW s \in Sources
  PROVE  /\ Whole("ref", s) \in Handles /\ Sound(Whole("ref", s))
         /\ Whole("ref", s).cell = s /\ Whole("ref", s).kind = "ref"
         /\ Whole("ref", s).whole /\ Whole("ref", s).off = 0
         /\ s \in Objects /\ s \notin Buffers /\ s \notin Cells
BY ObjectsAssumption DEF Whole, Handles, Sound, Objects

LEMMA ReadsOf ==
  ASSUME NEW x \in Readers
  PROVE  /\ x \in Sources => Reads(x) = Content(Whole("ref", x)) /\ x \notin Outdated
         /\ x \in Buffers => /\ Live(x) => Reads(x) = Content(handle[x])
                             /\ ~Live(x) => Reads(x) = <<>>
                             /\ x \in Outdated <=> Live(x) /\ ~UpToDate(handle[x])
BY ObjectsAssumption DEF Reads, Outdated, Fresh, Readers

LEMMA ReadsType == IInv => \A x \in Readers : Reads(x) \in Seq(Nat)
<1> SUFFICES ASSUME IInv, NEW x \in Readers PROVE Reads(x) \in Seq(Nat)
  OBVIOUS
<1>1. CASE x \in Sources
  <2>1. CellInv
    BY DEF IInv, TypeOK, CellInv
  <2> QED
    BY <1>1, <2>1, SourceView, ContentSeq, ReadsOf
<1>2. CASE x \in Buffers
  <2>1. Content(handle[x]) \in Seq(Nat) /\ <<>> \in Seq(Nat)
    BY <1>2, HandleFacts, ContentSeq
  <2>2. Reads(x) = Content(handle[x]) \/ Reads(x) = <<>>
    BY <1>2, ReadsOf
  <2> QED
    BY <2>1, <2>2
<1> QED
  BY <1>1, <1>2 DEF Readers

LEMMA ReaderKept ==
  ASSUME NEW x \in Readers,
         x \in Sources => heap'[x] = heap[x],
         x \in Buffers => /\ handle'[x] = handle[x]
                          /\ Live(x) => heap'[handle[x].cell] = heap[handle[x].cell]
  PROVE  /\ Reads(x)' = Reads(x)
         /\ (x \in Outdated)' <=> x \in Outdated
<1>1. CASE x \in Sources
  <2> DEFINE v == Whole("ref", x)
  <2>1. v.cell = x
    BY DEF Whole
  <2> HIDE DEF v
  <2>2. Content(v)' = Content(v)
    BY <1>1, <2>1, ViewKept
  <2>3. Reads(x)' = Content(v)' /\ Reads(x) = Content(v)
    BY <1>1 DEF Reads, v
  <2>4. x \notin Buffers
    BY <1>1, SourceView
  <2> QED
    BY <2>2, <2>3, <2>4 DEF Outdated
<1>2. CASE x \in Buffers
  <2> DEFINE v == handle[x]
  <2>1. x \notin Sources
    BY <1>2, ObjectsAssumption
  <2>2. Live(x)' <=> Live(x)
    BY <1>2 DEF Live
  <2>3. Live(x) => /\ Content(handle[x])' = Content(handle[x])
                   /\ UpToDate(handle[x])' <=> UpToDate(handle[x])
    BY <1>2, ViewKept, ViewOfHandle
  <2>4. Reads(x) = (IF Live(x) THEN Content(handle[x]) ELSE <<>>)
    BY <2>1 DEF Reads
  <2>5. Reads(x)' = (IF Live(x)' THEN Content(handle[x])' ELSE <<>>)
    BY <2>1 DEF Reads
  <2> QED
    BY <1>2, <2>2, <2>3, <2>4, <2>5 DEF Outdated, Fresh
<1> QED
  BY <1>1, <1>2 DEF Readers

(* After an update: the cells of callers and the cells somebody still has  *)
(* hold what the update gave them.                                         *)
LEMMA CellsAfter ==
  ASSUME NEW cells, NEW h, NEW op, NEW b, Update(cells, h, op, b)
  PROVE  /\ handle' = h
         /\ \A s \in Sources : heap'[s] = cells[s]
         /\ \A a \in Buffers : h[a].kind # "moved" /\ h[a].cell \in Objects
              => heap'[h[a].cell] = cells[h[a].cell]
BY DEF Update, Held, Objects

LEMMA OthersKept ==
  ASSUME IInv, NEW x \in Readers, NEW cells, NEW h, NEW op, NEW b, Update(cells, h, op, b),
         x \in Sources => cells[x] = heap[x],
         x \in Buffers => /\ h[x] = handle[x]
                          /\ Live(x) => cells[handle[x].cell] = heap[handle[x].cell]
  PROVE  /\ Reads(x)' = Reads(x)
         /\ (x \in Outdated)' <=> x \in Outdated
<1>1. x \in Sources => heap'[x] = heap[x]
  BY CellsAfter
<1>2. x \in Buffers => handle'[x] = handle[x]
  BY CellsAfter
<1>3. x \in Buffers /\ Live(x) => heap'[handle[x].cell] = heap[handle[x].cell]
  BY CellsAfter, HandleFacts DEF Live
<1> QED
  BY <1>1, <1>2, <1>3, ReaderKept

LEMMA OnlyThese ==
  ASSUME IInv', NEW xs, \A x \in Readers \ xs : Reads(x)' = Reads(x)
  PROVE  Values!OnlyOf(xs)
<1>0. IInv' => (\A x \in Readers : Reads(x) \in Seq(Nat))'
  BY ReadsType, PTL
<1>1. \A x \in Readers : Reads(x)' \in Seq(Nat)
  BY <1>0
<1>2. ValuesRead = [x \in Readers |-> Reads(x)] /\ ValuesRead' = [x \in Readers |-> Reads(x)']
  BY DEF ValuesRead, Readers
<1> QED
  BY <1>1, <1>2 DEF Values!OnlyOf, Values!Readers, Readers

LEMMA ValueOf ==
  ASSUME NEW x \in Readers
  PROVE  ValuesRead[x] = Reads(x) /\ ValuesRead'[x] = Reads(x)'
BY DEF ValuesRead, Readers

(* A reader that is there is in a group, with all on its cell.             *)
LEMMA Together ==
  ASSUME NEW c \in Objects, NEW x \in OnCell(handle, c)
  PROVE  Values!Live(x) /\ Values!With(x) = OnCell(handle, c)
<1>1. OnCell(handle, c) \in Sharing(handle)
  BY SharingOf
<1>2. \A g \in Sharing(handle) : x \in g => g = OnCell(handle, c)
  BY OneCell, SharingOf
<1> QED
  BY <1>1, <1>2 DEF Values!Live, Values!With

LEMMA OnOwnCell ==
  ASSUME IInv
  PROVE  /\ \A s \in Sources : s \in OnCell(handle, s)
         /\ \A b \in Buffers : Live(b) => b \in OnCell(handle, handle[b].cell)
BY DEF OnCell, Live

-----------------------------------------------------------------------------
(* RefBuffer implements BufferValues, action by action.                    *)

LEMMA NothingChanges ==
  ASSUME UNCHANGED <<heap, handle>>
  PROVE  UNCHANGED Values!valueVars
<1>1. \A x \in Readers : Reads(x)' = Reads(x) /\ ((x \in Outdated)' <=> x \in Outdated)
  BY ReaderKept
<1>2. ValuesRead' = ValuesRead
  <2>1. ValuesRead = [x \in Readers |-> Reads(x)] /\ ValuesRead' = [x \in Readers |-> Reads(x)']
    BY DEF ValuesRead, Readers
  <2> QED
    BY <1>1, <2>1
<1>3. Outdated' = Outdated
  <2>1. \A x : x \in Outdated => x \in Readers
    BY DEF Outdated, Readers
  <2>2. \A x : x \in Outdated' => x \in Readers
    BY DEF Outdated, Readers
  <2> QED
    BY <1>1, <2>1, <2>2
<1>4. Owners' = Owners /\ Sharing(handle)' = Sharing(handle)
  BY DEF Owners
<1> QED
  BY <1>2, <1>3, <1>4 DEF Values!valueVars

(* Setting handle b keeps what others read and whether it is outdated.     *)
LEMMA OutdatedBut ==
  ASSUME NEW bs, \A x \in Readers \ bs : (x \in Outdated)' <=> x \in Outdated
  PROVE  Outdated' \ bs = Outdated \ bs
<1>1. \A x : x \in Outdated => x \in Readers
  BY DEF Outdated, Readers
<1>2. \A x : x \in Outdated' => x \in Readers
  BY DEF Outdated, Readers
<1> QED
  BY <1>1, <1>2

LEMMA ReferImplements ==
  ASSUME IInv, IInv', NEW b \in Buffers, NEW x \in Readers, NEW op,
         NEW u \in Handles, Sound(u), Reads(x) = Content(u),
         NEW v \in Handles, Sound(v), v.kind = "ref", x \in OnCell(handle, v.cell),
         NEW o \in Nat, v.cell = u.cell, v.off = u.off + o, o + SizeOf(v) <= SizeOf(u),
         x \notin Outdated => UpToDate(v),
         Update(heap, [handle EXCEPT ![b] = v], op, b)
  PROVE  Values!Refer(b, x)
<1> DEFINE h == [handle EXCEPT ![b] = v]
<1>0. CellInv /\ HandleInv /\ handle \in [Buffers -> Handles] /\ v.cell \in Objects
  BY DEF IInv, TypeOK, CellInv, HandleInv, Handles
<1>1. /\ h[b] = v /\ \A a \in Buffers : a # b => h[a] = handle[a]
      /\ \A a \in Buffers : h[a].kind = "copied" <=> a # b /\ handle[a].kind = "copied"
  BY <1>0
<1>2. handle' = h /\ heap'[v.cell] = heap[v.cell]
  <2>1. h[b].kind # "moved" /\ h[b].cell = v.cell
    BY <1>0, <1>1
  <2> HIDE DEF h
  <2>2. Update(heap, h, op, b)
    BY DEF h
  <2> QED
    BY <1>0, <2>1, <2>2, CellsAfter
<1>3. \A y \in Readers \ {b} : Reads(y)' = Reads(y) /\ ((y \in Outdated)' <=> y \in Outdated)
  <2> SUFFICES ASSUME NEW y \in Readers \ {b}
               PROVE  Reads(y)' = Reads(y) /\ ((y \in Outdated)' <=> y \in Outdated)
    OBVIOUS
  <2>1. y \in Buffers => h[y] = handle[y]
    BY <1>1
  <2> HIDE DEF h
  <2> QED
    BY <2>1, OthersKept DEF h
<1> HIDE DEF h
<1>4. Content(handle[b])' = Content(v) /\ (UpToDate(handle[b])' <=> UpToDate(v))
  <2>1. handle'[b] = v
    BY <1>1, <1>2
  <2> QED
    BY <1>2, <2>1, ViewOfHandle, ViewKept
<1>5. Reads(b)' = Content(v) /\ ((b \in Outdated)' <=> ~UpToDate(v))
  <2>1. Live(b)' /\ b \notin Sources
    BY <1>1, <1>2, ObjectsAssumption DEF Live
  <2> QED
    BY <1>4, <2>1 DEF Reads, Outdated, Fresh
<1>6. ValuesRead'[b] \in Values!Parts(ValuesRead[x])
  <2>1. Content(v) \in Values!Parts(Content(u))
    BY <1>0, ContentPart
  <2>2. ValuesRead'[b] = Content(v) /\ ValuesRead[x] = Content(u)
    BY <1>5, ValueOf DEF Readers
  <2> QED
    BY <2>1, <2>2
<1>7. Values!Live(x)
  BY <1>0, Together
<1>8. Owners' = Owners \ {b}
  BY <1>1, <1>2 DEF Owners
<1>9. Values!OnlyOf({b})
  BY <1>3, OnlyThese
<1>10. Sharing(handle)' = Values!Joined(b, x)
  BY <1>0, <1>2, SharingJoined DEF h
<1>11. Outdated' \ {b} = Outdated \ {b} /\ (b \in Outdated' => x \in Outdated)
  BY <1>3, <1>5, OutdatedBut
<1> QED
  BY <1>6, <1>7, <1>8, <1>9, <1>10, <1>11 DEF Values!Refer

(* b has a container of its own: who else reads what sees nothing.         *)
LEMMA AloneStep ==
  ASSUME IInv, IInv', NEW b \in Buffers, NEW c \in FreeCells, NEW data, NEW op,
         Update([heap EXCEPT ![c] = data], [handle EXCEPT ![b] = Whole("copied", c)], op, b)
  PROVE  /\ Owners' = Owners \cup {b}
         /\ Values!OnlyOf({b})
         /\ Sharing(handle)' = Values!Alone(b)
         /\ Outdated' = Outdated \ {b}
         /\ heap'[c] = data
         /\ Reads(b)' = Content(Whole("copied", c))'
<1> DEFINE v == Whole("copied", c)
           h == [handle EXCEPT ![b] = v]
           cells == [heap EXCEPT ![c] = data]
<1>0. /\ HandleInv /\ handle \in [Buffers -> Handles] /\ heap \in [Objects -> Contents]
      /\ c \in Objects /\ c \notin Sources /\ b \notin Sources
  BY ObjectsAssumption DEF IInv, TypeOK, HandleInv, FreeCells, Objects
<1>1. v.kind = "copied" /\ v.cell = c /\ v.whole
  BY DEF Whole
<1> HIDE DEF v
<1>2. /\ h[b] = v /\ \A a \in Buffers : a # b => h[a] = handle[a]
      /\ \A a \in Buffers : h[a].kind = "copied" <=> a = b \/ handle[a].kind = "copied"
  BY <1>0, <1>1
<1>3. /\ cells[c] = data /\ \A d \in Objects : d # c => cells[d] = heap[d]
  BY <1>0
<1>4. \A a \in Buffers : Live(a) => handle[a].cell # c
  BY DEF FreeCells, Held, Live
<1>u. Update(cells, h, op, b)
  BY DEF v
<1> HIDE DEF h, cells
<1>5. handle' = h /\ heap'[c] = data
  <2>1. h[b].kind # "moved" /\ h[b].cell = c
    BY <1>1, <1>2
  <2> QED
    BY <1>0, <1>3, <1>u, <2>1, CellsAfter
<1>6. \A y \in Readers \ {b} : Reads(y)' = Reads(y) /\ ((y \in Outdated)' <=> y \in Outdated)
  <2> SUFFICES ASSUME NEW y \in Readers \ {b}
               PROVE  Reads(y)' = Reads(y) /\ ((y \in Outdated)' <=> y \in Outdated)
    OBVIOUS
  <2>1. y \in Buffers => h[y] = handle[y] /\ (Live(y) => cells[handle[y].cell] = heap[handle[y].cell])
    BY <1>2, <1>3, <1>4, HandleFacts
  <2>2. y \in Sources => cells[y] = heap[y]
    BY <1>0, <1>3 DEF Objects
  <2> QED
    BY <1>u, <2>1, <2>2, OthersKept
<1>7. Live(b)' /\ handle'[b] = v
  BY <1>1, <1>2, <1>5 DEF Live
<1>8. b \notin Outdated'
  <2>1. UpToDate(handle[b])'
    BY <1>1, <1>7 DEF UpToDate
  <2> QED
    BY <2>1 DEF Outdated, Fresh
<1>9. Owners' = Owners \cup {b}
  BY <1>2, <1>5 DEF Owners
<1>10. Values!OnlyOf({b})
  BY <1>6, OnlyThese
<1>11. Sharing(handle)' = Values!Alone(b)
  BY <1>0, <1>5, SharingAlone DEF h, v
<1>12. Outdated' = Outdated \ {b}
  BY <1>6, <1>8, OutdatedBut
<1>13. Reads(b)' = Content(Whole("copied", c))'
  <2>1. Content(handle[b])' = Content(Whole("copied", c))'
    BY <1>7, ViewOfHandle DEF v
  <2> QED
    BY <1>0, <1>7, <2>1 DEF Reads
<1> QED
  BY <1>5, <1>9, <1>10, <1>11, <1>12, <1>13

LEMMA OwnImplements ==
  ASSUME IInv, IInv', NEW b \in Buffers, NEW x \in Readers, NEW op,
         NEW u \in Handles, Sound(u), Reads(x) = Content(u),
         NEW v \in Handles, Sound(v), x \in OnCell(handle, v.cell),
         NEW o \in Nat, v.cell = u.cell, v.off = u.off + o, o + SizeOf(v) <= SizeOf(u),
         x \notin Outdated => UpToDate(v),
         NEW c \in FreeCells,
         Update([heap EXCEPT ![c] = ReadInto(v)],
                [handle EXCEPT ![b] = Whole("copied", c)], op, b)
  PROVE  Values!Own(b, x)
<1>0. CellInv /\ v.cell \in Objects
  BY DEF IInv, TypeOK, CellInv, Handles
<1>1. /\ Owners' = Owners \cup {b}
      /\ Values!OnlyOf({b})
      /\ Sharing(handle)' = Values!Alone(b)
      /\ Outdated' = Outdated \ {b}
      /\ heap'[c] = ReadInto(v)
      /\ Reads(b)' = Content(Whole("copied", c))'
  BY AloneStep
<1>2. /\ Len(Reads(b)') = SizeOf(v)
      /\ UpToDate(v) => Reads(b)' = Content(v)
  BY <1>0, <1>1, ReadBack
<1>3. Content(v) \in Values!Parts(Content(u))
  BY <1>0, ContentPart
<1>4. Len(Content(u)) = SizeOf(u) /\ SizeOf(u) \in Nat /\ SizeOf(v) \in Nat
  BY <1>0, ContentSeq, ViewTypes
<1>5. ValuesRead'[b] = Reads(b)' /\ ValuesRead[x] = Content(u)
  BY ValueOf DEF Readers
<1>6. IF x \in Outdated THEN Len(ValuesRead'[b]) <= Len(ValuesRead[x])
      ELSE ValuesRead'[b] \in Values!Parts(ValuesRead[x])
  <2>1. SizeOf(v) <= SizeOf(u)
    BY <1>4
  <2> QED
    BY <1>2, <1>3, <1>4, <1>5, <2>1
<1>7. Values!Live(x)
  BY <1>0, Together
<1> QED
  BY <1>1, <1>6, <1>7 DEF Values!Own

LEMMA ReadBufferImplements ==
  ASSUME IInv, IInv', NEW b \in Buffers, NEW x \in Readers, NEW op,
         NEW u \in Handles, Sound(u), Reads(x) = Content(u),
         NEW v \in Handles, Sound(v), x \in OnCell(handle, v.cell),
         NEW o \in Nat, v.cell = u.cell, v.off = u.off + o, o + SizeOf(v) <= SizeOf(u),
         x \notin Outdated => UpToDate(v),
         ReadBuffer(op, b, v)
  PROVE  Values!Own(b, x) \/ UNCHANGED Values!valueVars
<1>1. CASE Throw(op, b)
  BY <1>1, NothingChanges DEF Throw
<1>2. CASE \E c \in FreeCells :
             Update([heap EXCEPT ![c] = ReadInto(v)],
                    [handle EXCEPT ![b] = Whole("copied", c)], op, b)
  BY <1>2, OwnImplements
<1> QED
  BY <1>1, <1>2 DEF ReadBuffer

LEMMA MoveImplements ==
  ASSUME IInv, IInv', NEW a \in Buffers, NEW b \in Buffers, Move(b, a)
  PROVE  Values!Become(b, a)
<1> DEFINE h == [handle EXCEPT ![b] = handle[a], ![a].kind = "moved"]
<1>0. /\ a # b /\ Live(a) /\ HandleInv /\ handle \in [Buffers -> Handles]
      /\ handle[a] \in Handles /\ handle[a].cell \in Objects /\ a \notin Sources /\ b \notin Sources
  BY HandleFacts DEF Move, IInv
<1>1. /\ h[b] = handle[a] /\ h[a].kind = "moved"
      /\ \A d \in Buffers : d # a /\ d # b => h[d] = handle[d]
  BY <1>0 DEF Handles
<1>u. Update(heap, h, "move", b)
  BY DEF Move
<1>2. Sharing(h) = {IF a \in g THEN (g \ {a}) \cup {b} ELSE g : g \in Values!Left(b)}
  BY <1>0, SharingMoved
<1> HIDE DEF h
<1>3. handle' = h /\ heap'[handle[a].cell] = heap[handle[a].cell]
  <2>1. h[b].kind # "moved" /\ h[b].cell = handle[a].cell
    BY <1>0, <1>1 DEF Live
  <2> QED
    BY <1>0, <1>u, <2>1, CellsAfter
<1>4. \A y \in Readers \ {a, b} : Reads(y)' = Reads(y) /\ ((y \in Outdated)' <=> y \in Outdated)
  <2> SUFFICES ASSUME NEW y \in Readers \ {a, b}
               PROVE  Reads(y)' = Reads(y) /\ ((y \in Outdated)' <=> y \in Outdated)
    OBVIOUS
  <2>1. y \in Buffers => h[y] = handle[y]
    BY <1>1
  <2> QED
    BY <1>u, <2>1, OthersKept
<1>5. Live(b)' /\ ~Live(a)'
  BY <1>0, <1>1, <1>3 DEF Live
<1>6. /\ Content(handle[b])' = Content(handle[a])
      /\ UpToDate(handle[b])' <=> UpToDate(handle[a])
  <2> DEFINE v == handle[a]
  <2>1. handle'[b] = v
    BY <1>1, <1>3
  <2>2. v.cell = handle[a].cell
    OBVIOUS
  <2> QED
    BY <1>3, <2>1, ViewOfHandle, ViewKept
<1>7. Reads(b)' = Reads(a) /\ Reads(a)' = <<>>
  BY <1>0, <1>5, <1>6 DEF Reads
<1>8. a \notin Outdated' /\ ((b \in Outdated)' <=> a \in Outdated)
  BY <1>0, <1>5, <1>6 DEF Outdated, Fresh
<1>9. Values!Live(a)
  BY <1>0, OnOwnCell, Together
<1>10. Owners' = (Owners \ {a, b}) \cup (IF a \in Owners THEN {b} ELSE {})
  <2>1. \A d \in Buffers : h[d].kind = "copied"
          <=> \/ d # a /\ d # b /\ handle[d].kind = "copied"
              \/ d = b /\ handle[a].kind = "copied"
    BY <1>0, <1>1
  <2> QED
    BY <1>3, <2>1 DEF Owners
<1>11. Values!OnlyOf({b, a})
  BY <1>4, OnlyThese
<1>12. Sharing(handle)' = {IF a \in g THEN (g \ {a}) \cup {b} ELSE g : g \in Values!Left(b)}
  BY <1>2, <1>3
<1>13. Outdated' = (Outdated \ {b, a}) \cup (IF a \in Outdated THEN {b} ELSE {})
  <2>1. Outdated' \ {a, b} = Outdated \ {a, b}
    BY <1>4, OutdatedBut
  <2> QED
    BY <1>8, <2>1
<1>14. ValuesRead'[b] = ValuesRead[a] /\ ValuesRead'[a] = <<>>
  BY <1>7, ValueOf DEF Readers
<1>15. Owners \ {b, a} = Owners \ {a, b}
  OBVIOUS
<1> QED
  BY <1>0, <1>9, <1>10, <1>11, <1>12, <1>13, <1>14, <1>15 DEF Values!Become

(* Writing a cell is seen by those that are on it and by nobody else.      *)
LEMMA CellWritten ==
  ASSUME IInv, IInv', UNCHANGED handle, NEW c \in Objects,
         \A d \in Objects : d # c /\ (d \in Sources \/ Held(handle, d)) => heap'[d] = heap[d]
  PROVE  /\ Values!OnlyOf(OnCell(handle, c))
         /\ Outdated' \ OnCell(handle, c) = Outdated \ OnCell(handle, c)
<1>1. \A y \in Readers \ OnCell(handle, c) :
         Reads(y)' = Reads(y) /\ ((y \in Outdated)' <=> y \in Outdated)
  <2> SUFFICES ASSUME NEW y \in Readers \ OnCell(handle, c)
               PROVE  Reads(y)' = Reads(y) /\ ((y \in Outdated)' <=> y \in Outdated)
    OBVIOUS
  <2>1. y \in Sources => heap'[y] = heap[y]
    BY DEF OnCell, Objects
  <2>2. y \in Buffers /\ Live(y) => heap'[handle[y].cell] = heap[handle[y].cell]
    BY HandleFacts DEF OnCell, Live, Held
  <2> QED
    BY <2>1, <2>2, ReaderKept
<1> QED
  BY <1>1, OnlyThese, OutdatedBut

LEMMA EditOwnedImplements ==
  ASSUME IInv, IInv', NEW b \in Buffers, NEW bytes \in Strings, EditOwned(b, bytes)
  PROVE  Values!EditShared(b)
<1> DEFINE c == handle[b].cell
           cells == [heap EXCEPT ![c].phys = bytes]
<1>1. /\ handle[b].kind = "copied" /\ Live(b) /\ c \in Objects
      /\ heap \in [Objects -> Contents]
  BY HandleFacts DEF EditOwned, Live
<1>2. UNCHANGED handle
  BY DEF EditOwned, Update
<1>3. \A d \in Objects : d # c /\ (d \in Sources \/ Held(handle, d)) => heap'[d] = heap[d]
  BY <1>1 DEF EditOwned, Update
<1>4. /\ Values!OnlyOf(OnCell(handle, c))
      /\ Outdated' \ OnCell(handle, c) = Outdated \ OnCell(handle, c)
  BY <1>1, <1>2, <1>3, CellWritten
<1>5. Values!With(b) = OnCell(handle, c)
  BY <1>1, OnOwnCell, Together
<1>6. \A x \in Outdated' : x \notin Owners
  <2> SUFFICES ASSUME NEW x \in Outdated', x \in Owners PROVE FALSE
    OBVIOUS
  <2>1. x \in Buffers /\ handle[x].whole
    BY DEF Owners, IInv, SoleOwner
  <2>2. UpToDate(handle[x])'
    BY <1>2, <2>1 DEF UpToDate
  <2> QED
    BY <2>2 DEF Outdated, Fresh
<1>7. Owners' = Owners /\ Sharing(handle)' = Sharing(handle) /\ b \in Owners
  BY <1>1, <1>2 DEF Owners
<1> QED
  BY <1>4, <1>5, <1>6, <1>7 DEF Values!EditShared

LEMMA EditReferencedImplements ==
  ASSUME IInv, IInv', NEW b \in Buffers, NEW bytes \in Strings, EditReferenced(b, bytes)
  PROVE  Values!EditAlone(b) \/ UNCHANGED Values!valueVars
<1>1. CASE Throw("edit", b)
  BY <1>1, NothingChanges DEF Throw
<1>2. CASE \E c \in FreeCells :
             Update([heap EXCEPT ![c] = [ReadInto(handle[b]) EXCEPT !.phys = bytes]],
                    [handle EXCEPT ![b] = Whole("copied", c)], "edit", b)
  <2>1. /\ Owners' = Owners \cup {b} /\ Values!OnlyOf({b})
        /\ Sharing(handle)' = Values!Alone(b) /\ Outdated' = Outdated \ {b}
    BY <1>2, AloneStep
  <2>2. b \notin Owners /\ Live(b)
    BY DEF Owners, EditReferenced, Live
  <2>3. Values!Live(b)
    BY <2>2, OnOwnCell, Together, HandleFacts
  <2> QED
    BY <2>1, <2>2, <2>3 DEF Values!EditAlone
<1> QED
  BY <1>1, <1>2 DEF EditReferenced

LEMMA CallerImplements ==
  ASSUME IInv, IInv', NEW s \in Sources, NEW bytes \in Strings, CallerWrites(s, bytes)
  PROVE  Values!Rewrite(s)
<1>0. s \in Objects /\ heap \in [Objects -> Contents] /\ UNCHANGED handle /\ s \notin Buffers
  BY ObjectsAssumption DEF CallerWrites, Objects, IInv, TypeOK
<1>1. /\ \A d \in Objects : d # s => heap'[d] = heap[d]
      /\ heap'[s].virt = heap[s].virt /\ Len(heap'[s].phys) = Len(heap[s].phys)
  BY <1>0 DEF CallerWrites, Contents, Phys
<1>2. /\ Values!OnlyOf(OnCell(handle, s))
      /\ Outdated' \ OnCell(handle, s) = Outdated \ OnCell(handle, s)
  BY <1>0, <1>1, CellWritten
<1>3. Values!With(s) = OnCell(handle, s)
  BY <1>0, OnOwnCell, Together
<1>4. \A d \in Objects : Phys(d)' = Phys(d) /\ Total(d)' = Total(d)
  BY <1>0, <1>1 DEF Phys, Total
<1>5. \A v \in Handles : SizeOf(v)' = SizeOf(v) /\ (UpToDate(v)' <=> UpToDate(v))
  <2> SUFFICES ASSUME NEW v \in Handles
               PROVE  SizeOf(v)' = SizeOf(v) /\ (UpToDate(v)' <=> UpToDate(v))
    OBVIOUS
  <2>1. v.cell \in Objects
    BY DEF Handles
  <2>2. SizeOf(v)' = SizeOf(v)
    BY <1>4, <2>1 DEF SizeOf
  <2> DEFINE w == Whole("ref", v.cell)
  <2>3. w.cell = v.cell /\ w.whole
    BY DEF Whole
  <2>4. heap'[v.cell].virt = heap[v.cell].virt
    BY <1>1, <2>1
  <2> HIDE DEF w
  <2>5. PhysOf(w)' = PhysOf(w)
    BY <1>4, <2>1, <2>3, <2>4 DEF PhysOf, SizeOf, VirtOf
  <2>6. \A o, m : Window(w, o, m)' = Window(w, o, m)
    BY <2>5 DEF Window
  <2>7. UpToDate(v)' <=> UpToDate(v)
    BY <2>6 DEF UpToDate, w
  <2> QED
    BY <2>2, <2>7
<1>6. Outdated' = Outdated
  <2>1. \A x \in Buffers : (UpToDate(handle[x])' <=> UpToDate(handle[x])) /\ (Live(x)' <=> Live(x))
    <3> SUFFICES ASSUME NEW x \in Buffers
                 PROVE  (UpToDate(handle[x])' <=> UpToDate(handle[x])) /\ (Live(x)' <=> Live(x))
      OBVIOUS
    <3>1. handle'[x] = handle[x] /\ handle[x] \in Handles
      BY <1>0, HandleFacts
    <3> QED
      BY <1>5, <3>1, ViewOfHandle DEF Live
  <2> QED
    BY <2>1 DEF Outdated, Fresh
<1>7. ASSUME NEW v \in Handles, Sound(v)
      PROVE  Len(Content(v)') = Len(Content(v))
  <2>1. Len(Content(v)) = SizeOf(v) /\ SizeOf(v) \in Nat
    BY <1>7, ContentSeq, ViewTypes DEF IInv, TypeOK, CellInv
  <2>2. Content(v)' = [i \in 1..(SizeOf(v)') |-> ByteAt(v.cell, v.off + i)']
    BY DEF Content, Bytes
  <2>3. SizeOf(v)' = SizeOf(v)
    BY <1>5
  <2> QED
    BY <2>1, <2>2, <2>3
<1>8. \A x \in OnCell(handle, s) : Len(ValuesRead'[x]) = Len(ValuesRead[x])
  <2> SUFFICES ASSUME NEW x \in OnCell(handle, s)
               PROVE  Len(ValuesRead'[x]) = Len(ValuesRead[x])
    OBVIOUS
  <2>1. ValuesRead[x] = Reads(x) /\ ValuesRead'[x] = Reads(x)'
    BY ValueOf DEF OnCell, Readers
  <2>2. CASE x \in Sources
    <3>1. Reads(x) = Content(Whole("ref", x)) /\ Reads(x)' = Content(Whole("ref", x))'
      BY <2>2 DEF Reads
    <3> QED
      BY <1>7, <2>1, <2>2, <3>1, SourceView
  <2>3. CASE x \in Buffers
    <3>1. PICK v \in Handles : v = handle[x] /\ Sound(v)
      BY <2>3, HandleFacts
    <3>2. x \notin Sources /\ Live(x) /\ Live(x)' /\ handle'[x] = v
      BY <1>0, <2>3, <3>1, ObjectsAssumption DEF Live, OnCell
    <3>3. Reads(x) = Content(v)
      BY <3>1, <3>2 DEF Reads
    <3>4. Reads(x)' = Content(handle[x])'
      BY <3>2 DEF Reads
    <3>5. Content(handle[x])' = Content(v)'
      BY <3>2, ViewOfHandle
    <3> QED
      BY <1>7, <2>1, <3>1, <3>3, <3>4, <3>5
  <2> QED
    BY <2>2, <2>3 DEF OnCell
<1>9. Owners' = Owners /\ Sharing(handle)' = Sharing(handle)
  BY <1>0 DEF Owners
<1> QED
  BY <1>2, <1>3, <1>6, <1>8, <1>9 DEF Values!Rewrite

LEMMA InitImplements == Init => Values!Init
<1> SUFFICES ASSUME Init PROVE Values!Init
  OBVIOUS
<1>0. IInv
  BY InitInv
<1>1. PICK own \in [Buffers -> Cells] :
        /\ \A a, b \in Buffers : own[a] = own[b] => a = b
        /\ handle = [b \in Buffers |-> Whole("copied", own[b])]
  BY DEF Init
<1>2. \A b \in Buffers : /\ handle[b].kind = "copied" /\ handle[b].whole /\ Live(b)
                         /\ handle[b].cell = own[b] /\ own[b] \in Cells /\ own[b] \notin Sources
                         /\ b \notin Sources
  BY <1>1, ObjectsAssumption DEF Whole, Live
<1>3. \A b \in Buffers : heap[own[b]] = EmptyCell
  BY <1>2 DEF Init, Objects
<1>4. \A b \in Buffers : ValuesRead[b] = <<>>
  <2> SUFFICES ASSUME NEW b \in Buffers PROVE ValuesRead[b] = <<>>
    OBVIOUS
  <2> DEFINE v == handle[b]
  <2>1. heap[v.cell].phys = <<>> /\ heap[v.cell].virt = 0 /\ v.whole
    BY <1>2, <1>3 DEF EmptyCell
  <2>2. SizeOf(v) = 0
    BY <2>1 DEF SizeOf, Total, Phys
  <2>3. Content(v) \in Seq(Nat) /\ Len(Content(v)) = 0
    BY <1>0, <2>2, HandleFacts, ContentSeq
  <2>4. Content(v) = <<>>
    BY <2>3
  <2> QED
    BY <1>2, <2>4, ValueOf DEF Reads, Readers
<1>5. ValuesRead \in [Readers -> Seq(Nat)]
  BY <1>0, ReadsType DEF ValuesRead, Readers
<1>6. Owners = Buffers
  BY <1>2 DEF Owners
<1>7. Outdated = {}
  BY <1>2 DEF Outdated, Fresh, UpToDate
<1>8. \A b \in Buffers : OnCell(handle, own[b]) = {b}
  BY <1>1, <1>2 DEF OnCell
<1>9. \A s \in Sources : OnCell(handle, s) = {s}
  BY <1>2 DEF OnCell
<1>10. Sharing(handle) = {{x} : x \in Readers}
  <2>1. ASSUME NEW g \in Sharing(handle) PROVE g \in {{x} : x \in Readers}
    <3>1. PICK c \in Objects : g = OnCell(handle, c) /\ g # {}
      BY SharingOf
    <3>2. PICK x : x \in g
      BY <3>1
    <3>3. x \in Readers
      BY <3>1, <3>2 DEF OnCell, Readers
    <3>4. g = {x}
      BY <1>2, <1>8, <1>9, <3>1, <3>2 DEF OnCell
    <3> QED
      BY <3>3, <3>4
  <2>2. ASSUME NEW x \in Readers PROVE {x} \in Sharing(handle)
    <3>1. CASE x \in Buffers
      BY <1>2, <1>8, <3>1, SharingOf DEF Objects
    <3>2. CASE x \in Sources
      BY <1>9, <3>2, SharingOf DEF Objects
    <3> QED
      BY <3>1, <3>2 DEF Readers
  <2> QED
    BY <2>1, <2>2
<1> QED
  BY <1>4, <1>5, <1>6, <1>7, <1>10 DEF Values!Init, Values!Readers, Readers

LEMMA StepImplements == IInv /\ IInv' /\ [Next]_vars => [Values!Next]_Values!valueVars
<1> SUFFICES ASSUME IInv, IInv', [Next]_vars
             PROVE  Values!Next \/ UNCHANGED Values!valueVars
  OBVIOUS
<1>0. Values!Readers = Readers /\ Buffers \subseteq Readers /\ Sources \subseteq Readers
  BY DEF Values!Readers, Readers
<1>a. CellInv
  BY DEF IInv, TypeOK, CellInv
<1>n. /\ \A b \in Buffers, x \in Readers : Values!Refer(b, x) \/ Values!Own(b, x) => Values!Next
      /\ \A a, b \in Buffers : Values!Become(b, a) => Values!Next
      /\ \A b \in Buffers : Values!EditShared(b) \/ Values!EditAlone(b) => Values!Next
      /\ \A s \in Sources : Values!Rewrite(s) => Values!Next
  BY <1>0 DEF Values!Next
<1>1. ASSUME NEW b \in Buffers, NEW s \in Sources, NEW copy \in BOOLEAN,
             Deserialize(b, s, copy)
      PROVE  Values!Next \/ UNCHANGED Values!valueVars
  <2> DEFINE v == Whole("ref", s)
  <2>1. /\ v \in Handles /\ Sound(v) /\ v.cell = s /\ v.kind = "ref" /\ UpToDate(v)
        /\ s \in Readers /\ Reads(s) = Content(v) /\ s \in OnCell(handle, v.cell)
        /\ v.off = v.off + 0 /\ 0 + SizeOf(v) <= SizeOf(v)
    BY <1>0, <1>a, SourceView, ReadsOf, OnOwnCell, ViewTypes DEF UpToDate
  <2>2. \/ ReadBuffer("deserialize", b, v)
        \/ Update(heap, [handle EXCEPT ![b] = v], "deserialize", b)
    BY <1>1 DEF Deserialize
  <2> HIDE DEF v
  <2>3. Values!Refer(b, s) \/ Values!Own(b, s) \/ UNCHANGED Values!valueVars
    BY <2>1, <2>2, ReferImplements, ReadBufferImplements
  <2> QED
    BY <1>n, <2>1, <2>3
<1>2. ASSUME NEW a \in Buffers, NEW b \in Buffers, NEW w \in Windows,
             NEW copy \in BOOLEAN, DeserializeWindow(b, a, w[1], w[2], copy)
      PROVE  Values!Next \/ UNCHANGED Values!valueVars
  <2> DEFINE u == handle[a]
             v == Window(u, w[1], w[2])
  <2>0. w[1] \in Nat /\ w[2] \in Nat /\ u \in Handles /\ Sound(u) /\ Live(a) /\ a \in Readers
    BY <1>0, <1>2, SizesAssumption, HandleFacts DEF DeserializeWindow
  <2>1. CASE w[1] + w[2] > SizeOf(u)
    BY <1>2, <2>1, NothingChanges DEF DeserializeWindow, Throw
  <2>2. CASE ~(w[1] + w[2] > SizeOf(u))
    <3>1. SizeOf(u) \in Nat /\ PhysOf(u) \in Nat /\ w[1] + w[2] <= SizeOf(u)
      BY <1>a, <2>0, <2>2, ViewTypes
    <3>2. v \in Handles /\ Sound(v)
      BY <1>a, <2>0, WindowType
    <3>3. /\ v.kind = "ref" /\ v.cell = u.cell /\ v.off = u.off + w[1] /\ v.len = w[2]
          /\ ~v.whole
      BY DEF Window
    <3>4. SizeOf(v) = w[2]
      BY <3>3 DEF SizeOf
    <3>5. a \notin Outdated => UpToDate(v)
      BY <1>a, <2>0, <3>1, WindowUpToDate, ReadsOf
    <3>6. Reads(a) = Content(u) /\ a \in OnCell(handle, v.cell)
      BY <2>0, <3>3, ReadsOf, OnOwnCell
    <3>7. \/ ReadBuffer("window", b, v)
          \/ Update(heap, [handle EXCEPT ![b] = v], "window", b)
      BY <1>2, <2>2 DEF DeserializeWindow
    <3> HIDE DEF u, v
    <3>8. Values!Refer(b, a) \/ Values!Own(b, a) \/ UNCHANGED Values!valueVars
      BY <2>0, <3>1, <3>2, <3>3, <3>4, <3>5, <3>6, <3>7, ReferImplements, ReadBufferImplements
    <3> QED
      BY <1>n, <2>0, <3>8
  <2> QED
    BY <2>1, <2>2
<1>3. ASSUME NEW a \in Buffers, NEW b \in Buffers, Assign(b, a)
      PROVE  Values!Next \/ UNCHANGED Values!valueVars
  <2> DEFINE u == handle[a]
             v == [u EXCEPT !.kind = "ref"]
  <2>1. u \in Handles /\ Sound(u) /\ Live(a) /\ a \in Readers /\ Reads(a) = Content(u)
    BY <1>0, <1>3, HandleFacts, ReadsOf DEF Assign
  <2>2. /\ v \in Handles /\ v.kind = "ref" /\ v.cell = u.cell /\ v.off = u.off
        /\ v.whole = u.whole /\ v.len = u.len /\ v.virt = u.virt
    BY <2>1 DEF Handles
  <2>3. Update(heap, [handle EXCEPT ![b] = v], "assign", b)
    BY <1>3 DEF Assign
  <2> HIDE DEF v
  <2>4. Sound(v) /\ SizeOf(v) = SizeOf(u) /\ (UpToDate(v) <=> UpToDate(u))
    BY <2>1, <2>2 DEF Sound, SizeOf, UpToDate
  <2>5. a \notin Outdated => UpToDate(v)
    BY <2>1, <2>4, ReadsOf
  <2>6. a \in OnCell(handle, v.cell)
    BY <2>1, <2>2, OnOwnCell
  <2>7. v.off = u.off + 0 /\ 0 + SizeOf(v) <= SizeOf(u)
    BY <1>a, <2>1, <2>2, <2>4, ViewTypes
  <2>8. Values!Refer(b, a)
    BY <2>1, <2>2, <2>3, <2>4, <2>5, <2>6, <2>7, ReferImplements
  <2> QED
    BY <1>n, <2>1, <2>8
<1>4. ASSUME NEW a \in Buffers, NEW b \in Buffers, Move(b, a)
      PROVE  Values!Next
  BY <1>4, <1>n, MoveImplements
<1>5. ASSUME NEW b \in Buffers, CopyReferencedBuffer(b)
      PROVE  Values!Next \/ UNCHANGED Values!valueVars
  <2> DEFINE v == handle[b]
  <2>1. v \in Handles /\ Sound(v) /\ Live(b) /\ b \in Readers /\ Reads(b) = Content(v)
    BY <1>0, <1>5, HandleFacts, ReadsOf DEF CopyReferencedBuffer, Live
  <2>2. b \in OnCell(handle, v.cell) /\ v.off = v.off + 0 /\ 0 + SizeOf(v) <= SizeOf(v)
    BY <1>a, <2>1, OnOwnCell, ViewTypes
  <2>3. b \notin Outdated => UpToDate(v)
    BY <2>1, ReadsOf
  <2>4. ReadBuffer("copy_referenced_buffer", b, v)
    BY <1>5 DEF CopyReferencedBuffer
  <2> HIDE DEF v
  <2>5. Values!Own(b, b) \/ UNCHANGED Values!valueVars
    BY <2>1, <2>2, <2>3, <2>4, ReadBufferImplements
  <2> QED
    BY <1>n, <2>1, <2>5
<1>6. ASSUME NEW b \in Buffers, NEW bytes \in Strings, EditOwned(b, bytes)
      PROVE  Values!Next
  BY <1>6, <1>n, EditOwnedImplements
<1>7. ASSUME NEW b \in Buffers, NEW bytes \in Strings, EditReferenced(b, bytes)
      PROVE  Values!Next \/ UNCHANGED Values!valueVars
  BY <1>7, <1>n, EditReferencedImplements
<1>8. ASSUME NEW s \in Sources, NEW bytes \in Strings, CallerWrites(s, bytes)
      PROVE  Values!Next
  BY <1>8, <1>n, CallerImplements
<1>9. CASE UNCHANGED vars
  BY <1>9, NothingChanges DEF vars
<1> QED
  BY <1>1, <1>2, <1>3, <1>4, <1>5, <1>6, <1>7, <1>8, <1>9 DEF Next

(* Whatever is done to ref_buffers, those who read them see values and who *)
(* shares with whom, as BufferValues says: for any number of handles,      *)
(* containers and sources, any bytes and any windows.                      *)
THEOREM ImplementsValues == Spec => KeepsValues
<1>1. Init => Values!Init
  BY InitImplements
<1>2. IInv /\ IInv' /\ [Next]_vars => [Values!Next]_Values!valueVars
  BY StepImplements
<1> QED
  BY <1>1, <1>2, Invariance, PTL DEF Spec, KeepsValues, Values!Spec

=============================================================================
