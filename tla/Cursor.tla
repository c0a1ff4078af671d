------------------------------- MODULE Cursor --------------------------------
(***************************************************************************)
(* Reading a buffer through a position: input_buffer_stateful_wrapper with   *)
(* packed_struct, packed_byte_vector and the null-terminated strings.        *)
(* A buffer is [size, physical, virtual]: its bytes, those of them that are  *)
(* in the file, and whether a reader takes the zeros that are not.           *)
(***************************************************************************)
EXTENDS Integers, Sequences

Unlimited == 1000000

\* deserialize of n bytes at pos returns, and does not throw.
CanRead(buf, pos, n) ==
    pos + n <= buf.size /\ (buf.virtual \/ n = 0 \/ pos + n <= buf.physical)

CanSeek(buf, pos) == pos >= 0 /\ pos <= buf.size

\* Where a string from pos ends, behind its null, which is in the file ...
PhysicalEnds(buf, pos, width, max) ==
    {e \in pos + width .. buf.physical : (e - pos) % width = 0 /\ e - pos <= max}

\* ... or is the first character that is not; half of one in the file may be one.
VirtualEnds(buf, pos, width, max) ==
    LET whole == IF pos >= buf.physical THEN 0 ELSE (buf.physical - pos) \div width
        half == pos < buf.physical /\ (buf.physical - pos) % width # 0
        ends == {pos + (whole + 1) * width} \cup (IF half THEN {pos + (whole + 2) * width} ELSE {})
    IN {e \in ends : buf.virtual /\ e <= buf.size /\ e - pos <= max}

StringEnds(buf, pos, width, max) ==
    PhysicalEnds(buf, pos, width, max) \cup VirtualEnds(buf, pos, width, max)
StringMayFail(buf, pos, width, max) == VirtualEnds(buf, pos, width, max) = {}

RoundUp(n, to) == ((n + to - 1) \div to) * to

-----------------------------------------------------------------------------
(***************************************************************************)
(* A buffer a builder has written: the structures and strings in it, in      *)
(* their order, and where the position of the buffer put each.  A builder    *)
(* computes the same places again as addresses; a loader finds a structure   *)
(* only at the address it was told.                                          *)
(***************************************************************************)

Item(kind, size, value) == [kind |-> kind, size |-> size, value |-> value]

\* A string of the model is a number, as long as the number says, and its null.
StringSize(s) == s + 1
Text(s) == Item("string", StringSize(s), s)

\* Where each of them begins, and the last of them ends.
PlaceOf(items) ==
    LET place[i \in 1 .. Len(items) + 1] ==
            IF i = 1 THEN 0 ELSE place[i - 1] + items[i - 1].size
    IN place
SizeOf(items) == PlaceOf(items)[Len(items) + 1]

EmptyBuffer == [cells |-> {}, size |-> 0]

\* The same items at their places, and the size of all.
Placed(items) ==
    [cells |-> {[at |-> PlaceOf(items)[i], kind |-> items[i].kind, value |-> items[i].value] :
                    i \in DOMAIN items},
     size |-> SizeOf(items)]

\* The structures of a kind that begin at a place: at most one.
Found(built, kind, place) ==
    {cell.value : cell \in {c \in built.cells : c.at = place /\ c.kind = kind}}
Readable(built, kind, place) == Found(built, kind, place) # {}
Read(built, kind, place) == CHOOSE v \in Found(built, kind, place) : TRUE

=============================================================================
