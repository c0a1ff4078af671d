--------------------------------- MODULE Rich ---------------------------------
(***************************************************************************)
(* The Rich header in the DOS stub: what build writes, what load finds, the  *)
(* checksum over the bytes before it, and the products its entries name      *)
(* (rich_header_utils, rich_header_loader, rich_header_builder,              *)
(* compid_database).                                                         *)
(*                                                                           *)
(* A stub is a sequence of bytes.  What is written under the checksum is     *)
(* shown as it is without it; the bytes of the checksum itself may be those  *)
(* of the signature.                                                         *)
(***************************************************************************)
EXTENDS Integers, Sequences, FiniteSets, SequencesExt, FiniteSetsExt

CONSTANTS
    Checksums,    \* the first two bytes of a checksum
    Offsets,      \* offsets of the header in the stub
    MaxItems      \* entries of a header

VARIABLES
    given,   \* [mode, offset, items, checksum, words, behind, shift]
    pc,      \* "build", "find", "dans", "compids", "checksum", "throws" or "done"
    walk,    \* [stub, size, at, rich]
    result,  \* [header, offset, items, summed]
    errors

vars == <<given, pc, walk, result, errors>>

-----------------------------------------------------------------------------
(* Bytes. *)

WordSize == 4
DansAlignment == 16
CompidSize == 8

Word(b) == [i \in 1 .. WordSize |-> b]
Signature == <<"R", "i", "c", "h">>
Compid(i) == [j \in 1 .. CompidSize |-> <<"1", "2">>[i]]
Checksum == <<given.checksum[1], given.checksum[2], "y", "y">>
Zeros(n) == [i \in 1 .. n |-> "0"]

RoundUp(n, to) == ((n + to - 1) \div to) * to

\* A stub that no builder wrote: parts of a header, in place or not.
Words == [zero |-> Word("0"), dans |-> Word("D"), key |-> Word("y"), item |-> Word("1"), rich |-> Signature]
Broken == {<<"dans", "rich", "key">>, <<"dans", "key", "rich", "key">>,
           <<"dans", "key", "key", "rich", "key">>, <<"dans", "key", "key", "key", "rich", "key">>,
           <<"dans", "key", "key", "key", "item", "rich", "key">>,
           <<"dans", "key", "key", "key", "item", "item", "rich", "key", "rich">>,
           <<"dans", "key", "key", "key", "item", "item", "rich", "zero">>,
           <<"dans", "key", "key", "key", "item", "item", "rich">>,
           <<"rich", "key", "zero", "zero", "dans", "key", "key", "key", "item", "item", "rich", "key">>,
           <<"item", "item", "rich", "key">>, <<"zero">>, <<>>}
Bytes(names) == FlattenSeq([i \in DOMAIN names |-> Words[names[i]]])

Init ==
    /\ given \in [mode : {"built"}, offset : Offsets, items : 0 .. MaxItems, checksum : Checksums,
                  words : {<<>>}, behind : {0, 4, 5}, shift : {0}]
            \cup [mode : {"loaded"}, offset : {0}, items : {0}, checksum : {<<"y", "y">>},
                  words : Broken, behind : {0, 4, 5}, shift : {0, 1, 4, 16}]
    /\ pc = IF given.mode = "built" THEN "build" ELSE "find"
    /\ walk = [stub |-> IF given.mode = "built" THEN <<>>
                        ELSE Zeros(given.shift) \o Bytes(given.words) \o Zeros(given.behind),
               size |-> 0, at |-> 0, rich |-> 0]
    /\ result = [header |-> FALSE, offset |-> 0, items |-> <<>>, summed |-> {}]
    /\ errors = {}

-----------------------------------------------------------------------------
(* Build. *)

BuiltSize ==
    RoundUp(given.offset, DansAlignment) - given.offset
    + 4 * WordSize + given.items * CompidSize + Len(Signature) + WordSize

Header ==
    Word("D") \o Checksum \o Checksum \o Checksum
    \o FlattenSeq([i \in 1 .. given.items |-> Compid(i)]) \o Signature \o Checksum

Build ==
    /\ pc = "build"
    /\ walk' = [walk EXCEPT
        !.stub = Zeros(RoundUp(given.offset, DansAlignment)) \o Header \o Zeros(given.behind),
        !.size = RoundUp(given.offset, DansAlignment) + Len(Header) - given.offset]
    /\ pc' = "find" /\ UNCHANGED <<given, result, errors>>

-----------------------------------------------------------------------------
(* Load. *)

Size == Len(walk.stub)
WordAt(pos) == SubSeq(walk.stub, pos + 1, pos + WordSize)

\* The end is searched from behind, byte by byte.  A byte that does not go on
\* with what was matched is not tried as the beginning of another match.
Matched(b, n) == IF b = Signature[Len(Signature) - n] THEN n + 1 ELSE 0
SignatureBefore ==
    LET Found[pos \in 0 .. Size, n \in 0 .. Len(Signature)] ==
            IF n = Len(Signature) THEN pos
            ELSE IF pos = 0 THEN -1
            ELSE Found[pos - 1, Matched(walk.stub[pos], n)]
    IN Found[Size, 0]

ChecksumUsable(pos) == pos \in 0 .. Size - 2 * WordSize /\ pos % WordSize = 0

FindChecksum ==
    /\ pc = "find"
    /\ \E pos \in {SignatureBefore} :
        IF ChecksumUsable(pos)
        THEN /\ walk' = [walk EXCEPT !.at = pos + 2 * WordSize, !.rich = pos]
             /\ result' = [result EXCEPT !.header = TRUE]
             /\ pc' = "dans"
        ELSE pc' = "done" /\ UNCHANGED <<walk, result>>
    /\ UNCHANGED <<given, errors>>

\* The words before the checksum, backwards, decoded with the checksum that was found.
DansPlaces ==
    {pos \in 0 .. walk.at - WordSize :
        /\ (walk.at - pos) % WordSize = 0
        /\ pos % DansAlignment = 0
        /\ WordAt(pos) = Word("D") /\ WordAt(walk.rich + WordSize) = Checksum}

FindDans ==
    /\ pc = "dans"
    /\ IF DansPlaces = {}
       THEN pc' = "throws" /\ errors' = {"no_dans_signature"} /\ UNCHANGED <<walk, result>>
       ELSE /\ \E last \in DansPlaces :
                /\ \A pos \in DansPlaces : pos <= last
                /\ walk' = [walk EXCEPT !.at = RoundUp(last + WordSize, DansAlignment)]
                /\ result' = [result EXCEPT !.offset = last]
            /\ pc' = "compids" /\ UNCHANGED errors
    /\ UNCHANGED given

\* The difference is taken without sign: one that is negative keeps its remainder.
DecodeCompids ==
    /\ pc = "compids"
    /\ IF (walk.rich - walk.at) % CompidSize # 0
       THEN pc' = "throws" /\ errors' = {"unable_to_decode_compids"} /\ UNCHANGED result
       ELSE /\ result' = [result EXCEPT !.items =
                    [i \in 1 .. (Max({walk.rich, walk.at}) - walk.at) \div CompidSize |->
                        SubSeq(walk.stub, walk.at + (i - 1) * CompidSize + 1, walk.at + i * CompidSize)]]
            /\ pc' = "checksum" /\ UNCHANGED errors
    /\ UNCHANGED <<given, walk>>

\* calculate_checksum of an image whose stub is behind a DOS header of 64 bytes;
\* its last four are the address of the headers, which is left out.
DosHeaderSize == 64
Lfanew == 60 .. 63
Calculate ==
    /\ pc = "checksum"
    /\ IF (DosHeaderSize + result.offset) % WordSize # 0
       THEN pc' = "throws" /\ errors' = {"unaligned_rich_header_offset"} /\ UNCHANGED result
       ELSE /\ result' = [result EXCEPT !.summed = (0 .. DosHeaderSize + result.offset - 1) \ Lfanew]
            /\ pc' = "done" /\ UNCHANGED errors
    /\ UNCHANGED <<given, walk>>

Next == Build \/ FindChecksum \/ FindDans \/ DecodeCompids \/ Calculate

-----------------------------------------------------------------------------
(* The database of products: pairs of a tool and a build, sorted. *)

Products == <<<<1, 0>>, <<2, 10>>, <<2, 20>>, <<2, 30>>, <<4, 15>>>>
Tools == {1, 2, 3, 4}
Builds == {0, 5, 10, 15, 20, 25, 30, 40}

Less(l, r) == l[1] < r[1] \/ (l[1] = r[1] /\ l[2] < r[2])
LowerBound(t) ==
    CHOOSE i \in 1 .. Len(Products) + 1 : \A j \in DOMAIN Products : j < i <=> Less(Products[j], t)

\* A build that is not known is of the product before it, of the first one if it is
\* older than all, and of none if it is newer than all.
Product(tool, build) ==
    LET ofTool == {i \in DOMAIN Products : Products[i][1] = tool}
        at == LowerBound(<<tool, build>>)
        near == IF Products[at][2] > build /\ at # Min(ofTool) THEN at - 1 ELSE at
    IN IF ofTool = {} \/ at > Max(ofTool) THEN <<>>
       ELSE <<Products[near], Products[near][2] = build>>

-----------------------------------------------------------------------------
(* What is checked. *)

\* What build writes is loaded again, at the offset it was given, rounded up.
LoadedBack ==
    given.mode = "built" =>
        /\ result.header
        /\ result.offset = RoundUp(given.offset, DansAlignment)
        /\ result.items = [i \in 1 .. given.items |-> Compid(i)]
SizeIsPredicted == given.mode = "built" => walk.size = BuiltSize

\* The search is for the signature and finds one whose checksum does not begin as
\* the signature ends.
ChecksumApart == Checksum[1] # "h" /\ <<Checksum[1], Checksum[2]>> # <<"c", "h">>

\* The entries are all between DanS with its padding and the signature, and the
\* checksum is of the bytes before them.
HeaderWhole ==
    pc = "done" /\ result.header /\ walk.rich >= walk.at =>
        /\ Len(result.items) * CompidSize + 4 * WordSize = walk.rich - result.offset
        /\ Max(result.summed) + 1 = DosHeaderSize + result.offset \/ result.offset = 0

\* A product is named exactly if it is in the table, and else is the nearest older one.
ProductsNearest ==
    \A tool \in Tools, build \in Builds :
        LET older == {i \in DOMAIN Products : Products[i][1] = tool /\ Products[i][2] <= build}
            p == Product(tool, build)
        IN p # <<>> /\ older # {} => p = <<Products[Max(older)], Products[Max(older)][2] = build>>

=============================================================================
