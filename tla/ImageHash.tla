------------------------------ MODULE ImageHash ------------------------------
(***************************************************************************)
(* The digest of an image and of its pages (image_hash.cpp,                  *)
(* hash_helpers.cpp), and its checksum (checksum.cpp).  A digest is the      *)
(* sequence of the offsets of the bytes it was taken of: two digests are     *)
(* equal exactly if the sequences are.  The checksum is computed: a dword is *)
(* as long as the field.                                                     *)
(***************************************************************************)
EXTENDS Integers, Sequences, FiniteSets, SequencesExt, FiniteSetsExt

CONSTANTS
    PageSize,       \* get_memory_page_size
    ChecksumSize, EntryFieldSize,   \* the fields that are left out
    HeaderSizes,    \* bytes of the headers
    ChecksumAt, EntryAt,       \* where the fields are
    SectionLists,   \* sequences of [size, gap]: bytes in the file, and before it
    OverlayBytes, SecurityBytes,
    HalfValues,     \* how many values half a dword has
    Contents        \* what a file may hold: dwords, over and over

VARIABLES
    given,   \* [what, headers, checksum, entry, sections, full, overlay, security, pages, room]
    pc,      \* "begin", "run", "throws" or "done"
    walk,    \* [todo, at, current, skipped, next, last]: the page_hash_state and what is left;
             \* current is also what the file holds, for the checksum
    result,  \* [image, pages, dwords, sum]; a page is [offset, bytes, fill], a dword [at, value]
    errors

vars == <<given, pc, walk, result, errors>>

\* The security directory is the end of the overlay; without one its size is Absent.
Absent == 1000
Init ==
    /\ given \in [what : {"digest"}, headers : HeaderSizes, checksum : ChecksumAt, entry : EntryAt,
                  sections : SectionLists, full : BOOLEAN, overlay : OverlayBytes,
                  security : SecurityBytes \cup {Absent}, pages : BOOLEAN, room : BOOLEAN,
                  paired : BOOLEAN]
          \cup [what : {"checksum"}, headers : HeaderSizes, checksum : ChecksumAt, entry : {0},
                  sections : SectionLists, full : BOOLEAN, overlay : OverlayBytes,
                  security : {Absent}, pages : {FALSE}, room : {TRUE}, paired : {TRUE}]
    /\ given.pages \/ given.room
    /\ pc = "begin"
    /\ walk = [todo |-> <<>>, at |-> 0, current |-> <<>>, skipped |-> 0, next |-> 0, last |-> 0]
    /\ result = [image |-> <<>>, pages |-> <<>>, dwords |-> <<>>, sum |-> 0] /\ errors = {}

-----------------------------------------------------------------------------
(* The order of the updates. *)

\* Sections lie behind the headers; the list of them is in any order.
\* A section is [at, size], its place in the file.
Sorted == SetToSortSeq({given.sections[i] : i \in {j \in DOMAIN given.sections : given.sections[j].size > 0}},
                       LAMBDA l, r : l.at < r.at)
SectionsEnd == Max({0} \cup {given.sections[i].at + given.sections[i].size : i \in DOMAIN given.sections})
OverlayStart == given.headers + SectionsEnd

\* try_init_page_hash_state: the pages are left out if their hashes have no room.
Paged == given.pages /\ given.room

Piece(kind, from, to) == [kind |-> kind, from |-> from, to |-> to]
Both == IF Paged THEN "both" ELSE "image"
Skip(n) == IF Paged THEN <<Piece("skip", 0, n)>> ELSE <<>>
NextPage == IF Paged THEN <<Piece("next", 0, 0)>> ELSE <<>>

OfHeaders ==
    <<Piece(Both, 0, given.checksum)>> \o Skip(ChecksumSize)
    \o <<Piece(Both, given.checksum + ChecksumSize, given.entry)>> \o Skip(EntryFieldSize)
    \o <<Piece(Both, given.entry + EntryFieldSize, given.headers)>>

\* With the buffer of all sections, their pieces are only for the pages.  Sections
\* that are asked for need one buffer of data each.
OfSection(s) ==
    LET from == given.headers + s.at IN
    <<Piece(IF given.full THEN "pages" ELSE Both, from, from + s.size)>> \o NextPage
OfSections ==
    CASE ~Paged /\ given.full -> <<>>
      [] (Paged \/ ~given.full) /\ ~given.paired -> <<Piece("refuse", 0, 0)>>
      [] OTHER -> NextPage \o FlattenSeq([i \in DOMAIN Sorted |-> OfSection(Sorted[i])])
OfAll == IF given.full THEN <<Piece("image", given.headers, OverlayStart)>> ELSE <<>>

Unsigned == given.security = Absent \/ given.security > given.overlay
OfOverlay ==
    IF Unsigned THEN <<Piece("refuse", 0, 0)>>
    ELSE <<Piece("image", OverlayStart, OverlayStart + given.overlay - given.security)>>

Begin ==
    /\ pc = "begin" /\ given.what = "digest"
    /\ errors' = IF given.pages /\ ~given.room THEN {"page_hashes_data_too_big"} ELSE {}
    /\ IF given.headers < given.entry + EntryFieldSize \/ given.entry < given.checksum
       THEN pc' = "throws" /\ UNCHANGED walk
       ELSE /\ pc' = "run"
            /\ walk' = [walk EXCEPT !.todo = OfHeaders \o OfSections \o OfAll \o OfOverlay
                                              \o (IF Paged THEN <<Piece("end", 0, 0)>> ELSE <<>>)]
    /\ UNCHANGED <<given, result>>

-----------------------------------------------------------------------------
(* page_hash_state. *)

Bytes(from, to) == [i \in 1 .. (to - from) |-> from + i - 1]
HeadPiece == Head(walk.todo)
Running(kinds) == pc = "run" /\ walk.todo # <<>> /\ HeadPiece.kind \in kinds
Here == HeadPiece.from + walk.at
PageLeft == PageSize - Len(walk.current) - walk.skipped

\* The page is filled with zeros up to its size, and hashed; an empty one is not.
Closed(pages) ==
    IF walk.current = <<>> THEN pages
    ELSE Append(pages, [offset |-> walk.next, bytes |-> walk.current, fill |-> PageLeft])
Flush(w) == [w EXCEPT !.current = <<>>, !.skipped = 0]
Advance(w) == [w EXCEPT !.todo = Tail(@), !.at = 0]

\* One read of the buffer, and as much of it as the page has room for.
\* An update with nothing in the page sets its offset, counting what was skipped.
Take(n) ==
    LET bytes == Bytes(Here, Here + n)
        first == IF walk.current = <<>> THEN Here - walk.skipped ELSE walk.next IN
    [walk EXCEPT !.current = @ \o bytes, !.next = first, !.at = @ + n,
                 !.last = Max({@, HeadPiece.to})]
ImageToo(from, to) ==
    IF HeadPiece.kind \in {"both", "image"} THEN [result EXCEPT !.image = @ \o Bytes(from, to)] ELSE result

UpdatePage ==
    /\ Running({"both", "pages"}) /\ Here < HeadPiece.to /\ HeadPiece.to - Here < PageLeft
    /\ walk' = Advance(Take(HeadPiece.to - Here))
    /\ result' = ImageToo(Here, HeadPiece.to)
    /\ UNCHANGED <<given, pc, errors>>

FillPage ==
    /\ Running({"both", "pages"}) /\ Here < HeadPiece.to /\ HeadPiece.to - Here >= PageLeft
    /\ LET taken == Take(PageLeft) IN
       /\ walk' = [Flush(taken) EXCEPT !.next = taken.at + HeadPiece.from]
       /\ result' = [ImageToo(Here, Here + PageLeft) EXCEPT !.pages =
                IF taken.current = <<>> THEN @
                ELSE Append(@, [offset |-> taken.next, bytes |-> taken.current, fill |-> 0])]
    /\ UNCHANGED <<given, pc, errors>>

PieceEnds ==
    /\ Running({"both", "pages"}) /\ Here = HeadPiece.to
    /\ walk' = [Advance(walk) EXCEPT !.last = Max({@, HeadPiece.to})]
    /\ UNCHANGED <<given, pc, result, errors>>

UpdateImage ==
    /\ Running({"image"}) /\ HeadPiece.from <= HeadPiece.to
    /\ walk' = Advance(walk) /\ result' = ImageToo(HeadPiece.from, HeadPiece.to)
    /\ UNCHANGED <<given, pc, errors>>

Refuse ==
    /\ \/ Running({"refuse"})
       \/ Running({"image", "both"}) /\ HeadPiece.from > HeadPiece.to
       \/ Running({"skip"}) /\ HeadPiece.to > PageLeft
    /\ pc' = "throws" /\ UNCHANGED <<given, walk, result, errors>>

SkipBytes ==
    /\ Running({"skip"}) /\ HeadPiece.to <= PageLeft
    /\ walk' = [Advance(walk) EXCEPT !.skipped = @ + HeadPiece.to]
    /\ UNCHANGED <<given, pc, result, errors>>

StartPage ==
    /\ Running({"next"})
    /\ walk' = Flush(Advance(walk)) /\ result' = [result EXCEPT !.pages = Closed(@)]
    /\ UNCHANGED <<given, pc, errors>>

\* get_page_hashes: an entry without bytes tells where the last page ends.
EndPages ==
    /\ Running({"end"})
    /\ walk' = Flush(Advance(walk))
    /\ result' = [result EXCEPT !.pages =
            Append(Closed(@), [offset |-> walk.last, bytes |-> <<>>, fill |-> 0])]
    /\ UNCHANGED <<given, pc, errors>>

Finish ==
    /\ pc = "run" /\ walk.todo = <<>> /\ given.what = "digest" /\ pc' = "done"
    /\ UNCHANGED <<given, walk, result, errors>>

-----------------------------------------------------------------------------
(* The checksum. *)

Sum(from, to) == Piece("sum", from, to)
Aligned(n) == n % ChecksumSize = 0

\* The sections are summed as they are listed, or the buffer of all of them is.
SumOfSections ==
    IF given.full THEN <<Sum(given.headers, OverlayStart)>>
    ELSE [i \in DOMAIN given.sections |->
            LET s == given.sections[i] IN
            Sum(given.headers + s.at, given.headers + s.at + s.size)]
SumOfAll ==
    <<Sum(0, given.checksum), Sum(given.checksum + ChecksumSize, given.headers)>>
    \o SumOfSections \o <<Sum(OverlayStart, OverlayStart + given.overlay)>>

BeginSum ==
    /\ pc = "begin" /\ given.what = "checksum"
    /\ IF ~Aligned(given.checksum)
       THEN pc' = "throws" /\ errors' = {"unaligned_checksum"} /\ UNCHANGED walk
       ELSE IF given.checksum + ChecksumSize > given.headers
       THEN pc' = "throws" /\ errors' = {"invalid_checksum_offset"} /\ UNCHANGED walk
       ELSE /\ pc' = "run" /\ UNCHANGED errors
            /\ \E held \in Contents : walk' = [walk EXCEPT !.todo = SumOfAll, !.current = held]
    /\ UNCHANGED <<given, result>>

UnalignedBuffer ==
    /\ Running({"sum"}) /\ ~Aligned(HeadPiece.to - HeadPiece.from)
    /\ pc' = "throws" /\ errors' = {"unaligned_buffer"} /\ UNCHANGED <<given, walk, result>>

\* What does not fit into a dword is added to it again, a step late, and once more if
\* that does not fit either.
Wide == HalfValues * HalfValues
Added(sum, dword) ==
    LET both == (sum % Wide) + dword + (sum \div Wide) IN
    IF both > Wide THEN (both % Wide) + (both \div Wide) ELSE both

AddDword ==
    /\ Running({"sum"}) /\ Aligned(HeadPiece.to - HeadPiece.from) /\ Here < HeadPiece.to
    /\ walk' = [walk EXCEPT !.at = @ + ChecksumSize]
    /\ LET dword == walk.current[1 + ((Here \div ChecksumSize) % Len(walk.current))] IN
       result' = [result EXCEPT !.sum = Added(@, dword),
                                !.dwords = Append(@, [at |-> Here, value |-> dword])]
    /\ UNCHANGED <<given, pc, errors>>

EndSum ==
    /\ Running({"sum"}) /\ Here = HeadPiece.to
    /\ walk' = Advance(walk) /\ UNCHANGED <<given, pc, result, errors>>

\* The sum is folded into half a dword, and the sizes of the buffers are added; a
\* file is not so long that this does not fit.
SizeSummed ==
    given.headers + given.overlay
    + (IF given.full THEN SectionsEnd
       ELSE FoldLeft(LAMBDA n, s : n + s.size, 0, given.sections))
Folded(sum) == LET once == (sum % HalfValues) + (sum \div HalfValues) IN
               (once + (once \div HalfValues)) % HalfValues
FinishSum ==
    /\ pc = "run" /\ walk.todo = <<>> /\ given.what = "checksum" /\ pc' = "done"
    /\ result' = [result EXCEPT !.sum = Folded(@) + SizeSummed] /\ UNCHANGED <<given, walk, errors>>

Next ==
    \/ BeginSum \/ UnalignedBuffer \/ AddDword \/ EndSum \/ FinishSum
    \/ Begin \/ UpdatePage \/ FillPage \/ PieceEnds \/ UpdateImage \/ Refuse \/ SkipBytes
    \/ StartPage \/ EndPages \/ Finish

-----------------------------------------------------------------------------
(* What is checked. *)

\* What the digest of an image leaves out: two fields of the headers and the
\* certificates behind everything else.
Fields ==
    (given.checksum .. given.checksum + ChecksumSize - 1)
    \cup (given.entry .. given.entry + EntryFieldSize - 1)
LeftOut ==
    Fields \cup (OverlayStart + given.overlay - given.security .. OverlayStart + given.overlay - 1)
Gaps ==
    {b \in given.headers .. OverlayStart - 1 :
        \A i \in DOMAIN Sorted :
            b < given.headers + Sorted[i].at \/ b >= given.headers + Sorted[i].at + Sorted[i].size}

\* Every other byte of the file is hashed once, in the order of the file; what is
\* between two sections only if the image keeps the buffer of all of them.
HashedOnce ==
    pc = "done" /\ given.what = "digest" =>
        /\ ToSet(result.image) =
            (0 .. OverlayStart + given.overlay - 1) \ (LeftOut \cup IF given.full THEN {} ELSE Gaps)
        /\ \A i \in 1 .. Len(result.image) - 1 : result.image[i] < result.image[i + 1]

\* The pages: what a loader maps, headers and sections apart, each byte in one page, at
\* the place that the offset of the page gives it, each page as long as a page.
Listed == SubSeq(result.pages, 1, Len(result.pages) - 1)
PagesTile ==
    pc = "done" /\ Paged =>
        /\ FlattenSeq([i \in DOMAIN Listed |-> Listed[i].bytes])
            = SelectSeq(Bytes(0, OverlayStart), LAMBDA b : b \notin LeftOut /\ b \notin Gaps)
        /\ \A i \in DOMAIN Listed :
            LET p == Listed[i] IN
            /\ \A j \in DOMAIN p.bytes : p.bytes[j] \in p.offset .. p.offset + PageSize - 1
            /\ Len(p.bytes) + p.fill
                + Cardinality(Fields \cap (p.offset .. p.offset + PageSize - 1)) = PageSize
        /\ \A i \in 1 .. Len(Listed) - 1 : Listed[i].offset < Listed[i + 1].offset
        /\ Last(result.pages).offset >= Max({0} \cup {b \in 0 .. OverlayStart - 1 : b \notin Gaps}) + 1 - PageSize
DigestsWhole == HashedOnce /\ PagesTile

\* The checksum of the format: the halves of all dwords of the file but the field's are
\* added as numbers of which the one with all bits set is zero, and the size is added; the
\* order in which the buffers are summed, and where one of them ends, make no difference.
\* The buffers are the whole file only if there is nothing between two sections, or the
\* image keeps the buffer of all of them.
HalvesSum == FoldLeft(LAMBDA n, d : n + (d.value % HalfValues) + (d.value \div HalfValues), 0, result.dwords)
ChecksumOfFile ==
    pc = "done" /\ given.what = "checksum" =>
        /\ result.sum = SizeSummed +
            (IF HalvesSum = 0 THEN 0 ELSE ((HalvesSum - 1) % (HalfValues - 1)) + 1)
        /\ {d.at : d \in ToSet(result.dwords)} =
            {b \in 0 .. OverlayStart + given.overlay - 1 :
                Aligned(b) /\ b # given.checksum /\ (given.full \/ b \notin Gaps)}
        /\ IsInjective([i \in DOMAIN result.dwords |-> result.dwords[i].at])
        /\ given.full \/ Gaps = {} => SizeSummed = OverlayStart + given.overlay

=============================================================================
