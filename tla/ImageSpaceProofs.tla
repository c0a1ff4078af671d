-------------------------- MODULE ImageSpaceProofs ---------------------------
(* What can be had at an address of an image, for every section table,     *)
(* every layout, and whatever a caller did to the headers and the data.    *)
EXTENDS ImageSpace, NaturalsInduction, WellFoundedInduction, TLAPS

-----------------------------------------------------------------------------
(* Numbers.                                                                *)

(* A set of numbers has a least one: what find_if and lower bounds find.   *)
LEMMA LeastExists ==
  ASSUME NEW T \in SUBSET Nat, T # {}
  PROVE  \E x \in T : \A y \in T : x <= y
<1>1. PICK x \in T : \A y \in T : ~(<<y, x>> \in OpToRel(<, Nat))
  BY NatLessThanWellFounded, WFMin
<1>2. \A y \in T : ~(y < x)
  BY <1>1 DEF OpToRel
<1> QED
  BY <1>2

(* FirstIndex is 0 for nothing, and else the first.                        *)
LEMMA FirstFound ==
  ASSUME NEW M \in SUBSET (Nat \ {0})
  PROVE  /\ FirstIndex(M) = 0 <=> M = {}
         /\ M # {} => FirstIndex(M) \in M
BY LeastExists DEF FirstIndex

LEMMA Words ==
  /\ U32Max \in Nat /\ RoundTo0 \in Nat /\ 0 \in U32
  /\ \A x \in U32 : x \in Nat /\ x <= U32Max
BY WidthAssumption DEF U32

(* Aligning up keeps 32 bits and is at most one page.                      *)
LEMMA AlignedUp ==
  ASSUME NEW x \in U32, NEW align \in U32, HasSingleBit(align)
  PROVE  AlignUpIfSafe(x, align) \in U32 /\ x <= AlignUpIfSafe(x, align)
<1>1. x % align \in 0..(align - 1) /\ align \in Nat /\ align # 0
  BY Words DEF HasSingleBit, U32
<1>2. x - (x % align) \in 0..x
  BY <1>1, Words DEF AlignDown, HasSingleBit, U32
<1> QED
  BY <1>1, <1>2, Words DEF AlignUpIfSafe, AlignDown, IsSumSafe, U32

LEMMA HeaderNumbers ==
  ASSUME NEW h \in SectionHeaders, NEW align \in U32
  PROVE  /\ VirtualSize(h, align) \in U32 /\ RawSize(h, align) \in U32 /\ Pointer(h) \in U32
         /\ RawSize(h, align) <= VirtualSize(h, align) /\ h.va \in U32
<1>1. h.va \in U32 /\ h.vs \in U32 /\ h.raw \in U32 /\ h.ptr \in U32
  BY DEF SectionHeaders
<1>2. VirtualSize(h, align) \in U32
  BY <1>1, AlignedUp DEF VirtualSize
<1>3. RawSize(h, align) \in U32 /\ RawSize(h, align) <= VirtualSize(h, align)
  BY <1>1, <1>2, Words DEF RawSize, Smaller
<1>4. Pointer(h) \in U32
  BY <1>1, Words DEF Pointer
<1> QED
  BY <1>1, <1>2, <1>3, <1>4

-----------------------------------------------------------------------------
(* Images: one data buffer for each header, and no virtual bytes behind    *)
(* the headers, whatever was edited.                                       *)

Buffers == [phys : U32, virt : U32]

Images == [headers : Seq(SectionHeaders), data : Seq(Buffers),
           full : [phys : U32, virt : {0}], sizeOfHeaders : U32,
           align : U32, fileAlign : U32, lowAlignment : BOOLEAN, sizeOfImage : Nat]

Matched(im) == im \in Images /\ DOMAIN im.data = DOMAIN im.headers

IInv == Matched(img) /\ edits \in Nat

(* Where section i begins and ends in memory.                              *)
Start(im, i) == im.headers[i].va
End(im, i) == im.headers[i].va + VirtualSize(im.headers[i], im.align)

LEMMA SectionNumbers ==
  ASSUME NEW im, Matched(im), NEW i \in DOMAIN im.headers
  PROVE  /\ i \in Nat \ {0} /\ im.headers[i] \in SectionHeaders /\ im.align \in U32
         /\ Start(im, i) \in U32
         /\ VirtualSize(im.headers[i], im.align) \in U32
         /\ RawSize(im.headers[i], im.align) \in U32
         /\ RawSize(im.headers[i], im.align) <= VirtualSize(im.headers[i], im.align)
         /\ Pointer(im.headers[i]) \in U32
         /\ im.data[i] \in Buffers
<1>1. im.headers \in Seq(SectionHeaders) /\ im.data \in Seq(Buffers) /\ im.align \in U32
      /\ DOMAIN im.data = DOMAIN im.headers
  BY DEF Matched, Images
<1>2. i \in Nat \ {0} /\ im.headers[i] \in SectionHeaders /\ im.data[i] \in Buffers
  BY <1>1
<1> QED
  BY <1>1, <1>2, HeaderNumbers DEF Start

(* The section found holds all the n bytes; when none is found, none does. *)
LEMMA SectionFound ==
  ASSUME NEW im, Matched(im), NEW rva \in U32, NEW n \in Nat
  PROVE  LET i == SectionFromRva(im, rva, n) IN
         /\ i # 0 => /\ i \in DOMAIN im.headers
                     /\ Start(im, i) <= rva /\ rva + n <= End(im, i) /\ IsSumSafe(rva, n)
         /\ i = 0 => \A j \in DOMAIN im.headers :
                       ~(/\ Start(im, j) <= rva /\ rva + n <= End(im, j) /\ IsSumSafe(rva, n))
<1> DEFINE M == {i \in DOMAIN im.headers :
                   IsSumSafe(rva, n) /\ ByRva(im.headers[i], im.align, rva, n)}
           i == SectionFromRva(im, rva, n)
<1>1. M \in SUBSET (Nat \ {0})
  BY SectionNumbers
<1>2. i = FirstIndex(M)
  BY DEF SectionFromRva
<1>3. \A j \in DOMAIN im.headers :
        j \in M <=> Start(im, j) <= rva /\ rva + n <= End(im, j) /\ IsSumSafe(rva, n)
  BY SectionNumbers, Words DEF Start, End, ByRva, Holds, AddSaturated, IsSumSafe
<1> HIDE DEF M, i
<1>4. i # 0 => i \in M
  BY <1>1, <1>2, FirstFound
<1>5. i = 0 => M = {}
  BY <1>1, <1>2, FirstFound
<1>6. M \subseteq DOMAIN im.headers
  BY DEF M
<1> QED
  BY <1>3, <1>4, <1>5, <1>6 DEF i

-----------------------------------------------------------------------------
(* A valid section table: each section begins where the one before it      *)
(* ends, so they lie in memory in their order, behind the headers.         *)

(* What the validators say of one section.                                 *)
LEMMA ValidSection ==
  ASSUME NEW im, Matched(im), SectionTableValid(im), NEW i \in DOMAIN im.headers
  PROVE  LET h == im.headers[i] IN
         /\ End(im, i) <= U32Max
         /\ RawSize(h, im.align) + Pointer(h) <= U32Max
         /\ HasSingleBit(im.align) /\ h.va % im.align = 0
         /\ i = 1 => im.sizeOfHeaders <= Start(im, i)
         /\ i # 1 => i - 1 \in DOMAIN im.headers /\ End(im, i - 1) = Start(im, i)
<1>1. im.headers \in Seq(SectionHeaders)
  BY DEF Matched, Images
<1>2. i # 1 => i - 1 \in DOMAIN im.headers
  BY <1>1
<1> DEFINE h == im.headers[i]
<1>3. /\ HeaderValid(h, im.align, im.fileAlign)
      /\ IF i = 1 THEN im.sizeOfHeaders <= h.va
         ELSE LET p == im.headers[i - 1] IN VirtualSize(p, im.align) + p.va = h.va
  BY DEF SectionTableValid
<1>4. /\ RawSize(h, im.align) + Pointer(h) <= U32Max /\ VirtualSize(h, im.align) + h.va <= U32Max
      /\ HasSingleBit(im.align) /\ h.va % im.align = 0
  BY <1>3 DEF HeaderValid, IsSumSafe
<1>5. VirtualSize(h, im.align) \in Nat /\ h.va \in Nat
  BY SectionNumbers, Words DEF Start
<1>6. i # 1 => /\ VirtualSize(im.headers[i - 1], im.align) \in Nat /\ im.headers[i - 1].va \in Nat
               /\ VirtualSize(im.headers[i - 1], im.align) + im.headers[i - 1].va = h.va
  BY <1>2, <1>3, SectionNumbers, Words DEF Start
<1> QED
  BY <1>2, <1>3, <1>4, <1>5, <1>6 DEF Start, End

(* By contradiction at the first section that begins too early.            *)
LEMMA InOrder ==
  ASSUME NEW im, Matched(im), SectionTableValid(im)
  PROVE  \A i, j \in DOMAIN im.headers : i < j => End(im, i) <= Start(im, j)
<1> SUFFICES ASSUME NEW i \in DOMAIN im.headers,
                    \E j \in DOMAIN im.headers : i < j /\ ~(End(im, i) <= Start(im, j))
             PROVE  FALSE
  OBVIOUS
<1> DEFINE T == {j \in DOMAIN im.headers : i < j /\ ~(End(im, i) <= Start(im, j))}
<1>1. T \in SUBSET Nat /\ T # {}
  BY SectionNumbers
<1>2. PICK j \in T : \A k \in T : j <= k
  BY <1>1, LeastExists
<1>3. i \in Nat \ {0} /\ j \in Nat \ {0} /\ i < j /\ j \in DOMAIN im.headers /\ j # 1
  BY <1>2, SectionNumbers
<1>4. j - 1 \in DOMAIN im.headers /\ End(im, j - 1) = Start(im, j)
  BY <1>3, ValidSection
<1>5. j - 1 = i \/ (i < j - 1 /\ End(im, i) <= Start(im, j - 1))
  BY <1>2, <1>3, <1>4
<1>6. /\ Start(im, j - 1) \in Nat /\ End(im, j - 1) \in Nat /\ Start(im, j - 1) <= End(im, j - 1)
      /\ End(im, i) \in Nat /\ Start(im, j) \in Nat
  BY <1>3, <1>4, SectionNumbers, Words DEF Start, End
<1> QED
  BY <1>2, <1>4, <1>5, <1>6

LEMMA BehindHeaders ==
  ASSUME NEW im, Matched(im), SectionTableValid(im), NEW i \in DOMAIN im.headers
  PROVE  im.sizeOfHeaders <= Start(im, i)
<1>1. 1 \in DOMAIN im.headers /\ i \in Nat \ {0}
  BY DEF Matched, Images
<1>2. i = 1 \/ End(im, 1) <= Start(im, i)
  BY <1>1, InOrder
<1>3. im.sizeOfHeaders <= Start(im, 1) /\ im.sizeOfHeaders \in Nat
  BY <1>1, ValidSection, Words DEF Matched, Images
<1>4. /\ Start(im, 1) \in Nat /\ End(im, 1) \in Nat /\ Start(im, 1) <= End(im, 1)
      /\ Start(im, i) \in Nat
  BY <1>1, SectionNumbers, Words DEF Start, End
<1> QED
  BY <1>2, <1>3, <1>4

(* One section at most holds a byte: the one that does is found.           *)
LEMMA TheSection ==
  ASSUME NEW im, Matched(im), SectionTableValid(im), NEW rva \in U32, NEW n \in Nat \ {0},
         NEW j \in DOMAIN im.headers, Start(im, j) <= rva, rva + n <= End(im, j)
  PROVE  SectionFromRva(im, rva, n) = j
<1> DEFINE i == SectionFromRva(im, rva, n)
<1>1. IsSumSafe(rva, n)
  <2>1. End(im, j) <= U32Max
    BY ValidSection
  <2>2. Start(im, j) \in Nat /\ VirtualSize(im.headers[j], im.align) \in Nat
    BY SectionNumbers, Words
  <2>3. End(im, j) \in Nat
    BY <2>2 DEF Start, End
  <2> QED
    BY <2>1, <2>3, Words DEF IsSumSafe
<1>2. i \in DOMAIN im.headers /\ Start(im, i) <= rva /\ rva + n <= End(im, i)
  BY <1>1, SectionFound
<1>3. /\ i \in Nat /\ j \in Nat /\ Start(im, i) \in Nat /\ Start(im, j) \in Nat
      /\ End(im, i) \in Nat /\ End(im, j) \in Nat
  BY <1>2, SectionNumbers, Words DEF Start, End
<1>4. (i < j => End(im, i) <= Start(im, j)) /\ (j < i => End(im, j) <= Start(im, i))
  BY <1>2, InOrder
<1> HIDE DEF i
<1>5. i = j
  BY <1>2, <1>3, <1>4, Words
<1> QED
  BY <1>5 DEF i

-----------------------------------------------------------------------------
(* The invariant.                                                          *)

LEMMA InitInv == Init => IInv
<1> SUFFICES ASSUME NEW f \in Files, img = Loaded(f.headers, f.layout), edits = f.edits
             PROVE  IInv
  BY DEF Init
<1>1. f.headers \in Seq(SectionHeaders) /\ f.layout \in Layouts /\ f.edits \in Nat
  BY ImageAssumption
<1> DEFINE hs == f.headers
           layout == f.layout
<1>2. /\ layout.align \in U32 /\ layout.fileAlign \in U32
      /\ layout.sizeOfHeaders \in U32 /\ layout.fileSize \in U32
  BY <1>1 DEF Layouts
<1>3. \A i \in DOMAIN hs : LoadedData(hs[i], layout) \in Buffers
  <2> SUFFICES ASSUME NEW i \in DOMAIN hs PROVE LoadedData(hs[i], layout) \in Buffers
    OBVIOUS
  <2>1. hs[i] \in SectionHeaders
    BY <1>1
  <2> DEFINE v == VirtualSize(hs[i], layout.align)
             n == RawSize(hs[i], layout.align)
  <2>2. v \in U32 /\ n \in U32 /\ n <= v
    BY <1>2, <2>1, HeaderNumbers
  <2> HIDE DEF v, n
  <2>3. v - n \in U32
    BY <2>2, Words DEF U32
  <2>4. LoadedData(hs[i], layout) \in {NoData, [phys |-> n, virt |-> v - n]}
    BY DEF LoadedData, v, n
  <2> QED
    BY <2>2, <2>3, <2>4, Words DEF NoData, Buffers
<1>4. [i \in DOMAIN hs |-> LoadedData(hs[i], layout)] \in Seq(Buffers)
  BY <1>1, <1>3
<1>5. LoadedHeaders(hs, layout) \in [phys : U32, virt : {0}]
  <2> DEFINE pointers == {Pointer(hs[i]) : i \in DOMAIN hs} \ {0}
             aligned == IF HasSingleBit(layout.align)
                        THEN AlignUpIfSafe(layout.sizeOfHeaders, layout.align)
                        ELSE layout.sizeOfHeaders
             least == CHOOSE p \in pointers : \A q \in pointers : p <= q
  <2>0. ASSUME NEW i \in DOMAIN hs PROVE Pointer(hs[i]) \in U32
    <3>1. hs[i] \in SectionHeaders
      BY <1>1
    <3> QED
      BY <1>2, <3>1, HeaderNumbers
  <2>1. pointers \in SUBSET U32 /\ pointers \in SUBSET Nat
    BY <2>0, Words
  <2>2. aligned \in U32
    BY <1>2, AlignedUp
  <2>3. pointers # {} => least \in pointers
    BY <2>1, LeastExists
  <2>4. pointers # {} => Smaller(aligned, least) \in U32
    BY <2>1, <2>2, <2>3 DEF Smaller
  <2>5. \A x, y \in U32 : Smaller(x, y) \in U32
    BY DEF Smaller
  <2> HIDE DEF pointers, aligned, least
  <2>6. LoadedHeaders(hs, layout) =
          [phys |-> Smaller(IF pointers = {} THEN layout.sizeOfHeaders ELSE Smaller(aligned, least),
                            layout.fileSize), virt |-> 0]
    BY DEF LoadedHeaders, pointers, aligned, least
  <2> QED
    BY <1>2, <2>4, <2>5, <2>6
<1> QED
  BY <1>1, <1>2, <1>4, <1>5, Words DEF IInv, Matched, Images, Loaded

(* One field of one header changes, or of one data buffer.                 *)
LEMMA EditKeeps ==
  ASSUME IInv, NEW im, Matched(im), Edit(im)
  PROVE  IInv'
BY DEF IInv, Matched, Edit

LEMMA StepInv == IInv /\ [Next]_vars => IInv'
<1> SUFFICES ASSUME IInv, [Next]_vars PROVE IInv'
  OBVIOUS
<1> USE DEF IInv, Matched
<1>1. img.headers \in Seq(SectionHeaders) /\ img.data \in Seq(Buffers)
  BY DEF Images
<1>2. \A n \in EditSizes : n \in U32
  BY ImageAssumption
<1>3. ASSUME NEW i \in DOMAIN img.headers, NEW h \in SectionHeaders,
             Edit([img EXCEPT !.headers[i] = h])
      PROVE  IInv'
  <2>1. [img.headers EXCEPT ![i] = h] \in Seq(SectionHeaders)
    BY <1>1, <1>3
  <2>2. Matched([img EXCEPT !.headers[i] = h])
    BY <1>1, <2>1 DEF Images
  <2> QED
    BY <1>3, <2>2, EditKeeps
<1>4. ASSUME NEW i \in DOMAIN img.headers, NEW n \in EditSizes, SetVirtualSize(i, n)
      PROVE  IInv'
  <2>1. img.headers[i] \in SectionHeaders
    BY <1>1
  <2> DEFINE h == [img.headers[i] EXCEPT !.vs = IF n = 0 THEN img.headers[i].raw ELSE n]
  <2>2. h \in SectionHeaders
    BY <1>2, <2>1 DEF SectionHeaders
  <2>3. Edit([img EXCEPT !.headers[i] = h])
    BY <1>1, <1>4 DEF SetVirtualSize, Edit, Images
  <2> QED
    BY <1>3, <2>2, <2>3
<1>5. ASSUME NEW i \in DOMAIN img.headers, NEW n \in EditSizes, SetRawSize(i, n)
      PROVE  IInv'
  <2>1. img.headers[i] \in SectionHeaders
    BY <1>1
  <2>2. [img.headers[i] EXCEPT !.raw = n] \in SectionHeaders
    BY <1>2, <2>1 DEF SectionHeaders
  <2>3. Edit([img EXCEPT !.headers[i] = [img.headers[i] EXCEPT !.raw = n]])
    BY <1>1, <1>5 DEF SetRawSize, Edit, Images
  <2> QED
    BY <1>3, <2>2, <2>3
<1>6. ASSUME NEW i \in DOMAIN img.headers, NEW n \in EditSizes, SetRva(i, n)
      PROVE  IInv'
  <2>1. img.headers[i] \in SectionHeaders
    BY <1>1
  <2>2. [img.headers[i] EXCEPT !.va = n] \in SectionHeaders
    BY <1>2, <2>1 DEF SectionHeaders
  <2>3. Edit([img EXCEPT !.headers[i] = [img.headers[i] EXCEPT !.va = n]])
    BY <1>1, <1>6 DEF SetRva, Edit, Images
  <2> QED
    BY <1>3, <2>2, <2>3
<1>7. ASSUME NEW i \in DOMAIN img.headers, NEW n \in EditSizes, ResizeData(i, n)
      PROVE  IInv'
  <2>1. img.data[i] \in Buffers
    BY <1>1
  <2>2. [img.data[i] EXCEPT !.phys = n] \in Buffers
    BY <1>2, <2>1 DEF Buffers
  <2>3. [img.data EXCEPT ![i].phys = n] \in Seq(Buffers)
    BY <1>1, <2>2
  <2>4. Matched([img EXCEPT !.data[i].phys = n])
    BY <1>1, <2>3 DEF Images
  <2> QED
    BY <1>7, <2>4, EditKeeps DEF ResizeData
<1>8. ASSUME NEW keepGapData \in BOOLEAN, UpdateFullHeadersBuffer(keepGapData)
      PROVE  IInv'
  <2>1. img.full \in [phys : U32, virt : {0}] /\ img.sizeOfHeaders \in U32
    BY DEF Images
  <2> DEFINE full == [img.full EXCEPT !.phys = img.sizeOfHeaders,
                                      !.virt = IF keepGapData THEN @ ELSE 0]
  <2>2. full \in [phys : U32, virt : {0}]
    BY <2>1
  <2>3. Edit([img EXCEPT !.full = full])
    BY <1>8, <2>1 DEF UpdateFullHeadersBuffer, Edit, Images
  <2> HIDE DEF full
  <2>4. Matched([img EXCEPT !.full = full])
    BY <2>2 DEF Images
  <2> QED
    BY <2>3, <2>4, EditKeeps
<1>9. CASE UpdateImageSize
  <2>1. CASE img.headers = <<>>
    BY <1>9, <2>1, Words DEF UpdateImageSize, Edit, Images
  <2>2. CASE img.headers # <<>>
    <3>1. Len(img.headers) \in DOMAIN img.headers
      BY <1>1, <2>2
    <3>2. /\ Start(img, Len(img.headers)) \in Nat
          /\ VirtualSize(img.headers[Len(img.headers)], img.align) \in Nat
      BY <3>1, SectionNumbers, Words
    <3> DEFINE size == Start(img, Len(img.headers))
                           + VirtualSize(img.headers[Len(img.headers)], img.align)
    <3>3. Edit([img EXCEPT !.sizeOfImage = size])
      BY <1>9, <2>2 DEF UpdateImageSize, Start
    <3>4. size \in Nat
      BY <3>2
    <3> HIDE DEF size
    <3>5. Matched([img EXCEPT !.sizeOfImage = size])
      BY <3>4 DEF Images
    <3> QED
      BY <3>3, <3>5, EditKeeps
  <2> QED
    BY <2>1, <2>2
<1>10. CASE UNCHANGED vars
  BY <1>10 DEF vars
<1> QED
  BY <1>4, <1>5, <1>6, <1>7, <1>8, <1>9, <1>10 DEF Next

THEOREM Invariance == Spec => []IInv
BY InitInv, StepInv, PTL DEF Spec

-----------------------------------------------------------------------------
(* What to_data_result says of a buffer and an offset in it.               *)

LEMMA BufferNumbers ==
  ASSUME NEW im, Matched(im), NEW i \in {0} \cup DOMAIN im.headers
  PROVE  /\ Buffer(im, i).phys \in U32 /\ Buffer(im, i).virt \in U32
         /\ BufferSize(Buffer(im, i)) = Buffer(im, i).phys + Buffer(im, i).virt
         /\ BufferSize(Buffer(im, i)) \in Nat
         /\ i = 0 => Buffer(im, i).virt = 0 /\ HeadersSize(im) = Buffer(im, i).phys
<1>1. CASE i = 0
  <2>1. im.full \in [phys : U32, virt : {0}]
    BY DEF Matched, Images
  <2> QED
    BY <1>1, <2>1, Words DEF Buffer, BufferSize, HeadersSize
<1>2. CASE i # 0
  BY <1>2, SectionNumbers, Words DEF Buffer, Buffers, BufferSize
<1> QED
  BY <1>1, <1>2

LEMMA ResultIs ==
  ASSUME NEW im, Matched(im), NEW i \in {0} \cup DOMAIN im.headers, NEW offset \in Nat
  PROVE  LET r == DataResult(im, i, offset)
             b == Buffer(im, i)
         IN  /\ r \in Found /\ r # None /\ r.buf = i /\ r.off = offset
             /\ r.phys = IF b.phys < offset THEN 0 ELSE b.phys - offset
             /\ r.phys + r.virt = IF BufferSize(b) < offset THEN 0 ELSE BufferSize(b) - offset
<1> DEFINE b == Buffer(im, i)
           phys == IF b.phys < offset THEN 0 ELSE b.phys - offset
           total == IF BufferSize(b) < offset THEN 0 ELSE BufferSize(b) - offset
<1>1. /\ b.phys \in Nat /\ BufferSize(b) \in Nat /\ b.phys <= BufferSize(b) /\ i \in Nat
  BY BufferNumbers, SectionNumbers, Words
<1>2. DataResult(im, i, offset) = [buf |-> i, off |-> offset, phys |-> phys, virt |-> total - phys]
  BY DEF DataResult, Buffer
<1> HIDE DEF b
<1>3. phys \in Nat /\ total \in Nat /\ total - phys \in Nat /\ phys + (total - phys) = total
  BY <1>1
<1> HIDE DEF phys, total
<1>4. DataResult(im, i, offset) \in Found
  BY <1>1, <1>2, <1>3 DEF Found
<1> QED
  BY <1>2, <1>3, <1>4, NoneAssumption DEF b, phys, total

(* Everything found is in the headers, or in the section of the address.   *)
LEMMA FoundAt ==
  ASSUME NEW im, Matched(im), NEW rva \in U32, NEW n \in Nat, NEW inHeaders \in BOOLEAN,
         FindData(im, rva, n, inHeaders) # None
  PROVE  LET r == FindData(im, rva, n, inHeaders) IN
         \/ rva < HeadersSize(im) /\ r = DataResult(im, 0, rva)
         \/ \E i \in DOMAIN im.headers : /\ ~(rva < HeadersSize(im)) /\ i = SectionFromRva(im, rva, n)
                                         /\ Start(im, i) <= rva
                                         /\ r = DataResult(im, i, rva - Start(im, i))
BY SectionFound DEF FindData, Start

(* RegionInside: the bytes handed out at an address are in the buffer they *)
(* are a window of, and in its physical part unless virtual bytes were     *)
(* asked for: section_data_from_rva for every image and every edit.        *)
THEOREM RegionsStayInside == Spec => []RegionInside
<1>1. IInv => RegionInside
  <2> SUFFICES ASSUME IInv, NEW rva \in U32, NEW n \in 1..4,
                      NEW inHeaders \in BOOLEAN, NEW virtual \in BOOLEAN,
                      SectionData(img, rva, n, inHeaders, virtual) # None
               PROVE  LET w == SectionData(img, rva, n, inHeaders, virtual) IN
                      w.off + w.len <= IF virtual THEN BufferSize(Buffer(img, w.buf))
                                       ELSE Buffer(img, w.buf).phys
    BY DEF RegionInside
  <2> DEFINE r == FindData(img, rva, n, inHeaders)
             w == SectionData(img, rva, n, inHeaders, virtual)
  <2>1. Matched(img) /\ rva \in Nat /\ n \in Nat /\ n > 0
    BY Words DEF IInv
  <2>2. r # None /\ w = [buf |-> r.buf, off |-> r.off, len |-> n]
        /\ ~(r.phys + r.virt < n) /\ (~virtual => ~(r.phys < n))
    BY DEF SectionData
  <2>3. \E i \in {0} \cup DOMAIN img.headers, offset \in Nat : r = DataResult(img, i, offset)
    <3>1. ASSUME NEW i \in DOMAIN img.headers PROVE Start(img, i) \in Nat
      BY <2>1, SectionNumbers, Words
    <3>2. \A i \in DOMAIN img.headers : Start(img, i) <= rva => rva - Start(img, i) \in Nat
      BY <2>1, <3>1
    <3> QED
      BY <2>1, <2>2, <3>2, FoundAt
  <2>4. PICK i \in {0} \cup DOMAIN img.headers, offset \in Nat : r = DataResult(img, i, offset)
    BY <2>3
  <2> DEFINE b == Buffer(img, i)
  <2> HIDE DEF r, w
  <2>5. /\ r.buf = i /\ r.off = offset
        /\ r.phys = IF b.phys < offset THEN 0 ELSE b.phys - offset
        /\ r.phys + r.virt = IF BufferSize(b) < offset THEN 0 ELSE BufferSize(b) - offset
    BY <2>1, <2>4, ResultIs
  <2>6. b.phys \in Nat /\ BufferSize(b) \in Nat
    BY <2>1, BufferNumbers, Words
  <2> HIDE DEF b
  <2>7. IF virtual THEN offset + n <= BufferSize(b) ELSE offset + n <= b.phys
    BY <2>1, <2>2, <2>5, <2>6
  <2> QED
    BY <2>2, <2>5, <2>7 DEF b, w
<1> QED
  BY <1>1, Invariance, PTL

-----------------------------------------------------------------------------
(* RestIsMaximal, in the headers ...                                       *)

LEMMA InTheHeaders ==
  ASSUME NEW im, Matched(im), NEW rva \in U32, rva < HeadersSize(im),
         NEW inHeaders \in BOOLEAN, NEW virtual \in BOOLEAN
  PROVE  /\ SectionRest(im, rva, inHeaders, virtual)
              = IF inHeaders THEN [buf |-> 0, off |-> rva, len |-> HeadersSize(im) - rva] ELSE None
         /\ SectionLength(im, rva, inHeaders, virtual)
              = IF inHeaders THEN HeadersSize(im) - rva ELSE None
         /\ \A n \in Nat \ {0} : SectionData(im, rva, n, inHeaders, virtual) # None
                                   <=> inHeaders /\ n <= HeadersSize(im) - rva
<1> DEFINE r == DataResult(im, 0, rva)
           size == HeadersSize(im)
<1>1. /\ rva \in Nat /\ U32Max \in Nat /\ size \in Nat /\ size <= U32Max
      /\ im.full.phys = size /\ BufferSize(im.full) = size
  BY BufferNumbers, Words DEF Buffer
<1>2. /\ r # None /\ r.buf = 0 /\ r.off = rva /\ r.phys = size - rva /\ r.phys + r.virt = size - rva
  BY <1>1, ResultIs DEF Buffer
<1>3. FindRest(im, rva, inHeaders) = IF inHeaders THEN r ELSE None
  BY DEF FindRest
<1> HIDE DEF r
<1>4. SectionRest(im, rva, inHeaders, virtual)
        = IF inHeaders THEN [buf |-> 0, off |-> rva, len |-> size - rva] ELSE None
  <2>1. CASE ~inHeaders
    BY <1>3, <2>1 DEF SectionRest
  <2>2. CASE inHeaders
    <3>1. FindRest(im, rva, inHeaders) = r
      BY <1>3, <2>2
    <3>2. ~(rva + (size - rva) > size)
      BY <1>1
    <3> QED
      BY <1>1, <1>2, <2>2, <3>1, <3>2 DEF SectionRest
  <2> QED
    BY <2>1, <2>2
<1>5. SectionLength(im, rva, inHeaders, virtual) = IF inHeaders THEN size - rva ELSE None
  <2>1. (size - rva) % (U32Max + 1) = size - rva
    BY <1>1
  <2> QED
    BY <1>1, <2>1 DEF SectionLength
<1>6. ASSUME NEW n \in Nat \ {0}
      PROVE  SectionData(im, rva, n, inHeaders, virtual) # None <=> inHeaders /\ n <= size - rva
  <2>1. FindData(im, rva, n, inHeaders) = IF inHeaders /\ n <= size - rva THEN r ELSE None
    BY <1>1 DEF FindData, IsSumSafe, r
  <2>2. [buf |-> r.buf, off |-> r.off, len |-> n] # None
    BY <1>1, <1>2, NoneAssumption DEF Windows
  <2> QED
    BY <1>1, <1>2, <2>1, <2>2 DEF SectionData
<1> QED
  BY <1>4, <1>5, <1>6

(* ... in a section: what is left of it, or of its raw data ...            *)
LEMMA InSection ==
  ASSUME Matched(img), Consistent, NEW rva \in U32, ~(rva < HeadersSize(img)),
         NEW inHeaders \in BOOLEAN, NEW virtual \in BOOLEAN,
         SectionFromRva(img, rva, 1) # 0
  PROVE  LET i == SectionFromRva(img, rva, 1)
             h == img.headers[i]
             offset == rva - h.va
             size == IF virtual THEN VirtualSize(h, img.align) ELSE RawSize(h, img.align)
             rest == IF offset >= size THEN 0 ELSE size - offset
         IN  /\ SectionRest(img, rva, inHeaders, virtual) = [buf |-> i, off |-> offset, len |-> rest]
             /\ rest \in Nat /\ offset \in Nat
             /\ rva # HeadersSize(img) => SectionLength(img, rva, inHeaders, virtual) = rest
             /\ \A n \in Nat \ {0} :
                  /\ SectionData(img, rva, n, inHeaders, virtual) # None <=> n <= rest
                  /\ SectionData(img, rva, n, inHeaders, virtual) # None =>
                       SectionData(img, rva, n, inHeaders, virtual).buf = i
<1> DEFINE i == SectionFromRva(img, rva, 1)
           h == img.headers[i]
           offset == rva - h.va
           raw == RawSize(h, img.align)
           mem == VirtualSize(h, img.align)
           size == IF virtual THEN mem ELSE raw
           rest == IF offset >= size THEN 0 ELSE size - offset
           r == DataResult(img, i, offset)
<1>1. SectionTableValid(img) /\ i # 0
  BY DEF Consistent
<1>2. i \in DOMAIN img.headers /\ Start(img, i) <= rva /\ rva + 1 <= End(img, i)
  BY <1>1, SectionFound
<1>3. /\ i \in Nat \ {0} /\ h.va \in Nat /\ rva \in Nat /\ raw \in Nat /\ mem \in Nat /\ raw <= mem
      /\ h.va <= rva /\ rva + 1 <= h.va + mem
  BY <1>2, SectionNumbers, Words DEF Start, End
<1>4. img.data[i] = [phys |-> raw, virt |-> mem - raw]
  BY <1>2 DEF Consistent, Synced
<1>5. img.data[i].phys = raw /\ BufferSize(img.data[i]) = mem /\ Buffer(img, i) = img.data[i]
  BY <1>3, <1>4 DEF BufferSize, Buffer
<1>6. offset \in Nat /\ offset < mem
  BY <1>3
<1>7. /\ r # None /\ r.buf = i /\ r.off = offset
      /\ r.phys = IF raw < offset THEN 0 ELSE raw - offset
      /\ r.phys + r.virt = mem - offset
  BY <1>1, <1>2, <1>3, <1>5, <1>6, ResultIs
<1>8. FindRest(img, rva, inHeaders) = r
  BY <1>1 DEF FindRest
<1>9. ASSUME NEW n \in Nat \ {0}
      PROVE  FindData(img, rva, n, inHeaders) = IF rva + n <= h.va + mem THEN r ELSE None
  <2>1. CASE rva + n <= h.va + mem
    <3>1. SectionFromRva(img, rva, n) = i
      BY <1>1, <1>2, <2>1, TheSection DEF Start, End
    <3> QED
      BY <1>1, <2>1, <3>1 DEF FindData
  <2>2. CASE ~(rva + n <= h.va + mem)
    <3>1. SectionFromRva(img, rva, n) = 0
      <4> SUFFICES ASSUME SectionFromRva(img, rva, n) # 0 PROVE FALSE
        OBVIOUS
      <4> DEFINE j == SectionFromRva(img, rva, n)
      <4>1. j \in DOMAIN img.headers /\ Start(img, j) <= rva /\ rva + n <= End(img, j)
        BY SectionFound
      <4>2. Start(img, j) \in Nat /\ End(img, j) \in Nat
        BY <4>1, SectionNumbers, Words DEF Start, End
      <4> HIDE DEF j
      <4>3. rva + 1 <= End(img, j)
        BY <1>3, <4>1, <4>2
      <4>4. j = i
        BY <1>1, <4>1, <4>3, TheSection
      <4> QED
        BY <2>2, <4>1, <4>4 DEF End
    <3>2. FindData(img, rva, n, inHeaders) = None
      BY <3>1 DEF FindData
    <3> QED
      BY <2>2, <3>2
  <2> QED
    BY <2>1, <2>2
<1>10. rest \in Nat /\ r.off = offset
       /\ (IF virtual THEN r.phys + r.virt ELSE r.phys) = rest /\ ~(offset + rest > mem)
  BY <1>3, <1>6, <1>7
<1>11. SectionRest(img, rva, inHeaders, virtual) = [buf |-> i, off |-> offset, len |-> rest]
  <2> HIDE DEF i, r, h, offset, raw, mem, size, rest
  <2> QED
    BY <1>1, <1>5, <1>7, <1>8, <1>10 DEF SectionRest
<1>12. rva # HeadersSize(img) => SectionLength(img, rva, inHeaders, virtual) = rest
  <2>0. HeadersSize(img) \in Nat
    BY BufferNumbers, Words
  <2>1. rva # HeadersSize(img) => ~(rva <= HeadersSize(img))
    BY <1>3, <2>0
  <2> QED
    BY <1>1, <1>5, <2>1 DEF SectionLength
<1>13. ASSUME NEW n \in Nat \ {0}
       PROVE  /\ SectionData(img, rva, n, inHeaders, virtual) # None <=> n <= rest
              /\ SectionData(img, rva, n, inHeaders, virtual) # None =>
                   SectionData(img, rva, n, inHeaders, virtual).buf = i
  <2>1. [buf |-> r.buf, off |-> r.off, len |-> n] # None
    BY <1>3, <1>6, <1>7, NoneAssumption DEF Windows
  <2> HIDE DEF r, i
  <2>2. n <= rest => rva + n <= h.va + mem
    BY <1>3, <1>6
  <2>3. CASE rva + n <= h.va + mem
    <3>1. FindData(img, rva, n, inHeaders) = r
      BY <1>9, <2>3
    <3> HIDE DEF h, raw, mem
    <3> QED
      BY <1>3, <1>6, <1>7, <2>1, <2>2, <3>1 DEF SectionData
  <2>4. CASE ~(rva + n <= h.va + mem)
    BY <1>9, <2>2, <2>4 DEF SectionData
  <2> QED
    BY <2>3, <2>4
<1> QED
  BY <1>6, <1>10, <1>11, <1>12, <1>13

(* ... and in none: at the end of a section there is an empty rest.        *)
LEMMA InNoSection ==
  ASSUME NEW im, Matched(im), NEW rva \in U32, ~(rva < HeadersSize(im)),
         NEW inHeaders \in BOOLEAN, NEW virtual \in BOOLEAN,
         SectionFromRva(im, rva, 1) = 0
  PROVE  LET r == SectionRest(im, rva, inHeaders, virtual) IN
         /\ r # None => r.len = 0
         /\ rva # HeadersSize(im) =>
              SectionLength(im, rva, inHeaders, virtual) = IF r = None THEN None ELSE r.len
         /\ \A n \in Nat \ {0} : SectionData(im, rva, n, inHeaders, virtual) = None
<1> DEFINE e == SectionFromRva(im, rva, 0)
<1>1. ASSUME NEW n \in Nat \ {0} PROVE SectionData(im, rva, n, inHeaders, virtual) = None
  <2>1. SectionFromRva(im, rva, n) = 0
    <3> SUFFICES ASSUME SectionFromRva(im, rva, n) # 0 PROVE FALSE
      OBVIOUS
    <3> DEFINE j == SectionFromRva(im, rva, n)
    <3>1. /\ j \in DOMAIN im.headers /\ Start(im, j) <= rva /\ rva + n <= End(im, j)
          /\ IsSumSafe(rva, n)
      BY SectionFound
    <3>2. Start(im, j) \in Nat /\ End(im, j) \in Nat
      BY <3>1, SectionNumbers, Words DEF Start, End
    <3> HIDE DEF j
    <3>3. rva + 1 <= End(im, j) /\ IsSumSafe(rva, 1)
      BY <3>1, <3>2, Words DEF IsSumSafe
    <3> QED
      BY <3>1, <3>3, SectionFound
  <2> QED
    BY <2>1 DEF SectionData, FindData
<1>2. CASE e = 0
  <2>1. FindRest(im, rva, inHeaders) = None
    BY <1>2 DEF FindRest
  <2>2. SectionRest(im, rva, inHeaders, virtual) = None
    BY <2>1 DEF SectionRest
  <2>3. rva # HeadersSize(im) => SectionLength(im, rva, inHeaders, virtual) = None
    BY <1>2, BufferNumbers, Words DEF SectionLength
  <2> QED
    BY <1>1, <2>2, <2>3
<1>3. CASE e # 0
  <2>1. e \in DOMAIN im.headers /\ e \in Nat \ {0}
    BY <1>3, SectionFound, SectionNumbers
  <2>2. BufferSize(im.data[e]) \in Nat
    BY <2>1, BufferNumbers DEF Buffer
  <2> DEFINE r == [buf |-> e, off |-> BufferSize(im.data[e]), phys |-> 0, virt |-> 0]
             w == [buf |-> e, off |-> BufferSize(im.data[e]), len |-> 0]
  <2>3. r # None /\ w # None
    BY <2>1, <2>2, NoneAssumption DEF Found, Windows
  <2>4. FindRest(im, rva, inHeaders) = r
    BY <1>3 DEF FindRest
  <2>5. SectionRest(im, rva, inHeaders, virtual) = w
    <3>1. ~(r.off + 0 > BufferSize(im.data[e])) /\ (IF virtual THEN r.phys + r.virt ELSE r.phys) = 0
          /\ r.buf = e /\ e # 0
      BY <2>2, <1>3
    <3> HIDE DEF r, e
    <3>2. r.off = BufferSize(im.data[e])
      BY DEF r
    <3> QED
      BY <2>3, <2>4, <3>1, <3>2 DEF SectionRest
  <2>6. rva # HeadersSize(im) => SectionLength(im, rva, inHeaders, virtual) = 0
    BY <1>3, BufferNumbers, Words DEF SectionLength
  <2> QED
    BY <1>1, <2>3, <2>5, <2>6
<1> QED
  BY <1>2, <1>3

(* RestIsMaximal: on a valid section table the size that can be had at an  *)
(* address is that of the rest, and that of the length function: of the    *)
(* three ways of image to ask for section data none says more or less.     *)
THEOREM RestsAreMaximal == Spec => []RestIsMaximal
<1>1. IInv => RestIsMaximal
  <2> SUFFICES ASSUME IInv, Consistent, NEW rva \in U32,
                      NEW inHeaders \in BOOLEAN, NEW virtual \in BOOLEAN
               PROVE  LET r == SectionRest(img, rva, inHeaders, virtual)
                          length == SectionLength(img, rva, inHeaders, virtual)
                      IN  /\ \A n \in 1..4 :
                               SectionData(img, rva, n, inHeaders, virtual) # None
                                 <=> r # None /\ n <= r.len
                          /\ rva # HeadersSize(img) => length = IF r = None THEN None ELSE r.len
    BY DEF RestIsMaximal
  <2>1. Matched(img) /\ \A n \in 1..4 : n \in Nat \ {0}
    BY DEF IInv
  <2>2. CASE rva < HeadersSize(img)
    <3>1. [buf |-> 0, off |-> rva, len |-> HeadersSize(img) - rva] # None
      <4>1. HeadersSize(img) - rva \in Nat /\ rva \in Nat
        BY <2>1, <2>2, BufferNumbers, Words
      <4> QED
        BY <4>1, NoneAssumption DEF Windows
    <3> QED
      BY <2>1, <2>2, <3>1, InTheHeaders
  <2>3. CASE ~(rva < HeadersSize(img)) /\ SectionFromRva(img, rva, 1) # 0
    <3> DEFINE r == SectionRest(img, rva, inHeaders, virtual)
    <3>1. PICK i, offset, rest :
            /\ r = [buf |-> i, off |-> offset, len |-> rest]
            /\ i \in Nat /\ rest \in Nat /\ offset \in Nat
            /\ rva # HeadersSize(img) => SectionLength(img, rva, inHeaders, virtual) = rest
            /\ \A n \in Nat \ {0} :
                 SectionData(img, rva, n, inHeaders, virtual) # None <=> n <= rest
      <4>1. SectionFromRva(img, rva, 1) \in Nat
        BY <2>1, <2>3, SectionFound, SectionNumbers
      <4> QED
        BY <2>1, <2>3, <4>1, InSection
    <3>2. r # None
      BY <3>1, NoneAssumption DEF Windows
    <3> QED
      BY <2>1, <3>1, <3>2
  <2>4. CASE ~(rva < HeadersSize(img)) /\ SectionFromRva(img, rva, 1) = 0
    <3> DEFINE r == SectionRest(img, rva, inHeaders, virtual)
    <3>1. r # None => r.len = 0
      BY <2>1, <2>4, InNoSection
    <3>2. \A n \in 1..4 : ~(n <= 0)
      OBVIOUS
    <3> QED
      BY <2>1, <2>4, <3>1, <3>2, InNoSection
  <2> QED
    BY <2>2, <2>3, <2>4
<1> QED
  BY <1>1, Invariance, PTL

-----------------------------------------------------------------------------
(* AddressAgreement.                                                       *)

LEMMA VirtualAddresses ==
  ASSUME Matched(img), NEW rva \in U32
  PROVE  VaAgrees(rva)
<1> DEFINE i == SectionFromRva(img, rva, 1)
<1>1. i # 0 => RvaFromSectionOffset(img.headers[i], rva - img.headers[i].va, img.align) = rva
  <2> SUFFICES ASSUME i # 0
               PROVE  RvaFromSectionOffset(img.headers[i], rva - img.headers[i].va, img.align) = rva
    OBVIOUS
  <2> DEFINE h == img.headers[i]
             size == VirtualSize(h, img.align)
  <2>1. i \in DOMAIN img.headers /\ Start(img, i) <= rva /\ rva + 1 <= End(img, i)
    BY SectionFound
  <2>2. h.va \in Nat /\ size \in Nat /\ rva \in 0..U32Max /\ h.va <= rva /\ rva + 1 <= h.va + size
    BY <2>1, SectionNumbers, Words DEF Start, End
  <2> HIDE DEF h, size
  <2>3. ~(rva - h.va >= size) /\ h.va + (rva - h.va) = rva /\ rva % (U32Max + 1) = rva
    BY <2>2, Words
  <2> QED
    BY <2>3 DEF RvaFromSectionOffset, h, size
<1>2. ASSUME NEW base \in Bases, NEW vaMax \in {U32Max, 3 * U32Max}, RvaToVa(rva, base, vaMax) # None
      PROVE  SectionFromVa(img, RvaToVa(rva, base, vaMax), base, 1) = i
  <2>1. base \in Nat /\ rva \in Nat
    BY Words DEF Bases
  <2>2. RvaToVa(rva, base, vaMax) = rva + base
    BY <1>2 DEF RvaToVa
  <2>3. VaToRva(rva + base, base) = rva
    BY <2>1, Words DEF VaToRva
  <2>4. rva # None
    BY <2>1, NoneAssumption
  <2> QED
    BY <2>2, <2>3, <2>4 DEF SectionFromVa
<1> QED
  BY <1>1, <1>2 DEF VaAgrees

(* The section that has a physical byte at an address: its raw data has a  *)
(* byte there, which is not in the headers.                                *)
LEMMA ByteInFile ==
  ASSUME Matched(img), Consistent, NEW rva \in U32,
         SectionData(img, rva, 1, TRUE, FALSE) # None,
         SectionData(img, rva, 1, TRUE, FALSE).buf # 0
  PROVE  LET r == SectionData(img, rva, 1, TRUE, FALSE) IN
         RvaToFileOffset(img, rva) = r.off + Pointer(img.headers[r.buf])
<1> DEFINE r == SectionData(img, rva, 1, TRUE, FALSE)
           i == SectionFromRva(img, rva, 1)
           h == img.headers[i]
           raw == RawSize(h, img.align)
<1>1. ~(rva < HeadersSize(img))
  <2> SUFFICES ASSUME rva < HeadersSize(img) PROVE FALSE
    OBVIOUS
  <2>1. FindData(img, rva, 1, TRUE) # None
    BY DEF SectionData
  <2>2. FindData(img, rva, 1, TRUE) = DataResult(img, 0, rva)
    BY <2>1, FoundAt
  <2>3. DataResult(img, 0, rva).buf = 0
    BY ResultIs, Words
  <2>4. r.buf = 0
    BY <2>2, <2>3 DEF SectionData
  <2> QED
    BY <2>4
<1>2. i # 0
  <2>1. 1 \in Nat \ {0} /\ TRUE \in BOOLEAN /\ FALSE \in BOOLEAN
    OBVIOUS
  <2> QED
    BY <1>1, <2>1, InNoSection
<1>3. i \in DOMAIN img.headers /\ Start(img, i) <= rva /\ rva + 1 <= End(img, i)
  BY <1>2, SectionFound
<1>4. /\ h.va \in Nat /\ raw \in Nat /\ Pointer(h) \in Nat /\ rva \in Nat
      /\ h.va <= rva /\ raw + Pointer(h) <= U32Max
      /\ img.sizeOfHeaders <= h.va /\ img.sizeOfHeaders \in Nat
  BY <1>3, SectionNumbers, BehindHeaders, ValidSection, Words
     DEF Start, Consistent, Matched, Images
<1>5. /\ SectionRest(img, rva, TRUE, FALSE)
           = [buf |-> i, off |-> rva - h.va,
              len |-> IF rva - h.va >= raw THEN 0 ELSE raw - (rva - h.va)]
      /\ r.buf = i
      /\ 1 <= IF rva - h.va >= raw THEN 0 ELSE raw - (rva - h.va)
  <2>1. 1 \in Nat \ {0} /\ TRUE \in BOOLEAN /\ FALSE \in BOOLEAN
    OBVIOUS
  <2> QED
    BY <1>1, <1>2, <2>1, InSection
<1>6. r.off = rva - h.va
  <2>1. FindData(img, rva, 1, TRUE) # None
    BY DEF SectionData
  <2>2. FindData(img, rva, 1, TRUE) = DataResult(img, i, rva - Start(img, i))
    <3>1. DataResult(img, 0, rva).buf # i
      <4>1. DataResult(img, 0, rva).buf = 0
        BY ResultIs, Words
      <4> QED
        BY <1>2, <4>1
    <3>2. \/ FindData(img, rva, 1, TRUE) = DataResult(img, 0, rva)
          \/ \E j \in DOMAIN img.headers : /\ j = i
                                           /\ FindData(img, rva, 1, TRUE)
                                              = DataResult(img, j, rva - Start(img, j))
      <4>1. 1 \in Nat /\ TRUE \in BOOLEAN
        OBVIOUS
      <4> QED
        BY <2>1, <4>1, FoundAt
    <3>3. FindData(img, rva, 1, TRUE).buf = i
      BY <1>5 DEF SectionData
    <3> QED
      BY <3>1, <3>2, <3>3
  <2>3. DataResult(img, i, rva - Start(img, i)).off = rva - h.va
    BY DEF DataResult, Start
  <2> QED
    BY <2>1, <2>2, <2>3 DEF SectionData
<1>7. RvaToFileOffset(img, rva) = rva - h.va + Pointer(h)
  <2>1. ~(rva < img.sizeOfHeaders) /\ ~(rva - h.va >= raw) /\ IsSumSafe(rva - h.va, Pointer(h))
    BY <1>4, <1>5, Words DEF IsSumSafe
  <2> QED
    BY <1>2, <2>1 DEF RvaToFileOffset
<1> QED
  BY <1>5, <1>6, <1>7

(* The section that has the file offset is the one of its RVA.             *)
LEMMA OffsetFound ==
  ASSUME NEW im, Matched(im), NEW offset \in U32, NEW n \in Nat, SectionFromOffset(im, offset, n) # 0
  PROVE  LET i == SectionFromOffset(im, offset, n)
             h == im.headers[i]
         IN  /\ i \in DOMAIN im.headers
             /\ Pointer(h) <= offset /\ offset + n <= Pointer(h) + RawSize(h, im.align)
<1> DEFINE M == {i \in DOMAIN im.headers :
                   IsSumSafe(offset, n) /\ ByRawOffset(im.headers[i], im.align, offset, n)}
           i == SectionFromOffset(im, offset, n)
<1>1. M \in SUBSET (Nat \ {0})
  BY SectionNumbers
<1>2. i = FirstIndex(M)
  BY DEF SectionFromOffset
<1>3. i \in M
  BY <1>1, <1>2, FirstFound
<1>4. \A j \in M : LET h == im.headers[j] IN
        j \in DOMAIN im.headers /\ Pointer(h) <= offset /\ offset + n <= Pointer(h) + RawSize(h, im.align)
  BY SectionNumbers, Words DEF ByRawOffset, Holds, AddSaturated, IsSumSafe
<1> HIDE DEF M, i
<1> QED
  BY <1>3, <1>4 DEF i

LEMMA OffsetAndBack ==
  ASSUME NEW im, Matched(im), SectionTableValid(im), NEW offset \in U32,
         FileOffsetToRva(im, offset) # None
  PROVE  RvaToFileOffset(im, FileOffsetToRva(im, offset)) = offset
<1> DEFINE i == SectionFromOffset(im, offset, 1)
           h == im.headers[i]
           rva == FileOffsetToRva(im, offset)
<1>1. CASE offset < im.sizeOfHeaders
  BY <1>1 DEF FileOffsetToRva, RvaToFileOffset
<1>2. CASE ~(offset < im.sizeOfHeaders)
  <2>1. /\ i # 0 /\ rva = offset - Pointer(h) + h.va
        /\ ~(offset - Pointer(h) >= VirtualSize(h, im.align)) /\ IsSumSafe(offset - Pointer(h), h.va)
    BY <1>2 DEF FileOffsetToRva
  <2>2. i \in DOMAIN im.headers /\ Pointer(h) <= offset /\ offset + 1 <= Pointer(h) + RawSize(h, im.align)
    BY <2>1, OffsetFound
  <2>3. /\ h.va \in Nat /\ Pointer(h) \in Nat /\ RawSize(h, im.align) \in Nat
        /\ VirtualSize(h, im.align) \in Nat /\ offset \in Nat
        /\ im.sizeOfHeaders \in Nat /\ im.sizeOfHeaders <= h.va
        /\ RawSize(h, im.align) + Pointer(h) <= U32Max
    BY <2>2, SectionNumbers, BehindHeaders, ValidSection, Words DEF Start, Matched, Images
  <2> HIDE DEF i, h, rva
  <2>4. rva \in U32 /\ h.va <= rva /\ rva + 1 <= h.va + VirtualSize(h, im.align)
        /\ rva - h.va = offset - Pointer(h) /\ ~(rva < im.sizeOfHeaders)
    BY <2>1, <2>2, <2>3, Words DEF IsSumSafe, U32
  <2>5. SectionFromRva(im, rva, 1) = i /\ i # 0
    BY <2>1, <2>2, <2>4, TheSection DEF Start, End, h
  <2>6. ~(rva - h.va >= RawSize(h, im.align)) /\ IsSumSafe(rva - h.va, Pointer(h))
        /\ rva - h.va + Pointer(h) = offset
    BY <2>2, <2>3, <2>4, Words DEF IsSumSafe
  <2>7. RvaToFileOffset(im, rva) = offset
    BY <2>4, <2>5, <2>6 DEF RvaToFileOffset, h
  <2> QED
    BY <2>7 DEF rva
<1> QED
  BY <1>1, <1>2

(* AddressAgreement: file offsets, RVAs and virtual addresses of an image  *)
(* lead to the same bytes, for every valid section table, overlaps in the  *)
(* file included, and every edit.                                          *)
THEOREM AddressesAgree == Spec => []AddressAgreement
<1>1. IInv => AddressAgreement
  BY VirtualAddresses, ByteInFile, OffsetAndBack DEF IInv, AddressAgreement
<1> QED
  BY <1>1, Invariance, PTL

-----------------------------------------------------------------------------
(* ImageSizeCovers.                                                        *)

LEMMA Division ==
  ASSUME NEW n \in Nat, n > 0, NEW x \in Nat
  PROVE  x = n * (x \div n) + (x % n)
BY SMTT(30)

LEMMA TheRemainder ==
  ASSUME NEW n \in Nat \ {0}, NEW x \in Int, NEW q \in Int, NEW m \in 0..(n - 1), x = n * q + m
  PROVE  x % n = m
OBVIOUS

LEMMA AddedToPages ==
  ASSUME NEW n \in Nat \ {0}, NEW a \in Nat, NEW b \in Nat, a % n = 0
  PROVE  (a + b) % n = b % n
<1>1. /\ a \div n \in Int /\ b \div n \in Int /\ b % n \in 0..(n - 1)
  OBVIOUS
<1>2. a = n * (a \div n) /\ b = n * (b \div n) + (b % n)
  BY Division
<1>3. \A k, l \in Int : n * k + n * l = n * (k + l)
  OBVIOUS
<1>4. a + b = n * ((a \div n) + (b \div n)) + (b % n)
  BY <1>1, <1>2, <1>3
<1> DEFINE q == (a \div n) + (b \div n)
           m == b % n
<1>5. a + b = n * q + m /\ q \in Int /\ m \in 0..(n - 1) /\ a + b \in Int
  BY <1>1, <1>4
<1> HIDE DEF q, m
<1>6. (a + b) % n = m
  BY <1>5, TheRemainder
<1> QED
  BY <1>6 DEF m

LEMMA WholePages ==
  ASSUME NEW n \in Nat \ {0}, NEW x \in Nat
  PROVE  /\ x % n \in Nat /\ x - (x % n) \in Nat
         /\ (x - (x % n)) % n = 0 /\ ((x - (x % n)) + n) % n = 0
<1>1. x \div n \in Int /\ x % n \in 0..(n - 1) /\ x % n <= x
  OBVIOUS
<1> DEFINE q == x \div n
           y == x - (x % n)
<1>2. y = n * q + 0 /\ y + n = n * (q + 1) + 0 /\ q \in Int /\ q + 1 \in Int /\ y \in Nat
  BY <1>1, Division
<1> HIDE DEF q, y
<1>3. y % n = 0 /\ (y + n) % n = 0
  <2>1. 0 \in 0..(n - 1) /\ y \in Int /\ y + n \in Int
    BY <1>2
  <2> QED
    BY <1>2, <2>1, TheRemainder
<1> QED
  BY <1>1, <1>2, <1>3 DEF y

(* A size that is a whole number of pages, or that cannot be rounded up,   *)
(* stays so behind a whole number of pages.                                *)
LEMMA RoundedStays ==
  ASSUME NEW align \in U32, HasSingleBit(align), NEW va \in U32, va % align = 0, NEW x \in U32,
         va + AlignUpIfSafe(x, align) <= U32Max
  PROVE  AlignUpIfSafe(va + AlignUpIfSafe(x, align), align) = va + AlignUpIfSafe(x, align)
<1> DEFINE size == AlignUpIfSafe(x, align)
<1>1. size \in Nat /\ va \in Nat /\ x \in Nat /\ align \in Nat \ {0} /\ U32Max \in Nat
  BY AlignedUp, Words DEF HasSingleBit
<1>2. (va + size) % align = size % align
  BY <1>1, AddedToPages
<1>3. size % align = 0 \/ (size = x /\ ~IsSumSafe(AlignDown(x, align), align))
  <2>1. ((x - (x % align)) + align) % align = 0
    BY <1>1, WholePages
  <2> QED
    BY <2>1 DEF AlignUpIfSafe, AlignDown
<1> HIDE DEF size
<1>4. CASE size % align = 0
  BY <1>2, <1>4 DEF AlignUpIfSafe, size
<1>5. CASE size = x /\ ~IsSumSafe(AlignDown(x, align), align)
  <2>1. x % align \in Nat /\ (va + size) % align = x % align
    BY <1>1, <1>2, <1>5, WholePages
  <2> DEFINE m == x % align
  <2>2. ~(x - m + align <= U32Max) /\ m \in Nat
    BY <1>5, <2>1 DEF IsSumSafe, AlignDown
  <2> HIDE DEF m
  <2>3. ~((va + size) - m + align <= U32Max)
    BY <1>1, <1>5, <2>2
  <2>4. ~IsSumSafe(AlignDown(va + size, align), align)
    BY <2>1, <2>3 DEF IsSumSafe, AlignDown, m
  <2> QED
    BY <2>4 DEF AlignUpIfSafe, size
<1> QED
  BY <1>3, <1>4, <1>5

(* ImageSizeCovers: the size update_image_size computes covers every       *)
(* section, and the validator takes it, also when the last section is too  *)
(* large to be rounded to whole pages.                                     *)
THEOREM ImageSizeIsEnough == Spec => ImageSizeCovers
<1> DEFINE Covers ==
      img'.sizeOfImage # img.sizeOfImage /\ SectionTableValid(img) =>
        /\ \A i \in DOMAIN img.headers :
             img.headers[i].va + VirtualSize(img.headers[i], img.align) <= img'.sizeOfImage
        /\ SizeOfImageValid(img')
<1>1. IInv /\ [Next]_vars => Covers
  <2> SUFFICES ASSUME IInv, [Next]_vars, img'.sizeOfImage # img.sizeOfImage, SectionTableValid(img)
               PROVE  /\ \A i \in DOMAIN img.headers : End(img, i) <= img'.sizeOfImage
                      /\ SizeOfImageValid(img')
    BY DEF End
  <2>1. Matched(img) /\ img \in Images
    BY DEF IInv, Matched
  <2>2. UpdateImageSize
    BY <2>1 DEF Next, vars, Edit, SetVirtualSize, SetRawSize, SetRva, ResizeData,
                UpdateFullHeadersBuffer, Images
  <2>3. CASE img.headers = <<>>
    BY <2>1, <2>2, <2>3 DEF UpdateImageSize, Edit, SizeOfImageValid, Images
  <2>4. CASE img.headers # <<>>
    <3> DEFINE n == Len(img.headers)
               last == img.headers[n]
               size == VirtualSize(last, img.align)
    <3>1. img' = [img EXCEPT !.sizeOfImage = last.va + size]
      BY <2>2, <2>4 DEF UpdateImageSize, Edit
    <3>2. /\ img'.sizeOfImage = last.va + size /\ img'.headers = img.headers
          /\ img'.align = img.align
      BY <2>1, <3>1 DEF Images
    <3>3. n \in DOMAIN img.headers /\ \A i \in DOMAIN img.headers : i = n \/ i < n
      BY <2>1, <2>4 DEF Images
    <3>4. End(img, n) = last.va + size
      BY DEF End
    <3>5. ASSUME NEW i \in DOMAIN img.headers PROVE End(img, i) <= img'.sizeOfImage
      <4>0. ASSUME NEW j \in DOMAIN img.headers
            PROVE  Start(img, j) \in Nat /\ End(img, j) \in Nat /\ Start(img, j) <= End(img, j)
        <5>1. img.headers[j].va \in Nat /\ VirtualSize(img.headers[j], img.align) \in Nat
          BY <2>1, SectionNumbers, Words DEF Start
        <5> QED
          BY <5>1 DEF Start, End
      <4>1. /\ Start(img, n) \in Nat /\ End(img, n) \in Nat /\ Start(img, n) <= End(img, n)
            /\ End(img, i) \in Nat
        BY <3>3, <4>0
      <4>2. i = n \/ End(img, i) <= Start(img, n)
        BY <2>1, <3>3, InOrder
      <4> QED
        BY <3>2, <3>4, <4>1, <4>2
    <3>6. SizeOfImageValid(img')
      <4>1. /\ End(img, n) <= U32Max /\ HasSingleBit(img.align) /\ last.va % img.align = 0
        BY <2>1, <3>3, ValidSection
      <4>2. last \in SectionHeaders /\ img.align \in U32 /\ last.va \in U32 /\ size \in U32
        BY <2>1, <3>3, SectionNumbers DEF Start
      <4>3. PICK x \in U32 : size = AlignUpIfSafe(x, img.align)
        BY <4>1, <4>2 DEF VirtualSize, SectionHeaders
      <4> HIDE DEF last, size, n
      <4>4. AlignUpIfSafe(last.va + size, img.align) = last.va + size
        BY <3>4, <4>1, <4>2, <4>3, RoundedStays
      <4>5. IsSumSafe(last.va, size)
        BY <3>4, <4>1 DEF IsSumSafe
      <4> QED
        BY <2>4, <3>2, <4>1, <4>4, <4>5 DEF SizeOfImageValid, last, size, n
    <3> QED
      BY <3>5, <3>6
  <2> QED
    BY <2>3, <2>4
<1>2. IInv /\ [Next]_vars => [Covers]_vars
  BY <1>1
<1> QED
  BY <1>2, Invariance, PTL DEF Spec, ImageSizeCovers

=============================================================================
