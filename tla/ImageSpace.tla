----------------------------- MODULE ImageSpace -----------------------------
(***************************************************************************)
(* The address space of a loaded image: section headers, the section data  *)
(* buffers beside them, and the full headers buffer.  Headers and data are *)
(* two lists matched by position; a caller edits either through the image, *)
(* so a header may describe more or less than its data buffer holds.       *)
(* section_data_from_rva and section_data_length_from_rva answer on        *)
(* whatever is there.                                                      *)
(***************************************************************************)
EXTENDS SectionGeometry

CONSTANTS
  Files,        \* section headers, layout, and bound: edits after the load
  EditSizes,    \* sizes a caller gives to data or headers
  LowAlignMax   \* the largest low alignment, 0x800

(* Alignments, the size of the headers, and the size of a file.            *)
Layouts == [align : U32, fileAlign : U32, sizeOfHeaders : U32, fileSize : U32]

ASSUME ImageAssumption ==
  /\ Files \subseteq [headers : Seq(SectionHeaders), layout : Layouts, edits : Nat]
  /\ EditSizes \subseteq U32

(* What is found at an address, the bytes of it that are handed out, and   *)
(* None, which is neither of them and no address.                          *)
Found == [buf : Nat, off : Nat, phys : Nat, virt : Nat]
Windows == [buf : Nat, off : Nat, len : Nat]

ASSUME NoneAssumption == None \notin Nat /\ None \notin Found /\ None \notin Windows

VARIABLES
  img,    \* the image: headers, data, full headers buffer, optional header
  edits   \* number of edits left

vars == <<img, edits>>

NoData == [phys |-> 0, virt |-> 0]

BufferSize(b) == b.phys + b.virt

HeadersSize(im) == BufferSize(im.full)

(* What image_loader puts in the data list for header h: nothing when the  *)
(* file is too short (section_data::deserialize throws, the entry stays).  *)
LoadedData(h, layout) ==
  LET raw == RawSize(h, layout.align)
  IN  IF Pointer(h) + raw > layout.fileSize THEN NoData
      ELSE [phys |-> raw, virt |-> VirtualSize(h, layout.align) - raw]

(* The full headers buffer ends where the first section's raw data starts. *)
LoadedHeaders(hs, layout) ==
  LET pointers == {Pointer(hs[i]) : i \in DOMAIN hs} \ {0}
      aligned == IF HasSingleBit(layout.align)
                 THEN AlignUpIfSafe(layout.sizeOfHeaders, layout.align)
                 ELSE layout.sizeOfHeaders
      size == IF pointers = {} THEN layout.sizeOfHeaders
              ELSE Smaller(aligned, CHOOSE p \in pointers : \A q \in pointers : p <= q)
  IN  [phys |-> Smaller(size, layout.fileSize), virt |-> 0]

Loaded(hs, layout) ==
  [headers |-> hs, data |-> [i \in DOMAIN hs |-> LoadedData(hs[i], layout)],
   full |-> LoadedHeaders(hs, layout), sizeOfHeaders |-> layout.sizeOfHeaders,
   align |-> layout.align, fileAlign |-> layout.fileAlign,
   lowAlignment |-> layout.align = layout.fileAlign
                   /\ layout.fileAlign \in 1..LowAlignMax,
   sizeOfImage |-> 0]

-----------------------------------------------------------------------------
(* section_data_from_rva                                                   *)

(* to_data_result: the bytes a buffer has from an offset on.               *)
DataResult(im, i, offset) ==
  LET b == IF i = 0 THEN im.full ELSE im.data[i]
      phys == IF b.phys < offset THEN 0 ELSE b.phys - offset
      total == IF BufferSize(b) < offset THEN 0 ELSE BufferSize(b) - offset
  IN  [buf |-> i, off |-> offset, phys |-> phys, virt |-> total - phys]

(* section_data_from_rva_impl with a size ...                              *)
FindData(im, rva, n, inHeaders) ==
  IF rva < HeadersSize(im)
  THEN IF ~IsSumSafe(rva, n) \/ ~inHeaders \/ HeadersSize(im) < rva + n
       THEN None ELSE DataResult(im, 0, rva)
  ELSE LET i == SectionFromRva(im, rva, n)
       IN  IF i = 0 THEN None ELSE DataResult(im, i, rva - im.headers[i].va)

(* ... and without one: everything from rva to the end of the section, and *)
(* nothing, successfully, at the very end of one.                          *)
FindRest(im, rva, inHeaders) ==
  IF rva < HeadersSize(im)
  THEN IF inHeaders THEN DataResult(im, 0, rva) ELSE None
  ELSE LET i == SectionFromRva(im, rva, 1)
           e == SectionFromRva(im, rva, 0)
       IN  IF i # 0 THEN DataResult(im, i, rva - im.headers[i].va)
           ELSE IF e = 0 THEN None
           ELSE [buf |-> e, off |-> BufferSize(im.data[e]), phys |-> 0, virt |-> 0]

(* Faulty: virtual bytes counted as if they were in the file.              *)
SectionDataAnyBytes(im, rva, n, inHeaders, virtual) ==
  LET r == FindData(im, rva, n, inHeaders)
  IN  IF r = None THEN None
      ELSE IF r.phys + r.virt < n THEN None
      ELSE [buf |-> r.buf, off |-> r.off, len |-> n]

(* The n bytes at rva: the window [off, off + len) of a buffer, or a throw *)
(* (section_data_does_not_exist).                                          *)
SectionData(im, rva, n, inHeaders, virtual) ==
  LET r == FindData(im, rva, n, inHeaders)
  IN  IF r = None THEN None
      ELSE IF \/ ~virtual /\ r.phys < n
              \/ r.phys + r.virt < n
           THEN None ELSE [buf |-> r.buf, off |-> r.off, len |-> n]

(* All bytes from rva on; buffers::reduce throws buffer_overrun when the   *)
(* data buffer ends before rva although the header goes further.           *)
SectionRest(im, rva, inHeaders, virtual) ==
  LET r == FindRest(im, rva, inHeaders)
  IN  IF r = None THEN None
      ELSE LET b == IF r.buf = 0 THEN im.full ELSE im.data[r.buf]
               len == IF virtual THEN r.phys + r.virt ELSE r.phys
           IN  IF r.off + len > BufferSize(b) THEN None
               ELSE [buf |-> r.buf, off |-> r.off, len |-> len]

(* section_data_length_from_rva                                            *)
SectionLength(im, rva, inHeaders, virtual) ==
  IF rva <= HeadersSize(im)
  THEN IF ~inHeaders THEN None
       ELSE ((IF virtual THEN HeadersSize(im) ELSE im.full.phys) - rva) % (U32Max + 1)
  ELSE LET i == SectionFromRva(im, rva, 1)
           e == SectionFromRva(im, rva, 0)
           offset == rva - im.headers[i].va
           size == IF virtual THEN BufferSize(im.data[i]) ELSE im.data[i].phys
       IN  IF i = 0 THEN IF e = 0 THEN None ELSE 0
           ELSE IF offset >= size THEN 0 ELSE size - offset

-----------------------------------------------------------------------------
(* Loading any file, then editing the image.                               *)

Init ==
  \E f \in Files : img = Loaded(f.headers, f.layout) /\ edits = f.edits

Edit(im) == edits > 0 /\ img' = im /\ edits' = edits - 1

(* section_header::set_virtual_size: 0 stands for the raw size, and throws *)
(* when that is 0 as well.                                                 *)
SetVirtualSize(i, n) ==
  /\ n # 0 \/ img.headers[i].raw # 0
  /\ Edit([img EXCEPT !.headers[i].vs = IF n = 0 THEN img.headers[i].raw ELSE n])

SetRawSize(i, n) == Edit([img EXCEPT !.headers[i].raw = n])

SetRva(i, rva) == Edit([img EXCEPT !.headers[i].va = rva])

(* copied_data().resize(n): the virtual tail keeps its size.               *)
ResizeData(i, n) == Edit([img EXCEPT !.data[i].phys = n])

(* image::update_full_headers_buffer                                       *)
UpdateFullHeadersBuffer(keepGapData) ==
  Edit([img EXCEPT !.full.phys = img.sizeOfHeaders,
                   !.full.virt = IF keepGapData THEN @ ELSE 0])

(* Faulty: the size of the last section, not its end.                      *)
UpdateImageSizeShort ==
  /\ img.headers # <<>>
  /\ Edit([img EXCEPT !.sizeOfImage =
              VirtualSize(img.headers[Len(img.headers)], img.align)])

(* image::update_image_size throws on overflow.                            *)
UpdateImageSize ==
  IF img.headers = <<>> THEN Edit([img EXCEPT !.sizeOfImage = img.sizeOfHeaders])
  ELSE LET last == img.headers[Len(img.headers)]
           size == VirtualSize(last, img.align)
       IN  /\ IsSumSafe(last.va, size)
           /\ Edit([img EXCEPT !.sizeOfImage = last.va + size])

(* validate_size_of_image takes any size that is the end of the last       *)
(* section after rounding.                                                 *)
SizeOfImageValid(im) ==
  IF im.headers = <<>> THEN im.sizeOfImage = im.sizeOfHeaders
  ELSE LET last == im.headers[Len(im.headers)]
           size == VirtualSize(last, im.align)
       IN  /\ IsSumSafe(last.va, size)
           /\ last.va + size = IF HasSingleBit(im.align)
                                THEN AlignUpIfSafe(im.sizeOfImage, im.align)
                                ELSE im.sizeOfImage

Next ==
  \/ \E i \in DOMAIN img.headers, n \in EditSizes :
       SetVirtualSize(i, n) \/ SetRawSize(i, n) \/ SetRva(i, n) \/ ResizeData(i, n)
  \/ \E keepGapData \in BOOLEAN : UpdateFullHeadersBuffer(keepGapData)
  \/ UpdateImageSize

Spec == Init /\ [][Next]_vars

-----------------------------------------------------------------------------
Buffer(im, i) == IF i = 0 THEN im.full ELSE im.data[i]

(* Whatever a caller did to headers and data, bytes are only handed out    *)
(* that the data buffer has, and only physical ones unless virtual data    *)
(* was asked for (the mutable overload returns a raw span of exactly       *)
(* these bytes).                                                           *)
RegionInside ==
  \A rva \in U32, n \in 1..4, inHeaders, virtual \in BOOLEAN :
    LET r == SectionData(img, rva, n, inHeaders, virtual)
    IN  r # None =>
          r.off + r.len <= IF virtual THEN BufferSize(Buffer(img, r.buf))
                           ELSE Buffer(img, r.buf).phys

(* A data buffer still is what the loader made of its header.              *)
Synced(i) ==
  LET h == img.headers[i] IN
  img.data[i] = [phys |-> RawSize(h, img.align),
                 virt |-> VirtualSize(h, img.align) - RawSize(h, img.align)]

Consistent == SectionTableValid(img) /\ \A i \in DOMAIN img.headers : Synced(i)

(* On a valid section table, n bytes at an RVA can be had exactly when     *)
(* they lie in what can be had from there to the end of the section, and   *)
(* section_data_length_from_rva tells how many those are, but where the    *)
(* headers end: it takes that RVA for one of theirs, and answers 0 of a    *)
(* section that begins there.                                              *)
RestIsMaximal ==
  Consistent =>
    \A rva \in U32, inHeaders, virtual \in BOOLEAN :
      LET r == SectionRest(img, rva, inHeaders, virtual)
          length == SectionLength(img, rva, inHeaders, virtual)
      IN  /\ \A n \in 1..4 :
               SectionData(img, rva, n, inHeaders, virtual) # None
                 <=> r # None /\ n <= r.len
          /\ rva # HeadersSize(img) => length = IF r = None THEN None ELSE r.len

(* Image bases, one of them past the addresses of 32 bits.                 *)
Bases == {0, U32Max \div 2, U32Max + 1}

(* The section found by a virtual address of an RVA is the one found by    *)
(* the RVA, which is the one of its offset in that section.                *)
VaAgrees(rva) ==
  LET i == SectionFromRva(img, rva, 1) IN
  /\ i # 0 => RvaFromSectionOffset(img.headers[i], rva - img.headers[i].va, img.align) = rva
  /\ \A base \in Bases, vaMax \in {U32Max, 3 * U32Max} :
       LET va == RvaToVa(rva, base, vaMax)
       IN  va # None => SectionFromVa(img, va, base, 1) = i

(* The ways from an RVA to a byte of the file agree: through the section's *)
(* data buffer, and through rva_to_file_offset; and a file offset that has *)
(* an RVA is the file offset of that RVA, whatever sections of a valid     *)
(* table overlap in the file.  Virtual addresses lead to the same sections.*)
AddressAgreement ==
  /\ \A rva \in U32 : VaAgrees(rva)
  /\ Consistent =>
       \A rva \in U32 :
         LET r == SectionData(img, rva, 1, TRUE, FALSE)
         IN  r # None /\ r.buf # 0 =>
               RvaToFileOffset(img, rva) = r.off + Pointer(img.headers[r.buf])
  /\ SectionTableValid(img) =>
       \A offset \in U32 :
         LET rva == FileOffsetToRva(img, offset)
         IN  rva # None => RvaToFileOffset(img, rva) = offset

(* After update_image_size on a valid table, every section lies inside the *)
(* image: the last section in the table is the last in memory.  The        *)
(* validator of the optional header takes the size.                        *)
ImageSizeCovers ==
  [][img'.sizeOfImage # img.sizeOfImage /\ SectionTableValid(img) =>
       /\ \A i \in DOMAIN img.headers :
            img.headers[i].va + VirtualSize(img.headers[i], img.align) <= img'.sizeOfImage
       /\ SizeOfImageValid(img')]_vars

=============================================================================
