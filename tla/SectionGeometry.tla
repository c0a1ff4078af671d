--------------------------- MODULE SectionGeometry ---------------------------
(***************************************************************************)
(* Where a PE section lies, in the file and in memory: the getters of      *)
(* section::section_header, the predicates of section_search, the          *)
(* validators, and the image functions that translate between file         *)
(* offsets, relative virtual addresses (RVA) and virtual addresses (VA).   *)
(*                                                                         *)
(* A section header is [va, vs, raw, ptr]: virtual address, virtual size,  *)
(* size of raw data, pointer to raw data, as stored.  All numbers are      *)
(* unsigned 32-bit in the code; here the largest of them is U32Max.        *)
(***************************************************************************)
EXTENDS Integers, Sequences, FiniteSets

CONSTANTS
  Width,     \* bits of a uint32_t (U32Max is the largest number of them)
  RoundTo0,  \* section_header::max_raw_address_rounded_to_0, 0x1ff
  TwoGB,     \* section_header::two_gb_size
  None       \* no value: an end iterator, or the throw of a pe_error

U32Max == 2^Width - 1

ASSUME WidthAssumption ==
  Width \in Nat /\ U32Max \in Nat /\ RoundTo0 \in Nat /\ TwoGB \in Nat

U32 == 0..U32Max

SectionHeaders == [va : U32, vs : U32, raw : U32, ptr : U32]

-----------------------------------------------------------------------------
(* utilities::math                                                         *)

HasSingleBit(x) == x # 0 /\ \E k \in 0..Width : x = 2^k

IsSumSafe(a, b) == a + b <= U32Max

AlignDown(x, align) == x - (x % align)

(* align_up_if_safe leaves x alone when the result would not fit.          *)
AlignUpIfSafe(x, align) ==
  IF x % align # 0 /\ IsSumSafe(AlignDown(x, align), align)
  THEN AlignDown(x, align) + align ELSE x

(* add_if_safe, with the saturation of its callers in section_search.      *)
AddSaturated(a, b) == IF IsSumSafe(a, b) THEN a + b ELSE U32Max

Smaller(x, y) == IF x < y THEN x ELSE y

Larger(x, y) == IF x < y THEN y ELSE x

-----------------------------------------------------------------------------
(* section_header                                                          *)

(* The stored virtual size, or the raw size when it is 0, aligned up.      *)
VirtualSize(h, align) ==
  LET size == IF h.vs = 0 THEN h.raw ELSE h.vs
  IN  IF HasSingleBit(align) THEN AlignUpIfSafe(size, align) ELSE size

(* Raw data past the end of the virtual size is never mapped.              *)
RawSize(h, align) == Smaller(h.raw, VirtualSize(h, align))

Pointer(h) == IF h.ptr <= RoundTo0 THEN 0 ELSE h.ptr

IsLowAlignment(h) == h.va = Pointer(h)

(* rva_from_section_offset                                                 *)
RvaFromSectionOffset(h, offset, align) ==
  IF offset >= VirtualSize(h, align) THEN None ELSE (h.va + offset) % (U32Max + 1)

-----------------------------------------------------------------------------
(* section_search: does [start, start + size) of the section hold n bytes  *)
(* at x?  The constructors throw when x + n overflows.                     *)

(* Faulty: the end is excluded.                                            *)
HoldsStrictly(start, size, x, n) == x >= start /\ x + n < AddSaturated(start, size)

Holds(start, size, x, n) == x >= start /\ x + n <= AddSaturated(start, size)

ByRva(h, align, rva, n) == Holds(h.va, VirtualSize(h, align), rva, n)

ByRawOffset(h, align, offset, n) == Holds(Pointer(h), RawSize(h, align), offset, n)

(* find_if over the section table: the first of the matching ones, or 0.   *)
FirstIndex(matching) ==
  IF matching = {} THEN 0 ELSE CHOOSE i \in matching : \A j \in matching : i <= j

SectionFromRva(img, rva, n) ==
  FirstIndex({i \in DOMAIN img.headers :
                IsSumSafe(rva, n) /\ ByRva(img.headers[i], img.align, rva, n)})

SectionFromOffset(img, offset, n) ==
  FirstIndex({i \in DOMAIN img.headers :
                IsSumSafe(offset, n) /\ ByRawOffset(img.headers[i], img.align, offset, n)})

-----------------------------------------------------------------------------
(* rva_file_offset_converter                                               *)

FileOffsetToRva(img, offset) ==
  IF offset < img.sizeOfHeaders THEN offset
  ELSE LET i == SectionFromOffset(img, offset, 1)
           h == img.headers[i]
           result == offset - Pointer(h)
       IN  IF i = 0 THEN None
           ELSE IF \/ result >= VirtualSize(h, img.align)
                   \/ ~IsSumSafe(result, h.va)
                THEN None ELSE result + h.va

(* Faulty: the stored pointer instead of the rounded one.                  *)
RvaToFileOffsetStored(img, rva) ==
  IF rva < img.sizeOfHeaders THEN rva
  ELSE LET i == SectionFromRva(img, rva, 1)
           h == img.headers[i]
       IN  IF i = 0 THEN None
           ELSE IF rva - h.va >= RawSize(h, img.align) THEN None
                ELSE rva - h.va + h.ptr

RvaToFileOffset(img, rva) ==
  IF rva < img.sizeOfHeaders THEN rva
  ELSE LET i == SectionFromRva(img, rva, 1)
           h == img.headers[i]
           result == rva - h.va
       IN  IF i = 0 THEN None
           ELSE IF \/ result >= RawSize(h, img.align)
                   \/ ~IsSumSafe(result, Pointer(h))
                THEN None ELSE result + Pointer(h)

-----------------------------------------------------------------------------
(* address_converter, for an address of at most vaMax (32 or 64 bits) and  *)
(* an image base that may be wider than the address.                       *)

RvaToVa(rva, base, vaMax) == IF rva + base > vaMax THEN None ELSE rva + base

VaToRva(va, base) == IF va < base \/ va - base > U32Max THEN None ELSE va - base

(* section_from_va: an address that has no RVA is in no section.           *)
SectionFromVa(img, va, base, n) ==
  IF VaToRva(va, base) = None THEN 0 ELSE SectionFromRva(img, VaToRva(va, base), n)

-----------------------------------------------------------------------------
(* section_header_validator and section_table_validator.                   *)

HeaderValid(h, align, fileAlign) ==
  /\ RawSize(h, align) < TwoGB
  /\ h.vs = 0 => h.raw # 0
  /\ h.vs < TwoGB
  /\ h.raw # 0 => h.ptr # 0
  /\ HasSingleBit(fileAlign) /\ Pointer(h) % fileAlign = 0
  /\ IsSumSafe(RawSize(h, align), Pointer(h))
  /\ IsSumSafe(VirtualSize(h, align), h.va)
  /\ HasSingleBit(align) /\ h.va % align = 0

(* No error is added for any header: each follows the previous one in      *)
(* memory without a gap, and all but the last fill whole file pages.       *)
SectionTableValid(img) ==
  \A i \in DOMAIN img.headers :
    LET h == img.headers[i] IN
    /\ HeaderValid(h, img.align, img.fileAlign)
    /\ img.lowAlignment => IsLowAlignment(h)
    /\ i = Len(img.headers) \/ RawSize(h, img.align) % img.fileAlign = 0
    /\ IF i = 1 THEN img.sizeOfHeaders <= h.va
       ELSE LET p == img.headers[i - 1]
            IN  /\ IsSumSafe(VirtualSize(p, img.align), p.va)
                /\ VirtualSize(p, img.align) + p.va = h.va

=============================================================================
