-------------------------- MODULE ImageLoaderProofs --------------------------
(* What a load keeps true of the image for any file, any options and any   *)
(* number of loads, and what that means for a build.                       *)
EXTENDS ImageBuilder, SequenceTheorems, NaturalsInduction, WellFoundedInduction, TLAPS

-----------------------------------------------------------------------------
(* Numbers.                                                                *)

LEMMA LeastExists ==
  ASSUME NEW T \in SUBSET Nat, T # {}
  PROVE  \E x \in T : \A y \in T : x <= y
<1>1. PICK x \in T : \A y \in T : ~(<<y, x>> \in OpToRel(<, Nat))
  BY NatLessThanWellFounded, WFMin
<1>2. \A y \in T : ~(y < x)
  BY <1>1 DEF OpToRel
<1> QED
  BY <1>2

LEMMA MinInSet ==
  ASSUME NEW T \in SUBSET Nat, T # {}
  PROVE  Min(T) \in T /\ \A y \in T : Min(T) <= y
BY LeastExists DEF Min

(* The greatest of numbers below a bound is the least in the distance from *)
(* the bound.                                                              *)
LEMMA MaxInSet ==
  ASSUME NEW B \in Nat, NEW T \in SUBSET (0..B), T # {}
  PROVE  Max(T) \in T /\ \A y \in T : y <= Max(T)
<1> DEFINE D == {B - x : x \in T}
<1>a. \A x \in T : x \in 0..B /\ B - x \in Nat
  OBVIOUS
<1>b. PICK t \in T : TRUE
  OBVIOUS
<1>c. B - t \in D
  BY <1>b
<1>1. D \in SUBSET Nat /\ D # {}
  BY <1>a, <1>c
<1> HIDE DEF D
<1>2. PICK d \in D : \A y \in D : d <= y
  BY <1>1, LeastExists
<1> USE DEF D
<1>3. PICK x \in T : d = B - x
  BY <1>2
<1>4. \A y \in T : y <= x
  BY <1>2, <1>3
<1>5. \E z \in T : \A y \in T : z >= y
  BY <1>4
<1>6. Max(T) \in T /\ \A y \in T : Max(T) >= y
  BY <1>5 DEF Max
<1> QED
  BY <1>6

LEMMA AlignedType ==
  ASSUME NEW x \in U32, NEW align \in U32
  PROVE  /\ HasSingleBit(align) => AlignUpIfSafe(x, align) \in U32
         /\ Pointer([va |-> 0, vs |-> 0, raw |-> 0, ptr |-> x]) \in U32
<1>1. U32Max \in Nat
  BY WidthAssumption
<1>2. ASSUME HasSingleBit(align)
      PROVE  x - (x % align) \in 0..x
  BY <1>1, <1>2 DEF HasSingleBit, U32
<1> QED
  BY <1>1, <1>2, WidthAssumption DEF AlignUpIfSafe, AlignDown, IsSumSafe, U32, Pointer

LEMMA HeaderNumbers ==
  ASSUME NEW h, h.va \in U32, h.vs \in U32, h.raw \in U32, h.ptr \in U32, NEW align \in U32
  PROVE  /\ VirtualSize(h, align) \in U32
         /\ RawSize(h, align) \in U32
         /\ RawSize(h, align) <= VirtualSize(h, align)
         /\ Pointer(h) \in U32
         /\ Pointer(h) + RawSize(h, align) \in 0..(2 * U32Max)
<1>1. U32Max \in Nat /\ RoundTo0 \in Nat
  BY WidthAssumption
<1>2. VirtualSize(h, align) \in U32
  BY AlignedType DEF VirtualSize
<1>3. RawSize(h, align) \in U32 /\ RawSize(h, align) <= VirtualSize(h, align)
  BY <1>1, <1>2 DEF RawSize, Smaller, U32
<1>4. Pointer(h) \in U32
  BY <1>1 DEF Pointer, U32
<1> QED
  BY <1>1, <1>2, <1>3, <1>4 DEF U32

-----------------------------------------------------------------------------
(* Pieces.                                                                 *)

Good == {p \in Pieces : Inside(p)}

ImageOK(im) == im \in Images /\ AllInside(im)

LEMMA FileType ==
  ASSUME TypeOK, cur # 0
  PROVE  /\ cur \in 1..Len(Catalog)
         /\ F \in FileRecords
         /\ TotalSize(F) \in Nat
         /\ F.phys \in Nat /\ F.virt \in Nat
         /\ F.phys <= TotalSize(F)
<1>1. cur \in 1..Len(Catalog)
  BY CatalogAssumption DEF TypeOK
<1>2. F \in FileRecords
  BY <1>1, CatalogAssumption DEF F
<1>3. F.phys \in Nat /\ F.virt \in Nat
  BY <1>2 DEF FileRecords
<1> QED
  BY <1>1, <1>2, <1>3 DEF TotalSize

LEMMA PresentType ==
  ASSUME TypeOK, cur # 0, NEW off \in Nat, NEW n \in Nat
  PROVE  /\ Present(F, off, n) \in 0..n
         /\ Present(F, off, n) = 0 \/ off + Present(F, off, n) <= F.phys
BY FileType DEF Present, Smaller

LEMMA WindowGood ==
  ASSUME TypeOK, cur # 0, NEW off \in Nat, NEW n \in Nat
  PROVE  /\ Window(off, n) \in Good
         /\ \A m \in Nat : m >= n => [Window(off, n) EXCEPT !.len = m] \in Good
<1>1. /\ Present(F, off, n) \in 0..n /\ Present(F, off, n) \in Nat
      /\ Present(F, off, n) = 0 \/ off + Present(F, off, n) <= F.phys
  BY PresentType
<1>2. cur \in 0..Len(Catalog)
  BY DEF TypeOK
<1>3. ASSUME NEW m \in Nat, m >= n
      PROVE  [file |-> cur, off |-> off, phys |-> Present(F, off, n), len |-> m] \in Good
  BY <1>1, <1>2, <1>3 DEF Good, Pieces, Inside, F
<1>4. \A m : [Window(off, n) EXCEPT !.len = m]
              = [file |-> cur, off |-> off, phys |-> Present(F, off, n), len |-> m]
  BY DEF Window
<1>5. Window(off, n) \in Good
  BY <1>3 DEF Window
<1> QED
  BY <1>3, <1>4, <1>5

LEMMA DefaultGood ==
  ASSUME NEW n \in Nat
  PROVE  /\ Default(n) \in Good
         /\ NoBytes \in Good
         /\ [NoBytes EXCEPT !.len = n] \in Good
BY CatalogAssumption DEF Default, NoBytes, Good, Pieces, Inside

LEMMA ZeroIsU32 == 0 \in U32
BY WidthAssumption DEF U32

LEMMA EmptyHeaderType ==
  /\ EmptyHeader \in HeaderEntries /\ Inside(EmptyHeader.at)
  /\ UnreadHeader \in HeaderEntries /\ Inside(UnreadHeader.at)
<1>1. Default(HeaderSize) \in Good /\ [NoBytes EXCEPT !.len = HeaderSize] \in Good
  BY DefaultGood, SizesAssumption
<1> QED
  BY <1>1, ZeroIsU32 DEF EmptyHeader, UnreadHeader, HeaderEntries, Good

-----------------------------------------------------------------------------
(* The image before a load, and with one structure replaced.               *)

LEMMA EmptyImageOK == ImageOK(EmptyImage)
<1>a. /\ DosSize \in Nat /\ SignatureSize \in Nat /\ FileHeaderSize \in Nat
      /\ MagicSize + OptionalSize \in Nat
  BY SizesAssumption
<1>b. \A n \in Nat : Default(n) \in Good /\ NoBytes \in Good
  BY DefaultGood
<1>1. /\ Default(DosSize) \in Good /\ Default(SignatureSize) \in Good
      /\ Default(FileHeaderSize) \in Good /\ NoBytes \in Good
      /\ Default(MagicSize + OptionalSize) \in Good
  BY <1>a, <1>b
<1>2. EmptyImage \in Images
  BY <1>1, ZeroIsU32 DEF EmptyImage, Images, Good
<1> QED
  BY <1>1, <1>2 DEF EmptyImage, ImageOK, AllInside, Good

LEMMA ReplacedOK ==
  ASSUME NEW im, ImageOK(im), NEW p \in Good, NEW x \in U32, NEW y \in U32, NEW z \in U32,
         NEW b \in BOOLEAN
  PROVE  /\ ImageOK([im EXCEPT !.memory = b])
         /\ ImageOK([im EXCEPT !.dos = p, !.lfanew = x])
         /\ ImageOK([im EXCEPT !.stub = p])
         /\ ImageOK([im EXCEPT !.signature = p])
         /\ ImageOK([im EXCEPT !.fileHeader = p, !.optionalSize = x])
         /\ ImageOK([im EXCEPT !.optional = p, !.sizeOfHeaders = x, !.align = y, !.fileAlign = z])
         /\ ImageOK([im EXCEPT !.fullSections = p])
         /\ ImageOK([im EXCEPT !.overlay = p])
         /\ ImageOK([im EXCEPT !.fullHeaders = p])
<1>1. im \in Images /\ AllInside(im) /\ p \in Pieces /\ Inside(p)
  BY DEF ImageOK, Good
<1> QED
  BY <1>1 DEF ImageOK, Images, AllInside

LEMMA DirsReplacedOK ==
  ASSUME NEW im, ImageOK(im), NEW ds \in Seq(Good)
  PROVE  ImageOK([im EXCEPT !.dirs = ds])
<1>1. ds \in Seq(Pieces) /\ \A i \in DOMAIN ds : Inside(ds[i])
  BY DEF Good
<1> QED
  BY <1>1 DEF ImageOK, Images, AllInside

LEMMA HeadersReplacedOK ==
  ASSUME NEW im, ImageOK(im), NEW hs \in Seq(HeaderEntries),
         \A i \in DOMAIN hs : Inside(hs[i].at)
  PROVE  ImageOK([im EXCEPT !.headers = hs])
BY DEF ImageOK, Images, AllInside

LEMMA DataAppendedOK ==
  ASSUME NEW im, ImageOK(im), NEW e \in DataEntries, Inside(e.bytes)
  PROVE  ImageOK([im EXCEPT !.data = Append(@, e)])
<1>1. im.data \in Seq(DataEntries)
  BY DEF ImageOK, Images
<1>2. Append(im.data, e) \in Seq(DataEntries)
  BY <1>1
<1>3. \A i \in DOMAIN Append(im.data, e) : Inside(Append(im.data, e)[i].bytes)
  BY <1>1 DEF ImageOK, AllInside
<1> QED
  BY <1>2, <1>3 DEF ImageOK, Images, AllInside

-----------------------------------------------------------------------------
(* The inductive invariant.  Entries of this load follow the base entries  *)
(* the image had; they are numbered as the headers are, and at the end     *)
(* there is one for each header.                                           *)

HeaderSteps == {"dos_header", "dos_stub", "signature", "file_header", "optional_header",
                "directories", "section_table"}

TailSteps == {"full_sections", "overlay", "full_headers", "loaded"}

Resting == {"idle", "loaded", "failed"}

Pairing ==
  /\ base <= Len(img.data)
  /\ \A i \in DOMAIN img.data :
       i > base => img.data[i].file = cur /\ img.data[i].index = i - base
  /\ pc = "idle" => Len(img.data) = 0 /\ base = 0
  /\ pc \in HeaderSteps => Len(img.data) = base
  /\ pc = "sections" => Len(img.data) - base <= Len(img.headers)
  /\ pc \in TailSteps /\ opt.sections => Len(img.data) - base = Len(img.headers)
  /\ pc \notin Resting => built.result = "none"
  /\ built.result = "ok" => Len(img.headers) = Len(img.data)

(* The stub is what lies between the DOS header and the new one.           *)
Position == (pc = "dos_header" => pos = 0) /\ (pc = "dos_stub" => pos = DosSize)

IInv == TypeOK /\ PiecesInside /\ Pairing /\ Position

LEMMA IInvImage ==
  ASSUME IInv
  PROVE  /\ ImageOK(img)
         /\ img.data \in Seq(DataEntries) /\ Len(img.data) \in Nat
         /\ img.headers \in Seq(HeaderEntries) /\ Len(img.headers) \in Nat
BY DEF IInv, TypeOK, PiecesInside, ImageOK, Images

LEMMA StepKinds ==
  /\ HeaderSteps \subseteq Steps /\ TailSteps \subseteq Steps
  /\ \A s \in HeaderSteps : s # "idle" /\ s # "sections" /\ s \notin TailSteps /\ s \notin Resting
  /\ \A s \in TailSteps : s # "idle" /\ s # "sections" /\ s # "failed" /\ s \notin HeaderSteps
BY DEF HeaderSteps, TailSteps, Resting, Steps

(* A step through the headers: to another header, to the sections, or to   *)
(* failure; the section data stays.                                        *)
LEMMA GotoKeeps ==
  ASSUME IInv, pc \in HeaderSteps, UNCHANGED <<out, built>>,
         NEW im, ImageOK(im), im.data = img.data,
         NEW step \in (HeaderSteps \ {"dos_header"}) \cup {"sections", "failed"},
         NEW p \in Nat, step = "dos_stub" => p = DosSize, Goto(step, im, p)
  PROVE  IInv'
<1>1. /\ img' = im /\ pc' = step /\ pos' = p /\ cur' = cur /\ opt' = opt /\ base' = base
      /\ loads' = loads /\ built' = built
  BY DEF Goto, local
<1>2. im.headers \in Seq(HeaderEntries) /\ Len(im.headers) \in Nat
  BY DEF ImageOK, Images
<1>3. TypeOK'
  <2>1. step \in Steps /\ cur # 0
    BY StepKinds DEF Steps, IInv, TypeOK
  <2> QED
    BY <1>1, <2>1 DEF TypeOK, IInv, ImageOK
<1>4. PiecesInside'
  BY <1>1 DEF PiecesInside, ImageOK
<1>5. Pairing'
  <2>1. pc \notin Resting /\ Len(img.data) = base /\ Pairing
    BY StepKinds DEF IInv, Pairing
  <2>2. built.result = "none" /\ built'.result = "none"
    BY <2>1, <1>1 DEF Pairing
  <2>3. step # "idle" /\ step \notin TailSteps
    BY StepKinds DEF TailSteps, Resting
  <2>4. Len(img.data) - base = 0
    BY <2>1, IInvImage DEF IInv, TypeOK
  <2> QED
    BY <1>1, <1>2, <2>1, <2>2, <2>3, <2>4 DEF Pairing
<1>6. Position'
  BY <1>1 DEF Position
<1> QED
  BY <1>3, <1>4, <1>5, <1>6 DEF IInv

(* A step behind the sections: headers and section data stay.              *)
LEMMA ProceedKeeps ==
  ASSUME IInv, pc \in TailSteps, pc # "loaded", UNCHANGED <<out, built>>,
         NEW im, ImageOK(im), im.data = img.data, im.headers = img.headers,
         NEW step \in TailSteps, NEW w, Proceed(step, im, w)
  PROVE  IInv'
<1>1. /\ img' = im /\ pc' = step /\ pos' = pos /\ cur' = cur /\ opt' = opt /\ base' = base
      /\ loads' = loads /\ built' = built
  BY DEF Proceed, local
<1>2. TypeOK'
  <2>1. step \in Steps /\ cur # 0
    BY StepKinds DEF IInv, TypeOK
  <2> QED
    BY <1>1, <2>1 DEF TypeOK, IInv, ImageOK
<1>3. PiecesInside'
  BY <1>1 DEF PiecesInside, ImageOK
<1>4. Pairing'
  <2>1. pc \notin Resting /\ Pairing
    BY StepKinds DEF IInv, Resting
  <2>2. built.result = "none" /\ built'.result = "none"
    BY <2>1, <1>1 DEF Pairing
  <2> QED
    BY <1>1, <2>1, <2>2, StepKinds DEF Pairing
<1>5. Position'
  BY <1>1 DEF Position, TailSteps
<1> QED
  BY <1>2, <1>3, <1>4, <1>5 DEF IInv

-----------------------------------------------------------------------------
(* The steps.                                                              *)

LEMMA InitIInv == BuilderInit => IInv
<1> SUFFICES ASSUME BuilderInit PROVE IInv
  OBVIOUS
<1>1. /\ img = EmptyImage /\ pc = "idle" /\ cur = 0 /\ pos = 0 /\ opt \in Options
      /\ base = 0 /\ loads = 0 /\ built = Unbuilt
  BY DEF BuilderInit, Init
<1>2. TypeOK
  BY <1>1, EmptyImageOK, CatalogAssumption DEF TypeOK, ImageOK, Steps
<1>3. PiecesInside
  BY <1>1, EmptyImageOK DEF PiecesInside, ImageOK
<1>4. Pairing
  <2>1. img.data = <<>> /\ img.headers = <<>> /\ built.result = "none"
    BY <1>1 DEF EmptyImage, Unbuilt
  <2>2. Len(img.data) = 0 /\ DOMAIN img.data = {}
    BY <2>1
  <2> QED
    BY <1>1, <2>1, <2>2 DEF Pairing, HeaderSteps, TailSteps
<1>5. Position
  BY <1>1 DEF Position
<1> QED
  BY <1>2, <1>3, <1>4, <1>5 DEF IInv

LEMMA BeginStep ==
  ASSUME IInv, NEW f \in DOMAIN Catalog, NEW o \in Options, Begin(f, o),
         out' = NoOutput, built' = Unbuilt
  PROVE  IInv'
<1>1. /\ img' = [img EXCEPT !.memory = o.memory] /\ pc' = "dos_header" /\ cur' = f
      /\ opt' = o /\ pos' = 0 /\ base' = Len(img.data) /\ loads' = loads + 1
  BY DEF Begin
<1>2. o \in LoadOptions /\ o.memory \in BOOLEAN /\ f \in 1..Len(Catalog)
  BY CatalogAssumption DEF LoadOptions
<1>3. ImageOK(img')
  BY <1>1, <1>2, IInvImage, ReplacedOK, DefaultGood, ZeroIsU32
<1>4. img'.data = img.data /\ img'.headers = img.headers
  BY <1>1, IInvImage DEF ImageOK, Images
<1>5. TypeOK'
  BY <1>1, <1>2, <1>3, IInvImage DEF TypeOK, IInv, ImageOK, Steps
<1>6. PiecesInside'
  BY <1>3 DEF PiecesInside, ImageOK
<1>7. Pairing'
  <2>1. built'.result = "none"
    BY DEF Unbuilt
  <2>2. \A i \in DOMAIN img.data : ~(i > Len(img.data))
    BY IInvImage
  <2> QED
    BY <1>1, <1>4, <2>1, <2>2, IInvImage DEF Pairing, TailSteps
<1>8. Position'
  BY <1>1 DEF Position
<1> QED
  BY <1>5, <1>6, <1>7, <1>8 DEF IInv

(* What every step through the headers starts from.                        *)
LEMMA Reading ==
  ASSUME IInv, pc # "idle"
  PROVE  /\ TypeOK /\ cur # 0 /\ pos \in Nat
         /\ DosSize \in Nat /\ SignatureSize \in Nat /\ FileHeaderSize \in Nat
         /\ MagicSize \in Nat /\ OptionalSize \in Nat
         /\ DirectorySize \in Nat /\ HeaderSize \in Nat
         /\ F.lfanew \in U32 /\ F.optional \in U32 /\ F.sizeOfHeaders \in U32
         /\ F.align \in U32 /\ F.fileAlign \in U32
         /\ F.dirs \in Nat /\ F.sections \in Seq(SectionHeaders)
         /\ ImageOK(img)
         /\ img.lfanew \in U32 /\ img.optionalSize \in U32
<1>1. TypeOK /\ cur # 0 /\ pos \in Nat /\ ImageOK(img)
  BY IInvImage DEF IInv, TypeOK
<1>2. F \in FileRecords
  BY <1>1, FileType
<1> QED
  BY <1>1, <1>2, SizesAssumption DEF FileRecords, ImageOK, Images

(* A failure leaves the image as it is given.                              *)
LEMMA FailKeeps ==
  ASSUME IInv, pc \in HeaderSteps, UNCHANGED <<out, built>>,
         NEW im, ImageOK(im), im.data = img.data, Fail(im)
  PROVE  IInv'
<1>1. pos \in Nat
  BY DEF IInv, TypeOK
<1> QED
  BY <1>1, GotoKeeps DEF Fail

LEMMA DosHeaderStep ==
  ASSUME IInv, ReadDosHeader, UNCHANGED <<out, built>>
  PROVE  IInv'
<1>1. pc \in HeaderSteps /\ pc # "idle"
  BY DEF ReadDosHeader, HeaderSteps
<1> DEFINE p == Window(pos, DosSize)
           x == IF IsWhole(p) THEN F.lfanew ELSE 0
           im == [img EXCEPT !.dos = p, !.lfanew = x]
<1>2. p \in Good /\ x \in U32 /\ pos + DosSize \in Nat
  BY <1>1, Reading, WindowGood, ZeroIsU32
<1>3. ImageOK(im) /\ im.data = img.data /\ ImageOK(img)
  <2> HIDE DEF p, x
  <2>1. ImageOK([img EXCEPT !.dos = p, !.lfanew = x])
    BY <1>1, <1>2, Reading, ReplacedOK
  <2> QED
    BY <2>1, <1>1, Reading DEF ImageOK, Images
<1>4. Fail(img) \/ Fail(im) \/ Goto("dos_stub", im, pos + DosSize)
  BY DEF ReadDosHeader
<1>5. pos + DosSize = DosSize
  BY <1>1, Reading DEF ReadDosHeader, IInv, Position
<1> HIDE DEF im
<1> QED
  BY <1>1, <1>2, <1>3, <1>4, <1>5, GotoKeeps, FailKeeps DEF HeaderSteps

LEMMA DosStubStep ==
  ASSUME IInv, ReadDosStub, UNCHANGED <<out, built>>
  PROVE  IInv'
<1>1. pc \in HeaderSteps /\ pc # "idle"
  BY DEF ReadDosStub, HeaderSteps
<1>2. img.lfanew \in Nat /\ ImageOK(img)
  BY <1>1, Reading, WidthAssumption DEF U32
<1> DEFINE n == img.lfanew - pos
           im == [img EXCEPT !.stub = Window(pos, n)]
<1>3. CASE Fail(img)
  BY <1>1, <1>2, <1>3, FailKeeps
<1>4. CASE Goto("signature", img, img.lfanew)
  BY <1>1, <1>2, <1>4, GotoKeeps DEF HeaderSteps
<1>5. CASE n \in Nat /\ Goto("signature", im, img.lfanew)
  <2>1. Window(pos, n) \in Good
    BY <1>1, <1>5, Reading, WindowGood
  <2>2. ImageOK(im) /\ im.data = img.data
    <3> HIDE DEF n
    <3>1. ImageOK([img EXCEPT !.stub = Window(pos, n)])
      BY <2>1, <1>2, ReplacedOK, ZeroIsU32
    <3> QED
      BY <3>1, <1>2 DEF ImageOK, Images
  <2> HIDE DEF im
  <2> QED
    BY <1>1, <1>2, <1>5, <2>2, GotoKeeps DEF HeaderSteps
<1>6. CASE img.lfanew >= DosSize /\ Goto("signature", im, img.lfanew)
  <2>1. n \in Nat
    BY <1>1, <1>2, <1>6, Reading DEF IInv, Position, ReadDosStub
  <2> QED
    BY <1>5, <1>6, <2>1
<1>7. ~(img.lfanew < DosSize) => img.lfanew >= DosSize
  BY <1>1, <1>2, Reading
<1> QED
  BY <1>3, <1>4, <1>6, <1>7 DEF ReadDosStub

LEMMA SignatureStep ==
  ASSUME IInv, ReadSignature, UNCHANGED <<out, built>>
  PROVE  IInv'
<1>1. pc \in HeaderSteps /\ pc # "idle"
  BY DEF ReadSignature, HeaderSteps
<1> DEFINE p == Window(pos, SignatureSize)
           im == [img EXCEPT !.signature = p]
<1>2. p \in Good /\ pos + SignatureSize \in Nat
  BY <1>1, Reading, WindowGood
<1>3. ImageOK(im) /\ im.data = img.data /\ ImageOK(img)
  <2> HIDE DEF p
  <2>1. ImageOK([img EXCEPT !.signature = p])
    BY <1>1, <1>2, Reading, ReplacedOK, ZeroIsU32
  <2> QED
    BY <2>1, <1>1, Reading DEF ImageOK, Images
<1>4. Fail(img) \/ Fail(im) \/ Goto("file_header", im, pos + SignatureSize)
  BY DEF ReadSignature
<1> HIDE DEF im
<1> QED
  BY <1>1, <1>2, <1>3, <1>4, GotoKeeps, FailKeeps DEF HeaderSteps

LEMMA FileHeaderStep ==
  ASSUME IInv, ReadFileHeader, UNCHANGED <<out, built>>
  PROVE  IInv'
<1>1. pc \in HeaderSteps /\ pc # "idle"
  BY DEF ReadFileHeader, HeaderSteps
<1> DEFINE p == Window(pos, FileHeaderSize)
           x == IF IsWhole(p) THEN F.optional ELSE 0
           im == [img EXCEPT !.fileHeader = p, !.optionalSize = x]
<1>2. p \in Good /\ x \in U32 /\ pos + FileHeaderSize \in Nat
  BY <1>1, Reading, WindowGood, ZeroIsU32
<1>3. ImageOK(im) /\ im.data = img.data /\ ImageOK(img)
  <2> HIDE DEF p, x
  <2>1. ImageOK([img EXCEPT !.fileHeader = p, !.optionalSize = x])
    BY <1>1, <1>2, Reading, ReplacedOK
  <2> QED
    BY <2>1, <1>1, Reading DEF ImageOK, Images
<1>4. Fail(img) \/ Goto("optional_header", im, pos + FileHeaderSize)
  BY DEF ReadFileHeader
<1> HIDE DEF im
<1> QED
  BY <1>1, <1>2, <1>3, <1>4, GotoKeeps, FailKeeps DEF HeaderSteps

LEMMA OptionalHeaderStep ==
  ASSUME IInv, ReadOptionalHeader, UNCHANGED <<out, built>>
  PROVE  IInv'
<1>1. pc \in HeaderSteps /\ pc # "idle"
  BY DEF ReadOptionalHeader, HeaderSteps
<1> DEFINE n == MagicSize + OptionalSize
           p == Window(pos, n)
           x == IF IsWhole(p) THEN F.sizeOfHeaders ELSE 0
           y == IF IsWhole(p) THEN F.align ELSE 0
           z == IF IsWhole(p) THEN F.fileAlign ELSE 0
           reset == [img EXCEPT !.optional = Default(n), !.sizeOfHeaders = 0, !.align = 0,
                                !.fileAlign = 0]
           im == [img EXCEPT !.optional = p, !.sizeOfHeaders = x, !.align = y, !.fileAlign = z]
<1>2. n \in Nat /\ pos + MagicSize + OptionalSize \in Nat
  BY <1>1, Reading
<1>3. p \in Good /\ Default(n) \in Good
  <2> HIDE DEF n
  <2> QED
    BY <1>1, <1>2, Reading, WindowGood, DefaultGood
<1>4. x \in U32 /\ y \in U32 /\ z \in U32 /\ 0 \in U32 /\ ImageOK(img)
  BY <1>1, Reading, ZeroIsU32
<1>5. ImageOK(im) /\ im.data = img.data
  <2> HIDE DEF p, x, y, z
  <2>1. ImageOK([img EXCEPT !.optional = p, !.sizeOfHeaders = x, !.align = y, !.fileAlign = z])
    BY <1>3, <1>4, ReplacedOK
  <2> QED
    BY <2>1, <1>4 DEF ImageOK, Images
<1>6. ImageOK(reset) /\ reset.data = img.data
  <2> DEFINE d == Default(n)
  <2> HIDE DEF d
  <2>1. d \in Good /\ d = Default(n)
    BY <1>3 DEF d
  <2>2. ImageOK([img EXCEPT !.optional = d, !.sizeOfHeaders = 0, !.align = 0, !.fileAlign = 0])
    BY <2>1, <1>4, ReplacedOK
  <2> QED
    BY <2>1, <2>2, <1>4 DEF ImageOK, Images
<1>7. Fail(img) \/ Fail(reset) \/ Goto("directories", im, pos + MagicSize + OptionalSize)
  BY DEF ReadOptionalHeader
<1> HIDE DEF im, reset
<1> QED
  BY <1>1, <1>2, <1>4, <1>5, <1>6, <1>7, GotoKeeps, FailKeeps DEF HeaderSteps

(* The position of the i-th structure of a table.                          *)
LEMMA Strides ==
  ASSUME NEW start \in Nat, NEW size \in Nat, NEW i \in Nat
  PROVE  i >= 1 => start + (i - 1) * size \in Nat
<1> SUFFICES ASSUME i >= 1 PROVE start + (i - 1) * size \in Nat
  OBVIOUS
<1>1. i - 1 \in Nat
  OBVIOUS
<1>2. \A m \in Nat : m * size \in Nat
  OBVIOUS
<1>3. (i - 1) * size \in Nat
  BY <1>1, <1>2
<1> QED
  BY <1>3

LEMMA DirectoriesGood ==
  ASSUME IInv, pc # "idle", NEW n \in Nat, NEW k \in Nat
  PROVE  /\ Directories(n, k) \in Seq(Good)
         /\ DirectoryAt(k + 1) \in Nat
<1>1. \A i \in Nat : i >= 1 => DirectoryAt(i) \in Nat
  BY Reading, Strides DEF DirectoryAt
<1>2. ASSUME NEW i \in 1..n
      PROVE  Window(DirectoryAt(i), DirectorySize) \in Good /\ Default(DirectorySize) \in Good
  <2>1. DirectoryAt(i) \in Nat /\ DirectorySize \in Nat
    BY <1>1, SizesAssumption
  <2>2. TypeOK /\ cur # 0
    BY Reading
  <2> QED
    BY <2>1, <2>2, WindowGood, DefaultGood
<1>3. Directories(n, k) \in [1..n -> Good]
  BY <1>2 DEF Directories
<1>4. k + 1 \in Nat /\ k + 1 >= 1
  OBVIOUS
<1> QED
  BY <1>1, <1>3, <1>4

LEMMA DirectoriesStep ==
  ASSUME IInv, ReadDirectories, UNCHANGED <<out, built>>
  PROVE  IInv'
<1>1. pc \in HeaderSteps /\ pc # "idle"
  BY DEF ReadDirectories, HeaderSteps
<1> DEFINE n == IF IsWhole(img.optional) THEN F.dirs ELSE 0
           Im(k) == [img EXCEPT !.dirs = Directories(n, k)]
<1>2. n \in Nat
  BY <1>1, Reading
<1>3. PICK k \in 0..n :
        Fail(Im(k)) \/ Goto("section_table", Im(k), DirectoryAt(k + 1))
  BY DEF ReadDirectories
<1>4. ImageOK(Im(k)) /\ Im(k).data = img.data /\ DirectoryAt(k + 1) \in Nat
  <2> HIDE DEF n
  <2>1. Directories(n, k) \in Seq(Good) /\ DirectoryAt(k + 1) \in Nat
    <3>1. k \in Nat
      BY <1>2
    <3> QED
      BY <1>1, <1>2, <3>1, DirectoriesGood
  <2>2. ImageOK(img)
    BY <1>1, Reading
  <2>3. ImageOK([img EXCEPT !.dirs = Directories(n, k)])
    BY <2>1, <2>2, DirsReplacedOK
  <2> QED
    BY <2>1, <2>2, <2>3 DEF ImageOK, Images
<1> HIDE DEF Im
<1> QED
  BY <1>1, <1>3, <1>4, GotoKeeps, FailKeeps DEF HeaderSteps

LEMMA TableGood ==
  ASSUME IInv, pc # "idle", NEW n \in 0..Len(F.sections), NEW k \in 0..n
  PROVE  /\ Table(k, n) \in Seq(HeaderEntries)
         /\ \A i \in DOMAIN Table(k, n) : Inside(Table(k, n)[i].at)
         /\ HeaderAt(k + 1) \in Nat
<1>a. img.fileHeader \in Pieces /\ img.optionalSize \in U32
  BY Reading DEF ImageOK, Images
<1>b. TableStart \in Nat
  <2>1. img.fileHeader.off \in Nat
    BY <1>a DEF Pieces
  <2>2. img.optionalSize \in Nat /\ FileHeaderSize \in Nat
    BY <1>a, SizesAssumption, WidthAssumption DEF U32
  <2> QED
    BY <2>1, <2>2 DEF TableStart
<1>1. \A i \in Nat : i >= 1 => HeaderAt(i) \in Nat
  BY <1>b, Reading, Strides DEF HeaderAt
<1>2. ASSUME NEW i \in 1..n
      PROVE  ReadHeader(i) \in HeaderEntries /\ Inside(ReadHeader(i).at)
  <2>1. Window(HeaderAt(i), HeaderSize) \in Good
    BY <1>1, Reading, WindowGood
  <2>2. F.sections[i] \in SectionHeaders
    BY Reading
  <2>3. EmptyHeader \in HeaderEntries
    BY EmptyHeaderType
  <2> QED
    BY <2>1, <2>2, <2>3 DEF ReadHeader, HeaderEntries, SectionHeaders, Good
<1>3. Table(k, n) \in [1..n -> HeaderEntries]
  BY <1>2, EmptyHeaderType DEF Table
<1>4. \A i \in 1..n : Inside(Table(k, n)[i].at)
  BY <1>2, EmptyHeaderType DEF Table
<1>5. n \in Nat /\ k \in Nat
  BY Reading
<1>6. HeaderAt(k + 1) \in Nat
  BY <1>1, <1>5
<1> QED
  BY <1>3, <1>4, <1>5, <1>6

LEMMA SectionTableStep ==
  ASSUME IInv, ReadSectionTable, UNCHANGED <<out, built>>
  PROVE  IInv'
<1>1. pc \in HeaderSteps /\ pc # "idle"
  BY DEF ReadSectionTable, HeaderSteps
<1>2. ImageOK(img)
  BY <1>1, Reading
<1> DEFINE n == IF IsWhole(img.fileHeader) THEN Len(F.sections) ELSE 0
           With(hs) == [img EXCEPT !.headers = hs]
<1>3. n \in 0..Len(F.sections) /\ n \in Nat
  BY <1>1, Reading
<1>4. \A hs \in Seq(HeaderEntries) :
        (\A i \in DOMAIN hs : Inside(hs[i].at)) => ImageOK(With(hs)) /\ With(hs).data = img.data
  <2> TAKE hs \in Seq(HeaderEntries)
  <2> HAVE \A i \in DOMAIN hs : Inside(hs[i].at)
  <2>1. ImageOK([img EXCEPT !.headers = hs])
    BY <1>2, HeadersReplacedOK
  <2> QED
    BY <2>1, <1>2 DEF ImageOK, Images
<1>5. CASE Fail(img)
  BY <1>1, <1>2, <1>5, FailKeeps
<1>6. CASE \E k \in 0..n : Fail(With(Append(Table(k, k), EmptyHeader)))
  <2>1. PICK k \in 0..n : Fail(With(Append(Table(k, k), EmptyHeader)))
    BY <1>6
  <2>2. k \in 0..Len(F.sections) /\ k \in 0..k
    BY <1>3, <1>1, Reading
  <2> DEFINE t == Table(k, k)
  <2>3. t \in Seq(HeaderEntries) /\ \A i \in DOMAIN t : Inside(t[i].at)
    BY <1>1, <2>2, TableGood
  <2> HIDE DEF t
  <2>4. Append(t, EmptyHeader) \in Seq(HeaderEntries)
    BY <2>3, EmptyHeaderType
  <2>5. \A i \in DOMAIN Append(t, EmptyHeader) : Inside(Append(t, EmptyHeader)[i].at)
    BY <2>3, EmptyHeaderType
  <2>6. ImageOK(With(Append(t, EmptyHeader))) /\ With(Append(t, EmptyHeader)).data = img.data
    BY <1>4, <2>4, <2>5
  <2>7. Fail(With(Append(t, EmptyHeader)))
    BY <2>1 DEF t
  <2> HIDE DEF With
  <2> QED
    BY <1>1, <2>6, <2>7, FailKeeps
<1>7. CASE \E k \in 0..n : Goto("sections", With(Table(k, n)), HeaderAt(k + 1))
  <2>1. PICK k \in 0..n : Goto("sections", With(Table(k, n)), HeaderAt(k + 1))
    BY <1>7
  <2> HIDE DEF n
  <2>2. /\ Table(k, n) \in Seq(HeaderEntries) /\ HeaderAt(k + 1) \in Nat
        /\ \A i \in DOMAIN Table(k, n) : Inside(Table(k, n)[i].at)
    BY <1>1, <1>3, TableGood
  <2>3. ImageOK(With(Table(k, n))) /\ With(Table(k, n)).data = img.data
    BY <1>4, <2>2
  <2> HIDE DEF With
  <2> QED
    BY <1>1, <2>1, <2>2, <2>3, GotoKeeps
<1> QED
  BY <1>5, <1>6, <1>7 DEF ReadSectionTable

(* What every step behind the headers starts from.                         *)
LEMMA Placing ==
  ASSUME IInv, pc # "idle"
  PROVE  /\ TypeOK /\ cur # 0 /\ ImageOK(img) /\ base \in Nat
         /\ img.headers \in Seq(HeaderEntries) /\ img.data \in Seq(DataEntries)
         /\ img.align \in U32 /\ img.sizeOfHeaders \in U32
         /\ U32 \subseteq Nat
         /\ TotalSize(F) \in Nat
BY IInvImage, FileType, WidthAssumption DEF IInv, TypeOK, ImageOK, Images, U32

LEMMA SectionNumbers ==
  ASSUME IInv, pc # "idle", NEW i \in DOMAIN img.headers
  PROVE  /\ SectionSource(img.headers[i]) \in Nat
         /\ RawSize(img.headers[i], img.align) \in Nat
         /\ VirtualSize(img.headers[i], img.align) \in Nat
         /\ RawSize(img.headers[i], img.align) <= VirtualSize(img.headers[i], img.align)
         /\ Pointer(img.headers[i]) \in Nat
         /\ Pointer(img.headers[i]) + RawSize(img.headers[i], img.align) \in 0..(2 * U32Max)
<1> DEFINE h == img.headers[i]
<1>1. h.va \in U32 /\ h.vs \in U32 /\ h.raw \in U32 /\ h.ptr \in U32
  <2>1. h \in HeaderEntries
    BY Placing
  <2> QED
    BY <2>1 DEF HeaderEntries
<1>2. img.align \in U32 /\ U32 \subseteq Nat
  BY Placing
<1> HIDE DEF h
<1>3. /\ VirtualSize(h, img.align) \in U32 /\ RawSize(h, img.align) \in U32
      /\ RawSize(h, img.align) <= VirtualSize(h, img.align) /\ Pointer(h) \in U32
      /\ Pointer(h) + RawSize(h, img.align) \in 0..(2 * U32Max)
  BY <1>1, <1>2, HeaderNumbers
<1>4. SectionSource(h) \in U32
  BY <1>1, <1>3 DEF SectionSource
<1> QED
  BY <1>2, <1>3, <1>4 DEF h

LEMMA SectionStep ==
  ASSUME IInv, LoadSection, UNCHANGED <<out, built>>
  PROVE  IInv'
<1> DEFINE i == Len(img.data) - base + 1
           Entry(bytes) == [bytes |-> bytes, file |-> cur, index |-> i]
           With(bytes) == [img EXCEPT !.data = Append(@, Entry(bytes))]
<1>1. pc = "sections" /\ opt.sections /\ i <= Len(img.headers)
  BY DEF LoadSection
<1>2. /\ TypeOK /\ cur # 0 /\ ImageOK(img) /\ base \in Nat
      /\ img.headers \in Seq(HeaderEntries) /\ img.data \in Seq(DataEntries)
      /\ Pairing /\ Position
  BY <1>1, Placing DEF IInv
<1>3. i \in Nat /\ i \in DOMAIN img.headers /\ i = Len(img.data) + 1 - base
  BY <1>1, <1>2 DEF Pairing
<1> HIDE DEF i
<1>4. SectionBytes(img.headers[i]) \in Good /\ NoBytes \in Good
  <2>1. /\ SectionSource(img.headers[i]) \in Nat
        /\ RawSize(img.headers[i], img.align) \in Nat
        /\ VirtualSize(img.headers[i], img.align) \in Nat
        /\ RawSize(img.headers[i], img.align) <= VirtualSize(img.headers[i], img.align)
    BY <1>1, <1>3, SectionNumbers
  <2> QED
    BY <2>1, <1>2, WindowGood, DefaultGood DEF SectionBytes
<1>5. PICK bytes \in Good : \E w : Proceed("sections", With(bytes), w)
  BY <1>4 DEF LoadSection, i
<1>6. Entry(bytes) \in DataEntries /\ Inside(Entry(bytes).bytes)
  BY <1>2, <1>3 DEF DataEntries, Good, TypeOK
<1>7. ImageOK(With(bytes))
  <2> HIDE DEF Entry
  <2> QED
    BY <1>2, <1>6, DataAppendedOK
<1>8. With(bytes).data = Append(img.data, Entry(bytes)) /\ With(bytes).headers = img.headers
  BY <1>2 DEF ImageOK, Images
<1> HIDE DEF With
<1>9. /\ img' = With(bytes) /\ pc' = "sections" /\ pos' = pos /\ cur' = cur /\ opt' = opt
      /\ base' = base /\ loads' = loads /\ built' = built
  BY <1>5 DEF Proceed, local
<1>10. TypeOK'
  BY <1>2, <1>7, <1>9 DEF TypeOK, ImageOK, Steps
<1>11. PiecesInside'
  BY <1>7, <1>9 DEF PiecesInside, ImageOK
<1>12. Pairing'
  <2>1. Len(img'.data) = Len(img.data) + 1 /\ img'.headers = img.headers
    BY <1>2, <1>8, <1>9
  <2>a. /\ DOMAIN img.data = 1..Len(img.data) /\ Len(img.data) \in Nat
        /\ DOMAIN img'.data = 1..(Len(img.data) + 1)
        /\ \A j \in 1..Len(img.data) : img'.data[j] = img.data[j]
        /\ img'.data[Len(img.data) + 1] = Entry(bytes)
    BY <1>2, <1>8, <1>9
  <2>2. ASSUME NEW j \in DOMAIN img'.data, j > base
        PROVE  img'.data[j].file = cur /\ img'.data[j].index = j - base
    <3>1. CASE j <= Len(img.data)
      <4>1. j \in DOMAIN img.data /\ img'.data[j] = img.data[j]
        BY <2>a, <3>1
      <4> QED
        BY <4>1, <2>2, <1>2 DEF Pairing
    <3>2. CASE j = Len(img.data) + 1
      <4>1. img'.data[j] = Entry(bytes)
        BY <2>a, <3>2
      <4>2. i = j - base
        BY <3>2, <1>3, <1>2
      <4> QED
        BY <4>1, <4>2
    <3> QED
      BY <2>a, <3>1, <3>2
  <2>3. built.result = "none"
    BY <1>1, <1>2 DEF Pairing, Resting
  <2>4. Len(img'.data) - base <= Len(img'.headers) /\ base <= Len(img'.data)
    BY <1>1, <1>2, <1>3, <2>1 DEF Pairing
  <2> QED
    BY <1>9, <2>2, <2>3, <2>4 DEF Pairing, HeaderSteps, TailSteps
<1>13. Position'
  BY <1>9 DEF Position
<1> QED
  BY <1>10, <1>11, <1>12, <1>13 DEF IInv

LEMMA SectionsLoadedStep ==
  ASSUME IInv, SectionsLoaded, UNCHANGED <<out, built>>
  PROVE  IInv'
<1>1. /\ pc = "sections" /\ img' = img /\ pc' = "full_sections" /\ pos' = pos /\ cur' = cur
      /\ opt' = opt /\ base' = base /\ loads' = loads /\ built' = built
      /\ opt.sections => Len(img.data) - base >= Len(img.headers)
  BY DEF SectionsLoaded, Proceed, local
<1>2. TypeOK' /\ PiecesInside'
  BY <1>1, Placing DEF IInv, TypeOK, Steps, PiecesInside
<1>3. Pairing'
  <2>1. Pairing /\ built.result = "none" /\ Len(img.data) \in Nat /\ base \in Nat
        /\ Len(img.headers) \in Nat
    BY <1>1, Placing DEF IInv, Pairing, Resting
  <2>2. opt.sections => Len(img.data) - base = Len(img.headers)
    BY <1>1, <2>1 DEF Pairing
  <2> QED
    BY <1>1, <2>1, <2>2 DEF Pairing, HeaderSteps, TailSteps
<1>4. Position'
  BY <1>1 DEF Position
<1> QED
  BY <1>2, <1>3, <1>4 DEF IInv

LEMMA MappedBounds ==
  ASSUME IInv, pc # "idle", Mapped # {}
  PROVE  FirstOffset \in Nat /\ LastOffset - FirstOffset \in Nat
<1> DEFINE P == {Pointer(h) : h \in Mapped}
           E == {Pointer(h) + RawSize(h, img.align) : h \in Mapped}
<1>1. ASSUME NEW h \in Mapped
      PROVE  /\ Pointer(h) \in Nat /\ RawSize(h, img.align) \in Nat
             /\ Pointer(h) + RawSize(h, img.align) \in 0..(2 * U32Max)
  <2>1. PICK i \in DOMAIN img.headers : h = img.headers[i]
    BY DEF Mapped
  <2> QED
    BY <2>1, SectionNumbers
<1>2. PICK h \in Mapped : TRUE
  OBVIOUS
<1>3. 2 * U32Max \in Nat
  BY WidthAssumption
<1>4. P \in SUBSET Nat /\ Pointer(h) \in P
  BY <1>1, <1>2
<1>5. E \in SUBSET (0..(2 * U32Max)) /\ Pointer(h) + RawSize(h, img.align) \in E
  BY <1>1, <1>2
<1> HIDE DEF P, E
<1>6. Min(P) \in P /\ \A y \in P : Min(P) <= y
  BY <1>4, MinInSet
<1>7. Max(E) \in E /\ \A y \in E : y <= Max(E)
  BY <1>3, <1>5, MaxInSet
<1>8. Min(P) <= Pointer(h) /\ Pointer(h) + RawSize(h, img.align) <= Max(E)
  BY <1>4, <1>5, <1>6, <1>7
<1>9. Min(P) \in Nat /\ Max(E) \in 0..(2 * U32Max)
  BY <1>4, <1>5, <1>6, <1>7
<1>10. Max(E) \in Nat
  BY <1>3, <1>9
<1>11. Max(E) - Min(P) \in Nat
  BY <1>1, <1>8, <1>9, <1>10
<1> QED
  BY <1>9, <1>11 DEF FirstOffset, LastOffset, P, E

LEMMA FullSectionsStep ==
  ASSUME IInv, LoadFullSections, UNCHANGED <<out, built>>
  PROVE  IInv'
<1>1. pc = "full_sections"
  BY DEF LoadFullSections
<1>2. ImageOK(img) /\ TypeOK /\ cur # 0
  BY <1>1, Placing
<1> DEFINE n == LastOffset - FirstOffset
           im == [img EXCEPT !.fullSections = Window(FirstOffset, n)]
<1>3. CASE \E w : Proceed("overlay", img, w)
  BY <1>1, <1>2, <1>3, ProceedKeeps DEF TailSteps
<1>4. CASE Mapped # {} /\ Proceed("overlay", im, {})
  <2>1. Window(FirstOffset, n) \in Good
    <3>1. FirstOffset \in Nat /\ n \in Nat
      BY <1>1, <1>4, MappedBounds
    <3> HIDE DEF n
    <3> QED
      BY <3>1, <1>2, WindowGood
  <2>2. ImageOK(im) /\ im.data = img.data /\ im.headers = img.headers
    <3> HIDE DEF n
    <3>1. ImageOK([img EXCEPT !.fullSections = Window(FirstOffset, n)])
      BY <2>1, <1>2, ReplacedOK, ZeroIsU32
    <3> QED
      BY <3>1, <1>2 DEF ImageOK, Images
  <2> HIDE DEF im
  <2> QED
    BY <1>1, <1>4, <2>2, ProceedKeeps DEF TailSteps
<1> QED
  BY <1>3, <1>4 DEF LoadFullSections

LEMMA OverlayStartType ==
  ASSUME IInv, pc # "idle"
  PROVE  OverlayStart \in Nat
<1> DEFINE Backed == {g \in {img.headers[i] : i \in DOMAIN img.headers} : g.ptr # 0}
           E == {0} \cup {Pointer(h) + RawSize(h, img.align) : h \in Backed}
<1>1. ASSUME NEW h \in Backed
      PROVE  Pointer(h) + RawSize(h, img.align) \in 0..(2 * U32Max)
  <2>1. PICK i \in DOMAIN img.headers : h = img.headers[i]
    OBVIOUS
  <2> QED
    BY <2>1, SectionNumbers
<1>2. 2 * U32Max \in Nat
  BY WidthAssumption
<1>3. E \in SUBSET (0..(2 * U32Max)) /\ E # {}
  <2> HIDE DEF Backed
  <2> QED
    BY <1>1, <1>2
<1> HIDE DEF E
<1>4. Max(E) \in E
  BY <1>2, <1>3, MaxInSet
<1>5. Max(E) \in Nat
  <2>1. Max(E) \in 0..(2 * U32Max)
    BY <1>3, <1>4
  <2> QED
    BY <1>2, <2>1
<1>6. img.sizeOfHeaders \in Nat
  BY Placing
<1> QED
  BY <1>5, <1>6 DEF OverlayStart, RawDataEnd, Larger, E

LEMMA OverlayStep ==
  ASSUME IInv, LoadOverlay, UNCHANGED <<out, built>>
  PROVE  IInv'
<1>1. pc = "overlay"
  BY DEF LoadOverlay
<1>2. ImageOK(img) /\ TypeOK /\ cur # 0 /\ TotalSize(F) \in Nat
  BY <1>1, Placing
<1> DEFINE n == TotalSize(F) - OverlayStart
           im == [img EXCEPT !.overlay = Window(OverlayStart, n)]
<1>3. CASE \E w : Proceed("full_headers", img, w)
  BY <1>1, <1>2, <1>3, ProceedKeeps DEF TailSteps
<1>4. CASE ~(n <= 0) /\ Proceed("full_headers", im, {})
  <2>1. Window(OverlayStart, n) \in Good
    <3>1. OverlayStart \in Nat /\ n \in Nat
      BY <1>1, <1>2, <1>4, OverlayStartType
    <3> HIDE DEF n
    <3> QED
      BY <3>1, <1>2, WindowGood
  <2>2. ImageOK(im) /\ im.data = img.data /\ im.headers = img.headers
    <3> HIDE DEF n
    <3>1. ImageOK([img EXCEPT !.overlay = Window(OverlayStart, n)])
      BY <2>1, <1>2, ReplacedOK, ZeroIsU32
    <3> QED
      BY <3>1, <1>2 DEF ImageOK, Images
  <2> HIDE DEF im
  <2> QED
    BY <1>1, <1>4, <2>2, ProceedKeeps DEF TailSteps
<1> QED
  BY <1>3, <1>4 DEF LoadOverlay

LEMMA FullHeadersStep ==
  ASSUME IInv, LoadFullHeaders, UNCHANGED <<out, built>>
  PROVE  IInv'
<1>1. pc = "full_headers"
  BY DEF LoadFullHeaders
<1>2. /\ ImageOK(img) /\ TypeOK /\ cur # 0 /\ TotalSize(F) \in Nat
      /\ img.align \in U32 /\ img.sizeOfHeaders \in U32 /\ U32 \subseteq Nat
  BY <1>1, Placing
<1> DEFINE n == FullHeadersSize
           im == [img EXCEPT !.fullHeaders = Window(0, n)]
<1>3. CASE \E w : Proceed("loaded", img, w)
  BY <1>1, <1>2, <1>3, ProceedKeeps DEF TailSteps
<1>4. CASE Proceed("loaded", im, {})
  <2>1. Window(0, n) \in Good
    <3>1. HasSingleBit(img.align) => AlignUpIfSafe(img.sizeOfHeaders, img.align) \in Nat
      BY <1>2, AlignedType
    <3>2. Mapped # {} => FirstOffset \in Nat
      BY <1>1, MappedBounds
    <3>3. n \in Nat
      BY <1>2, <3>1, <3>2 DEF FullHeadersSize, Smaller
    <3> HIDE DEF n
    <3> QED
      BY <3>3, <1>2, WindowGood
  <2>2. ImageOK(im) /\ im.data = img.data /\ im.headers = img.headers
    <3> HIDE DEF n
    <3>1. ImageOK([img EXCEPT !.fullHeaders = Window(0, n)])
      BY <2>1, <1>2, ReplacedOK
    <3> QED
      BY <3>1, <1>2 DEF ImageOK, Images
  <2> HIDE DEF im
  <2> QED
    BY <1>1, <1>4, <2>2, ProceedKeeps DEF TailSteps
<1> QED
  BY <1>3, <1>4 DEF LoadFullHeaders

LEMMA BuildStep ==
  ASSUME IInv, NEW o \in Builds, Build(o)
  PROVE  IInv'
<1>1. pc \in Resting /\ UNCHANGED loadVars
  BY DEF Build, Resting
<1>2. TypeOK' /\ PiecesInside' /\ Position'
  BY <1>1 DEF IInv, TypeOK, PiecesInside, AllInside, Inside, Position, loadVars
<1>3. built'.result = "ok" => Len(img.headers) = Len(img.data)
  <2>1. CASE Len(img.headers) # Len(img.data)
    BY <2>1 DEF Build
  <2> QED
    BY <2>1
<1>4. Pairing'
  BY <1>1, <1>3 DEF IInv, Pairing, loadVars
<1> QED
  BY <1>2, <1>4 DEF IInv

LEMMA StepIInv == IInv /\ [Next]_vars => IInv'
<1> SUFFICES ASSUME IInv, [Next]_vars PROVE IInv'
  OBVIOUS
<1>1. CASE \E f \in DOMAIN Catalog, o \in Options :
             Begin(f, o) /\ out' = NoOutput /\ built' = Unbuilt
  BY <1>1, BeginStep
<1>2. CASE Load /\ UNCHANGED <<out, built>>
  BY <1>2, DosHeaderStep, DosStubStep, SignatureStep, FileHeaderStep, OptionalHeaderStep,
     DirectoriesStep, SectionTableStep, SectionStep, SectionsLoadedStep, FullSectionsStep,
     OverlayStep, FullHeadersStep
     DEF Load
<1>3. CASE \E o \in Builds : Build(o)
  BY <1>3, BuildStep
<1>4. CASE UNCHANGED vars
  <2>1. TypeOK' /\ PiecesInside' /\ Position'
    BY <1>4 DEF IInv, TypeOK, PiecesInside, AllInside, Inside, Position, vars, loadVars
  <2>2. Pairing'
    BY <1>4 DEF IInv, Pairing, vars, loadVars
  <2> QED
    BY <2>1, <2>2 DEF IInv
<1> QED
  BY <1>1, <1>2, <1>3, <1>4 DEF Next

THEOREM Invariance == Spec => []IInv
<1>1. BuilderInit => IInv
  BY InitIInv
<1>2. IInv /\ [Next]_vars => IInv'
  BY StepIInv
<1> QED
  BY <1>1, <1>2, PTL DEF Spec

(* For every set of files, their sizes and their headers, image_loader     *)
(* keeps the image well formed.                                            *)
THEOREM ImageTypeCorrect == Spec => []TypeOK
<1>1. IInv => TypeOK
  BY DEF IInv
<1> QED
  BY <1>1, Invariance, PTL

(* Wherever any number of loads stopped, no piece of the image has         *)
(* physical bytes its file does not have: image_loader and the             *)
(* deserializers it calls never hand out a buffer that runs past the file. *)
THEOREM PiecesStayInside == Spec => []PiecesInside
<1>1. IInv => PiecesInside
  BY DEF IInv
<1> QED
  BY <1>1, Invariance, PTL

(* An image that image_builder accepts has, for each section header, the   *)
(* data the last load read for it.                                         *)
THEOREM BuildsPairOwn == Spec => []BuildPairsOwn
<1>1. IInv => BuildPairsOwn
  <2> SUFFICES ASSUME IInv, built.result = "ok", pc = "loaded", opt.sections,
                      NEW i \in DOMAIN img.headers
               PROVE  /\ i \in DOMAIN img.data
                      /\ img.data[i].file = cur /\ img.data[i].index = i
    BY DEF BuildPairsOwn
  <2>1. /\ img.headers \in Seq(HeaderEntries) /\ img.data \in Seq(DataEntries)
        /\ base \in Nat /\ Pairing
    BY Placing DEF IInv
  <2>2. Len(img.headers) = Len(img.data) /\ base = 0
    BY <2>1 DEF Pairing, TailSteps
  <2>3. i \in DOMAIN img.data /\ i > base /\ i \in Nat
    BY <2>1, <2>2
  <2>4. img.data[i].file = cur /\ img.data[i].index = i - base
    BY <2>1, <2>3 DEF Pairing
  <2> QED
    BY <2>2, <2>3, <2>4
<1> QED
  BY <1>1, Invariance, PTL

-----------------------------------------------------------------------------
(* The buffers.  What a load that warned of nothing has put into them by   *)
(* each of its steps; the first load of an image finds no overlay in it.   *)

BeforeOverlay == HeaderSteps \cup {"idle", "sections", "full_sections", "overlay"}

(* get_full_sections_buffer                                                *)
SectionsHeld ==
  opt.buffers /\ Mapped # {} =>
    /\ Fits(FirstOffset, LastOffset - FirstOffset)
    /\ img.fullSections = Window(FirstOffset, LastOffset - FirstOffset)

(* get_overlay                                                             *)
OverlayHeld ==
  loads = 1 /\ opt.overlay /\ ~opt.memory =>
    LET n == TotalSize(F) - OverlayStart
    IN  IF n <= 0 THEN img.overlay = NoBytes ELSE img.overlay = Window(OverlayStart, n)

(* get_full_headers_buffer                                                 *)
HeadersHeld == opt.buffers => img.fullHeaders = Window(0, FullHeadersSize)

BuffersHeld ==
  /\ pc # "idle" => img.memory = opt.memory /\ loads > 0
  /\ loads <= 1 /\ pc \in BeforeOverlay => img.overlay = NoBytes
  /\ warned = {} =>
       /\ pc \in {"overlay", "full_headers", "loaded"} => SectionsHeld
       /\ pc \in {"full_headers", "loaded"} => OverlayHeld
       /\ pc = "loaded" => HeadersHeld

LEMMA InitBuffersHeld == BuilderInit => BuffersHeld
BY DEF BuilderInit, Init, BuffersHeld, EmptyImage

LEMMA BeginBuffersHeld ==
  ASSUME IInv, BuffersHeld, NEW f \in DOMAIN Catalog, NEW o \in Options, Begin(f, o)
  PROVE  BuffersHeld'
<1>1. /\ img' = [img EXCEPT !.memory = o.memory] /\ pc' = "dos_header" /\ opt' = o
      /\ loads' = loads + 1 /\ loads \in Nat /\ img \in Images
  BY DEF Begin, IInv, TypeOK
<1>2. img'.memory = opt'.memory /\ img'.overlay = img.overlay
  BY <1>1 DEF Images
<1>3. loads' <= 1 => pc = "idle"
  BY <1>1 DEF BuffersHeld
<1> QED
  BY <1>1, <1>2, <1>3 DEF BuffersHeld, BeforeOverlay

(* A step through the headers or the sections keeps the overlay the image  *)
(* had.                                                                    *)
LEMMA EarlyStepKeeps ==
  ASSUME IInv, BuffersHeld, pc \in HeaderSteps \cup {"sections"},
         UNCHANGED <<opt, loads>>,
         NEW im, img' = im, im.memory = img.memory, im.overlay = img.overlay,
         NEW step \in HeaderSteps \cup {"sections", "full_sections", "failed"}, pc' = step
  PROVE  BuffersHeld'
<1>1. pc # "idle" /\ pc \in BeforeOverlay
  BY StepKinds DEF BeforeOverlay
<1>2. step \notin {"overlay", "full_headers", "loaded"}
  BY DEF HeaderSteps
<1> QED
  BY <1>1, <1>2 DEF BuffersHeld

LEMMA HeaderStepEffect ==
  ASSUME IInv,
         \/ ReadDosHeader \/ ReadDosStub \/ ReadSignature \/ ReadFileHeader
         \/ ReadOptionalHeader \/ ReadDirectories \/ ReadSectionTable
  PROVE  /\ pc \in HeaderSteps
         /\ pc' \in HeaderSteps \cup {"sections", "failed"}
         /\ UNCHANGED <<opt, loads>>
         /\ img'.memory = img.memory /\ img'.overlay = img.overlay
<1>1. img \in Images
  BY DEF IInv, TypeOK
<1>2. CASE ReadDosHeader
  BY <1>1, <1>2 DEF ReadDosHeader, Goto, Fail, local, Images, HeaderSteps
<1>3. CASE ReadDosStub
  BY <1>1, <1>3 DEF ReadDosStub, Goto, Fail, local, Images, HeaderSteps
<1>4. CASE ReadSignature
  BY <1>1, <1>4 DEF ReadSignature, Goto, Fail, local, Images, HeaderSteps
<1>5. CASE ReadFileHeader
  BY <1>1, <1>5 DEF ReadFileHeader, Goto, Fail, local, Images, HeaderSteps
<1>6. CASE ReadOptionalHeader
  BY <1>1, <1>6 DEF ReadOptionalHeader, Goto, Fail, local, Images, HeaderSteps
<1>7. CASE ReadDirectories
  <2> DEFINE n == IF IsWhole(img.optional) THEN F.dirs ELSE 0
             With(ds) == [img EXCEPT !.dirs = ds]
  <2>1. PICK k \in 0..n : \/ Fail(With(Directories(n, k)))
                          \/ Goto("section_table", With(Directories(n, k)), DirectoryAt(k + 1))
    BY <1>7 DEF ReadDirectories
  <2>2. \A ds : With(ds).memory = img.memory /\ With(ds).overlay = img.overlay
    BY <1>1 DEF Images
  <2>3. pc \in HeaderSteps
    BY <1>7 DEF ReadDirectories, HeaderSteps
  <2> HIDE DEF n, With
  <2> QED
    BY <2>1, <2>2, <2>3 DEF Goto, Fail, local, HeaderSteps
<1>8. CASE ReadSectionTable
  <2> DEFINE n == IF IsWhole(img.fileHeader) THEN Len(F.sections) ELSE 0
             With(hs) == [img EXCEPT !.headers = hs]
  <2>1. \/ Fail(img)
        \/ \E k \in 0..n : \/ Fail(With(Append(Table(k, k), EmptyHeader)))
                           \/ Goto("sections", With(Table(k, n)), HeaderAt(k + 1))
    BY <1>8 DEF ReadSectionTable
  <2>2. \A hs : With(hs).memory = img.memory /\ With(hs).overlay = img.overlay
    BY <1>1 DEF Images
  <2>3. pc \in HeaderSteps
    BY <1>8 DEF ReadSectionTable, HeaderSteps
  <2> HIDE DEF n, With
  <2> QED
    BY <2>1, <2>2, <2>3 DEF Goto, Fail, local, HeaderSteps
<1> QED
  BY <1>2, <1>3, <1>4, <1>5, <1>6, <1>7, <1>8

LEMMA SectionStepEffect ==
  ASSUME IInv, LoadSection \/ SectionsLoaded
  PROVE  /\ pc = "sections" /\ pc' \in {"sections", "full_sections"}
         /\ UNCHANGED <<opt, loads>>
         /\ img'.memory = img.memory /\ img'.overlay = img.overlay
<1>1. img \in Images
  BY DEF IInv, TypeOK
<1>2. CASE LoadSection
  <2>1. PICK ds, w : Proceed("sections", [img EXCEPT !.data = ds], w)
    BY <1>2 DEF LoadSection
  <2> QED
    BY <1>1, <1>2, <2>1 DEF LoadSection, Proceed, local, Images
<1>3. CASE SectionsLoaded
  BY <1>3 DEF SectionsLoaded, Proceed, local
<1> QED
  BY <1>2, <1>3

(* What the buffers are computed from: the headers and the file, which     *)
(* stay as they are behind the section table.                              *)
LEMMA SameBounds ==
  ASSUME img'.headers = img.headers, img'.align = img.align,
         img'.sizeOfHeaders = img.sizeOfHeaders, cur' = cur
  PROVE  /\ Mapped' = Mapped /\ FirstOffset' = FirstOffset /\ LastOffset' = LastOffset
         /\ OverlayStart' = OverlayStart /\ FullHeadersSize' = FullHeadersSize /\ F' = F
<1>1. Mapped' = Mapped /\ F' = F
  BY DEF Mapped, F
<1>2. FirstOffset' = FirstOffset
  BY <1>1 DEF FirstOffset
<1>3. LastOffset' = LastOffset
  BY <1>1 DEF LastOffset
<1>4. OverlayStart' = OverlayStart
  BY DEF OverlayStart, RawDataEnd
<1>5. FullHeadersSize' = FullHeadersSize
  BY <1>1, <1>2 DEF FullHeadersSize
<1> QED
  BY <1>1, <1>2, <1>3, <1>4, <1>5

LEMMA SameHeld ==
  ASSUME img'.headers = img.headers, img'.align = img.align,
         img'.sizeOfHeaders = img.sizeOfHeaders, UNCHANGED <<cur, opt, loads>>
  PROVE  /\ img'.fullSections = img.fullSections /\ SectionsHeld => SectionsHeld'
         /\ img'.overlay = img.overlay /\ OverlayHeld => OverlayHeld'
<1>1. /\ Mapped' = Mapped /\ FirstOffset' = FirstOffset /\ LastOffset' = LastOffset
      /\ OverlayStart' = OverlayStart /\ F' = F
  BY SameBounds
<1>2. img'.fullSections = img.fullSections /\ SectionsHeld => SectionsHeld'
  BY <1>1 DEF SectionsHeld, Fits, Window, TotalSize
<1>3. img'.overlay = img.overlay /\ OverlayHeld => OverlayHeld'
  BY <1>1 DEF OverlayHeld, Window, TotalSize
<1> QED
  BY <1>2, <1>3

LEMMA FullSectionsHeld ==
  ASSUME IInv, BuffersHeld, LoadFullSections
  PROVE  BuffersHeld'
<1> DEFINE n == LastOffset - FirstOffset
           im == [img EXCEPT !.fullSections = Window(FirstOffset, n)]
<1>1. pc = "full_sections" /\ img \in Images
  BY DEF LoadFullSections, IInv, TypeOK
<1>2. \/ (~opt.buffers \/ Mapped = {}) /\ Proceed("overlay", img, {})
      \/ Fits(FirstOffset, n) /\ Proceed("overlay", im, {})
      \/ Proceed("overlay", img, {"full_sections"})
  BY DEF LoadFullSections
<1>3. /\ pc' = "overlay" /\ UNCHANGED <<cur, opt, loads>>
      /\ img'.headers = img.headers /\ img'.align = img.align
      /\ img'.sizeOfHeaders = img.sizeOfHeaders /\ img'.memory = img.memory
      /\ img'.overlay = img.overlay
      /\ warned \subseteq warned'
  BY <1>1, <1>2 DEF Proceed, local, Images
<1>4. /\ Mapped' = Mapped /\ FirstOffset' = FirstOffset /\ LastOffset' = LastOffset /\ F' = F
  BY <1>3, SameBounds
<1>5. CASE (~opt.buffers \/ Mapped = {}) /\ Proceed("overlay", img, {})
  <2>1. SectionsHeld'
    BY <1>3, <1>4, <1>5 DEF SectionsHeld
  <2> QED
    BY <1>1, <1>3, <2>1 DEF BuffersHeld, BeforeOverlay
<1>6. CASE Fits(FirstOffset, n) /\ Proceed("overlay", im, {})
  <2>1. img'.fullSections = Window(FirstOffset, n)
    BY <1>1, <1>6 DEF Proceed, Images
  <2>2. SectionsHeld'
    BY <1>3, <1>4, <1>6, <2>1 DEF SectionsHeld, Fits, Window, TotalSize
  <2> QED
    BY <1>1, <1>3, <2>2 DEF BuffersHeld, BeforeOverlay
<1>7. CASE Proceed("overlay", img, {"full_sections"})
  <2>1. warned' # {}
    BY <1>7 DEF Proceed
  <2> QED
    BY <1>1, <1>3, <2>1 DEF BuffersHeld, BeforeOverlay
<1> QED
  BY <1>2, <1>5, <1>6, <1>7

LEMMA NewOverlayHeld ==
  ASSUME IInv, BuffersHeld, LoadOverlay
  PROVE  BuffersHeld'
<1> DEFINE n == TotalSize(F) - OverlayStart
           im == [img EXCEPT !.overlay = Window(OverlayStart, n)]
<1>1. pc = "overlay" /\ img \in Images /\ opt.memory = img.memory
  BY DEF LoadOverlay, IInv, TypeOK, BuffersHeld
<1>2. \/ (~opt.overlay \/ opt.memory \/ n <= 0) /\ Proceed("full_headers", img, {})
      \/ ~(n <= 0) /\ Proceed("full_headers", im, {})
      \/ Proceed("full_headers", img, {"overlay"})
  BY DEF LoadOverlay
<1>3. /\ pc' = "full_headers" /\ UNCHANGED <<cur, opt, loads>>
      /\ img'.headers = img.headers /\ img'.align = img.align
      /\ img'.sizeOfHeaders = img.sizeOfHeaders /\ img'.memory = img.memory
      /\ img'.fullSections = img.fullSections
      /\ warned \subseteq warned'
  BY <1>1, <1>2 DEF Proceed, local, Images
<1>4. /\ OverlayStart' = OverlayStart /\ F' = F
  BY <1>3, SameBounds
<1>5. warned' = {} => SectionsHeld'
  BY <1>1, <1>3, SameHeld DEF BuffersHeld
<1>6. CASE (~opt.overlay \/ opt.memory \/ n <= 0) /\ Proceed("full_headers", img, {})
  <2>1. loads = 1 => img'.overlay = NoBytes
    BY <1>1, <1>6 DEF BuffersHeld, BeforeOverlay, Proceed
  <2>2. OverlayHeld'
    BY <1>1, <1>3, <1>4, <1>6, <2>1 DEF OverlayHeld, TotalSize
  <2> QED
    BY <1>1, <1>3, <1>5, <2>2 DEF BuffersHeld, BeforeOverlay, HeaderSteps
<1>7. CASE ~(n <= 0) /\ Proceed("full_headers", im, {})
  <2>1. img'.overlay = Window(OverlayStart, n)
    BY <1>1, <1>7 DEF Proceed, Images
  <2>2. OverlayHeld'
    BY <1>3, <1>4, <1>7, <2>1 DEF OverlayHeld, Window, TotalSize
  <2> QED
    BY <1>1, <1>3, <1>5, <2>2 DEF BuffersHeld, BeforeOverlay, HeaderSteps
<1>8. CASE Proceed("full_headers", img, {"overlay"})
  <2>1. warned' # {}
    BY <1>8 DEF Proceed
  <2> QED
    BY <1>1, <1>3, <2>1 DEF BuffersHeld, BeforeOverlay, HeaderSteps
<1> QED
  BY <1>2, <1>6, <1>7, <1>8

LEMMA FullHeadersHeld ==
  ASSUME IInv, BuffersHeld, LoadFullHeaders
  PROVE  BuffersHeld'
<1> DEFINE im == [img EXCEPT !.fullHeaders = Window(0, FullHeadersSize)]
<1>1. pc = "full_headers" /\ img \in Images
  BY DEF LoadFullHeaders, IInv, TypeOK
<1>2. \/ ~opt.buffers /\ Proceed("loaded", img, {})
      \/ Proceed("loaded", im, {})
      \/ Proceed("loaded", img, {"full_headers"})
  BY DEF LoadFullHeaders
<1>3. /\ pc' = "loaded" /\ UNCHANGED <<cur, opt, loads>>
      /\ img'.headers = img.headers /\ img'.align = img.align
      /\ img'.sizeOfHeaders = img.sizeOfHeaders /\ img'.memory = img.memory
      /\ img'.fullSections = img.fullSections /\ img'.overlay = img.overlay
      /\ warned \subseteq warned'
  BY <1>1, <1>2 DEF Proceed, local, Images
<1>4. FullHeadersSize' = FullHeadersSize /\ F' = F
  BY <1>3, SameBounds
<1>5. warned' = {} => SectionsHeld' /\ OverlayHeld'
  BY <1>1, <1>3, SameHeld DEF BuffersHeld
<1>6. CASE ~opt.buffers /\ Proceed("loaded", img, {})
  <2>1. HeadersHeld'
    BY <1>3, <1>6 DEF HeadersHeld
  <2> QED
    BY <1>1, <1>3, <1>5, <2>1 DEF BuffersHeld, BeforeOverlay, HeaderSteps
<1>7. CASE Proceed("loaded", im, {})
  <2>1. img'.fullHeaders = Window(0, FullHeadersSize)
    BY <1>1, <1>7 DEF Proceed, Images
  <2>2. HeadersHeld'
    BY <1>3, <1>4, <2>1 DEF HeadersHeld, Window
  <2> QED
    BY <1>1, <1>3, <1>5, <2>2 DEF BuffersHeld, BeforeOverlay, HeaderSteps
<1>8. CASE Proceed("loaded", img, {"full_headers"})
  <2>1. warned' # {}
    BY <1>8 DEF Proceed
  <2> QED
    BY <1>1, <1>3, <2>1 DEF BuffersHeld, BeforeOverlay, HeaderSteps
<1> QED
  BY <1>2, <1>6, <1>7, <1>8

LEMMA StepBuffersHeld == IInv /\ BuffersHeld /\ [Next]_vars => BuffersHeld'
<1> SUFFICES ASSUME IInv, BuffersHeld, [Next]_vars PROVE BuffersHeld'
  OBVIOUS
<1>1. CASE \E f \in DOMAIN Catalog, o \in Options : Begin(f, o)
  BY <1>1, BeginBuffersHeld
<1>2. CASE \/ ReadDosHeader \/ ReadDosStub \/ ReadSignature \/ ReadFileHeader
           \/ ReadOptionalHeader \/ ReadDirectories \/ ReadSectionTable
  BY <1>2, HeaderStepEffect, EarlyStepKeeps
<1>3. CASE LoadSection \/ SectionsLoaded
  BY <1>3, SectionStepEffect, EarlyStepKeeps
<1>4. CASE LoadFullSections
  BY <1>4, FullSectionsHeld
<1>5. CASE LoadOverlay
  BY <1>5, NewOverlayHeld
<1>6. CASE LoadFullHeaders
  BY <1>6, FullHeadersHeld
<1>7. CASE UNCHANGED loadVars
  <2>1. SectionsHeld => SectionsHeld'
    BY <1>7, SameHeld DEF loadVars
  <2>2. OverlayHeld => OverlayHeld'
    BY <1>7, SameHeld DEF loadVars
  <2>3. HeadersHeld => HeadersHeld'
    <3>1. FullHeadersSize' = FullHeadersSize /\ F' = F
      BY <1>7, SameBounds DEF loadVars
    <3> QED
      BY <1>7, <3>1 DEF HeadersHeld, Window, loadVars
  <2> QED
    BY <1>7, <2>1, <2>2, <2>3 DEF BuffersHeld, loadVars
<1> QED
  BY <1>1, <1>2, <1>3, <1>4, <1>5, <1>6, <1>7 DEF Next, Load, Build, vars

(* Where no pointer is rounded to 0, the sections that end last in the     *)
(* file for the overlay are the ones that do for the full sections.        *)
LEMMA DataEndsWithSections ==
  ASSUME IInv, pc # "idle", Mapped # {},
         \A i \in DOMAIN img.headers : img.headers[i].ptr = Pointer(img.headers[i])
  PROVE  RawDataEnd = LastOffset /\ LastOffset \in Nat /\ FirstOffset \in Nat
         /\ FirstOffset <= LastOffset
<1> DEFINE E == {Pointer(h) + RawSize(h, img.align) : h \in Mapped}
           B == 2 * U32Max
<1>1. {g \in {img.headers[i] : i \in DOMAIN img.headers} : g.ptr # 0} = Mapped
  BY DEF Mapped
<1>2. RawDataEnd = Max({0} \cup E) /\ LastOffset = Max(E)
  BY <1>1 DEF RawDataEnd, LastOffset
<1>3. ASSUME NEW h \in Mapped
      PROVE  Pointer(h) + RawSize(h, img.align) \in 0..B
  <2>1. PICK i \in DOMAIN img.headers : h = img.headers[i]
    BY DEF Mapped
  <2> QED
    BY <2>1, SectionNumbers
<1>4. B \in Nat /\ E # {} /\ E \in SUBSET (0..B)
  BY <1>3, WidthAssumption
<1> HIDE DEF E, B
<1>5. Max(E) \in E /\ \A y \in E : y <= Max(E)
  BY <1>4, MaxInSet
<1>6. Max({0} \cup E) \in {0} \cup E /\ \A y \in {0} \cup E : y <= Max({0} \cup E)
  <2> DEFINE Z == {0} \cup E
  <2>1. Z \in SUBSET (0..B) /\ Z # {}
    BY <1>4
  <2> HIDE DEF Z
  <2>2. Max(Z) \in Z /\ \A y \in Z : y <= Max(Z)
    BY <1>4, <2>1, MaxInSet
  <2> QED
    BY <2>2 DEF Z
<1>7. Max({0} \cup E) = Max(E) /\ Max(E) \in Nat
  <2>1. Max(E) \in 0..B /\ Max({0} \cup E) \in 0..B
    <3>1. {0} \cup E \in SUBSET (0..B)
      BY <1>4
    <3> QED
      BY <1>4, <1>5, <1>6, <3>1
  <2>2. Max(E) <= Max({0} \cup E)
    BY <1>5, <1>6
  <2>3. Max({0} \cup E) <= Max(E)
    BY <1>4, <1>5, <1>6, <2>1
  <2> QED
    BY <1>4, <2>1, <2>2, <2>3
<1>8. FirstOffset \in Nat /\ LastOffset - FirstOffset \in Nat
  BY MappedBounds
<1> QED
  BY <1>2, <1>7, <1>8

(* For every file and every choice of options, the buffers a first load    *)
(* that warned of nothing leaves for the checksum and the hashes tile the  *)
(* file, under the conditions BuffersTile names.                           *)
THEOREM BuffersTileTheFile == Spec => []BuffersTile
<1>1. BuilderInit => IInv /\ BuffersHeld
  BY InitIInv, InitBuffersHeld
<1>2. IInv /\ BuffersHeld /\ [Next]_vars => IInv' /\ BuffersHeld'
  BY StepIInv, StepBuffersHeld
<1>3. IInv /\ BuffersHeld => BuffersTile
  <2> SUFFICES ASSUME IInv, BuffersHeld,
                      pc = "loaded", loads = 1, opt.buffers, opt.overlay, ~img.memory,
                      warned = {}, Mapped # {}, SectionTableValid(TableOfImage),
                      \A i \in DOMAIN img.headers :
                        img.headers[i].ptr = Pointer(img.headers[i]),
                      FirstOffset \in
                        img.sizeOfHeaders..AlignUpIfSafe(img.sizeOfHeaders, img.align)
               PROVE  /\ img.fullHeaders.len = img.fullSections.off
                      /\ LET end == img.fullSections.off + img.fullSections.len
                         IN  IF img.overlay = NoBytes THEN end = TotalSize(F)
                             ELSE /\ img.overlay.off = end
                                  /\ end + img.overlay.len = TotalSize(F)
    BY DEF BuffersTile
  <2> DEFINE n == TotalSize(F) - OverlayStart
             end == img.fullSections.off + img.fullSections.len
  <2>1. /\ cur # 0 /\ TotalSize(F) \in Nat
        /\ img.sizeOfHeaders \in Nat /\ img.align \in U32 /\ img.sizeOfHeaders \in U32
    BY Placing
  <2>2. RawDataEnd = LastOffset /\ LastOffset \in Nat /\ FirstOffset \in Nat
        /\ FirstOffset <= LastOffset
    BY DataEndsWithSections
  <2>3. SectionsHeld /\ OverlayHeld /\ HeadersHeld /\ ~opt.memory
    BY DEF BuffersHeld
  <2>4. /\ img.fullSections.off = FirstOffset
        /\ img.fullSections.len = LastOffset - FirstOffset
        /\ FirstOffset + (LastOffset - FirstOffset) <= TotalSize(F)
    BY <2>3 DEF SectionsHeld, Window, Fits
  <2>5. HasSingleBit(img.align)
    <3>1. PICK i \in DOMAIN img.headers : TRUE
      BY DEF Mapped
    <3>2. HeaderValid(img.headers[i], img.align, img.fileAlign)
      BY <3>1 DEF SectionTableValid, TableOfImage
    <3> QED
      BY <3>2 DEF HeaderValid
  <2>a. AlignUpIfSafe(img.sizeOfHeaders, img.align) \in Nat
    BY <2>1, <2>5, AlignedType, Placing
  <2>6. FullHeadersSize = FirstOffset
    <3>1. FirstOffset <= AlignUpIfSafe(img.sizeOfHeaders, img.align)
      BY <2>1, <2>2, <2>a
    <3> QED
      BY <2>1, <2>2, <2>4, <2>5, <2>a, <3>1 DEF FullHeadersSize, Smaller
  <2>7. img.fullHeaders.len = FirstOffset
    BY <2>3, <2>6 DEF HeadersHeld, Window
  <2>8. OverlayStart = LastOffset
    <3>1. img.sizeOfHeaders <= FirstOffset
      BY <2>1, <2>a
    <3> QED
      BY <2>1, <2>2, <3>1 DEF OverlayStart, Larger
  <2>9. end = LastOffset /\ LastOffset <= TotalSize(F)
    BY <2>1, <2>2, <2>4
  <2>10. CASE n <= 0
    <3>1. img.overlay = NoBytes /\ LastOffset = TotalSize(F)
      BY <2>1, <2>2, <2>3, <2>8, <2>9, <2>10 DEF OverlayHeld
    <3> QED
      BY <2>4, <2>7, <2>9, <3>1
  <2>11. CASE ~(n <= 0)
    <3>1. img.overlay = Window(LastOffset, TotalSize(F) - LastOffset)
      BY <2>3, <2>8, <2>11 DEF OverlayHeld
    <3>2. /\ img.overlay # NoBytes
          /\ img.overlay.off = LastOffset /\ img.overlay.len = TotalSize(F) - LastOffset
      BY <2>1, <3>1 DEF Window, NoBytes
    <3> QED
      BY <2>1, <2>2, <2>4, <2>7, <2>9, <3>2
  <2> QED
    BY <2>10, <2>11
<1> QED
  BY <1>1, <1>2, <1>3, PTL DEF Spec

-----------------------------------------------------------------------------
(* What a load holds.  A piece sits at x when its bytes are the bytes the  *)
(* file has from x on, and it ends short of its length only where the file *)
(* does.                                                                   *)

Right(f, x, p, n) == \A k \in 0..(n - 1) : PieceByte(p, k) = FileByte(f, x + k)

Sits(f, x, p) ==
  /\ Right(f, x, p, p.len)
  /\ p.phys = p.len \/ x + p.phys >= Catalog[f].phys

AfterSections == TailSteps
AfterTable == AfterSections \cup {"sections"}
AfterDirectories == AfterTable \cup {"section_table"}
AfterOptional == AfterDirectories \cup {"directories"}
AfterFileHeader == AfterOptional \cup {"optional_header"}
AfterSignature == AfterFileHeader \cup {"file_header"}
AfterStub == AfterSignature \cup {"signature"}
AfterDos == AfterStub \cup {"dos_stub"}

AtFileHeader(im) == im.lfanew + SignatureSize
AtOptional(im) == AtFileHeader(im) + FileHeaderSize
AtDirectories(im) == AtOptional(im) + MagicSize + OptionalSize

(* The read position, one structure behind the other.                      *)
Reached ==
  /\ pc = "signature" => pos = img.lfanew
  /\ pc = "file_header" => pos = AtFileHeader(img)
  /\ pc = "optional_header" => pos = AtOptional(img)
  /\ pc = "directories" => pos = AtDirectories(img)

(* A stub is read unless the new header lies inside the DOS header.        *)
StubHeld == loads = 1 \/ img.lfanew >= DosSize => Sits(cur, DosSize, img.stub)

DosHeld == Sits(cur, 0, img.dos) /\ img.dos.len = DosSize

SignatureHeld ==
  Sits(cur, img.lfanew, img.signature) /\ img.signature.len = SignatureSize

FileHeaderHeld ==
  /\ Sits(cur, AtFileHeader(img), img.fileHeader)
  /\ img.fileHeader.len = FileHeaderSize /\ img.fileHeader.off = AtFileHeader(img)

OptionalHeld ==
  Sits(cur, AtOptional(img), img.optional) /\ img.optional.len = MagicSize + OptionalSize

DirectoriesHeld ==
  \A i \in DOMAIN img.dirs :
    /\ Sits(cur, AtDirectories(img) + (i - 1) * DirectorySize, img.dirs[i])
    /\ img.dirs[i].len = DirectorySize

TableHeld ==
  \A i \in DOMAIN img.headers :
    /\ Sits(cur, TableOffset(img) + (i - 1) * HeaderSize, img.headers[i].at)
    /\ img.headers[i].at.len = HeaderSize

(* The sections of this load, in the file or in memory.                    *)
DataHeld ==
  \A i \in DOMAIN img.data :
    i > base => LET bytes == img.data[i].bytes
                IN  Right(cur, SectionSource(img.headers[i - base]), bytes, bytes.phys)

FullHeadersKnown == loads = 1 \/ (opt.buffers /\ "full_headers" \notin warned)

PiecesHeld ==
  /\ pc = "idle" => img = EmptyImage
  /\ loads = 1 => base = 0
  /\ loads = 1 /\ pc \in {"dos_header", "dos_stub"} => img.stub = NoBytes
  /\ loads = 1 /\ pc \notin Resting => img.fullHeaders = NoBytes
  /\ Reached
  /\ pc \in AfterDos => DosHeld
  /\ pc \in AfterStub => StubHeld
  /\ pc \in AfterSignature => SignatureHeld
  /\ pc \in AfterFileHeader => FileHeaderHeld
  /\ pc \in AfterOptional => OptionalHeld
  /\ pc \in AfterDirectories => DirectoriesHeld
  /\ pc \in AfterTable => TableHeld /\ DataHeld
  /\ pc = "loaded" /\ FullHeadersKnown => Sits(cur, 0, img.fullHeaders)

BuiltHeld ==
  built.result = "ok" => built.by \in Builds /\ out = Output(img, built.by) /\ pc \in Resting

-----------------------------------------------------------------------------
(* One structure after the other, and one section after the other.         *)

StructsPut(w, ps, o, n, f) ==
  f = [k \in 0..n |-> IF k = 0 THEN w ELSE PutStruct(f[k - 1], ps[k], o)]

SectionsPut(w, im, o, n, f) ==
  f = [i \in 0..n |-> IF i = 0 THEN w ELSE PutSection(f[i - 1], im, i, o)]

LEMMA StructsArePut ==
  ASSUME NEW w, NEW ps, NEW o, Len(ps) \in Nat
  PROVE  \E f : StructsPut(w, ps, o, Len(ps), f) /\ PutStructs(w, ps, o) = f[Len(ps)]
<1> DEFINE P(m) == \E f : StructsPut(w, ps, o, m, f)
           T == {m \in Nat : ~P(m)}
<1>1. T = {}
  <2> SUFFICES ASSUME T # {} PROVE FALSE
    OBVIOUS
  <2>1. PICK m \in T : \A k \in T : m <= k
    <3>1. T \in SUBSET Nat
      OBVIOUS
    <3> HIDE DEF T
    <3> QED
      BY <3>1, LeastExists
  <2>2. m \in Nat /\ ~P(m)
    OBVIOUS
  <2>3. P(0)
    <3>1. StructsPut(w, ps, o, 0, [k \in 0..0 |-> w])
      BY DEF StructsPut
    <3> QED
      BY <3>1
  <2>4. m # 0 /\ m - 1 \in Nat
    BY <2>2, <2>3
  <2>5. P(m - 1)
    BY <2>1, <2>2, <2>4
  <2>6. PICK f : StructsPut(w, ps, o, m - 1, f)
    BY <2>5
  <2> DEFINE g == [k \in 0..m |-> IF k = m THEN PutStruct(f[m - 1], ps[m], o) ELSE f[k]]
  <2>7. ASSUME NEW k \in 0..m
        PROVE  g[k] = IF k = 0 THEN w ELSE PutStruct(g[k - 1], ps[k], o)
    <3>1. CASE k = m
      <4>1. g[m - 1] = f[m - 1]
        BY <2>2, <2>4
      <4> QED
        BY <2>4, <3>1, <4>1
    <3>2. CASE k # m
      <4>1. k \in 0..(m - 1) /\ g[k] = f[k]
        BY <2>2, <3>2
      <4>2. k # 0 => k - 1 \in 0..m /\ g[k - 1] = f[k - 1]
        BY <2>2, <3>2
      <4> QED
        BY <2>6, <4>1, <4>2 DEF StructsPut
    <3> QED
      BY <3>1, <3>2
  <2>8. StructsPut(w, ps, o, m, g)
    BY <2>7 DEF StructsPut
  <2> QED
    BY <2>2, <2>8
<1>2. P(Len(ps))
  BY <1>1
<1> DEFINE f == CHOOSE f : StructsPut(w, ps, o, Len(ps), f)
<1>3. StructsPut(w, ps, o, Len(ps), f)
  BY <1>2
<1>4. PutStructs(w, ps, o) = f[Len(ps)]
  BY DEF PutStructs, StructsPut
<1> QED
  BY <1>3, <1>4

LEMMA SectionsArePut ==
  ASSUME NEW w, NEW im, NEW o, Len(im.headers) \in Nat
  PROVE  \E f : /\ SectionsPut(w, im, o, Len(im.headers), f)
                /\ PutSections(w, im, o) = f[Len(im.headers)]
<1> DEFINE P(m) == \E f : SectionsPut(w, im, o, m, f)
           T == {m \in Nat : ~P(m)}
<1>1. T = {}
  <2> SUFFICES ASSUME T # {} PROVE FALSE
    OBVIOUS
  <2>1. PICK m \in T : \A k \in T : m <= k
    <3>1. T \in SUBSET Nat
      OBVIOUS
    <3> HIDE DEF T
    <3> QED
      BY <3>1, LeastExists
  <2>2. m \in Nat /\ ~P(m)
    OBVIOUS
  <2>3. P(0)
    <3>1. SectionsPut(w, im, o, 0, [i \in 0..0 |-> w])
      BY DEF SectionsPut
    <3> QED
      BY <3>1
  <2>4. m # 0 /\ m - 1 \in Nat
    BY <2>2, <2>3
  <2>5. P(m - 1)
    BY <2>1, <2>2, <2>4
  <2>6. PICK f : SectionsPut(w, im, o, m - 1, f)
    BY <2>5
  <2> DEFINE g == [i \in 0..m |-> IF i = m THEN PutSection(f[m - 1], im, m, o) ELSE f[i]]
  <2>7. ASSUME NEW i \in 0..m
        PROVE  g[i] = IF i = 0 THEN w ELSE PutSection(g[i - 1], im, i, o)
    <3>1. CASE i = m
      <4>1. g[m - 1] = f[m - 1]
        BY <2>2, <2>4
      <4> QED
        BY <2>4, <3>1, <4>1
    <3>2. CASE i # m
      <4>1. i \in 0..(m - 1) /\ g[i] = f[i]
        BY <2>2, <3>2
      <4>2. i # 0 => i - 1 \in 0..m /\ g[i - 1] = f[i - 1]
        BY <2>2, <3>2
      <4> QED
        BY <2>6, <4>1, <4>2 DEF SectionsPut
    <3> QED
      BY <3>1, <3>2
  <2>8. SectionsPut(w, im, o, m, g)
    BY <2>7 DEF SectionsPut
  <2> QED
    BY <2>2, <2>8
<1>2. P(Len(im.headers))
  BY <1>1
<1> DEFINE f == CHOOSE f : SectionsPut(w, im, o, Len(im.headers), f)
<1>3. SectionsPut(w, im, o, Len(im.headers), f)
  BY <1>2
<1>4. PutSections(w, im, o) = f[Len(im.headers)]
  BY DEF PutSections, SectionsPut
<1> QED
  BY <1>3, <1>4

-----------------------------------------------------------------------------
(* What is written where.  An output that is right holds, from s on, the   *)
(* bytes of file f.                                                        *)

Writes == [at : Nat, from : Pieces, n : Nat]

Outputs == [pos : Nat, size : Nat, writes : Seq(Writes)]

WriteRight(f, s, x) == x.at >= s /\ Right(f, x.at - s, x.from, x.n)

AllRight(f, s, w) ==
  w \in Outputs /\ w.pos >= s /\ \A i \in DOMAIN w.writes : WriteRight(f, s, w.writes[i])

(* The write position is x, or it and x are both behind the file.          *)
Near(f, s, w, x) ==
  w.pos - s = x \/ (w.pos - s >= Catalog[f].phys /\ x >= Catalog[f].phys)

LEMMA PutType ==
  ASSUME NEW w \in Outputs, NEW p \in Pieces, NEW n \in Nat
  PROVE  Put(w, p, n) \in Outputs /\ Put(w, p, n).pos = w.pos + n
<1>1. /\ w.pos \in Nat /\ w.size \in Nat /\ w.writes \in Seq(Writes)
      /\ w.pos + n \in Nat /\ Larger(w.size, w.pos + n) \in Nat
  BY DEF Outputs, Larger
<1>2. [at |-> w.pos, from |-> p, n |-> n] \in Writes
  BY <1>1 DEF Writes
<1>3. Append(w.writes, [at |-> w.pos, from |-> p, n |-> n]) \in Seq(Writes)
  BY <1>1, <1>2
<1> QED
  BY <1>1, <1>3 DEF Put, Outputs

LEMMA SeekType ==
  ASSUME NEW w \in Outputs, NEW x \in Nat
  PROVE  /\ Seek(w, x) \in Outputs /\ Seek(w, x).pos = x
         /\ Seek(w, x).writes = w.writes
<1>1. w.size \in Nat /\ Larger(w.size, x) \in Nat
  BY DEF Outputs, Larger
<1> QED
  BY <1>1 DEF Seek, Outputs

LEMMA SeekRight ==
  ASSUME NEW f, NEW s \in Nat, NEW w, AllRight(f, s, w), NEW x \in Nat, x >= s
  PROVE  AllRight(f, s, Seek(w, x))
BY SeekType DEF AllRight

LEMMA PutRight ==
  ASSUME NEW f, NEW s \in Nat, NEW w, AllRight(f, s, w), NEW p \in Pieces, NEW n \in Nat,
         Right(f, w.pos - s, p, n)
  PROVE  AllRight(f, s, Put(w, p, n))
<1>1. w \in Outputs /\ w.pos \in Nat /\ w.pos >= s /\ w.writes \in Seq(Writes)
  BY DEF AllRight, Outputs
<1>2. Put(w, p, n) \in Outputs /\ Put(w, p, n).pos >= s
  <2>1. Put(w, p, n) \in Outputs /\ Put(w, p, n).pos = w.pos + n
    BY <1>1, PutType
  <2> QED
    BY <1>1, <2>1
<1> DEFINE x == [at |-> w.pos, from |-> p, n |-> n]
<1>3. WriteRight(f, s, x)
  BY <1>1 DEF WriteRight
<1>4. Put(w, p, n).writes = IF n = 0 THEN w.writes ELSE Append(w.writes, x)
  BY DEF Put
<1>a. \A i \in DOMAIN w.writes : WriteRight(f, s, w.writes[i])
  BY DEF AllRight
<1> HIDE DEF x
<1>5. \A i \in DOMAIN Append(w.writes, x) : WriteRight(f, s, Append(w.writes, x)[i])
  BY <1>1, <1>3, <1>a
<1> QED
  BY <1>2, <1>4, <1>5, <1>a DEF AllRight

(* A piece that sits at x, put near x, is right there; behind it the       *)
(* position is near the end of the piece.                                  *)
LEMMA PieceRight ==
  ASSUME NEW f \in DOMAIN Catalog, NEW s \in Nat, NEW w, AllRight(f, s, w), NEW x \in Nat,
         Near(f, s, w, x), NEW p \in Pieces, Sits(f, x, p), NEW n \in {p.phys, p.len}
  PROVE  AllRight(f, s, Put(w, p, n)) /\ Near(f, s, Put(w, p, n), x + p.len)
<1>1. /\ w.pos \in Nat /\ w.pos >= s /\ w \in Outputs
      /\ p.phys \in Nat /\ p.len \in Nat /\ p.phys <= p.len /\ n \in Nat /\ n <= p.len
  BY DEF AllRight, Outputs, Pieces
<1>2. Catalog[f].phys \in Nat
  <2>1. Catalog[f] \in FileRecords
    BY CatalogAssumption
  <2> QED
    BY <2>1 DEF FileRecords
<1>3. Right(f, w.pos - s, p, n)
  <2> SUFFICES ASSUME NEW k \in 0..(n - 1)
               PROVE  PieceByte(p, k) = FileByte(f, (w.pos - s) + k)
    BY DEF Right
  <2>1. k \in 0..(p.len - 1)
    BY <1>1
  <2>2. PieceByte(p, k) = FileByte(f, x + k)
    BY <2>1 DEF Sits, Right
  <2>3. CASE w.pos - s = x
    BY <2>2, <2>3
  <2>4. CASE w.pos - s >= Catalog[f].phys /\ x >= Catalog[f].phys
    <3>1. ~(x + k < Catalog[f].phys) /\ ~((w.pos - s) + k < Catalog[f].phys)
      BY <1>1, <1>2, <2>1, <2>4
    <3> QED
      BY <2>2, <3>1 DEF FileByte
  <2> QED
    BY <2>3, <2>4 DEF Near
<1>4. AllRight(f, s, Put(w, p, n))
  BY <1>1, <1>3, PutRight
<1>5. Put(w, p, n).pos = w.pos + n
  BY <1>1, PutType
<1>6. Near(f, s, Put(w, p, n), x + p.len)
  BY <1>1, <1>2, <1>5 DEF Near, Sits
<1> QED
  BY <1>4, <1>6

(* The byte at o of an output that is right is the file's.                 *)
LEMMA RightByte ==
  ASSUME NEW f, NEW s \in Nat, NEW w, AllRight(f, s, w), NEW o \in Nat, Covering(w, o) # {}
  PROVE  Byte(w, o) = FileByte(f, o - s)
<1>1. w.writes \in Seq(Writes) /\ Len(w.writes) \in Nat
  BY DEF AllRight, Outputs
<1> DEFINE C == Covering(w, o)
           m == Max(C)
           x == w.writes[m]
<1>2. C \in SUBSET (0..Len(w.writes))
  BY <1>1 DEF Covering
<1>3. m \in C
  <2> HIDE DEF C
  <2> QED
    BY <1>1, <1>2, MaxInSet DEF C
<1>4. m \in DOMAIN w.writes /\ o \in x.at..(x.at + x.n - 1)
  BY <1>3 DEF Covering
<1>5. x \in Writes /\ WriteRight(f, s, x)
  BY <1>1, <1>4 DEF AllRight
<1>6. x.at \in Nat /\ x.n \in Nat /\ x.at >= s
  BY <1>5 DEF Writes, WriteRight
<1>7. o - x.at \in 0..(x.n - 1)
  BY <1>4, <1>6
<1>8. PieceByte(x.from, o - x.at) = FileByte(f, (x.at - s) + (o - x.at))
  BY <1>5, <1>7 DEF WriteRight, Right
<1>9. (x.at - s) + (o - x.at) = o - s
  BY <1>6
<1>10. Byte(w, o) = PieceByte(x.from, o - x.at)
  BY DEF Byte
<1> QED
  BY <1>8, <1>9, <1>10

(* After one more write the bytes it covers are its, and the others are    *)
(* what they were.                                                         *)
LEMMA PutByte ==
  ASSUME NEW w \in Outputs, NEW p \in Pieces, NEW n \in Nat, NEW o \in Nat
  PROVE  Byte(Put(w, p, n), o)
           = IF o \in w.pos..(w.pos + n - 1) THEN PieceByte(p, o - w.pos) ELSE Byte(w, o)
<1> DEFINE x == [at |-> w.pos, from |-> p, n |-> n]
           v == Put(w, p, n)
           L == Len(w.writes)
<1>1. w.writes \in Seq(Writes) /\ L \in Nat /\ w.pos \in Nat /\ DOMAIN w.writes = 1..L
  BY DEF Outputs
<1>2. CASE n = 0
  <2>1. v.writes = w.writes /\ ~(o \in w.pos..(w.pos + n - 1))
    BY <1>1, <1>2 DEF Put
  <2>2. Covering(v, o) = Covering(w, o)
    BY <2>1 DEF Covering
  <2> HIDE DEF v
  <2> QED
    BY <2>1, <2>2 DEF Byte, v
<1>3. CASE n # 0
  <2>1. v.writes = Append(w.writes, x)
    BY <1>3 DEF Put
  <2>a. x.at = w.pos /\ x.from = p /\ x.n = n
    OBVIOUS
  <2> HIDE DEF x, v
  <2>2. /\ DOMAIN v.writes = 1..(L + 1) /\ v.writes[L + 1] = x
        /\ \A i \in 1..L : v.writes[i] = w.writes[i]
    BY <1>1, <2>1
  <2>3. Covering(w, o) \in SUBSET (0..L)
    BY <1>1 DEF Covering
  <2>4. CASE o \in w.pos..(w.pos + n - 1)
    <3> DEFINE C == Covering(v, o)
    <3>1. L + 1 \in C /\ C \in SUBSET (0..(L + 1))
      <4>1. C \subseteq DOMAIN v.writes
        BY DEF Covering
      <4>2. L + 1 \in DOMAIN v.writes /\ o \in v.writes[L + 1].at..(v.writes[L + 1].at + v.writes[L + 1].n - 1)
        BY <1>1, <2>2, <2>a, <2>4
      <4>3. L + 1 \in C
        BY <4>2 DEF Covering
      <4> HIDE DEF C
      <4> QED
        BY <1>1, <2>2, <4>1, <4>3
    <3> HIDE DEF C
    <3>2. Max(C) \in C /\ \A y \in C : y <= Max(C)
      <4>1. L + 1 \in Nat /\ C # {}
        BY <1>1, <3>1
      <4> QED
        BY <3>1, <4>1, MaxInSet
    <3>3. Max(C) = L + 1
      <4>1. Max(C) \in 0..(L + 1) /\ L + 1 <= Max(C)
        BY <3>1, <3>2
      <4> QED
        BY <1>1, <4>1
    <3>4. Byte(v, o) = PieceByte(x.from, o - x.at)
      BY <2>2, <3>1, <3>3 DEF Byte, C
    <3> QED
      BY <2>4, <2>a, <3>4 DEF v
  <2>5. CASE ~(o \in w.pos..(w.pos + n - 1))
    <3>1. Covering(v, o) = Covering(w, o)
      <4>1. L + 1 \notin Covering(v, o)
        BY <2>2, <2>a, <2>5 DEF Covering
      <4>2. \A i \in 1..L : i \in Covering(v, o) <=> i \in Covering(w, o)
        BY <1>1, <2>2 DEF Covering
      <4>3. \A i \in Covering(v, o) : i \in 1..L
        BY <1>1, <2>2, <4>1 DEF Covering
      <4>4. \A i \in Covering(w, o) : i \in 1..L
        BY <1>1 DEF Covering
      <4> QED
        BY <4>2, <4>3, <4>4
    <3>2. CASE Covering(w, o) = {}
      BY <2>5, <3>1, <3>2 DEF Byte, v
    <3>3. CASE Covering(w, o) # {}
      <4>1. Max(Covering(w, o)) \in Covering(w, o)
        <5> DEFINE C == Covering(w, o)
        <5> HIDE DEF C
        <5>1. C \in SUBSET (0..L) /\ C # {}
          BY <2>3, <3>3 DEF C
        <5>2. Max(C) \in C
          BY <1>1, <5>1, MaxInSet
        <5> QED
          BY <5>2 DEF C
      <4>2. Max(Covering(w, o)) \in 1..L
        BY <1>1, <4>1 DEF Covering
      <4>3. v.writes[Max(Covering(w, o))] = w.writes[Max(Covering(w, o))]
        BY <2>2, <4>2
      <4> QED
        BY <2>5, <3>1, <4>3 DEF Byte, v
    <3> QED
      BY <3>2, <3>3
  <2> QED
    BY <2>4, <2>5
<1> QED
  BY <1>2, <1>3

(* Structures that sit one behind the other are right, put from near the   *)
(* first of them on.                                                       *)
LEMMA StructsRight ==
  ASSUME NEW f \in DOMAIN Catalog, NEW s \in Nat, NEW w, AllRight(f, s, w),
         NEW ps \in Seq(Pieces), NEW x \in [1..(Len(ps) + 1) -> Nat], Near(f, s, w, x[1]),
         \A i \in 1..Len(ps) : Sits(f, x[i], ps[i]) /\ x[i + 1] = x[i] + ps[i].len,
         NEW o
  PROVE  AllRight(f, s, PutStructs(w, ps, o))
<1> DEFINE n == Len(ps)
<1>1. PICK g : StructsPut(w, ps, o, n, g) /\ PutStructs(w, ps, o) = g[n]
  <2>1. Len(ps) \in Nat
    OBVIOUS
  <2> QED
    BY <2>1, StructsArePut
<1> DEFINE P(k) == AllRight(f, s, g[k]) /\ Near(f, s, g[k], x[k + 1])
           T == {k \in 0..n : ~P(k)}
<1>a. n \in Nat
  OBVIOUS
<1>2. \A k \in 0..n : g[k] = IF k = 0 THEN w ELSE PutStruct(g[k - 1], ps[k], o)
  BY <1>1 DEF StructsPut
<1>3. T = {}
  <2> SUFFICES ASSUME T # {} PROVE FALSE
    OBVIOUS
  <2>1. PICK k \in T : \A j \in T : k <= j
    <3>1. T \in SUBSET Nat
      OBVIOUS
    <3> HIDE DEF T
    <3> QED
      BY <3>1, LeastExists
  <2>2. k \in 0..n /\ ~P(k)
    OBVIOUS
  <2>3. k # 0
    <3>1. g[0] = w
      BY <1>a, <1>2
    <3>2. P(0)
      BY <3>1
    <3> QED
      BY <2>2, <3>2
  <2>4. k - 1 \in 0..n /\ k \in 1..n
    BY <2>2, <2>3
  <2>5. P(k - 1)
    BY <2>1, <2>4
  <2>6. g[k] = PutStruct(g[k - 1], ps[k], o)
    BY <1>2, <2>2, <2>3
  <2>7. Near(f, s, g[k - 1], x[k])
    <3>1. (k - 1) + 1 = k
      BY <2>4
    <3> QED
      BY <2>5, <3>1
  <2>8. ps[k] \in Pieces /\ x[k] \in Nat /\ Sits(f, x[k], ps[k]) /\ x[k + 1] = x[k] + ps[k].len
    <3>1. k \in 1..Len(ps) /\ k \in 1..(Len(ps) + 1)
      BY <1>a, <2>4
    <3>2. ps[k] \in Pieces
      BY <3>1
    <3>3. x[k] \in Nat
      BY <3>1
    <3> QED
      BY <3>1, <3>2, <3>3
  <2> DEFINE m == IF o.virtualParts THEN ps[k].len ELSE ps[k].phys
  <2>9. m \in {ps[k].phys, ps[k].len}
    OBVIOUS
  <2>10. g[k] = Put(g[k - 1], ps[k], m)
    BY <2>6 DEF PutStruct
  <2> HIDE DEF m
  <2>11. AllRight(f, s, g[k]) /\ Near(f, s, g[k], x[k] + ps[k].len)
    BY <2>5, <2>7, <2>8, <2>9, <2>10, PieceRight
  <2> QED
    BY <2>2, <2>8, <2>11
<1>4. P(n)
  <2>1. n \in 0..n
    BY <1>a
  <2> QED
    BY <1>3, <2>1
<1> QED
  BY <1>1, <1>4

(* The headers of the image sit in the file.                               *)
HeadersSit(f, im) ==
  /\ Sits(f, 0, im.dos) /\ im.dos.len = DosSize
  /\ Sits(f, DosSize, im.stub)
  /\ Sits(f, im.lfanew, im.signature) /\ im.signature.len = SignatureSize
  /\ Sits(f, AtFileHeader(im), im.fileHeader) /\ im.fileHeader.len = FileHeaderSize
  /\ Sits(f, AtOptional(im), im.optional) /\ im.optional.len = MagicSize + OptionalSize
  /\ \A i \in DOMAIN im.dirs :
       /\ Sits(f, AtDirectories(im) + (i - 1) * DirectorySize, im.dirs[i])
       /\ im.dirs[i].len = DirectorySize

TableSits(f, im) ==
  \A i \in DOMAIN im.headers :
    /\ Sits(f, TableOffset(im) + (i - 1) * HeaderSize, im.headers[i].at)
    /\ im.headers[i].at.len = HeaderSize

LEMMA NextStride ==
  ASSUME NEW size \in Nat, NEW i \in Nat, NEW x \in Nat
  PROVE  /\ x + i * size \in Nat
         /\ x + (i + 1) * size = x + i * size + size
<1>1. \A a, b \in Nat : a * b \in Nat /\ (a + 1) * b = a * b + b
  OBVIOUS
<1>2. i * size \in Nat /\ (i + 1) * size = i * size + size
  BY <1>1
<1> QED
  BY <1>2

LEMMA Offsets ==
  ASSUME NEW im \in Images
  PROVE  /\ im.lfanew \in Nat /\ AtFileHeader(im) \in Nat /\ AtOptional(im) \in Nat
         /\ AtDirectories(im) \in Nat /\ TableOffset(im) \in Nat
<1>1. im.lfanew \in Nat /\ im.optionalSize \in Nat
  BY WidthAssumption DEF Images, U32
<1> QED
  BY <1>1, SizesAssumption
     DEF AtFileHeader, AtOptional, AtDirectories, TableOffset

LEMMA HeadersRight ==
  ASSUME NEW f \in DOMAIN Catalog, NEW im \in Images, HeadersSit(f, im), NEW o, o.start \in Nat
  PROVE  AllRight(f, o.start, WriteHeaders(im, o))
<1> DEFINE s == o.start
           w0 == [pos |-> s, size |-> s, writes |-> <<>>]
           w1 == PutBuffer(PutStruct(w0, im.dos, o), im.stub)
           w2 == IF w1.pos - s # im.lfanew THEN Seek(w1, s + im.lfanew) ELSE w1
           ps == <<im.signature, im.fileHeader, im.optional>> \o im.dirs
           x == [i \in 1..(Len(ps) + 1) |->
                   IF i = 1 THEN im.lfanew ELSE IF i = 2 THEN AtFileHeader(im)
                   ELSE IF i = 3 THEN AtOptional(im)
                   ELSE AtDirectories(im) + (i - 4) * DirectorySize]
<1>1. /\ im.lfanew \in Nat /\ AtFileHeader(im) \in Nat /\ AtOptional(im) \in Nat
      /\ AtDirectories(im) \in Nat
  BY Offsets
<1>a. /\ im.dos \in Pieces /\ im.stub \in Pieces /\ im.signature \in Pieces
      /\ im.fileHeader \in Pieces /\ im.optional \in Pieces /\ im.dirs \in Seq(Pieces)
  BY DEF Images
<1>b. DosSize \in Nat /\ DirectorySize \in Nat
  BY SizesAssumption
<1>2. AllRight(f, s, w0) /\ Near(f, s, w0, 0)
  <2>1. w0 \in Outputs
    BY DEF Outputs
  <2> QED
    BY <2>1 DEF AllRight, Near
<1>3. AllRight(f, s, PutStruct(w0, im.dos, o)) /\ Near(f, s, PutStruct(w0, im.dos, o), DosSize)
  <2> DEFINE n == IF o.virtualParts THEN im.dos.len ELSE im.dos.phys
  <2>1. n \in {im.dos.phys, im.dos.len}
    OBVIOUS
  <2>2. PutStruct(w0, im.dos, o) = Put(w0, im.dos, n)
    BY DEF PutStruct
  <2> HIDE DEF n, w0
  <2>3. AllRight(f, s, Put(w0, im.dos, n)) /\ Near(f, s, Put(w0, im.dos, n), 0 + im.dos.len)
    BY <1>2, <1>a, <2>1, PieceRight DEF HeadersSit
  <2> QED
    BY <1>b, <2>2, <2>3 DEF HeadersSit
<1>4. AllRight(f, s, w1)
  <2> DEFINE v == PutStruct(w0, im.dos, o)
  <2>1. w1 = Put(v, im.stub, im.stub.phys)
    BY DEF PutBuffer
  <2> HIDE DEF v, w1
  <2>2. AllRight(f, s, v) /\ Near(f, s, v, DosSize)
    BY <1>3 DEF v
  <2> QED
    BY <1>a, <1>b, <2>1, <2>2, PieceRight DEF HeadersSit
<1>5. AllRight(f, s, w2) /\ w2.pos = s + im.lfanew
  <2> HIDE DEF w1
  <2>1. w1 \in Outputs /\ w1.pos \in Nat
    BY <1>4 DEF AllRight, Outputs
  <2>2. CASE w1.pos - s # im.lfanew
    <3>1. s + im.lfanew \in Nat /\ s + im.lfanew >= s
      BY <1>1
    <3>2. AllRight(f, s, Seek(w1, s + im.lfanew)) /\ Seek(w1, s + im.lfanew).pos = s + im.lfanew
      BY <1>4, <2>1, <3>1, SeekRight, SeekType
    <3> QED
      BY <2>2, <3>2
  <2>3. CASE w1.pos - s = im.lfanew
    BY <1>1, <1>4, <2>1, <2>3
  <2> QED
    BY <2>2, <2>3
<1> HIDE DEF w2
<1>6. /\ ps \in Seq(Pieces) /\ Len(ps) = 3 + Len(im.dirs) /\ Len(im.dirs) \in Nat
      /\ ps[1] = im.signature /\ ps[2] = im.fileHeader /\ ps[3] = im.optional
      /\ \A i \in 1..Len(im.dirs) : ps[i + 3] = im.dirs[i]
  <2> DEFINE h == <<im.signature, im.fileHeader, im.optional>>
  <2>1. h \in Seq(Pieces) /\ Len(h) = 3
    BY <1>a
  <2>2. h[1] = im.signature /\ h[2] = im.fileHeader /\ h[3] = im.optional
    OBVIOUS
  <2> HIDE DEF h
  <2> DEFINE d == im.dirs
  <2>a. d \in Seq(Pieces) /\ Len(d) \in Nat /\ ps = h \o d
    BY <1>a DEF h
  <2> HIDE DEF d, ps
  <2>3. /\ ps \in Seq(Pieces) /\ Len(ps) = Len(h) + Len(d)
        /\ \A i \in 1..(Len(h) + Len(d)) : ps[i] = IF i <= Len(h) THEN h[i] ELSE d[i - Len(h)]
    BY <2>1, <2>a, ConcatProperties
  <2>4. \A i \in 1..3 : ps[i] = h[i]
    BY <2>1, <2>a, <2>3
  <2>5. ASSUME NEW i \in 1..Len(d)
        PROVE  ps[i + 3] = d[i]
    <3>1. i + 3 \in 1..(Len(h) + Len(d)) /\ ~(i + 3 <= Len(h)) /\ (i + 3) - Len(h) = i
      BY <2>1, <2>a
    <3> QED
      BY <2>3, <3>1
  <2> QED
    BY <2>1, <2>2, <2>3, <2>4, <2>5, <2>a DEF d
<1> HIDE DEF ps
<1>7. x \in [1..(Len(ps) + 1) -> Nat]
  <2>1. ASSUME NEW i \in 1..(Len(ps) + 1), i > 3
        PROVE  AtDirectories(im) + (i - 4) * DirectorySize \in Nat
    <3>1. i - 4 \in Nat
      BY <1>6, <2>1
    <3> QED
      BY <1>1, <1>b, <3>1, NextStride
  <2>2. \A i \in 1..(Len(ps) + 1) : i \in Int
    BY <1>6
  <2>3. ASSUME NEW i \in 1..(Len(ps) + 1)
        PROVE  x[i] \in Nat
    <3>1. i = 1 \/ i = 2 \/ i = 3 \/ i > 3
      BY <2>2
    <3> QED
      BY <1>1, <2>1, <3>1
  <2> QED
    BY <2>3
<1>8. Near(f, s, w2, x[1])
  <2>1. x[1] = im.lfanew
    BY <1>6
  <2> QED
    BY <1>1, <1>5, <2>1 DEF Near
<1>9. ASSUME NEW i \in 1..Len(ps)
      PROVE  Sits(f, x[i], ps[i]) /\ x[i + 1] = x[i] + ps[i].len
  <2>1. CASE i = 1
    <3>1. x[1] = im.lfanew /\ x[2] = AtFileHeader(im)
      BY <1>6
    <3> QED
      BY <1>6, <2>1, <3>1 DEF HeadersSit, AtFileHeader
  <2>2. CASE i = 2
    <3>1. x[2] = AtFileHeader(im) /\ x[3] = AtOptional(im)
      BY <1>6
    <3> QED
      BY <1>6, <2>2, <3>1 DEF HeadersSit, AtOptional
  <2>3. CASE i = 3
    <3>1. x[3] = AtOptional(im) /\ x[4] = AtDirectories(im) + (4 - 4) * DirectorySize
      BY <1>6
    <3>2. x[4] = AtDirectories(im)
      BY <1>1, <1>b, <3>1
    <3>3. AtDirectories(im) = AtOptional(im) + (MagicSize + OptionalSize)
      BY <1>1, SizesAssumption DEF AtDirectories
    <3> QED
      BY <1>6, <2>3, <3>1, <3>2, <3>3 DEF HeadersSit
  <2>4. CASE i > 3
    <3>1. i - 3 \in DOMAIN im.dirs /\ ps[i] = im.dirs[i - 3] /\ i - 4 \in Nat
      <4>1. i - 3 \in 1..Len(im.dirs) /\ (i - 3) + 3 = i
        BY <1>6, <2>4
      <4> QED
        BY <1>6, <1>a, <2>4, <4>1
    <3>2. /\ x[i] = AtDirectories(im) + (i - 4) * DirectorySize
          /\ x[i + 1] = AtDirectories(im) + ((i + 1) - 4) * DirectorySize
      BY <1>6, <2>4
    <3>3. (i - 3) - 1 = i - 4 /\ (i + 1) - 4 = (i - 4) + 1
      BY <1>6
    <3>4. /\ Sits(f, AtDirectories(im) + (i - 4) * DirectorySize, ps[i])
          /\ ps[i].len = DirectorySize
      BY <3>1, <3>3 DEF HeadersSit
    <3>5. AtDirectories(im) + ((i - 4) + 1) * DirectorySize
            = AtDirectories(im) + (i - 4) * DirectorySize + DirectorySize
      BY <1>1, <1>b, <3>1, NextStride
    <3> QED
      BY <3>2, <3>3, <3>4, <3>5
  <2> QED
    BY <1>6, <2>1, <2>2, <2>3, <2>4
<1> HIDE DEF x
<1>10. AllRight(f, s, PutStructs(w2, ps, o))
  BY <1>5, <1>6, <1>7, <1>8, <1>9, StructsRight
<1>11. WriteHeaders(im, o) = PutStructs(w2, ps, o)
  BY DEF WriteHeaders, w2, ps
<1> QED
  BY <1>10, <1>11

(* The gaps are filled with bytes of the headers' buffer, which sits at 0. *)
LEMMA GapsRight ==
  ASSUME NEW f, NEW im \in Images, NEW o, o.start \in Nat, Sits(f, 0, im.fullHeaders),
         NEW w, AllRight(f, o.start, w)
  PROVE  AllRight(f, o.start, FillGaps(w, im, o))
<1> DEFINE s == o.start
           at == w.pos - s
           p == im.fullHeaders
           n == Larger(p.phys - at, 0)
           q == [p EXCEPT !.off = @ + at, !.phys = Larger(@ - at, 0), !.len = @ - at]
<1>1. w \in Outputs /\ w.pos \in Nat /\ w.pos >= s /\ at \in Nat
  BY DEF AllRight, Outputs
<1>2. p \in Pieces /\ p.phys \in Nat /\ p.off \in Nat /\ p.len \in Nat /\ p.phys <= p.len
  BY DEF Images, Pieces
<1>3. CASE ~(o.fillGaps /\ p.len > at)
  BY <1>3 DEF FillGaps
<1>4. CASE o.fillGaps /\ p.len > at
  <2>1. /\ n \in Nat /\ n <= p.len - at /\ p.len - at \in Nat /\ p.off + at \in Nat
        /\ p.phys - at > 0 => n = p.phys - at
        /\ ~(p.phys - at > 0) => n = 0
    BY <1>1, <1>2, <1>4 DEF Larger
  <2>a. q = [p EXCEPT !.off = p.off + at, !.phys = n, !.len = p.len - at]
    OBVIOUS
  <2>b. p \in [file : 0..Len(Catalog), off : Nat, phys : Nat, len : Nat]
    BY <1>2 DEF Pieces
  <2>2. q.file = p.file /\ q.off = p.off + at /\ q.phys = n /\ q.len = p.len - at
    <3> HIDE DEF p, at, n, q
    <3> QED
      BY <2>a, <2>b
  <2>3. q \in Pieces
    <3> HIDE DEF p, at, n, q
    <3>1. q \in [file : 0..Len(Catalog), off : Nat, phys : Nat, len : Nat]
      BY <2>1, <2>a, <2>b
    <3> QED
      BY <2>1, <2>2, <3>1 DEF Pieces
  <2> HIDE DEF n, q
  <2>4. Right(f, at, q, n)
    <3> SUFFICES ASSUME NEW k \in 0..(n - 1) PROVE PieceByte(q, k) = FileByte(f, at + k)
      BY DEF Right
    <3>1. n = p.phys - at /\ k \in Nat /\ k < n
      BY <1>1, <1>2, <2>1
    <3>2. at + k \in 0..(p.len - 1) /\ at + k < p.phys
      BY <1>1, <1>2, <3>1
    <3>3. PieceByte(p, at + k) = FileByte(f, 0 + (at + k))
      BY <3>2 DEF Sits, Right
    <3>4. PieceByte(q, k) = PieceByte(p, at + k)
      BY <1>1, <1>2, <2>2, <3>1, <3>2 DEF PieceByte
    <3>5. 0 + (at + k) = at + k
      BY <1>1, <3>1
    <3> QED
      BY <3>3, <3>4, <3>5
  <2>5. AllRight(f, s, Put(w, q, n))
    BY <2>1, <2>3, <2>4, PutRight
  <2>6. FillGaps(w, im, o) = Put(w, q, n)
    BY <1>4 DEF FillGaps, PutRest, q, n
  <2> QED
    BY <2>5, <2>6
<1> QED
  BY <1>3, <1>4

LEMMA TableRight ==
  ASSUME NEW f \in DOMAIN Catalog, NEW im \in Images, TableSits(f, im), NEW o, o.start \in Nat,
         NEW w, AllRight(f, o.start, w)
  PROVE  AllRight(f, o.start,
                  PutStructs(Seek(w, o.start + TableOffset(im)),
                             [i \in DOMAIN im.headers |-> im.headers[i].at], o))
<1> DEFINE s == o.start
           v == Seek(w, s + TableOffset(im))
           ps == [i \in DOMAIN im.headers |-> im.headers[i].at]
           x == [i \in 1..(Len(ps) + 1) |-> TableOffset(im) + (i - 1) * HeaderSize]
<1>1. TableOffset(im) \in Nat /\ HeaderSize \in Nat
  BY Offsets, SizesAssumption
<1>2. AllRight(f, s, v) /\ Near(f, s, v, TableOffset(im))
  <2>1. s + TableOffset(im) \in Nat /\ s + TableOffset(im) >= s
    BY <1>1
  <2>2. v.pos = s + TableOffset(im)
    BY <2>1, SeekType DEF AllRight
  <2>3. AllRight(f, s, v)
    BY <2>1, SeekRight
  <2> HIDE DEF v
  <2> QED
    BY <1>1, <2>2, <2>3 DEF Near
<1>3. /\ ps \in Seq(Pieces) /\ Len(ps) = Len(im.headers) /\ Len(ps) \in Nat
      /\ \A i \in 1..Len(ps) : ps[i] = im.headers[i].at
  <2>1. im.headers \in Seq(HeaderEntries) /\ Len(im.headers) \in Nat
        /\ DOMAIN im.headers = 1..Len(im.headers)
    BY DEF Images
  <2>a. \A i \in 1..Len(im.headers) : im.headers[i] \in HeaderEntries
    BY <2>1
  <2>2. \A i \in 1..Len(im.headers) : im.headers[i].at \in Pieces
    BY <2>a DEF HeaderEntries
  <2> QED
    BY <2>1, <2>2
<1>4. \A i \in 1..(Len(ps) + 1) : i - 1 \in Nat /\ i \in Nat
  BY <1>3
<1>a. DOMAIN im.headers = 1..Len(ps)
  BY <1>3
<1> HIDE DEF ps, v
<1>5. x \in [1..(Len(ps) + 1) -> Nat]
  BY <1>1, <1>4, NextStride
<1>6. x[1] = TableOffset(im)
  <2>1. 1 \in 1..(Len(ps) + 1) /\ (1 - 1) * HeaderSize = 0
    BY <1>1, <1>3
  <2> QED
    BY <1>1, <2>1
<1>7. ASSUME NEW i \in 1..Len(ps)
      PROVE  Sits(f, x[i], ps[i]) /\ x[i + 1] = x[i] + ps[i].len
  <2>1. i \in DOMAIN im.headers /\ ps[i] = im.headers[i].at
    BY <1>3, <1>a
  <2>2. /\ x[i] = TableOffset(im) + (i - 1) * HeaderSize
        /\ x[i + 1] = TableOffset(im) + ((i + 1) - 1) * HeaderSize
        /\ (i + 1) - 1 = (i - 1) + 1 /\ i - 1 \in Nat
    <3>1. i \in 1..(Len(ps) + 1) /\ i + 1 \in 1..(Len(ps) + 1) /\ i \in Int
      BY <1>3
    <3>2. (i + 1) - 1 = (i - 1) + 1 /\ i - 1 \in Nat
      BY <3>1
    <3> QED
      BY <3>1, <3>2
  <2>3. TableOffset(im) + ((i - 1) + 1) * HeaderSize
          = TableOffset(im) + (i - 1) * HeaderSize + HeaderSize
    BY <1>1, <2>2, NextStride
  <2>4. /\ Sits(f, TableOffset(im) + (i - 1) * HeaderSize, ps[i])
        /\ ps[i].len = HeaderSize
    BY <2>1 DEF TableSits
  <2> QED
    BY <2>2, <2>3, <2>4
<1> HIDE DEF x
<1>8. Near(f, s, v, x[1])
  BY <1>2, <1>6
<1>9. AllRight(f, s, PutStructs(v, ps, o))
  BY <1>2, <1>3, <1>5, <1>7, <1>8, StructsRight
<1> QED
  BY <1>9 DEF v, ps

(* The sections lie where the headers say, and their data is put there.    *)
SectionAt(im, i) ==
  Pointer(im.headers[i])..(Pointer(im.headers[i]) + im.data[i].bytes.phys - 1)

LEMMA SectionPlace ==
  ASSUME NEW im \in Images, Len(im.headers) = Len(im.data), NEW i \in DOMAIN im.headers
  PROVE  /\ i \in 1..Len(im.headers) /\ i \in DOMAIN im.data
         /\ Pointer(im.headers[i]) \in Nat
         /\ im.data[i].bytes \in Pieces /\ im.data[i].bytes.phys \in Nat
<1>1. im.headers \in Seq(HeaderEntries) /\ im.data \in Seq(DataEntries) /\ im.align \in U32
  BY DEF Images
<1>2. i \in 1..Len(im.headers) /\ i \in DOMAIN im.data
  BY <1>1
<1>3. im.headers[i] \in HeaderEntries /\ im.data[i] \in DataEntries
  BY <1>1, <1>2
<1>4. Pointer(im.headers[i]) \in U32
  BY <1>1, <1>3, HeaderNumbers DEF HeaderEntries
<1>5. im.data[i].bytes \in Pieces
  BY <1>3 DEF DataEntries
<1> QED
  BY <1>2, <1>4, <1>5, WidthAssumption DEF U32, Pieces

(* One section: it is put where it lies.                                   *)
LEMMA SectionPut ==
  ASSUME NEW im \in Images, Len(im.headers) = Len(im.data), NEW i \in DOMAIN im.headers,
         NEW o, o.start \in Nat, NEW w \in Outputs
  PROVE  /\ PutSection(w, im, i, o) \in Outputs
         /\ \A b \in Nat :
              Byte(PutSection(w, im, i, o), o.start + b)
                = IF b \in SectionAt(im, i)
                  THEN PieceByte(im.data[i].bytes, b - Pointer(im.headers[i]))
                  ELSE Byte(w, o.start + b)
         /\ \A f : /\ AllRight(f, o.start, w)
                    /\ Right(f, Pointer(im.headers[i]), im.data[i].bytes, im.data[i].bytes.phys)
                    => AllRight(f, o.start, PutSection(w, im, i, o))
<1> DEFINE s == o.start
           at == Pointer(im.headers[i])
           p == im.data[i].bytes
           v == Seek(w, s + at)
<1>1. at \in Nat /\ p \in Pieces /\ p.phys \in Nat /\ s \in Nat
  BY SectionPlace
<1>2. PutSection(w, im, i, o) = Put(v, p, p.phys)
  BY DEF PutSection, PutBuffer
<1>3. SectionAt(im, i) = at..(at + p.phys - 1)
  BY DEF SectionAt
<1> HIDE DEF at, p, s
<1>b. s + at \in Nat
  BY <1>1
<1>4. v \in Outputs /\ v.pos = s + at /\ v.writes = w.writes /\ s + at \in Nat
  BY <1>b, SeekType
<1>5. Put(v, p, p.phys) \in Outputs
  BY <1>1, <1>4, PutType
<1>6. ASSUME NEW b \in Nat
      PROVE  Byte(Put(v, p, p.phys), s + b)
               = IF b \in at..(at + p.phys - 1) THEN PieceByte(p, b - at) ELSE Byte(w, s + b)
  <2>1. s + b \in Nat
    BY <1>1
  <2>2. Byte(Put(v, p, p.phys), s + b)
          = IF s + b \in v.pos..(v.pos + p.phys - 1) THEN PieceByte(p, (s + b) - v.pos)
            ELSE Byte(v, s + b)
    BY <1>1, <1>4, <2>1, PutByte
  <2>3. Byte(v, s + b) = Byte(w, s + b)
    BY <1>4 DEF Byte, Covering
  <2>4. /\ s + b \in v.pos..(v.pos + p.phys - 1) <=> b \in at..(at + p.phys - 1)
        /\ (s + b) - v.pos = b - at
    BY <1>1, <1>4
  <2> QED
    BY <2>2, <2>3, <2>4
<1>7. ASSUME NEW f, AllRight(f, s, w), Right(f, at, p, p.phys)
      PROVE  AllRight(f, s, Put(v, p, p.phys))
  <2>1. s + at >= s /\ (s + at) - s = at
    BY <1>1
  <2>2. AllRight(f, s, v)
    BY <1>1, <1>4, <1>7, <2>1, SeekRight
  <2> HIDE DEF v
  <2>3. Right(f, v.pos - s, p, p.phys)
    BY <1>4, <1>7, <2>1
  <2> QED
    BY <1>1, <2>2, <2>3, PutRight
<1> HIDE DEF v
<1> QED
  BY <1>2, <1>3, <1>5, <1>6, <1>7 DEF at, p, s

LEMMA SectionPutByte ==
  ASSUME NEW im \in Images, Len(im.headers) = Len(im.data), NEW i \in DOMAIN im.headers,
         NEW o, o.start \in Nat, NEW w \in Outputs, NEW b \in Nat
  PROVE  Byte(PutSection(w, im, i, o), o.start + b)
           = IF b \in SectionAt(im, i)
             THEN PieceByte(im.data[i].bytes, b - Pointer(im.headers[i]))
             ELSE Byte(w, o.start + b)
BY SectionPut

(* All of them: what was right stays so, when each of them is right; and   *)
(* sections that do not overlap all keep what was put.                     *)
LEMMA SectionsRight ==
  ASSUME NEW im \in Images, Len(im.headers) = Len(im.data),
         NEW o, o.start \in Nat, NEW w \in Outputs, NEW f, AllRight(f, o.start, w),
         \A i \in DOMAIN im.headers :
           Right(f, Pointer(im.headers[i]), im.data[i].bytes, im.data[i].bytes.phys)
  PROVE  AllRight(f, o.start, PutSections(w, im, o))
<1> DEFINE n == Len(im.headers)
<1>a. n \in Nat /\ DOMAIN im.headers = 1..n
  BY DEF Images
<1>1. PICK g : SectionsPut(w, im, o, n, g) /\ PutSections(w, im, o) = g[n]
  BY <1>a, SectionsArePut
<1> DEFINE P(k) == AllRight(f, o.start, g[k])
           T == {k \in 0..n : ~P(k)}
<1> HIDE DEF n
<1>2. \A k \in 0..n : g[k] = IF k = 0 THEN w ELSE PutSection(g[k - 1], im, k, o)
  BY <1>1 DEF SectionsPut
<1>3. T = {}
  <2> SUFFICES ASSUME T # {} PROVE FALSE
    OBVIOUS
  <2>1. PICK k \in T : \A j \in T : k <= j
    <3>1. T \in SUBSET Nat
      BY <1>a
    <3> HIDE DEF T
    <3> QED
      BY <3>1, LeastExists
  <2>2. k \in 0..n /\ ~P(k)
    OBVIOUS
  <2>3. k # 0
    <3>1. g[0] = w
      BY <1>a, <1>2
    <3> QED
      BY <2>2, <3>1
  <2>4. k - 1 \in 0..n /\ k \in 1..n /\ ~(k <= k - 1)
    BY <1>a, <2>2, <2>3
  <2>5. P(k - 1)
    BY <2>1, <2>4
  <2>6. g[k] = PutSection(g[k - 1], im, k, o) /\ g[k - 1] \in Outputs
    BY <1>2, <2>2, <2>3, <2>5 DEF AllRight
  <2>7. k \in DOMAIN im.headers
    BY <1>a, <2>4
  <2>8. AllRight(f, o.start, PutSection(g[k - 1], im, k, o))
    BY <2>5, <2>6, <2>7, SectionPut
  <2> QED
    BY <2>2, <2>6, <2>8
<1>4. n \in 0..n
  BY <1>a
<1> QED
  BY <1>1, <1>3, <1>4

LEMMA SectionsApart ==
  ASSUME NEW im \in Images, Len(im.headers) = Len(im.data),
         NEW o, o.start \in Nat, NEW w \in Outputs,
         \A i, j \in DOMAIN im.headers : i # j => SectionAt(im, i) \cap SectionAt(im, j) = {}
  PROVE  \A i \in DOMAIN im.headers : \A b \in SectionAt(im, i) :
           Byte(PutSections(w, im, o), o.start + b)
             = PieceByte(im.data[i].bytes, b - Pointer(im.headers[i]))
<1> DEFINE n == Len(im.headers)
           Held(v, i) == \A b \in SectionAt(im, i) :
                           Byte(v, o.start + b)
                             = PieceByte(im.data[i].bytes, b - Pointer(im.headers[i]))
<1>a. n \in Nat /\ DOMAIN im.headers = 1..n
  BY DEF Images
<1>b. \A i \in 1..n : SectionAt(im, i) \subseteq Nat
  <2> TAKE i \in 1..n
  <2>1. Pointer(im.headers[i]) \in Nat /\ im.data[i].bytes.phys \in Nat
    BY <1>a, SectionPlace
  <2> QED
    BY <2>1 DEF SectionAt
<1>1. PICK g : SectionsPut(w, im, o, n, g) /\ PutSections(w, im, o) = g[n]
  BY <1>a, SectionsArePut
<1> DEFINE P(k) == g[k] \in Outputs /\ \A i \in 1..k : Held(g[k], i)
           T == {k \in 0..n : ~P(k)}
<1> HIDE DEF n
<1>2. \A k \in 0..n : g[k] = IF k = 0 THEN w ELSE PutSection(g[k - 1], im, k, o)
  BY <1>1 DEF SectionsPut
<1>3. T = {}
  <2> SUFFICES ASSUME T # {} PROVE FALSE
    OBVIOUS
  <2>1. PICK k \in T : \A j \in T : k <= j
    <3>1. T \in SUBSET Nat
      BY <1>a
    <3> HIDE DEF T
    <3> QED
      BY <3>1, LeastExists
  <2>2. k \in 0..n /\ ~P(k)
    OBVIOUS
  <2>3. k # 0
    <3>1. g[0] = w
      BY <1>a, <1>2
    <3>2. 1..0 = {}
      OBVIOUS
    <3> QED
      BY <2>2, <3>1, <3>2
  <2>4. k - 1 \in 0..n /\ k \in 1..n /\ ~(k <= k - 1)
    BY <1>a, <2>2, <2>3
  <2>5. P(k - 1)
    <3> HIDE DEF P
    <3> QED
      BY <2>1, <2>4
  <2>6. g[k] = PutSection(g[k - 1], im, k, o) /\ g[k - 1] \in Outputs /\ k \in DOMAIN im.headers
    BY <1>2, <1>a, <2>2, <2>3, <2>4, <2>5
  <2>7. /\ g[k] \in Outputs
        /\ \A b \in Nat :
              Byte(g[k], o.start + b)
                = IF b \in SectionAt(im, k)
                  THEN PieceByte(im.data[k].bytes, b - Pointer(im.headers[k]))
                  ELSE Byte(g[k - 1], o.start + b)
    <3> DEFINE u == g[k - 1]
    <3> HIDE DEF u, T, P, Held
    <3>1. u \in Outputs /\ k \in DOMAIN im.headers /\ g[k] = PutSection(u, im, k, o)
      BY <2>6 DEF u
    <3>2. PutSection(u, im, k, o) \in Outputs
      BY <3>1, SectionPut
    <3>3. \A b \in Nat :
            Byte(PutSection(u, im, k, o), o.start + b)
              = IF b \in SectionAt(im, k)
                THEN PieceByte(im.data[k].bytes, b - Pointer(im.headers[k]))
                ELSE Byte(u, o.start + b)
      <4> TAKE b \in Nat
      <4> QED
        BY <3>1, SectionPutByte
    <3> QED
      BY <3>1, <3>2, <3>3 DEF u
  <2>8. ASSUME NEW i \in 1..k
        PROVE  Held(g[k], i)
    <3> SUFFICES ASSUME NEW b \in SectionAt(im, i)
                 PROVE  Byte(g[k], o.start + b)
                          = PieceByte(im.data[i].bytes, b - Pointer(im.headers[i]))
      OBVIOUS
    <3>1. i \in 1..n /\ b \in Nat
      <4>1. i \in 1..n
        BY <1>a, <2>4
      <4> QED
        BY <1>b, <4>1
    <3>2. CASE i = k
      BY <2>7, <3>1, <3>2
    <3>3. CASE i # k
      <4>1. b \notin SectionAt(im, k)
        BY <1>a, <2>4, <3>1, <3>3
      <4>2. i \in 1..(k - 1)
        BY <1>a, <2>4, <3>3
      <4>3. Byte(g[k - 1], o.start + b)
              = PieceByte(im.data[i].bytes, b - Pointer(im.headers[i]))
        BY <2>5, <4>2
      <4> QED
        BY <2>7, <3>1, <4>1, <4>3
    <3> QED
      BY <3>2, <3>3
  <2> HIDE DEF Held
  <2> QED
    BY <2>2, <2>7, <2>8
<1>4. n \in 0..n
  BY <1>a
<1>5. P(n)
  <2> HIDE DEF P
  <2> QED
    BY <1>3, <1>4
<1> QED
  BY <1>1, <1>5, <1>a

-----------------------------------------------------------------------------
(* What is built of an image whose structures sit in the file.             *)

ImageSits(f, im) == HeadersSit(f, im) /\ TableSits(f, im) /\ Sits(f, 0, im.fullHeaders)

LEMMA OutputRight ==
  ASSUME NEW f \in DOMAIN Catalog, NEW im \in Images, ImageSits(f, im),
         Len(im.headers) = Len(im.data), NEW o, o.start \in Nat,
         \A i \in DOMAIN im.headers :
           Right(f, Pointer(im.headers[i]), im.data[i].bytes, im.data[i].bytes.phys)
  PROVE  AllRight(f, o.start, Output(im, o))
<1> DEFINE w == FillGaps(WriteHeaders(im, o), im, o)
           t == PutStructs(Seek(w, o.start + TableOffset(im)),
                           [i \in DOMAIN im.headers |-> im.headers[i].at], o)
<1>1. AllRight(f, o.start, w)
  BY HeadersRight, GapsRight DEF ImageSits
<1>2. Output(im, o) = IF im.headers = <<>> THEN w ELSE PutSections(t, im, o)
  BY DEF Output, WriteSections
<1> HIDE DEF w
<1>3. AllRight(f, o.start, t) /\ t \in Outputs
  BY <1>1, TableRight DEF ImageSits, AllRight
<1> HIDE DEF t
<1>4. AllRight(f, o.start, PutSections(t, im, o))
  BY <1>3, SectionsRight
<1> QED
  BY <1>1, <1>2, <1>4

LEMMA OutputApart ==
  ASSUME NEW f \in DOMAIN Catalog, NEW im \in Images, ImageSits(f, im),
         Len(im.headers) = Len(im.data), NEW o, o.start \in Nat,
         \A i, j \in DOMAIN im.headers : i # j => SectionAt(im, i) \cap SectionAt(im, j) = {},
         NEW i \in DOMAIN im.headers, NEW b \in SectionAt(im, i)
  PROVE  Byte(Output(im, o), o.start + b)
           = PieceByte(im.data[i].bytes, b - Pointer(im.headers[i]))
<1> DEFINE w == FillGaps(WriteHeaders(im, o), im, o)
           t == PutStructs(Seek(w, o.start + TableOffset(im)),
                           [j \in DOMAIN im.headers |-> im.headers[j].at], o)
<1>1. AllRight(f, o.start, w)
  BY HeadersRight, GapsRight DEF ImageSits
<1>2. Output(im, o) = IF im.headers = <<>> THEN w ELSE PutSections(t, im, o)
  BY DEF Output, WriteSections
<1> HIDE DEF w
<1>3. t \in Outputs
  BY <1>1, TableRight DEF ImageSits, AllRight
<1>4. im.headers # <<>>
  OBVIOUS
<1> HIDE DEF t
<1>5. Byte(PutSections(t, im, o), o.start + b)
        = PieceByte(im.data[i].bytes, b - Pointer(im.headers[i]))
  BY <1>3, SectionsApart
<1> QED
  BY <1>2, <1>4, <1>5

(* The buffer of the headers after it was updated.                         *)
LEMMA UpdatedRight ==
  ASSUME NEW f \in DOMAIN Catalog, NEW im \in Images, ImageSits(f, im), NEW keep \in BOOLEAN
  PROVE  /\ AllRight(f, 0, UpdatedHeaders(im, keep))
         /\ UpdatedHeaders(im, keep).size = im.sizeOfHeaders
         /\ \A b \in Nat :
              keep /\ b < im.fullHeaders.phys => Covering(UpdatedHeaders(im, keep), b) # {}
<1> DEFINE o == [start |-> 0, virtualParts |-> TRUE, fillGaps |-> FALSE]
           p == im.fullHeaders
           x == [at |-> 0, from |-> p, n |-> p.phys]
           kept == IF keep THEN <<x>> ELSE <<>>
           t == PutStructs(Seek(WriteHeaders(im, o), TableOffset(im)),
                           [i \in DOMAIN im.headers |-> im.headers[i].at], o)
           u == [t EXCEPT !.writes = kept \o @, !.size = im.sizeOfHeaders]
<1>1. p \in Pieces /\ p.phys \in Nat /\ p.len \in Nat /\ p.phys <= p.len
  BY DEF Images, Pieces
<1>2. AllRight(f, 0, t)
  <2>1. o.start = 0 /\ 0 \in Nat /\ 0 + TableOffset(im) = TableOffset(im)
    BY Offsets
  <2> HIDE DEF o
  <2>2. AllRight(f, o.start, WriteHeaders(im, o))
    BY <2>1, HeadersRight DEF ImageSits
  <2>3. AllRight(f, o.start,
                 PutStructs(Seek(WriteHeaders(im, o), o.start + TableOffset(im)),
                            [i \in DOMAIN im.headers |-> im.headers[i].at], o))
    BY <2>1, <2>2, TableRight DEF ImageSits
  <2> QED
    BY <2>1, <2>3
<1>3. x \in Writes /\ WriteRight(f, 0, x) /\ x.at = 0 /\ x.n = p.phys
  <2>1. \A k \in 0..(p.phys - 1) : k \in 0..(p.len - 1)
    BY <1>1
  <2>2. Right(f, 0, p, p.phys)
    BY <2>1 DEF ImageSits, Sits, Right
  <2>3. x \in Writes
    BY <1>1 DEF Writes
  <2> QED
    BY <2>2, <2>3 DEF WriteRight
<1>a. UpdatedHeaders(im, keep) = u
  BY DEF UpdatedHeaders
<1> HIDE DEF o, x, t
<1>4. t \in Outputs /\ t.pos \in Nat /\ t.writes \in Seq(Writes)
  BY <1>2 DEF AllRight, Outputs
<1>5. /\ kept \in Seq(Writes)
      /\ \A i \in 1..Len(kept) : kept[i] = x
      /\ keep => Len(kept) = 1 /\ kept[1] = x
  <2>1. <<x>> \in Seq(Writes) /\ Len(<<x>>) = 1 /\ <<x>>[1] = x
    BY <1>3
  <2>2. <<>> \in Seq(Writes) /\ Len(<<>>) = 0
    OBVIOUS
  <2> QED
    BY <2>1, <2>2
<1> DEFINE v == kept \o t.writes
<1>6. u.writes = v /\ u.pos = t.pos /\ u.size = im.sizeOfHeaders
  BY <1>4 DEF Outputs
<1>b. im.sizeOfHeaders \in Nat
  BY WidthAssumption DEF Images, U32
<1> HIDE DEF kept
<1>7. /\ v \in Seq(Writes) /\ Len(v) = Len(kept) + Len(t.writes)
      /\ \A i \in 1..(Len(kept) + Len(t.writes)) :
           v[i] = IF i <= Len(kept) THEN kept[i] ELSE t.writes[i - Len(kept)]
  <2> DEFINE r == t.writes
  <2> HIDE DEF r
  <2>1. r \in Seq(Writes)
    BY <1>4 DEF r
  <2>2. /\ kept \o r \in Seq(Writes) /\ Len(kept \o r) = Len(kept) + Len(r)
        /\ \A i \in 1..(Len(kept) + Len(r)) :
             (kept \o r)[i] = IF i <= Len(kept) THEN kept[i] ELSE r[i - Len(kept)]
    BY <1>5, <2>1, ConcatProperties
  <2> QED
    BY <2>2 DEF r
<1>c. Len(kept) \in Nat /\ Len(t.writes) \in Nat /\ DOMAIN t.writes = 1..Len(t.writes)
  BY <1>4, <1>5
<1> HIDE DEF v
<1>8. ASSUME NEW i \in DOMAIN v
      PROVE  WriteRight(f, 0, v[i])
  <2>1. i \in 1..(Len(kept) + Len(t.writes))
    BY <1>7
  <2>2. CASE i <= Len(kept)
    <3>1. v[i] = x
      BY <1>5, <1>7, <1>c, <2>1, <2>2
    <3> QED
      BY <1>3, <3>1
  <2>3. CASE ~(i <= Len(kept))
    <3>1. i - Len(kept) \in DOMAIN t.writes /\ v[i] = t.writes[i - Len(kept)]
      BY <1>7, <1>c, <2>1, <2>3
    <3> QED
      BY <1>2, <3>1 DEF AllRight
  <2> QED
    BY <2>2, <2>3
<1>9. u \in Outputs
  BY <1>4, <1>6, <1>7, <1>b DEF Outputs, v
<1> HIDE DEF u
<1>10. AllRight(f, 0, u)
  <2>1. u.pos >= 0
    BY <1>4, <1>6
  <2> QED
    BY <1>6, <1>8, <1>9, <2>1 DEF AllRight
<1>11. ASSUME NEW b \in Nat, keep, b < p.phys
       PROVE  Covering(u, b) # {}
  <2>a. Len(kept) = 1 /\ kept[1] = x
    BY <1>5, <1>11
  <2>b. 1 \in 1..(Len(kept) + Len(t.writes)) /\ 1 <= Len(kept)
    BY <1>c, <2>a
  <2>1. 1 \in DOMAIN v /\ v[1] = x
    BY <1>7, <1>c, <2>a, <2>b
  <2>2. b \in x.at..(x.at + x.n - 1)
    BY <1>1, <1>3, <1>11
  <2>3. 1 \in Covering(u, b)
    BY <1>6, <2>1, <2>2 DEF Covering
  <2> QED
    BY <2>3
<1> QED
  BY <1>6, <1>10, <1>11, <1>a

-----------------------------------------------------------------------------
(* How a load comes to hold them.                                          *)

LEMMA WindowSits ==
  ASSUME TypeOK, cur # 0, NEW x \in Nat, NEW n \in Nat
  PROVE  /\ Sits(cur, x, Window(x, n)) /\ Window(x, n).len = n /\ Window(x, n).off = x
         /\ Right(cur, x, Window(x, n), Window(x, n).phys)
<1>1. /\ F.phys \in Nat /\ cur \in Nat /\ F = Catalog[cur]
  BY FileType DEF F
<1> DEFINE p == Window(x, n)
           m == Present(F, x, n)
<1>2. p.file = cur /\ p.off = x /\ p.phys = m /\ p.len = n
  BY DEF Window
<1>3. /\ m \in 0..n
      /\ \A k \in 0..(n - 1) : k < m <=> x + k < F.phys
      /\ m = n \/ x + m >= F.phys
  BY <1>1 DEF Present, Smaller
<1> HIDE DEF p, m
<1>4. ASSUME NEW k \in 0..(n - 1)
      PROVE  PieceByte(p, k) = FileByte(cur, x + k)
  BY <1>1, <1>2, <1>3 DEF PieceByte, FileByte
<1>5. Right(cur, x, p, p.len) /\ Right(cur, x, p, p.phys)
  <2>1. \A k \in 0..(m - 1) : k \in 0..(n - 1)
    BY <1>3
  <2> QED
    BY <1>2, <1>4, <2>1 DEF Right
<1>6. Sits(cur, x, p)
  BY <1>1, <1>2, <1>3, <1>5 DEF Sits
<1> QED
  BY <1>2, <1>5, <1>6 DEF p

(* Bytes of no file are zeros, as the file has behind its end.             *)
LEMMA ZerosSit ==
  ASSUME TypeOK, cur # 0, NEW x \in Nat, x >= F.phys, NEW p \in Pieces, p.file = 0
  PROVE  Sits(cur, x, p)
<1>1. F.phys \in Nat /\ F = Catalog[cur] /\ p.phys \in Nat /\ p.len \in Nat
  BY FileType DEF F, Pieces
<1>2. ASSUME NEW k \in 0..(p.len - 1)
      PROVE  PieceByte(p, k) = FileByte(cur, x + k)
  <2>1. ~(x + k < F.phys)
    BY <1>1
  <2> QED
    BY <1>1, <2>1 DEF PieceByte, FileByte
<1>3. x + p.phys >= Catalog[cur].phys
  BY <1>1
<1> QED
  BY <1>2, <1>3 DEF Sits, Right

LEMMA NothingSits ==
  ASSUME NEW f, NEW x
  PROVE  Sits(f, x, NoBytes)
<1>1. NoBytes.len = 0 /\ NoBytes.phys = NoBytes.len
  BY DEF NoBytes
<1>2. 0..(0 - 1) = {}
  OBVIOUS
<1> QED
  BY <1>1, <1>2 DEF Sits, Right

(* Behind the first structure of a table that is not all in the file there *)
(* is nothing of the file.                                                 *)
LEMMA BehindTheFile ==
  ASSUME TypeOK, cur # 0, NEW start \in Nat, NEW size \in Nat, NEW k \in Nat, k > 0,
         Present(F, start + (k - 1) * size, size) < size, NEW i \in Nat, i > k
  PROVE  /\ start + (i - 1) * size \in Nat
         /\ start + (i - 1) * size >= F.phys
<1> DEFINE x == start + (k - 1) * size
           c == i - 1 - k
<1>1. F.phys \in Nat
  BY FileType
<1>2. \A a, b, d \in Nat : a * d \in Nat /\ (a + b) * d = a * d + b * d
  OBVIOUS
<1>3. c \in Nat /\ k - 1 \in Nat /\ i - 1 = (k - 1) + (c + 1) /\ c + 1 \in Nat
  OBVIOUS
<1>4. /\ (k - 1) * size \in Nat /\ c * size \in Nat
      /\ ((k - 1) + (c + 1)) * size = (k - 1) * size + (c + 1) * size
      /\ (c + 1) * size = c * size + 1 * size
  BY <1>2, <1>3
<1>5. x \in Nat /\ 1 * size = size
  BY <1>4
<1>6. x + size >= F.phys
  <2>1. Present(F, x, size) < size
    OBVIOUS
  <2> HIDE DEF x
  <2> QED
    BY <1>1, <1>5, <2>1 DEF Present, Smaller
<1>7. start + (i - 1) * size = x + (c * size + size)
  BY <1>3, <1>4, <1>5
<1> QED
  BY <1>1, <1>4, <1>5, <1>6, <1>7

(* What one step leaves alone it leaves where it sits.                     *)
LEMMA SameSits ==
  ASSUME UNCHANGED <<cur, loads>>
  PROVE  /\ DosHeld /\ img'.dos = img.dos => DosHeld'
         /\ StubHeld /\ img'.stub = img.stub /\ img'.lfanew = img.lfanew => StubHeld'
         /\ SignatureHeld /\ img'.signature = img.signature /\ img'.lfanew = img.lfanew
            => SignatureHeld'
         /\ FileHeaderHeld /\ img'.fileHeader = img.fileHeader /\ img'.lfanew = img.lfanew
            => FileHeaderHeld'
         /\ OptionalHeld /\ img'.optional = img.optional /\ img'.lfanew = img.lfanew
            => OptionalHeld'
         /\ DirectoriesHeld /\ img'.dirs = img.dirs /\ img'.lfanew = img.lfanew
            => DirectoriesHeld'
         /\ TableHeld /\ img'.headers = img.headers /\ img'.lfanew = img.lfanew
            /\ img'.optionalSize = img.optionalSize => TableHeld'
<1>1. DosHeld /\ img'.dos = img.dos => DosHeld'
  BY DEF DosHeld
<1>2. StubHeld /\ img'.stub = img.stub /\ img'.lfanew = img.lfanew => StubHeld'
  BY DEF StubHeld
<1>3. SignatureHeld /\ img'.signature = img.signature /\ img'.lfanew = img.lfanew
      => SignatureHeld'
  BY DEF SignatureHeld
<1>4. FileHeaderHeld /\ img'.fileHeader = img.fileHeader /\ img'.lfanew = img.lfanew
      => FileHeaderHeld'
  BY DEF FileHeaderHeld, AtFileHeader
<1>5. OptionalHeld /\ img'.optional = img.optional /\ img'.lfanew = img.lfanew => OptionalHeld'
  BY DEF OptionalHeld, AtOptional, AtFileHeader
<1>6. DirectoriesHeld /\ img'.dirs = img.dirs /\ img'.lfanew = img.lfanew => DirectoriesHeld'
  BY DEF DirectoriesHeld, AtDirectories, AtOptional, AtFileHeader
<1>7. TableHeld /\ img'.headers = img.headers /\ img'.lfanew = img.lfanew
      /\ img'.optionalSize = img.optionalSize => TableHeld'
  BY DEF TableHeld, TableOffset
<1> QED
  BY <1>1, <1>2, <1>3, <1>4, <1>5, <1>6, <1>7

(* Which structures have been read before each step.                       *)
LEMMA Stages ==
  /\ "dos_stub" \in AfterDos /\ "dos_stub" \notin AfterStub
  /\ "signature" \in AfterStub /\ "signature" \notin AfterSignature
  /\ "file_header" \in AfterSignature /\ "file_header" \notin AfterFileHeader
  /\ "optional_header" \in AfterFileHeader /\ "optional_header" \notin AfterOptional
  /\ "directories" \in AfterOptional /\ "directories" \notin AfterDirectories
  /\ "section_table" \in AfterDirectories /\ "section_table" \notin AfterTable
  /\ "sections" \in AfterTable /\ "sections" \notin TailSteps
  /\ TailSteps \subseteq AfterTable /\ AfterTable \subseteq AfterDirectories
  /\ AfterDirectories \subseteq AfterOptional /\ AfterOptional \subseteq AfterFileHeader
  /\ AfterFileHeader \subseteq AfterSignature /\ AfterSignature \subseteq AfterStub
  /\ AfterStub \subseteq AfterDos
  /\ "dos_header" \notin AfterDos /\ "failed" \notin AfterDos /\ "idle" \notin AfterDos
  /\ HeaderSteps \cap Resting = {} /\ "sections" \notin Resting
  /\ AfterTable \cap HeaderSteps = {}
<1>1. /\ TailSteps \subseteq AfterTable /\ AfterTable \subseteq AfterDirectories
      /\ AfterDirectories \subseteq AfterOptional /\ AfterOptional \subseteq AfterFileHeader
      /\ AfterFileHeader \subseteq AfterSignature /\ AfterSignature \subseteq AfterStub
      /\ AfterStub \subseteq AfterDos
  BY DEF AfterDos, AfterStub, AfterSignature, AfterFileHeader, AfterOptional,
         AfterDirectories, AfterTable, AfterSections
<1>2. "sections" \in AfterTable /\ "sections" \notin TailSteps
  BY DEF AfterTable, TailSteps
<1>3. "section_table" \in AfterDirectories /\ "section_table" \notin AfterTable
  BY DEF AfterDirectories, AfterTable, AfterSections, TailSteps
<1>4. "directories" \in AfterOptional /\ "directories" \notin AfterDirectories
  BY DEF AfterOptional, AfterDirectories, AfterTable, AfterSections, TailSteps
<1>5. "optional_header" \in AfterFileHeader /\ "optional_header" \notin AfterOptional
  BY DEF AfterFileHeader, AfterOptional, AfterDirectories, AfterTable, AfterSections, TailSteps
<1>6. "file_header" \in AfterSignature /\ "file_header" \notin AfterFileHeader
  BY DEF AfterSignature, AfterFileHeader, AfterOptional, AfterDirectories, AfterTable,
         AfterSections, TailSteps
<1>7. "signature" \in AfterStub /\ "signature" \notin AfterSignature
  BY DEF AfterStub, AfterSignature, AfterFileHeader, AfterOptional, AfterDirectories,
         AfterTable, AfterSections, TailSteps
<1>8. /\ "dos_stub" \in AfterDos /\ "dos_stub" \notin AfterStub
      /\ "dos_header" \notin AfterDos /\ "failed" \notin AfterDos /\ "idle" \notin AfterDos
  BY DEF AfterDos, AfterStub, AfterSignature, AfterFileHeader, AfterOptional,
         AfterDirectories, AfterTable, AfterSections, TailSteps
<1>9. HeaderSteps \cap Resting = {} /\ "sections" \notin Resting
  BY DEF HeaderSteps, Resting
<1>10. AfterTable \cap HeaderSteps = {}
  BY DEF AfterTable, AfterSections, TailSteps, HeaderSteps
<1> QED
  BY <1>1, <1>2, <1>3, <1>4, <1>5, <1>6, <1>7, <1>8, <1>9, <1>10

(* The steps.  A failed load holds nothing that is built from.             *)
LEMMA FailHolds ==
  ASSUME PiecesHeld, pc' = "failed", UNCHANGED <<base, loads>>
  PROVE  PiecesHeld'
<1>1. "failed" \notin AfterDos
  BY Stages
<1>2. /\ pc' \notin AfterDos /\ pc' \notin AfterStub /\ pc' \notin AfterSignature
      /\ pc' \notin AfterFileHeader /\ pc' \notin AfterOptional /\ pc' \notin AfterDirectories
      /\ pc' \notin AfterTable
  BY <1>1, Stages
<1> QED
  BY <1>2 DEF PiecesHeld, Reached, Resting

LEMMA InitPiecesHeld == BuilderInit => PiecesHeld
<1> SUFFICES ASSUME BuilderInit PROVE PiecesHeld
  OBVIOUS
<1>1. pc = "idle" /\ img = EmptyImage /\ loads = 0
  BY DEF BuilderInit, Init
<1>2. /\ pc \notin AfterDos /\ pc \notin AfterStub /\ pc \notin AfterSignature
      /\ pc \notin AfterFileHeader /\ pc \notin AfterOptional /\ pc \notin AfterDirectories
      /\ pc \notin AfterTable
  BY <1>1, Stages
<1> QED
  BY <1>1, <1>2 DEF PiecesHeld, Reached

LEMMA BeginPiecesHeld ==
  ASSUME IInv, BuffersHeld, PiecesHeld, NEW f \in DOMAIN Catalog, NEW o \in Options, Begin(f, o)
  PROVE  PiecesHeld'
<1>1. /\ img' = [img EXCEPT !.memory = o.memory] /\ pc' = "dos_header"
      /\ base' = Len(img.data) /\ loads' = loads + 1 /\ loads \in Nat /\ img \in Images
  BY DEF Begin, IInv, TypeOK
<1>2. /\ pc' \notin AfterDos /\ pc' \notin AfterStub /\ pc' \notin AfterSignature
      /\ pc' \notin AfterFileHeader /\ pc' \notin AfterOptional /\ pc' \notin AfterDirectories
      /\ pc' \notin AfterTable
  BY <1>1, Stages
<1>3. img'.stub = img.stub /\ img'.fullHeaders = img.fullHeaders
  BY <1>1 DEF Images
<1>4. ASSUME loads' = 1
      PROVE  base' = 0 /\ img'.stub = NoBytes /\ img'.fullHeaders = NoBytes
  <2>1. pc = "idle"
    BY <1>1, <1>4 DEF BuffersHeld
  <2>2. img = EmptyImage
    BY <2>1 DEF PiecesHeld
  <2>3. img.stub = NoBytes /\ img.fullHeaders = NoBytes /\ Len(img.data) = 0
    BY <2>2 DEF EmptyImage
  <2> QED
    BY <1>1, <1>3, <2>3
<1> QED
  BY <1>1, <1>2, <1>4 DEF PiecesHeld, Reached

LEMMA DosPiecesHeld ==
  ASSUME IInv, PiecesHeld, ReadDosHeader
  PROVE  PiecesHeld'
<1> DEFINE p == Window(pos, DosSize)
           x == IF IsWhole(p) THEN F.lfanew ELSE 0
           im == [img EXCEPT !.dos = p, !.lfanew = x]
<1>1. pc = "dos_header" /\ pos = 0 /\ img \in Images
  BY DEF ReadDosHeader, IInv, Position, TypeOK
<1>2. TypeOK /\ cur # 0 /\ DosSize \in Nat
  BY <1>1, Reading
<1>3. Fail(img) \/ Fail(im) \/ Goto("dos_stub", im, pos + DosSize)
  BY DEF ReadDosHeader
<1>4. CASE Fail(img) \/ Fail(im)
  BY <1>4, FailHolds DEF Fail, Goto, local
<1>5. CASE Goto("dos_stub", im, pos + DosSize)
  <2>1. Sits(cur, 0, p) /\ p.len = DosSize
    BY <1>1, <1>2, WindowSits
  <2> HIDE DEF p, x
  <2>2. /\ pc' = "dos_stub" /\ UNCHANGED <<cur, base, loads>>
        /\ img'.dos = p /\ img'.stub = img.stub /\ img'.fullHeaders = img.fullHeaders
    BY <1>1, <1>5 DEF Goto, local, Images
  <2>3. DosHeld'
    BY <2>1, <2>2 DEF DosHeld
  <2>4. /\ pc' \notin AfterStub /\ pc' \notin AfterSignature
        /\ pc' \notin AfterFileHeader /\ pc' \notin AfterOptional /\ pc' \notin AfterDirectories
        /\ pc' \notin AfterTable /\ pc' \notin Resting
    BY <2>2, Stages DEF Resting
  <2>5. pc \notin Resting
    BY <1>1 DEF Resting
  <2> QED
    BY <1>1, <2>2, <2>3, <2>4, <2>5 DEF PiecesHeld, Reached, Resting
<1> QED
  BY <1>3, <1>4, <1>5

LEMMA StubPiecesHeld ==
  ASSUME IInv, PiecesHeld, ReadDosStub
  PROVE  PiecesHeld'
<1> DEFINE n == img.lfanew - pos
           im == [img EXCEPT !.stub = Window(pos, n)]
<1>1. pc = "dos_stub" /\ pos = DosSize /\ img \in Images
  BY DEF ReadDosStub, IInv, Position, TypeOK
<1>2. /\ TypeOK /\ cur # 0 /\ DosSize \in Nat /\ img.lfanew \in Nat
  BY <1>1, Reading, WidthAssumption DEF U32
<1>3. \/ Fail(img)
      \/ img.lfanew < DosSize /\ Goto("signature", img, img.lfanew)
      \/ ~(img.lfanew < DosSize) /\ Goto("signature", im, img.lfanew)
  BY DEF ReadDosStub
<1>a. DosHeld /\ (loads = 1 => img.stub = NoBytes)
  BY <1>1, Stages DEF PiecesHeld
<1>4. CASE Fail(img)
  BY <1>4, FailHolds DEF Fail, Goto, local
<1>5. CASE \/ img.lfanew < DosSize /\ Goto("signature", img, img.lfanew)
           \/ ~(img.lfanew < DosSize) /\ Goto("signature", im, img.lfanew)
  <2>1. /\ pc' = "signature" /\ pos' = img.lfanew /\ UNCHANGED <<cur, base, loads>>
        /\ img'.dos = img.dos /\ img'.lfanew = img.lfanew
        /\ img'.fullHeaders = img.fullHeaders
    BY <1>1, <1>5 DEF Goto, local, Images
  <2>2. DosHeld'
    BY <1>a, <2>1, SameSits
  <2>3. StubHeld'
    <3>1. CASE img.lfanew < DosSize /\ Goto("signature", img, img.lfanew)
      <4>1. img'.stub = img.stub /\ ~(img'.lfanew >= DosSize)
        BY <1>2, <3>1 DEF Goto
      <4>2. loads' = 1 => Sits(cur', DosSize, img'.stub)
        BY <1>a, <2>1, <4>1, NothingSits
      <4> QED
        BY <4>1, <4>2 DEF StubHeld
    <3>2. CASE ~(img.lfanew < DosSize) /\ Goto("signature", im, img.lfanew)
      <4>1. n \in Nat
        BY <1>1, <1>2, <3>2
      <4>2. img'.stub = Window(pos, n)
        BY <1>1, <3>2 DEF Goto, Images
      <4> HIDE DEF n
      <4>3. Sits(cur, DosSize, Window(DosSize, n))
        BY <1>2, <4>1, WindowSits
      <4> QED
        BY <1>1, <2>1, <4>2, <4>3 DEF StubHeld
    <3> QED
      BY <1>5, <3>1, <3>2
  <2>4. /\ pc' \notin AfterSignature /\ pc' \in AfterStub /\ pc' \in AfterDos
        /\ pc' \notin AfterFileHeader /\ pc' \notin AfterOptional /\ pc' \notin AfterDirectories
        /\ pc' \notin AfterTable /\ pc' \notin Resting /\ pc \notin Resting
    BY <1>1, <2>1, Stages DEF Resting
  <2> QED
    BY <1>1, <2>1, <2>2, <2>3, <2>4 DEF PiecesHeld, Reached, Resting
<1> QED
  BY <1>3, <1>4, <1>5

LEMMA SignaturePiecesHeld ==
  ASSUME IInv, PiecesHeld, ReadSignature
  PROVE  PiecesHeld'
<1> DEFINE p == Window(pos, SignatureSize)
           im == [img EXCEPT !.signature = p]
<1>1. pc = "signature" /\ img \in Images /\ pos = img.lfanew
  BY DEF ReadSignature, IInv, TypeOK, PiecesHeld, Reached
<1>2. TypeOK /\ cur # 0 /\ SignatureSize \in Nat /\ pos \in Nat
  BY <1>1, Reading
<1>3. Fail(img) \/ Fail(im) \/ Goto("file_header", im, pos + SignatureSize)
  BY DEF ReadSignature
<1>a. DosHeld /\ StubHeld
  BY <1>1, Stages DEF PiecesHeld
<1>4. CASE Fail(img) \/ Fail(im)
  BY <1>4, FailHolds DEF Fail, Goto, local
<1>5. CASE Goto("file_header", im, pos + SignatureSize)
  <2>1. Sits(cur, pos, p) /\ p.len = SignatureSize
    BY <1>2, WindowSits
  <2> HIDE DEF p
  <2>2. /\ pc' = "file_header" /\ pos' = pos + SignatureSize /\ UNCHANGED <<cur, base, loads>>
        /\ img'.dos = img.dos /\ img'.lfanew = img.lfanew /\ img'.stub = img.stub
        /\ img'.fullHeaders = img.fullHeaders /\ img'.signature = p
    BY <1>1, <1>5 DEF Goto, local, Images
  <2>3. DosHeld' /\ StubHeld'
    BY <1>a, <2>2, SameSits
  <2>4. SignatureHeld'
    BY <1>1, <2>1, <2>2 DEF SignatureHeld
  <2>5. /\ pc' \notin AfterFileHeader /\ pc' \notin AfterOptional /\ pc' \notin AfterDirectories
        /\ pc' \notin AfterTable /\ pc' \notin Resting /\ pc \notin Resting
    BY <1>1, <2>2, Stages DEF Resting
  <2> QED
    BY <1>1, <2>2, <2>3, <2>4, <2>5 DEF PiecesHeld, Reached, Resting, AtFileHeader
<1> QED
  BY <1>3, <1>4, <1>5

LEMMA FileHeaderPiecesHeld ==
  ASSUME IInv, PiecesHeld, ReadFileHeader
  PROVE  PiecesHeld'
<1> DEFINE p == Window(pos, FileHeaderSize)
           x == IF IsWhole(p) THEN F.optional ELSE 0
           im == [img EXCEPT !.fileHeader = p, !.optionalSize = x]
<1>1. pc = "file_header" /\ img \in Images /\ pos = AtFileHeader(img)
  BY DEF ReadFileHeader, IInv, TypeOK, PiecesHeld, Reached
<1>2. TypeOK /\ cur # 0 /\ FileHeaderSize \in Nat /\ pos \in Nat
  BY <1>1, Reading
<1>3. Fail(img) \/ Goto("optional_header", im, pos + FileHeaderSize)
  BY DEF ReadFileHeader
<1>a. DosHeld /\ StubHeld /\ SignatureHeld
  BY <1>1, Stages DEF PiecesHeld
<1>4. CASE Fail(img)
  BY <1>4, FailHolds DEF Fail, Goto, local
<1>5. CASE Goto("optional_header", im, pos + FileHeaderSize)
  <2>1. Sits(cur, pos, p) /\ p.len = FileHeaderSize /\ p.off = pos
    BY <1>2, WindowSits
  <2> HIDE DEF p, x
  <2>2. /\ pc' = "optional_header" /\ pos' = pos + FileHeaderSize
        /\ UNCHANGED <<cur, base, loads>>
        /\ img'.dos = img.dos /\ img'.lfanew = img.lfanew /\ img'.stub = img.stub
        /\ img'.fullHeaders = img.fullHeaders /\ img'.signature = img.signature
        /\ img'.fileHeader = p
    BY <1>1, <1>5 DEF Goto, local, Images
  <2>3. DosHeld' /\ StubHeld' /\ SignatureHeld'
    BY <1>a, <2>2, SameSits
  <2>4. AtFileHeader(img') = AtFileHeader(img) /\ AtOptional(img') = pos'
    BY <1>1, <2>2 DEF AtFileHeader, AtOptional
  <2>5. FileHeaderHeld'
    BY <1>1, <2>1, <2>2, <2>4 DEF FileHeaderHeld
  <2>6. /\ pc' \notin AfterOptional /\ pc' \notin AfterDirectories
        /\ pc' \notin AfterTable /\ pc' \notin Resting /\ pc \notin Resting
    BY <1>1, <2>2, Stages DEF Resting
  <2> QED
    BY <1>1, <2>2, <2>3, <2>4, <2>5, <2>6 DEF PiecesHeld, Reached, Resting
<1> QED
  BY <1>3, <1>4, <1>5

LEMMA OptionalPiecesHeld ==
  ASSUME IInv, PiecesHeld, ReadOptionalHeader
  PROVE  PiecesHeld'
<1> DEFINE n == MagicSize + OptionalSize
           p == Window(pos, n)
           x == IF IsWhole(p) THEN F.sizeOfHeaders ELSE 0
           y == IF IsWhole(p) THEN F.align ELSE 0
           z == IF IsWhole(p) THEN F.fileAlign ELSE 0
           reset == [img EXCEPT !.optional = Default(n), !.sizeOfHeaders = 0, !.align = 0,
                                !.fileAlign = 0]
           im == [img EXCEPT !.optional = p, !.sizeOfHeaders = x, !.align = y, !.fileAlign = z]
<1>1. pc = "optional_header" /\ img \in Images /\ pos = AtOptional(img)
  BY DEF ReadOptionalHeader, IInv, TypeOK, PiecesHeld, Reached
<1>2. TypeOK /\ cur # 0 /\ n \in Nat /\ pos \in Nat
  BY <1>1, Reading
<1>3. Fail(img) \/ Fail(reset) \/ Goto("directories", im, pos + MagicSize + OptionalSize)
  BY DEF ReadOptionalHeader
<1>a. DosHeld /\ StubHeld /\ SignatureHeld /\ FileHeaderHeld
  BY <1>1, Stages DEF PiecesHeld
<1>4. CASE Fail(img) \/ Fail(reset)
  BY <1>4, FailHolds DEF Fail, Goto, local
<1>5. CASE Goto("directories", im, pos + MagicSize + OptionalSize)
  <2>1. Sits(cur, pos, p) /\ p.len = n
    <3> HIDE DEF n
    <3> QED
      BY <1>2, WindowSits
  <2> HIDE DEF p, x, y, z
  <2>2. /\ pc' = "directories" /\ pos' = pos + MagicSize + OptionalSize
        /\ UNCHANGED <<cur, base, loads>>
        /\ img'.dos = img.dos /\ img'.lfanew = img.lfanew /\ img'.stub = img.stub
        /\ img'.fullHeaders = img.fullHeaders /\ img'.signature = img.signature
        /\ img'.fileHeader = img.fileHeader /\ img'.optional = p
    BY <1>1, <1>5 DEF Goto, local, Images
  <2>3. DosHeld' /\ StubHeld' /\ SignatureHeld' /\ FileHeaderHeld'
    BY <1>a, <2>2, SameSits
  <2>4. AtOptional(img') = AtOptional(img) /\ AtDirectories(img') = pos'
    BY <1>1, <2>2 DEF AtFileHeader, AtOptional, AtDirectories
  <2>5. OptionalHeld'
    BY <1>1, <2>1, <2>2, <2>4 DEF OptionalHeld
  <2>6. /\ pc' \notin AfterDirectories
        /\ pc' \notin AfterTable /\ pc' \notin Resting /\ pc \notin Resting
    BY <1>1, <2>2, Stages DEF Resting
  <2> QED
    BY <1>1, <2>2, <2>3, <2>4, <2>5, <2>6 DEF PiecesHeld, Reached, Resting
<1> QED
  BY <1>3, <1>4, <1>5

LEMMA DirectoriesPiecesHeld ==
  ASSUME IInv, PiecesHeld, ReadDirectories
  PROVE  PiecesHeld'
<1> DEFINE n == IF IsWhole(img.optional) THEN F.dirs ELSE 0
           Im(k) == [img EXCEPT !.dirs = Directories(n, k)]
           at == AtDirectories(img)
<1>1. pc = "directories" /\ img \in Images /\ pos = at
  BY DEF ReadDirectories, IInv, TypeOK, PiecesHeld, Reached
<1>2. TypeOK /\ cur # 0 /\ DirectorySize \in Nat /\ pos \in Nat /\ n \in Nat
  BY <1>1, Reading
<1>3. PICK k \in 0..n :
        \/ Fail(Im(k))
        \/ /\ k = n \/ StopsAt(k, DirectoryAt, DirectorySize)
           /\ Goto("section_table", Im(k), DirectoryAt(k + 1))
  BY DEF ReadDirectories
<1>a. DosHeld /\ StubHeld /\ SignatureHeld /\ FileHeaderHeld /\ OptionalHeld
  BY <1>1, Stages DEF PiecesHeld
<1>4. CASE Fail(Im(k))
  BY <1>4, FailHolds DEF Fail, Goto, local
<1>5. CASE /\ k = n \/ StopsAt(k, DirectoryAt, DirectorySize)
           /\ Goto("section_table", Im(k), DirectoryAt(k + 1))
  <2> DEFINE ds == Directories(n, k)
  <2>1. ASSUME NEW i \in 1..n
        PROVE  Sits(cur, at + (i - 1) * DirectorySize, ds[i]) /\ ds[i].len = DirectorySize
    <3>1. at + (i - 1) * DirectorySize \in Nat
      BY <1>1, <1>2, Strides
    <3>2. CASE i <= k
      <4>1. ds[i] = Window(at + (i - 1) * DirectorySize, DirectorySize)
        BY <1>1, <3>2 DEF Directories, DirectoryAt
      <4> HIDE DEF ds, at
      <4> QED
        BY <1>2, <3>1, <4>1, WindowSits
    <3>3. CASE ~(i <= k)
      <4>1. ds[i] = Default(DirectorySize)
        BY <3>3 DEF Directories
      <4>2. k # n
        BY <1>2, <3>3
      <4>3. k > 0 /\ Present(F, at + (k - 1) * DirectorySize, DirectorySize) < DirectorySize
        BY <1>1, <1>5, <4>2 DEF StopsAt, DirectoryAt
      <4>4. at \in Nat /\ k \in Nat /\ i \in Nat /\ i > k
        BY <1>1, <1>2, <3>3
      <4> HIDE DEF ds, at, n
      <4>5. at + (i - 1) * DirectorySize >= F.phys
        BY <1>2, <4>3, <4>4, BehindTheFile
      <4>6. /\ Default(DirectorySize) \in Pieces /\ Default(DirectorySize).file = 0
            /\ Default(DirectorySize).len = DirectorySize
        BY <1>2, DefaultGood DEF Good, Default
      <4> QED
        BY <1>2, <3>1, <4>1, <4>5, <4>6, ZerosSit
    <3> QED
      BY <3>2, <3>3
  <2>a. DOMAIN ds = 1..n
    BY DEF Directories
  <2> HIDE DEF ds, n
  <2>2. /\ pc' = "section_table" /\ UNCHANGED <<cur, base, loads>>
        /\ img'.dos = img.dos /\ img'.lfanew = img.lfanew /\ img'.stub = img.stub
        /\ img'.fullHeaders = img.fullHeaders /\ img'.signature = img.signature
        /\ img'.fileHeader = img.fileHeader /\ img'.optional = img.optional
        /\ img'.dirs = ds
    BY <1>1, <1>5 DEF Goto, local, Images, ds
  <2>3. DosHeld' /\ StubHeld' /\ SignatureHeld' /\ FileHeaderHeld' /\ OptionalHeld'
    BY <1>a, <2>2, SameSits
  <2>4. AtDirectories(img') = at
    BY <2>2 DEF AtFileHeader, AtOptional, AtDirectories
  <2>5. DirectoriesHeld'
    <3> HIDE DEF at
    <3> QED
      BY <2>1, <2>2, <2>4, <2>a DEF DirectoriesHeld
  <2>6. pc' \notin AfterTable /\ pc' \notin Resting /\ pc \notin Resting
    BY <1>1, <2>2, Stages DEF Resting
  <2> QED
    BY <1>1, <2>2, <2>3, <2>5, <2>6 DEF PiecesHeld, Reached, Resting
<1> QED
  BY <1>3, <1>4, <1>5

LEMMA UnreadHeaderIs ==
  UnreadHeader.at \in Pieces /\ UnreadHeader.at.file = 0 /\ UnreadHeader.at.len = HeaderSize
<1>1. UnreadHeader.at = [NoBytes EXCEPT !.len = HeaderSize]
  BY DEF UnreadHeader, EmptyHeader
<1>2. UnreadHeader.at \in Pieces
  BY EmptyHeaderType DEF HeaderEntries
<1> QED
  BY <1>1, <1>2 DEF NoBytes

LEMMA TablePiecesHeld ==
  ASSUME IInv, PiecesHeld, ReadSectionTable
  PROVE  PiecesHeld'
<1> DEFINE n == IF IsWhole(img.fileHeader) THEN Len(F.sections) ELSE 0
           With(hs) == [img EXCEPT !.headers = hs]
           at == TableOffset(img)
<1>1. pc = "section_table" /\ img \in Images
  BY DEF ReadSectionTable, IInv, TypeOK
<1>2. TypeOK /\ cur # 0 /\ HeaderSize \in Nat /\ n \in Nat
  BY <1>1, Reading
<1>a. /\ DosHeld /\ StubHeld /\ SignatureHeld /\ FileHeaderHeld /\ OptionalHeld
      /\ DirectoriesHeld
  BY <1>1, Stages DEF PiecesHeld
<1>b. at = TableStart /\ at \in Nat
  <2>1. at \in Nat
    BY <1>1, Offsets
  <2> QED
    BY <1>a, <2>1 DEF FileHeaderHeld, AtFileHeader, TableOffset, TableStart
<1>3. \/ Fail(img)
      \/ \E k \in 0..n :
           \/ Fail(With(Append(Table(k, k), EmptyHeader)))
           \/ /\ k = n \/ StopsAt(k, HeaderAt, HeaderSize)
              /\ Goto("sections", With(Table(k, n)), HeaderAt(k + 1))
  BY DEF ReadSectionTable
<1>4. CASE Fail(img) \/ \E k \in 0..n : Fail(With(Append(Table(k, k), EmptyHeader)))
  BY <1>4, FailHolds DEF Fail, Goto, local
<1>5. ASSUME NEW k \in 0..n, k = n \/ StopsAt(k, HeaderAt, HeaderSize),
             Goto("sections", With(Table(k, n)), HeaderAt(k + 1))
      PROVE  PiecesHeld'
  <2> DEFINE hs == Table(k, n)
  <2>1. ASSUME NEW i \in 1..n
        PROVE  Sits(cur, at + (i - 1) * HeaderSize, hs[i].at) /\ hs[i].at.len = HeaderSize
    <3>1. at + (i - 1) * HeaderSize \in Nat
      BY <1>2, <1>b, Strides
    <3>2. CASE i <= k
      <4>1. hs[i].at = Window(at + (i - 1) * HeaderSize, HeaderSize)
        BY <1>b, <3>2 DEF Table, ReadHeader, HeaderAt
      <4> HIDE DEF hs, at
      <4> QED
        BY <1>2, <3>1, <4>1, WindowSits
    <3>3. CASE ~(i <= k)
      <4>1. hs[i].at = UnreadHeader.at
        BY <3>3 DEF Table
      <4>2. k # n
        BY <1>2, <3>3
      <4>3. k > 0 /\ Present(F, at + (k - 1) * HeaderSize, HeaderSize) < HeaderSize
        BY <1>5, <1>b, <4>2 DEF StopsAt, HeaderAt
      <4>4. k \in Nat /\ i \in Nat /\ i > k
        BY <1>2, <3>3
      <4> HIDE DEF hs, at, n
      <4>5. at + (i - 1) * HeaderSize >= F.phys
        BY <1>2, <1>b, <4>3, <4>4, BehindTheFile
      <4> QED
        BY <1>2, <3>1, <4>1, <4>5, UnreadHeaderIs, ZerosSit
    <3> QED
      BY <3>2, <3>3
  <2>a. DOMAIN hs = 1..n
    BY DEF Table
  <2> HIDE DEF hs, n
  <2>2. /\ pc' = "sections" /\ UNCHANGED <<cur, base, loads>>
        /\ img'.dos = img.dos /\ img'.lfanew = img.lfanew /\ img'.stub = img.stub
        /\ img'.fullHeaders = img.fullHeaders /\ img'.signature = img.signature
        /\ img'.fileHeader = img.fileHeader /\ img'.optional = img.optional
        /\ img'.dirs = img.dirs /\ img'.optionalSize = img.optionalSize
        /\ img'.data = img.data /\ img'.headers = hs
    BY <1>1, <1>5 DEF Goto, local, Images, hs
  <2>3. /\ DosHeld' /\ StubHeld' /\ SignatureHeld' /\ FileHeaderHeld' /\ OptionalHeld'
        /\ DirectoriesHeld'
    BY <1>a, <2>2, SameSits
  <2>4. TableOffset(img') = at
    BY <2>2 DEF TableOffset
  <2>5. TableHeld'
    <3> HIDE DEF at
    <3> QED
      BY <2>1, <2>2, <2>4, <2>a DEF TableHeld
  <2>6. DataHeld'
    <3>1. Len(img.data) = base /\ \A i \in DOMAIN img.data : ~(i > Len(img.data))
      BY <1>1, IInvImage DEF IInv, Pairing, HeaderSteps
    <3> QED
      BY <2>2, <3>1 DEF DataHeld
  <2>7. pc' \notin Resting /\ pc \notin Resting
    BY <1>1, <2>2, Stages DEF Resting
  <2> QED
    BY <1>1, <2>2, <2>3, <2>5, <2>6, <2>7 DEF PiecesHeld, Reached, Resting
<1> QED
  BY <1>3, <1>4, <1>5

(* Behind the section table the headers stay.                              *)
HeadersStay ==
  /\ img'.dos = img.dos /\ img'.lfanew = img.lfanew /\ img'.stub = img.stub
  /\ img'.signature = img.signature
  /\ img'.fileHeader = img.fileHeader /\ img'.optional = img.optional
  /\ img'.dirs = img.dirs /\ img'.optionalSize = img.optionalSize
  /\ img'.headers = img.headers /\ img'.memory = img.memory

LEMMA LaterStepHolds ==
  ASSUME IInv, PiecesHeld, pc \in AfterTable, pc' \in AfterTable, pc # "loaded",
         UNCHANGED <<cur, base, loads>>,
         HeadersStay, DataHeld',
         IF pc' = "loaded" THEN FullHeadersKnown' => Sits(cur', 0, img'.fullHeaders)
         ELSE img'.fullHeaders = img.fullHeaders
  PROVE  PiecesHeld'
<1>1. /\ img'.dos = img.dos /\ img'.lfanew = img.lfanew /\ img'.stub = img.stub
      /\ img'.signature = img.signature
      /\ img'.fileHeader = img.fileHeader /\ img'.optional = img.optional
      /\ img'.dirs = img.dirs /\ img'.optionalSize = img.optionalSize
      /\ img'.headers = img.headers
  BY DEF HeadersStay
<1>a. loads = 1 => img.fullHeaders = NoBytes
  <2>1. pc # "idle" /\ pc # "failed"
    BY Stages
  <2> QED
    BY <2>1 DEF PiecesHeld, Resting
<1>2. /\ DosHeld /\ StubHeld /\ SignatureHeld /\ FileHeaderHeld /\ OptionalHeld
      /\ DirectoriesHeld /\ TableHeld
  BY Stages DEF PiecesHeld
<1>3. /\ DosHeld' /\ StubHeld' /\ SignatureHeld' /\ FileHeaderHeld' /\ OptionalHeld'
      /\ DirectoriesHeld' /\ TableHeld'
  BY <1>1, <1>2, SameSits
<1>4. /\ pc' \notin HeaderSteps /\ pc' # "idle" /\ pc' # "failed"
  BY Stages
<1>5. pc' \notin {"signature", "file_header", "optional_header", "directories", "dos_header",
                  "dos_stub"}
  BY <1>4 DEF HeaderSteps
<1> QED
  BY <1>1, <1>3, <1>4, <1>5, <1>a DEF PiecesHeld, Reached, Resting

LEMMA SameData ==
  ASSUME UNCHANGED <<cur, base>>, HeadersStay, img'.data = img.data, DataHeld
  PROVE  DataHeld'
<1> SUFFICES ASSUME NEW j \in DOMAIN img'.data, j > base
             PROVE  Right(cur, SectionSource(img.headers[j - base]), img'.data[j].bytes,
                          img'.data[j].bytes.phys)
  BY DEF DataHeld, HeadersStay, SectionSource
<1> QED
  BY DEF DataHeld

LEMMA SectionPiecesHeld ==
  ASSUME IInv, PiecesHeld, LoadSection
  PROVE  PiecesHeld'
<1> DEFINE i == Len(img.data) - base + 1
           h == img.headers[i]
           Entry(bytes) == [img EXCEPT !.data = Append(@, [bytes |-> bytes, file |-> cur, index |-> i])]
<1>1. pc = "sections" /\ img \in Images /\ opt.sections /\ i <= Len(img.headers)
  BY DEF LoadSection, IInv, TypeOK
<1>2. /\ TypeOK /\ cur # 0 /\ base \in Nat /\ base <= Len(img.data)
      /\ img.data \in Seq(DataEntries) /\ Len(img.data) \in Nat
      /\ img.headers \in Seq(HeaderEntries) /\ Len(img.headers) \in Nat
  BY <1>1, Reading, IInvImage DEF IInv, TypeOK, Pairing
<1>3. PICK bytes, w : /\ bytes \in {SectionBytes(h), NoBytes}
                      /\ Proceed("sections", Entry(bytes), w)
  <2>1. \/ Proceed("sections", Entry(SectionBytes(h)), {})
        \/ Proceed("sections", Entry(NoBytes), {"section_data"})
    BY DEF LoadSection
  <2> HIDE DEF Entry, h
  <2> QED
    BY <2>1
<1>4. i \in DOMAIN img.headers
  BY <1>1, <1>2
<1>5. Right(cur, SectionSource(h), bytes, bytes.phys)
  <2>1. CASE bytes = NoBytes
    <3>1. 0..(0 - 1) = {} /\ NoBytes.phys = 0
      BY DEF NoBytes
    <3> QED
      BY <2>1, <3>1 DEF Right
  <2>2. CASE bytes = SectionBytes(h)
    <3> DEFINE x == SectionSource(h)
               n == RawSize(h, img.align)
               v == Window(x, n)
    <3>1. x \in Nat /\ n \in Nat
      <4>1. /\ n \in U32 /\ Pointer(h) \in U32 /\ h.va \in U32
        <5>1. h \in HeaderEntries /\ img.align \in U32
          BY <1>1, <1>2, <1>4 DEF Images
        <5> QED
          BY <5>1, HeaderNumbers DEF HeaderEntries
      <4> QED
        BY <4>1, WidthAssumption DEF SectionSource, U32
    <3> HIDE DEF x, n
    <3>2. Right(cur, x, v, v.phys)
      BY <1>2, <3>1, WindowSits
    <3>3. bytes.file = v.file /\ bytes.off = v.off /\ bytes.phys = v.phys
      BY <2>2 DEF SectionBytes, Window, x, n
    <3> HIDE DEF v
    <3>4. Right(cur, x, bytes, bytes.phys)
      BY <3>2, <3>3 DEF Right, PieceByte
    <3> QED
      BY <3>4 DEF x
  <2> QED
    BY <1>3, <2>1, <2>2
<1> DEFINE e == [bytes |-> bytes, file |-> cur, index |-> i]
<1>6. /\ pc' = "sections" /\ UNCHANGED <<cur, base, loads>>
      /\ HeadersStay /\ img'.fullHeaders = img.fullHeaders
      /\ img'.data = Append(img.data, e)
  BY <1>1, <1>3 DEF Proceed, local, Images, HeadersStay
<1>7. DataHeld'
  <2> HIDE DEF e
  <2>1. \A g : SectionSource(g)' = SectionSource(g)
    BY <1>6 DEF SectionSource, HeadersStay
  <2> SUFFICES ASSUME NEW j \in DOMAIN img'.data, j > base
               PROVE  Right(cur, SectionSource(img.headers[j - base]), img'.data[j].bytes,
                            img'.data[j].bytes.phys)
    BY <1>6 DEF DataHeld, HeadersStay, SectionSource
  <2>2. CASE j \in DOMAIN img.data
    <3>1. img'.data[j] = img.data[j]
      BY <1>2, <1>6, <2>2
    <3>2. DataHeld
      BY <1>1, Stages DEF PiecesHeld
    <3> QED
      BY <2>2, <3>1, <3>2 DEF DataHeld
  <2>3. CASE j \notin DOMAIN img.data
    <3>1. j = Len(img.data) + 1
      BY <1>2, <1>6, <2>3
    <3>2. img'.data[j] = e /\ j - base = i
      BY <1>2, <1>6, <3>1
    <3> QED
      BY <1>5, <3>2 DEF e
  <2> QED
    BY <2>2, <2>3
<1>8. pc \in AfterTable /\ pc' \in AfterTable /\ pc # "loaded" /\ pc' # "loaded"
  BY <1>1, <1>6, Stages
<1> QED
  BY <1>6, <1>7, <1>8, LaterStepHolds

LEMMA TailPiecesHeld ==
  ASSUME IInv, PiecesHeld, SectionsLoaded \/ LoadFullSections \/ LoadOverlay
  PROVE  PiecesHeld'
<1>1. img \in Images
  BY DEF IInv, TypeOK
<1>2. /\ pc \in {"sections", "full_sections", "overlay"}
      /\ pc' \in {"full_sections", "overlay", "full_headers"}
      /\ UNCHANGED <<cur, base, loads>>
      /\ HeadersStay /\ img'.fullHeaders = img.fullHeaders /\ img'.data = img.data
  <2>1. CASE SectionsLoaded
    BY <2>1 DEF SectionsLoaded, Proceed, local, HeadersStay
  <2>2. CASE LoadFullSections
    BY <1>1, <2>2 DEF LoadFullSections, Proceed, local, Images, HeadersStay
  <2>3. CASE LoadOverlay
    BY <1>1, <2>3 DEF LoadOverlay, Proceed, local, Images, HeadersStay
  <2> QED
    BY <2>1, <2>2, <2>3
<1>3. pc \in AfterTable /\ pc' \in AfterTable /\ pc # "loaded" /\ pc' # "loaded"
  BY <1>2 DEF AfterTable, AfterSections, TailSteps
<1>4. DataHeld'
  BY <1>2, <1>3, SameData DEF PiecesHeld
<1> QED
  BY <1>2, <1>3, <1>4, LaterStepHolds

LEMMA LoadedPiecesHeld ==
  ASSUME IInv, PiecesHeld, LoadFullHeaders
  PROVE  PiecesHeld'
<1> DEFINE n == FullHeadersSize
           im == [img EXCEPT !.fullHeaders = Window(0, n)]
<1>1. pc = "full_headers" /\ img \in Images
  BY DEF LoadFullHeaders, IInv, TypeOK
<1>2. /\ TypeOK /\ cur # 0 /\ TotalSize(F) \in Nat
      /\ img.align \in U32 /\ img.sizeOfHeaders \in U32 /\ U32 \subseteq Nat
  BY <1>1, Placing
<1>3. n \in Nat
  <2>1. HasSingleBit(img.align) => AlignUpIfSafe(img.sizeOfHeaders, img.align) \in Nat
    BY <1>2, AlignedType
  <2>2. Mapped # {} => FirstOffset \in Nat
    BY <1>1, MappedBounds
  <2> QED
    BY <1>2, <2>1, <2>2 DEF FullHeadersSize, Smaller
<1> HIDE DEF n
<1>4. \/ ~opt.buffers /\ Proceed("loaded", img, {})
      \/ Proceed("loaded", im, {})
      \/ Proceed("loaded", img, {"full_headers"})
  BY DEF LoadFullHeaders, n
<1>5. /\ pc' = "loaded" /\ UNCHANGED <<cur, opt, base, loads>>
      /\ HeadersStay /\ img'.data = img.data
  BY <1>1, <1>4 DEF Proceed, local, Images, HeadersStay
<1>6. pc \in AfterTable /\ pc' \in AfterTable /\ pc # "loaded"
  BY <1>1, <1>5 DEF AfterTable, AfterSections, TailSteps
<1>7. DataHeld'
  BY <1>5, <1>6, SameData DEF PiecesHeld
<1>8. loads = 1 => img.fullHeaders = NoBytes
  BY <1>1 DEF PiecesHeld, Resting
<1>9. FullHeadersKnown' => Sits(cur', 0, img'.fullHeaders)
  <2>1. CASE ~opt.buffers /\ Proceed("loaded", img, {})
    <3>1. img'.fullHeaders = img.fullHeaders
      BY <2>1 DEF Proceed
    <3>2. FullHeadersKnown' => loads = 1
      BY <1>5, <2>1 DEF FullHeadersKnown
    <3> QED
      BY <1>8, <3>1, <3>2, NothingSits
  <2>2. CASE Proceed("loaded", im, {})
    <3>1. img'.fullHeaders = Window(0, n)
      BY <1>1, <2>2 DEF Proceed, Images
    <3>2. Sits(cur, 0, Window(0, n))
      BY <1>2, <1>3, WindowSits
    <3> QED
      BY <1>5, <3>1, <3>2
  <2>3. CASE Proceed("loaded", img, {"full_headers"})
    <3>1. img'.fullHeaders = img.fullHeaders /\ "full_headers" \in warned'
      BY <2>3 DEF Proceed
    <3>2. FullHeadersKnown' => loads = 1
      BY <1>5, <3>1 DEF FullHeadersKnown
    <3> QED
      BY <1>8, <3>1, <3>2, NothingSits
  <2> QED
    BY <1>4, <2>1, <2>2, <2>3
<1> QED
  BY <1>5, <1>6, <1>7, <1>9, LaterStepHolds

LEMMA StepPiecesHeld ==
  IInv /\ BuffersHeld /\ PiecesHeld /\ [Next]_vars => PiecesHeld'
<1> SUFFICES ASSUME IInv, BuffersHeld, PiecesHeld, [Next]_vars PROVE PiecesHeld'
  OBVIOUS
<1>1. CASE \E f \in DOMAIN Catalog, o \in Options : Begin(f, o)
  BY <1>1, BeginPiecesHeld
<1>2. CASE Load
  BY <1>2, DosPiecesHeld, StubPiecesHeld, SignaturePiecesHeld, FileHeaderPiecesHeld,
     OptionalPiecesHeld, DirectoriesPiecesHeld, TablePiecesHeld, SectionPiecesHeld,
     TailPiecesHeld, LoadedPiecesHeld
     DEF Load
<1>3. CASE UNCHANGED loadVars
  <2>1. UNCHANGED <<img, pc, cur, opt, pos, base, warned, loads>>
    BY <1>3 DEF loadVars
  <2>2. DosHeld' = DosHeld /\ StubHeld' = StubHeld /\ SignatureHeld' = SignatureHeld
    BY <2>1 DEF DosHeld, StubHeld, SignatureHeld
  <2>3. FileHeaderHeld' = FileHeaderHeld /\ OptionalHeld' = OptionalHeld
    BY <2>1 DEF FileHeaderHeld, OptionalHeld
  <2>4. DirectoriesHeld' = DirectoriesHeld /\ TableHeld' = TableHeld
    BY <2>1 DEF DirectoriesHeld, TableHeld
  <2>5. DataHeld' = DataHeld
    BY <2>1 DEF DataHeld, SectionSource
  <2>6. Reached' = Reached /\ FullHeadersKnown' = FullHeadersKnown
    BY <2>1 DEF Reached, FullHeadersKnown
  <2> QED
    BY <2>1, <2>2, <2>3, <2>4, <2>5, <2>6 DEF PiecesHeld
<1> QED
  BY <1>1, <1>2, <1>3 DEF Next, Build, vars

(* What was built last is the output of the image as it is: each load      *)
(* that begins forgets it.                                                 *)
LEMMA StepBuiltHeld == IInv /\ BuiltHeld /\ [Next]_vars => BuiltHeld'
<1> SUFFICES ASSUME IInv, BuiltHeld, [Next]_vars PROVE BuiltHeld'
  OBVIOUS
<1>1. CASE built' = Unbuilt
  BY <1>1 DEF BuiltHeld, Unbuilt
<1>2. CASE Load /\ UNCHANGED <<out, built>>
  <2>1. pc \notin Resting
    <3>1. pc \in HeaderSteps \cup {"sections", "full_sections", "overlay", "full_headers"}
      BY <1>2 DEF Load, ReadDosHeader, ReadDosStub, ReadSignature, ReadFileHeader,
         ReadOptionalHeader, ReadDirectories, ReadSectionTable, LoadSection, SectionsLoaded,
         LoadFullSections, LoadOverlay, LoadFullHeaders, HeaderSteps
    <3> QED
      BY <3>1 DEF HeaderSteps, Resting
  <2>2. built.result = "none"
    BY <2>1 DEF IInv, Pairing
  <2> QED
    BY <1>2, <2>2 DEF BuiltHeld
<1>3. ASSUME NEW o \in Builds, Build(o)
      PROVE  BuiltHeld'
  <2>1. UNCHANGED <<img, pc>> /\ pc \in Resting
    BY <1>3 DEF Build, loadVars, Resting
  <2>2. \/ built'.result # "ok"
        \/ out' = Output(img, o) /\ built'.by = o
    BY <1>3 DEF Build
  <2> QED
    BY <2>1, <2>2 DEF BuiltHeld
<1>4. CASE UNCHANGED vars
  BY <1>4 DEF BuiltHeld, vars, loadVars
<1> QED
  BY <1>1, <1>2, <1>3, <1>4 DEF Next

(* For every file, every choice of options and every image that one        *)
(* successful load filled, image_builder::build writes no byte that is not *)
(* the file's at that offset, whichever structures, gaps and sections      *)
(* overlap; it puts the sections of an image dumped from memory back to    *)
(* their places in a file; and the updated buffer of the headers holds     *)
(* what it was loaded with.                                                *)
THEOREM BuildsRoundTrip == Spec => []RoundTrip
<1>1. BuilderInit => IInv /\ BuffersHeld /\ PiecesHeld /\ BuiltHeld
  <2>1. BuilderInit => BuiltHeld
    BY DEF BuilderInit, BuiltHeld, Unbuilt
  <2> QED
    BY <2>1, InitIInv, InitBuffersHeld, InitPiecesHeld
<1>2. IInv /\ BuffersHeld /\ PiecesHeld /\ BuiltHeld /\ [Next]_vars
        => IInv' /\ BuffersHeld' /\ PiecesHeld' /\ BuiltHeld'
  BY StepIInv, StepBuffersHeld, StepPiecesHeld, StepBuiltHeld
<1>3. IInv /\ PiecesHeld /\ BuiltHeld => RoundTrip
  <2> SUFFICES ASSUME IInv, PiecesHeld, BuiltHeld, BuiltFromLoad
               PROVE  /\ HeadersKept
                      /\ IF img.memory THEN Unmapped
                         ELSE \A o \in Start..(out.size - 1) :
                                Covering(out, o) # {} => Byte(out, o) = FileByte(cur, o - Start)
    BY DEF RoundTrip
  <2> DEFINE by == built.by
  <2>1. /\ built.result = "ok" /\ pc = "loaded" /\ pc # "idle"
        /\ by.start \in Nat /\ out = Output(img, by) /\ Start = by.start
    BY BuildsAssumption DEF BuiltFromLoad, BuiltHeld, Start
  <2>2. img \in Images /\ cur \in DOMAIN Catalog /\ TypeOK /\ cur # 0
    BY <2>1, Reading, FileType, CatalogAssumption DEF IInv, TypeOK
  <2>3. base = 0 /\ Len(img.headers) = Len(img.data)
    <3>1. Len(img.headers) = Len(img.data) /\ base \in Nat /\ Len(img.data) \in Nat
      BY <2>1, IInvImage DEF IInv, TypeOK, Pairing
    <3>2. CASE loads = 1
      BY <3>1, <3>2 DEF PiecesHeld
    <3>3. CASE opt.sections
      <4>1. Len(img.data) - base = Len(img.headers)
        BY <2>1, <3>3 DEF IInv, Pairing, TailSteps
      <4> QED
        BY <3>1, <4>1
    <3> QED
      BY <3>2, <3>3, <3>1 DEF BuiltFromLoad
  <2>4. ImageSits(cur, img)
    <3>1. pc \in AfterTable
      BY <2>1, Stages DEF TailSteps
    <3>2. /\ DosHeld /\ StubHeld /\ SignatureHeld /\ FileHeaderHeld /\ OptionalHeld
          /\ DirectoriesHeld /\ TableHeld
      BY <3>1, Stages DEF PiecesHeld
    <3>3. Sits(cur, DosSize, img.stub)
      BY <3>2 DEF StubHeld, BuiltFromLoad
    <3>4. HeadersSit(cur, img)
      BY <3>2, <3>3
         DEF HeadersSit, DosHeld, SignatureHeld, FileHeaderHeld, OptionalHeld, DirectoriesHeld
    <3>5. TableSits(cur, img)
      BY <3>2 DEF TableSits, TableHeld
    <3>6. Sits(cur, 0, img.fullHeaders)
      BY <2>1 DEF PiecesHeld, FullHeadersKnown, BuiltFromLoad
    <3> QED
      BY <3>4, <3>5, <3>6 DEF ImageSits
  <2>5. ASSUME NEW i \in DOMAIN img.headers
        PROVE  Right(cur, SectionSource(img.headers[i]), img.data[i].bytes,
                     img.data[i].bytes.phys)
    <3>1. DataHeld
      BY <2>1, Stages DEF PiecesHeld, TailSteps
    <3>2. i \in DOMAIN img.data /\ i > base /\ i - base = i
      <4>1. i \in 1..Len(img.headers) /\ i \in DOMAIN img.data
        BY <2>2, <2>3, SectionPlace
      <4> QED
        BY <2>3, <4>1
    <3> QED
      BY <3>1, <3>2 DEF DataHeld
  <2> HIDE DEF by
  <2>6. HeadersKept
    <3> SUFFICES ASSUME NEW keepGapData \in BOOLEAN,
                        NEW o \in 0..(UpdatedHeaders(img, keepGapData).size - 1),
                        \/ Covering(UpdatedHeaders(img, keepGapData), o) # {}
                        \/ keepGapData /\ o < img.fullHeaders.phys
                 PROVE  Byte(UpdatedHeaders(img, keepGapData), o) = FileByte(cur, o)
      BY DEF HeadersKept
    <3> DEFINE w == UpdatedHeaders(img, keepGapData)
    <3> HIDE DEF w
    <3>1. /\ AllRight(cur, 0, w) /\ w.size \in Nat
          /\ \A b \in Nat : keepGapData /\ b < img.fullHeaders.phys => Covering(w, b) # {}
      <4>1. img.sizeOfHeaders \in Nat
        BY <2>2, WidthAssumption DEF Images, U32
      <4> QED
        BY <2>2, <2>4, <4>1, UpdatedRight DEF w
    <3>2. o \in Nat /\ o - 0 = o
      BY <3>1 DEF w
    <3>3. Covering(w, o) # {}
      BY <3>1, <3>2 DEF w
    <3>4. Byte(w, o) = FileByte(cur, o - 0)
      BY <3>1, <3>2, <3>3, RightByte
    <3> QED
      BY <3>2, <3>4 DEF w
  <2>7. CASE img.memory
    <3> SUFFICES ASSUME \A i, j \in DOMAIN img.data :
                          i # j => SectionAt(img, i) \cap SectionAt(img, j) = {},
                        NEW i \in DOMAIN img.data, NEW o \in SectionAt(img, i)
                 PROVE  Byte(out, Start + o)
                          = FileByte(cur, img.headers[i].va + o - Pointer(img.headers[i]))
      BY <2>6, <2>7 DEF Unmapped, SectionAt
    <3> DEFINE at == Pointer(img.headers[i])
               va == img.headers[i].va
               p == img.data[i].bytes
    <3>1. DOMAIN img.data = DOMAIN img.headers
      BY <2>2, <2>3 DEF Images
    <3>2. Byte(Output(img, by), by.start + o) = PieceByte(p, o - at)
      BY <2>1, <2>2, <2>3, <2>4, <3>1, OutputApart
    <3>3. SectionSource(img.headers[i]) = va
      BY <2>7 DEF SectionSource
    <3>4. at \in Nat /\ va \in Nat /\ p.phys \in Nat
      <4>1. img.headers[i] \in HeaderEntries
        BY <2>2, <3>1 DEF Images
      <4> QED
        BY <2>2, <2>3, <3>1, <4>1, SectionPlace, WidthAssumption DEF HeaderEntries, U32
    <3>5. Right(cur, va, p, p.phys)
      BY <2>5, <3>1, <3>3
    <3>6. o \in at..(at + p.phys - 1)
      BY DEF SectionAt
    <3> HIDE DEF at, va, p
    <3>7. o - at \in 0..(p.phys - 1) /\ va + (o - at) = va + o - at
      BY <3>4, <3>6
    <3>8. PieceByte(p, o - at) = FileByte(cur, va + (o - at))
      BY <3>5, <3>7 DEF Right
    <3> QED
      BY <2>1, <3>2, <3>7, <3>8 DEF at, va, p
  <2>8. CASE ~img.memory
    <3>1. \A i \in DOMAIN img.headers :
            Right(cur, Pointer(img.headers[i]), img.data[i].bytes, img.data[i].bytes.phys)
      BY <2>5, <2>8 DEF SectionSource
    <3>2. AllRight(cur, by.start, out)
      BY <2>1, <2>2, <2>3, <2>4, <3>1, OutputRight
    <3>3. out.size \in Int
      BY <3>2 DEF AllRight, Outputs
    <3>4. ASSUME NEW o \in Start..(out.size - 1), Covering(out, o) # {}
          PROVE  Byte(out, o) = FileByte(cur, o - Start)
      <4>1. o \in Nat
        BY <2>1, <3>3
      <4> QED
        BY <2>1, <3>2, <3>4, <4>1, RightByte
    <3> QED
      BY <2>6, <2>8, <3>4
  <2> QED
    BY <2>7, <2>8
<1> QED
  BY <1>1, <1>2, <1>3, PTL DEF Spec

=============================================================================
