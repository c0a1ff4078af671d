---------------------------- MODULE ImageLoader ----------------------------
(***************************************************************************)
(* image_loader::load: an image is filled in from a file, structure by     *)
(* structure.  Any read may throw, which leaves the image as far as it     *)
(* got; a caller may load again into the same image object.                *)
(*                                                                         *)
(* Bytes are told apart by where they come from: a piece is a run of len   *)
(* bytes of a file from off on, of which only the first phys are in the    *)
(* file; the others are virtual and read as zero (input_virtual_buffer).   *)
(* File 0 stands for the zeros of a default-constructed structure.         *)
(***************************************************************************)
EXTENDS SectionGeometry, FiniteSetsExt

CONSTANTS
  Catalog,   \* the files: what each holds where
  Options,   \* the image_load_options tried
  DosSize, SignatureSize, FileHeaderSize,           \* packed sizes
  MagicSize, OptionalSize, DirectorySize, HeaderSize,
  MaxLoads   \* bound: how many loads of one object may be of a file, with options

FileRecords ==
  [phys : Nat, virt : Nat, stream : BOOLEAN, bad : {"none", "dos", "signature", "magic"},
   lfanew : U32, optional : U32, dirs : Nat, sections : Seq(SectionHeaders),
   sizeOfHeaders : U32, align : U32, fileAlign : U32]

LoadOptions ==
  [memory : BOOLEAN, virtualHeaders : BOOLEAN, validate : BOOLEAN, eager : BOOLEAN,
   sections : BOOLEAN, buffers : BOOLEAN, overlay : BOOLEAN]

ASSUME CatalogAssumption ==
  /\ Catalog \in Seq(FileRecords)
  /\ Options \subseteq LoadOptions

ASSUME SizesAssumption ==
  /\ DosSize \in Nat /\ SignatureSize \in Nat /\ FileHeaderSize \in Nat
  /\ MagicSize \in Nat /\ OptionalSize \in Nat /\ DirectorySize \in Nat
  /\ HeaderSize \in Nat

ASSUME BoundAssumption == MaxLoads \in [(DOMAIN Catalog) \X Options -> Nat]

VARIABLES
  img,     \* the image object
  pc,      \* the structure load is about to read
  cur,     \* the file it reads, an index of Catalog
  opt,     \* its options
  pos,     \* the read position of the stateful wrapper
  base,    \* history: the section data entries the image had before this load
  warned,  \* what the loader's own warnings are about
  loads    \* calls of load so far

local == <<cur, opt, base, loads>>
loadVars == <<img, pc, cur, opt, pos, base, warned, loads>>

Steps == {"idle", "dos_header", "dos_stub", "signature", "file_header", "optional_header",
          "directories", "section_table", "sections", "full_sections", "overlay",
          "full_headers", "loaded", "failed"}

Pieces == {p \in [file : 0..Len(Catalog), off : Nat, phys : Nat, len : Nat] : p.phys <= p.len}

HeaderEntries == [va : U32, vs : U32, raw : U32, ptr : U32, at : Pieces]

DataEntries == [bytes : Pieces, file : 0..Len(Catalog), index : Nat]

Images ==
  [memory : BOOLEAN, lfanew : U32, optionalSize : U32, sizeOfHeaders : U32, align : U32,
   fileAlign : U32, dos : Pieces, stub : Pieces, signature : Pieces, fileHeader : Pieces,
   optional : Pieces, dirs : Seq(Pieces), headers : Seq(HeaderEntries),
   data : Seq(DataEntries), fullSections : Pieces, overlay : Pieces, fullHeaders : Pieces]

NoBytes == [file |-> 0, off |-> 0, phys |-> 0, len |-> 0]

Default(n) == [file |-> 0, off |-> 0, phys |-> n, len |-> n]

EmptyHeader == [va |-> 0, vs |-> 0, raw |-> 0, ptr |-> 0, at |-> Default(HeaderSize)]

EmptyImage ==
  [memory |-> FALSE, lfanew |-> 0, optionalSize |-> 0, sizeOfHeaders |-> 0, align |-> 0,
   fileAlign |-> 0, dos |-> Default(DosSize), stub |-> NoBytes,
   signature |-> Default(SignatureSize), fileHeader |-> Default(FileHeaderSize),
   optional |-> Default(MagicSize + OptionalSize), dirs |-> <<>>, headers |-> <<>>,
   data |-> <<>>, fullSections |-> NoBytes, overlay |-> NoBytes, fullHeaders |-> NoBytes]

-----------------------------------------------------------------------------
(* Reading.                                                                *)

F == Catalog[cur]

TotalSize(f) == f.phys + f.virt

(* Faulty: bytes past the end of the file counted as physical.             *)
PresentUnclamped(f, off, n) == IF off >= f.phys THEN 0 ELSE f.phys - off

(* Faulty: virtual bytes counted as physical.                              *)
PresentTotal(f, off, n) == IF off >= TotalSize(f) THEN 0 ELSE Smaller(n, TotalSize(f) - off)

(* How many of the n bytes at off are in the file.                         *)
Present(f, off, n) == IF off >= f.phys THEN 0 ELSE Smaller(n, f.phys - off)

Fits(off, n) == off + n <= TotalSize(F)

Window(off, n) == [file |-> cur, off |-> off, phys |-> Present(F, off, n), len |-> n]

IsWhole(p) == p.phys = p.len

(* packed_struct::deserialize throws past the end, and on a partly virtual *)
(* structure unless allow_virtual_headers is set; a stream may always fail.*)
CanRead(off, n) == Fits(off, n) /\ (opt.virtualHeaders \/ Present(F, off, n) = n)

CanFail(off, n) == F.stream \/ ~CanRead(off, n)

Goto(step, im, p) ==
  /\ img' = im /\ pc' = step /\ pos' = p
  /\ UNCHANGED <<local, warned>>

Fail(im) == Goto("failed", im, pos)

(* Load on with a warning, or without.                                     *)
Proceed(step, im, warnings) ==
  /\ img' = im /\ pc' = step /\ warned' = warned \cup warnings
  /\ UNCHANGED <<local, pos>>

-----------------------------------------------------------------------------
(* The headers.  A field reads as zero when the structure it ends is not   *)
(* all in the file.                                                        *)

Init ==
  /\ img = EmptyImage /\ pc = "idle" /\ cur = 0 /\ pos = 0
  /\ opt \in Options /\ base = 0 /\ warned = {} /\ loads = 0

Begin(f, o) ==
  /\ pc \in {"idle", "loaded", "failed"}
  /\ loads < MaxLoads[f, o] /\ (loads > 0 => loads < MaxLoads[cur, opt])
  /\ img' = [img EXCEPT !.memory = o.memory]
  /\ pc' = "dos_header" /\ cur' = f /\ opt' = o /\ pos' = 0
  /\ base' = Len(img.data) /\ warned' = {} /\ loads' = loads + 1

ReadDosHeader ==
  /\ pc = "dos_header"
  /\ \/ CanFail(pos, DosSize) /\ Fail(img)
     \/ /\ CanRead(pos, DosSize)
        /\ LET p == Window(pos, DosSize)
               im == [img EXCEPT !.dos = p, !.lfanew = IF IsWhole(p) THEN F.lfanew ELSE 0]
           IN  IF opt.validate /\ F.bad = "dos" THEN Fail(im)
               ELSE Goto("dos_stub", im, pos + DosSize)

(* A new header inside the DOS header leaves no stub, and the one the      *)
(* image had stays.                                                        *)
ReadDosStub ==
  /\ pc = "dos_stub"
  /\ IF img.lfanew < DosSize
     THEN IF img.lfanew <= TotalSize(F) THEN Goto("signature", img, img.lfanew) ELSE Fail(img)
     ELSE LET n == img.lfanew - pos
          IN  \/ Fits(pos, n) /\ Goto("signature", [img EXCEPT !.stub = Window(pos, n)], img.lfanew)
              \/ (~Fits(pos, n) \/ (opt.eager /\ F.stream)) /\ Fail(img)

ReadSignature ==
  /\ pc = "signature"
  /\ \/ CanFail(pos, SignatureSize) /\ Fail(img)
     \/ /\ CanRead(pos, SignatureSize)
        /\ LET im == [img EXCEPT !.signature = Window(pos, SignatureSize)]
           IN  IF opt.validate /\ F.bad = "signature" THEN Fail(im)
               ELSE Goto("file_header", im, pos + SignatureSize)

ReadFileHeader ==
  /\ pc = "file_header"
  /\ \/ CanFail(pos, FileHeaderSize) /\ Fail(img)
     \/ /\ CanRead(pos, FileHeaderSize)
        /\ LET p == Window(pos, FileHeaderSize)
           IN  Goto("optional_header",
                    [img EXCEPT !.fileHeader = p,
                                !.optionalSize = IF IsWhole(p) THEN F.optional ELSE 0],
                    pos + FileHeaderSize)

(* The magic says which header to read, so it must be in the file; then    *)
(* the header is reset before it is read.                                  *)
ReadOptionalHeader ==
  LET body == pos + MagicSize
      reset == [img EXCEPT !.optional = Default(MagicSize + OptionalSize),
                           !.sizeOfHeaders = 0, !.align = 0, !.fileAlign = 0]
      magicRead == Fits(pos, MagicSize) /\ Present(F, pos, MagicSize) = MagicSize
  IN
  /\ pc = "optional_header"
  /\ \/ (F.stream \/ ~magicRead \/ F.bad = "magic") /\ Fail(img)
     \/ magicRead /\ F.bad # "magic" /\ CanFail(body, OptionalSize) /\ Fail(reset)
     \/ /\ magicRead /\ F.bad # "magic" /\ CanRead(body, OptionalSize)
        /\ LET p == Window(pos, MagicSize + OptionalSize)
               whole == IsWhole(p)
           IN  Goto("directories",
                    [img EXCEPT !.optional = p,
                                !.sizeOfHeaders = IF whole THEN F.sizeOfHeaders ELSE 0,
                                !.align = IF whole THEN F.align ELSE 0,
                                !.fileAlign = IF whole THEN F.fileAlign ELSE 0],
                    body + OptionalSize)

(* data_directories::deserialize stops at the first directory that is not  *)
(* all in the file; the ones behind it stay default-constructed.           *)
DirectoryAt(i) == pos + (i - 1) * DirectorySize

Directories(n, k) ==
  [i \in 1..n |-> IF i <= k THEN Window(DirectoryAt(i), DirectorySize)
                  ELSE Default(DirectorySize)]

(* n structures of the given size are read one by one up to the k-th, and  *)
(* the last of those is the first that is not all in the file, if any is.  *)
ReadUpTo(k, At(_), size) ==
  \A i \in 1..k : /\ CanRead(At(i), size)
                  /\ Present(F, At(i), size) < size => i = k

StopsAt(k, At(_), size) == k > 0 /\ Present(F, At(k), size) < size

ReadDirectories ==
  LET n == IF IsWhole(img.optional) THEN F.dirs ELSE 0 IN
  /\ pc = "directories"
  /\ \E k \in 0..n :
       LET im == [img EXCEPT !.dirs = Directories(n, k)]
           stopped == StopsAt(k, DirectoryAt, DirectorySize)
       IN
       /\ ReadUpTo(k, DirectoryAt, DirectorySize)
       /\ \/ k < n /\ ~stopped /\ CanFail(DirectoryAt(k + 1), DirectorySize) /\ Fail(im)
          \/ (k = n \/ stopped) /\ Goto("section_table", im, DirectoryAt(k + 1))

TableStart == img.fileHeader.off + FileHeaderSize + img.optionalSize

HeaderAt(i) == TableStart + (i - 1) * HeaderSize

ReadHeader(i) ==
  LET p == Window(HeaderAt(i), HeaderSize)
      h == IF IsWhole(p) THEN F.sections[i] ELSE EmptyHeader
  IN  [va |-> h.va, vs |-> h.vs, raw |-> h.raw, ptr |-> h.ptr, at |-> p]

UnreadHeader == [EmptyHeader EXCEPT !.at = [NoBytes EXCEPT !.len = HeaderSize]]

Table(k, n) == [i \in 1..n |-> IF i <= k THEN ReadHeader(i) ELSE UnreadHeader]

(* section_table::deserialize: the headers of the last file go first; from *)
(* the first one that is not all in the file the rest are empty.           *)
ReadSectionTable ==
  LET n == IF IsWhole(img.fileHeader) THEN Len(F.sections) ELSE 0 IN
  /\ pc = "section_table"
  /\ \/ TableStart > TotalSize(F) /\ Fail(img)
     \/ /\ TableStart <= TotalSize(F)
        /\ \E k \in 0..n :
             LET stopped == StopsAt(k, HeaderAt, HeaderSize) IN
             /\ ReadUpTo(k, HeaderAt, HeaderSize)
             /\ \/ /\ k < n /\ ~stopped /\ CanFail(HeaderAt(k + 1), HeaderSize)
                   /\ Fail([img EXCEPT !.headers = Append(Table(k, k), EmptyHeader)])
                \/ /\ k = n \/ stopped
                   /\ Goto("sections", [img EXCEPT !.headers = Table(k, n)], HeaderAt(k + 1))

-----------------------------------------------------------------------------
(* What the headers describe.                                              *)

SectionSource(h) == IF img.memory THEN h.va ELSE Pointer(h)

SectionBytes(h) ==
  [Window(SectionSource(h), RawSize(h, img.align)) EXCEPT !.len = VirtualSize(h, img.align)]

(* One turn of the loop over the headers: emplace_back comes before        *)
(* deserialize, so a section whose data cannot be read keeps an entry.     *)
LoadSection ==
  LET i == Len(img.data) - base + 1
      h == img.headers[i]
      Entry(bytes) == [img EXCEPT !.data = Append(@, [bytes |-> bytes, file |-> cur, index |-> i])]
      fits == Fits(SectionSource(h), RawSize(h, img.align))
  IN
  /\ pc = "sections" /\ opt.sections
  /\ i <= Len(img.headers)
  /\ \/ fits /\ Proceed("sections", Entry(SectionBytes(h)), {})
     \/ /\ ~fits \/ (opt.eager /\ F.stream)
        /\ Proceed("sections", Entry(NoBytes), {"section_data"})

SectionsLoaded ==
  /\ pc = "sections"
  /\ opt.sections => Len(img.data) - base >= Len(img.headers)
  /\ Proceed("full_sections", img, {})

Mapped == {h \in {img.headers[i] : i \in DOMAIN img.headers} : Pointer(h) # 0}

FirstOffset == Min({Pointer(h) : h \in Mapped})

LastOffset == Max({Pointer(h) + RawSize(h, img.align) : h \in Mapped})

LoadFullSections ==
  LET n == LastOffset - FirstOffset IN
  /\ pc = "full_sections"
  /\ IF ~opt.buffers \/ Mapped = {} THEN Proceed("overlay", img, {})
     ELSE \/ /\ Fits(FirstOffset, n)
             /\ Proceed("overlay", [img EXCEPT !.fullSections = Window(FirstOffset, n)], {})
          \/ /\ ~Fits(FirstOffset, n) \/ (opt.eager /\ F.stream)
             /\ Proceed("overlay", img, {"full_sections"})

(* section_table::get_raw_data_end_offset                                  *)
RawDataEnd ==
  Max({0} \cup {Pointer(h) + RawSize(h, img.align) :
                   h \in {g \in {img.headers[i] : i \in DOMAIN img.headers} : g.ptr # 0}})

OverlayStart == Larger(RawDataEnd, img.sizeOfHeaders)

LoadOverlay ==
  LET n == TotalSize(F) - OverlayStart IN
  /\ pc = "overlay"
  /\ IF ~opt.overlay \/ opt.memory \/ n <= 0 THEN Proceed("full_headers", img, {})
     ELSE \/ Proceed("full_headers", [img EXCEPT !.overlay = Window(OverlayStart, n)], {})
          \/ /\ opt.eager /\ F.stream
             /\ Proceed("full_headers", img, {"overlay"})

(* Faulty: as if no section's data could start within them.                *)
FullHeadersUncapped ==
  Smaller(TotalSize(F), IF HasSingleBit(img.align) THEN AlignUpIfSafe(img.sizeOfHeaders, img.align)
                        ELSE img.sizeOfHeaders)

(* Up to the first byte of a section in the file.                          *)
FullHeadersSize ==
  LET aligned == IF HasSingleBit(img.align) THEN AlignUpIfSafe(img.sizeOfHeaders, img.align)
                 ELSE img.sizeOfHeaders
  IN  Smaller(TotalSize(F),
              IF Mapped = {} THEN img.sizeOfHeaders ELSE Smaller(aligned, FirstOffset))

LoadFullHeaders ==
  /\ pc = "full_headers"
  /\ IF ~opt.buffers THEN Proceed("loaded", img, {})
     ELSE \/ Proceed("loaded", [img EXCEPT !.fullHeaders = Window(0, FullHeadersSize)], {})
          \/ /\ opt.eager /\ F.stream
             /\ Proceed("loaded", img, {"full_headers"})

Load ==
  \/ ReadDosHeader \/ ReadDosStub \/ ReadSignature \/ ReadFileHeader
  \/ ReadOptionalHeader \/ ReadDirectories \/ ReadSectionTable
  \/ LoadSection \/ SectionsLoaded \/ LoadFullSections \/ LoadOverlay \/ LoadFullHeaders

LoadNext == (\E f \in DOMAIN Catalog, o \in Options : Begin(f, o)) \/ Load

-----------------------------------------------------------------------------
(* Every run of bytes of the image is one, no more of them physical than   *)
(* there are, and header fields are 32-bit numbers.                        *)
TypeOK ==
  /\ img \in Images
  /\ pc \in Steps
  /\ cur \in 0..Len(Catalog)
  /\ cur = 0 => pc = "idle"
  /\ opt \in LoadOptions
  /\ pos \in Nat /\ base \in Nat /\ loads \in Nat

Inside(p) == p.file # 0 => p.phys = 0 \/ p.off + p.phys <= Catalog[p.file].phys

AllInside(im) ==
  /\ Inside(im.dos) /\ Inside(im.stub) /\ Inside(im.signature) /\ Inside(im.fileHeader)
  /\ Inside(im.optional)
  /\ Inside(im.fullSections) /\ Inside(im.overlay) /\ Inside(im.fullHeaders)
  /\ \A i \in DOMAIN im.dirs : Inside(im.dirs[i])
  /\ \A i \in DOMAIN im.headers : Inside(im.headers[i].at)
  /\ \A i \in DOMAIN im.data : Inside(im.data[i].bytes)

(* Wherever a load stopped and whatever the headers say, the physical      *)
(* bytes of every piece are bytes its file has: reading any of them later  *)
(* cannot run past the end of the caller's buffer.                         *)
PiecesInside == AllInside(img)

=============================================================================
