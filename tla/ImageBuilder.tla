---------------------------- MODULE ImageBuilder ----------------------------
(***************************************************************************)
(* image_builder::build writes an image to an output buffer, from the      *)
(* write position the buffer has.  The output is the list of writes made:  *)
(* at a position, n bytes of a piece.  Positions never written to are the  *)
(* zeros output_memory_buffer is resized with.                             *)
(***************************************************************************)
EXTENDS ImageLoader

CONSTANTS
  Builds  \* the start positions and image_builder_options tried

ASSUME BuildsAssumption ==
  Builds \subseteq [start : Nat, virtualParts : BOOLEAN, fillGaps : BOOLEAN]

VARIABLES
  out,    \* the output of the last build: its writes and size
  built   \* "none", "refused", or "ok", and with which options

vars == <<loadVars, out, built>>

NoOutput == [pos |-> 0, size |-> 0, writes |-> <<>>]

Unbuilt ==
  [result |-> "none", by |-> [start |-> 0, virtualParts |-> FALSE, fillGaps |-> FALSE]]

-----------------------------------------------------------------------------
(* output_memory_buffer: both calls may grow the buffer.                   *)

Seek(w, at) == [w EXCEPT !.pos = at, !.size = Larger(@, at)]

Put(w, p, n) ==
  [pos |-> w.pos + n, size |-> Larger(w.size, w.pos + n),
   writes |-> IF n = 0 THEN w.writes ELSE Append(w.writes, [at |-> w.pos, from |-> p, n |-> n])]

(* packed_struct::serialize                                                *)
PutStruct(w, p, o) == Put(w, p, IF o.virtualParts THEN p.len ELSE p.phys)

PutStructs(w, ps, o) ==
  LET after[k \in 0..Len(ps)] == IF k = 0 THEN w ELSE PutStruct(after[k - 1], ps[k], o)
  IN  after[Len(ps)]

(* ref_buffer::serialize writes no virtual bytes.                          *)
PutBuffer(w, p) == Put(w, p, p.phys)

(* ref_buffer::serialize_until, from an offset on.                         *)
PutRest(w, p, offset) ==
  Put(w, [p EXCEPT !.off = @ + offset, !.phys = Larger(@ - offset, 0), !.len = @ - offset],
      Larger(p.phys - offset, 0))

-----------------------------------------------------------------------------
(* image_builder::build                                                    *)

WriteHeaders(im, o) ==
  LET w0 == [pos |-> o.start, size |-> o.start, writes |-> <<>>]
      w1 == PutBuffer(PutStruct(w0, im.dos, o), im.stub)
      w2 == IF w1.pos - o.start # im.lfanew THEN Seek(w1, o.start + im.lfanew) ELSE w1
  IN  PutStructs(w2, <<im.signature, im.fileHeader, im.optional>> \o im.dirs, o)

(* Faulty: the gap is filled from the start of the headers.                *)
FillGapsFromStart(w, im, o) ==
  IF o.fillGaps /\ im.fullHeaders.len > w.pos - o.start THEN PutRest(w, im.fullHeaders, 0) ELSE w

FillGaps(w, im, o) ==
  LET written == w.pos - o.start
  IN  IF o.fillGaps /\ im.fullHeaders.len > written THEN PutRest(w, im.fullHeaders, written)
      ELSE w

TableOffset(im) == im.lfanew + SignatureSize + FileHeaderSize + im.optionalSize

PutSection(w, im, i, o) ==
  PutBuffer(Seek(w, o.start + Pointer(im.headers[i])), im.data[i].bytes)

PutSections(w, im, o) ==
  LET n == Len(im.headers)
      after[i \in 0..n] == IF i = 0 THEN w ELSE PutSection(after[i - 1], im, i, o)
  IN  after[n]

WriteSections(w, im, o) ==
  LET table == PutStructs(Seek(w, o.start + TableOffset(im)),
                          [i \in DOMAIN im.headers |-> im.headers[i].at], o)
  IN  PutSections(table, im, o)

Output(im, o) ==
  LET w == FillGaps(WriteHeaders(im, o), im, o)
  IN  IF im.headers = <<>> THEN w ELSE WriteSections(w, im, o)

(* image::update_full_headers_buffer: what the buffer of the headers holds *)
(* then.  The structures are written over what it held, or over nothing;   *)
(* and it is cut or filled up to the size of the headers.                  *)
UpdatedHeaders(im, keepGapData) ==
  LET o == [start |-> 0, virtualParts |-> TRUE, fillGaps |-> FALSE]
      kept == IF keepGapData THEN <<[at |-> 0, from |-> im.fullHeaders, n |-> im.fullHeaders.phys]>>
              ELSE <<>>
      table == PutStructs(Seek(WriteHeaders(im, o), TableOffset(im)),
                          [i \in DOMAIN im.headers |-> im.headers[i].at], o)
  IN  [table EXCEPT !.writes = kept \o @, !.size = im.sizeOfHeaders]

(* Faulty: headers and data are not counted.                               *)
BuildUnchecked(o) ==
  /\ pc \in {"idle", "loaded", "failed"}
  /\ LET n == Smaller(Len(img.headers), Len(img.data))
         im == [img EXCEPT !.headers = SubSeq(@, 1, n), !.data = SubSeq(@, 1, n)]
     IN  out' = Output(im, o) /\ built' = [result |-> "ok", by |-> o]
  /\ UNCHANGED loadVars

(* The image is const: whatever its load came to, it can be built, unless  *)
(* headers and data differ in number.                                      *)
Build(o) ==
  /\ pc \in {"idle", "loaded", "failed"}
  /\ IF Len(img.headers) # Len(img.data)
     THEN out' = NoOutput /\ built' = [result |-> "refused", by |-> o]
     ELSE out' = Output(img, o) /\ built' = [result |-> "ok", by |-> o]
  /\ UNCHANGED loadVars

BuilderInit == Init /\ out = NoOutput /\ built = Unbuilt

Next ==
  \/ (\E f \in DOMAIN Catalog, o \in Options : Begin(f, o))
     /\ out' = NoOutput /\ built' = Unbuilt
  \/ Load /\ UNCHANGED <<out, built>>
  \/ \E o \in Builds : Build(o)

Spec == BuilderInit /\ [][Next]_vars

-----------------------------------------------------------------------------
(* What a build of a loaded image holds.                                   *)

Zero == <<0, 0>>

FileByte(f, o) == IF o < Catalog[f].phys THEN <<f, o>> ELSE Zero

Covering(w, o) == {i \in DOMAIN w.writes :
                     o \in w.writes[i].at..(w.writes[i].at + w.writes[i].n - 1)}

PieceByte(p, k) == IF p.file # 0 /\ k < p.phys THEN <<p.file, p.off + k>> ELSE Zero

(* The byte at o: of the last write that covers it.                        *)
Byte(w, o) ==
  IF Covering(w, o) = {} THEN Zero
  ELSE LET last == w.writes[Max(Covering(w, o))] IN PieceByte(last.from, o - last.at)

Start == built.by.start

(* A build was made of an image loaded by one successful load, with        *)
(* nothing left of an earlier one that this load was told not to replace.  *)
BuiltFromLoad ==
  /\ built.result = "ok" /\ pc = "loaded"
  /\ loads = 1 \/ ( /\ opt.sections /\ opt.buffers /\ img.lfanew >= DosSize
                    /\ "full_headers" \notin warned)

TableOfImage ==
  [headers |-> img.headers, align |-> img.align, fileAlign |-> img.fileAlign,
   sizeOfHeaders |-> img.sizeOfHeaders, lowAlignment |-> FALSE]

HeadersEnd ==
  Larger(TableOffset(img) + Len(img.headers) * HeaderSize,
         img.lfanew + SignatureSize + FileHeaderSize + MagicSize + OptionalSize
           + Len(img.dirs) * DirectorySize)

(* An image dumped from memory is built into a file: where the sections do *)
(* not overlap in the file, each holds what it held in memory.             *)
Unmapped ==
  LET At(i) == Pointer(img.headers[i])..(Pointer(img.headers[i]) + img.data[i].bytes.phys - 1)
  IN
  (\A i, j \in DOMAIN img.data : i # j => At(i) \cap At(j) = {})
    => \A i \in DOMAIN img.data : \A o \in At(i) :
         Byte(out, Start + o)
           = FileByte(cur, img.headers[i].va + o - Pointer(img.headers[i]))

(* The buffer of the headers holds what it held as far as it went, after   *)
(* it was updated; what is new in it or rewritten is the file's.           *)
HeadersKept ==
  \A keepGapData \in BOOLEAN :
    LET w == UpdatedHeaders(img, keepGapData) IN
    \A o \in 0..(w.size - 1) :
      Covering(w, o) # {} \/ (keepGapData /\ o < img.fullHeaders.phys)
        => Byte(w, o) = FileByte(cur, o)

(* Whatever headers, sections and gaps overlap, every byte a build writes  *)
(* is the byte the loaded file has at that offset: later writes agree with *)
(* the earlier ones they overwrite.  What was dumped from memory is        *)
(* unmapped.  Updating the buffer of the headers instead leaves it as it   *)
(* was loaded.                                                             *)
RoundTrip ==
  BuiltFromLoad =>
    /\ HeadersKept
    /\ IF img.memory THEN Unmapped
       ELSE \A o \in Start..(out.size - 1) :
              Covering(out, o) # {} => Byte(out, o) = FileByte(cur, o - Start)

(* A build that is not refused writes each section header with the data    *)
(* that was loaded for it, also when the image held sections of another    *)
(* file before: those stay in the list and make the counts differ.         *)
BuildPairsOwn ==
  built.result = "ok" /\ pc = "loaded" /\ opt.sections =>
    \A i \in DOMAIN img.headers :
      /\ i \in DOMAIN img.data
      /\ img.data[i].file = cur /\ img.data[i].index = i

(* The buffers the checksum and the hashes are computed from tile the      *)
(* file: full headers, full sections, overlay, without a gap or an         *)
(* overlap, when the first section's data starts within the aligned size   *)
(* of the headers and no pointer is rounded to 0.                          *)
BuffersTile ==
  /\ pc = "loaded" /\ loads = 1 /\ opt.buffers /\ opt.overlay /\ ~img.memory
  /\ warned = {} /\ Mapped # {}
  /\ SectionTableValid(TableOfImage)
  /\ \A i \in DOMAIN img.headers : img.headers[i].ptr = Pointer(img.headers[i])
  /\ FirstOffset \in img.sizeOfHeaders..AlignUpIfSafe(img.sizeOfHeaders, img.align)
  => /\ img.fullHeaders.len = img.fullSections.off
     /\ LET end == img.fullSections.off + img.fullSections.len
        IN  IF img.overlay = NoBytes THEN end = TotalSize(F)
            ELSE /\ img.overlay.off = end
                 /\ end + img.overlay.len = TotalSize(F)

=============================================================================
