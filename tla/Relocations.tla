----------------------------- MODULE Relocations -----------------------------
(***************************************************************************)
(* Base relocations.  relocations::load reads the base relocation          *)
(* directory block by block, relocations::build_new writes a loaded one    *)
(* again, and relocations::rebase moves an image by the entries of one.    *)
(***************************************************************************)
EXTENDS Integers, FiniteSets, SequencesExt

CONSTANTS
  ByteRange,    \* how many values a byte has
  Files,        \* the directories, and what is in the image where they are
  TypeUnit,     \* the type of an entry is the entry divided by this
  HighAdj,      \* the type that takes a parameter
  Supported,    \* the types get_affected_size_in_bytes knows
  MaxRebuilds,  \* bound: how often the directory is built and loaded again
  Cases,        \* an image, its relocation entries, and the bases it is moved to
  MaxCalls      \* bound: calls of rebase

ASSUME ByteRangeAssumption == ByteRange \in Nat \ {0, 1}

(* The widths of numbers: a half, a word and a long.                       *)
HalfRange == ByteRange * ByteRange
WordRange == HalfRange * HalfRange
LongRange == WordRange * WordRange

U32Max == WordRange - 1
U32 == 0..U32Max

Bytes == 0..(ByteRange - 1)

-----------------------------------------------------------------------------
(***************************************************************************)
(* The directory.  A block is a descriptor (the RVA of a page and the size *)
(* of the block) followed by entries of 16 bits; an entry of type highadj  *)
(* takes the next one as its parameter.                                    *)
(*                                                                         *)
(* The directory is bytes here: descriptors and entries overlap when the   *)
(* sizes in a file are wrong.  Numbers are little-endian, and the upper    *)
(* part of an entry is its type.                                           *)
(***************************************************************************)

DescriptorSize == 8
EntrySize == 2
Alignment == 4

(* A run of bytes in the image with a virtual tail, and in it a directory. *)
DirectoryFiles ==
  [start : U32, bytes : Seq(Bytes), virt : Nat, rva : U32, size : U32, virtual : BOOLEAN]

ASSUME RelocationAssumption ==
  /\ TypeUnit \in Nat \ {0}
  /\ HighAdj # 0  \* which is the type of padding
  /\ MaxRebuilds \in Nat
  /\ Files \subseteq DirectoryFiles

VARIABLES
  file,      \* the directory being loaded
  phase,     \* where load is
  cur,       \* current_rva
  count,     \* elem_count: what is left of the current block
  list,      \* the blocks loaded so far
  errors,    \* errors of the directory itself
  previous,  \* the list this directory was built from
  aligned,   \* align_base_relocation_structures, when it was built
  rebuilds   \* how often it was

vars == <<file, phase, cur, count, list, errors, previous, aligned, rebuilds>>

None == <<>>

BlockErrors == {"unaligned", "block_size", "entry"}
EntryErrors == {"entry", "unsupported", "param"}

NoEntry == [half |-> 0, param |-> None, errors |-> {"entry"}]

Block(va, size, es) == [va |-> va, size |-> size, errors |-> es, entries |-> <<>>]

-----------------------------------------------------------------------------
(* Reading numbers from the image: struct_from_rva throws unless all bytes *)
(* are there, and physical when virtual data is not allowed.  The bytes of *)
(* a section may go on behind the last address.                            *)

Readable(rva, n) ==
  /\ file.start <= rva
  /\ rva + n <= file.start + Len(file.bytes) + (IF file.virtual THEN file.virt ELSE 0)

Byte(rva) ==
  IF rva - file.start < Len(file.bytes) THEN file.bytes[rva - file.start + 1] ELSE 0

Region(rva, n) == [k \in 1..n |-> Byte(rva + k - 1)]

Half(rva) == Byte(rva) + ByteRange * Byte(rva + 1)

Word(rva) == Half(rva) + HalfRange * Half(rva + 2)

HalfBytes(h) == <<h % ByteRange, h \div ByteRange>>

WordBytes(w) == HalfBytes(w % HalfRange) \o HalfBytes(w \div HalfRange)

TypeOf(half) == half \div TypeUnit

LastRva == file.rva + file.size

AlignedUp(rva) == ((rva + Alignment - 1) \div Alignment) * Alignment

-----------------------------------------------------------------------------
(* load                                                                    *)

Start(f, before, align, n) ==
  [file |-> f, previous |-> before, aligned |-> align, rebuilds |-> n,
   phase |-> IF f.rva + f.size > U32Max THEN "returned" ELSE "block",
   errors |-> IF f.rva + f.size > U32Max THEN {"directory_size"} ELSE {}]

Init ==
  /\ \E f \in Files :
       LET s == Start(f, <<>>, FALSE, 0)
       IN  /\ file = s.file /\ previous = s.previous /\ aligned = s.aligned
           /\ rebuilds = s.rebuilds /\ phase = s.phase /\ errors = s.errors
           /\ cur = f.rva
  /\ count = 0 /\ list = <<>>

Context == <<file, previous, aligned, rebuilds>>

(* A new block, with load going on as given.                               *)
AddBlock(b, after, rva, n) ==
  /\ list' = Append(list, b)
  /\ phase' = after /\ cur' = rva /\ count' = n
  /\ UNCHANGED <<Context, errors>>

Throw ==
  /\ phase' = "thrown"
  /\ UNCHANGED <<Context, cur, count, list, errors>>

BlockUnread ==
  /\ ~Readable(cur, DescriptorSize)
  /\ AddBlock(Block(0, 0, {"entry"}), "returned", cur, 0)

Misaligned == IF AlignedUp(cur) # cur THEN {"unaligned"} ELSE {}

(* The additions inside the try block: an overflow there ends the load.    *)
BlockOverflows(va, size) ==
  \/ AlignedUp(cur) > U32Max /\ AddBlock(Block(va, size, {"entry"}), "returned", cur, 0)
  \/ /\ AlignedUp(cur) <= U32Max /\ cur + DescriptorSize > U32Max
     /\ AddBlock(Block(va, size, Misaligned \cup {"entry"}), "returned", cur, 0)

(* Faulty: a block smaller than its descriptor is left out, and skipped by *)
(* its own size.                                                           *)
BlockTooSmallSkipped(va, size) ==
  /\ size < DescriptorSize
  /\ cur' = cur + size
  /\ UNCHANGED <<Context, phase, count, list, errors>>

BlockTooSmall(va, size) ==
  /\ size < DescriptorSize
  /\ AddBlock(Block(va, size, Misaligned \cup {"block_size"}), "block", cur + DescriptorSize, 0)

(* The addition that skips a block of an odd size is outside the try block.*)
BlockOdd(va, size) ==
  LET next == cur + DescriptorSize + (size - DescriptorSize) IN
  /\ size >= DescriptorSize /\ size % 2 = 1
  /\ \/ next > U32Max /\ Throw
     \/ /\ next <= U32Max
        /\ AddBlock(Block(va, size, Misaligned \cup {"block_size"}), "block", next, 0)

(* Faulty: an entry too many.                                              *)
BlockEvenOneMore(va, size) ==
  /\ size >= DescriptorSize /\ size % 2 = 0
  /\ AddBlock(Block(va, size, Misaligned), "elements", cur + DescriptorSize,
              (size - DescriptorSize) \div EntrySize + 1)

BlockEven(va, size) ==
  /\ size >= DescriptorSize /\ size % 2 = 0
  /\ AddBlock(Block(va, size, Misaligned), "elements", cur + DescriptorSize,
              (size - DescriptorSize) \div EntrySize)

LoadBlock ==
  /\ phase = "block" /\ cur < LastRva
  /\ \/ BlockUnread
     \/ /\ Readable(cur, DescriptorSize)
        /\ LET va == Word(cur)
               size == Word(cur + 4)
           IN  \/ BlockOverflows(va, size)
               \/ /\ cur + DescriptorSize <= U32Max /\ AlignedUp(cur) <= U32Max
                  /\ BlockTooSmall(va, size) \/ BlockOdd(va, size) \/ BlockEven(va, size)

(* A new entry of the last block.                                          *)
WithEntry(b, e) == [b EXCEPT !.entries = Append(@, e)]

AddEntry(half, param, es, after, rva, n) ==
  /\ list' = Append(Front(list),
                    WithEntry(Last(list), [half |-> half, param |-> param, errors |-> es]))
  /\ phase' = after /\ cur' = rva /\ count' = n
  /\ UNCHANGED <<Context, errors>>

(* There is room for one more entry at rva; tested twice, differently.     *)
Ends == LastRva + EntrySize > U32Max \/ cur + EntrySize > LastRva

HasSpace(rva) == rva + EntrySize <= U32Max /\ rva + EntrySize <= LastRva

EntryUnread ==
  \/ /\ LastRva + EntrySize <= U32Max /\ cur + EntrySize > U32Max
     /\ Throw
  \/ /\ ~(LastRva + EntrySize <= U32Max /\ cur + EntrySize > U32Max)
     /\ Ends \/ ~Readable(cur, EntrySize)
     /\ AddEntry(0, None, {"entry"}, "returned", cur, count)

TypeErrors(half) == IF TypeOf(half) \in Supported THEN {} ELSE {"unsupported"}

(* Faulty: the parameter is taken for an entry of its own, too.            *)
EntryAdjustedTwice(half) ==
  LET next == cur + EntrySize IN
  /\ TypeOf(half) = HighAdj
  /\ count > 1 /\ HasSpace(next) /\ Readable(next, EntrySize)
  /\ AddEntry(half, <<Half(next)>>, TypeErrors(half), "elements", next, count - 1)

EntryAdjusted(half) ==
  LET next == cur + EntrySize IN
  /\ TypeOf(half) = HighAdj
  /\ count > 1 /\ HasSpace(next) /\ Readable(next, EntrySize)
  /\ AddEntry(half, <<Half(next)>>, TypeErrors(half), "elements", next + EntrySize, count - 2)

EntryWithoutParam(half) ==
  LET next == cur + EntrySize
      es == TypeErrors(half) \cup {"param"}
  IN
  /\ TypeOf(half) = HighAdj
  /\ \/ /\ count > 1 /\ HasSpace(next) /\ ~Readable(next, EntrySize)
        /\ AddEntry(half, None, es, "returned", next, count - 1)
     \/ /\ ~(count > 1 /\ HasSpace(next))
        /\ AddEntry(half, None, es, IF HasSpace(next) THEN "elements" ELSE "returned",
                    next, count - 1)

EntryPlain(half) ==
  /\ TypeOf(half) # HighAdj
  /\ AddEntry(half, None, TypeErrors(half), "elements", cur + EntrySize, count - 1)

LoadEntry ==
  /\ phase = "elements" /\ count > 0
  /\ \/ EntryUnread
     \/ /\ ~Ends /\ Readable(cur, EntrySize)
        /\ LET half == Half(cur)
           IN  EntryAdjusted(half) \/ EntryWithoutParam(half) \/ EntryPlain(half)

EndBlock ==
  /\ phase = "elements" /\ count = 0
  /\ phase' = "block"
  /\ UNCHANGED <<Context, cur, count, list, errors>>

Finish ==
  /\ phase = "block" /\ cur >= LastRva
  /\ phase' = "returned"
  /\ errors' = IF cur # LastRva THEN errors \cup {"directory_size"} ELSE errors
  /\ UNCHANGED <<Context, cur, count, list>>

-----------------------------------------------------------------------------
(* build_new                                                               *)

ElementCount(b) ==
  Len(b.entries) + Cardinality({k \in DOMAIN b.entries : b.entries[k].param # None})

Padding(b, align) == IF align /\ ElementCount(b) % 2 = 1 THEN 1 ELSE 0

EntryBytes(e) == HalfBytes(e.half) \o (IF e.param = None THEN <<>> ELSE HalfBytes(e.param[1]))

EntriesBytes(es) == FlattenSeq([k \in DOMAIN es |-> EntryBytes(es[k])])

(* Faulty: the padding is written but not counted.                         *)
BlockBytesUncounted(b, align) ==
  WordBytes(b.va) \o WordBytes(DescriptorSize + EntrySize * ElementCount(b))
    \o EntriesBytes(b.entries)
    \o (IF Padding(b, align) = 1 THEN HalfBytes(0) ELSE <<>>)

BlockBytes(b, align) ==
  WordBytes(b.va)
    \o WordBytes(DescriptorSize + EntrySize * (ElementCount(b) + Padding(b, align)))
    \o EntriesBytes(b.entries)
    \o (IF Padding(b, align) = 1 THEN HalfBytes(0) ELSE <<>>)

Built(blocks, align) == FlattenSeq([i \in DOMAIN blocks |-> BlockBytes(blocks[i], align)])

(* get_built_size                                                          *)
BuiltSize(blocks, align) ==
  LET upTo[i \in 0..Len(blocks)] ==
        IF i = 0 THEN 0
        ELSE upTo[i - 1] + DescriptorSize
               + EntrySize * (ElementCount(blocks[i]) + Padding(blocks[i], align))
  IN  upTo[Len(blocks)]

(* The list is built, and loaded again from where it was built to.         *)
Rebuild(align) ==
  LET built == Built(list, align)
      f == [file EXCEPT !.start = 0, !.bytes = built, !.virt = 0, !.rva = 0,
                        !.size = Len(built)]
      s == Start(f, list, align, rebuilds + 1)
  IN
  /\ phase = "returned" /\ rebuilds < MaxRebuilds /\ list # <<>>
  /\ Len(built) < U32Max - DescriptorSize
  /\ file' = s.file /\ previous' = s.previous /\ aligned' = s.aligned
  /\ rebuilds' = s.rebuilds /\ phase' = s.phase /\ errors' = s.errors
  /\ cur' = f.rva /\ count' = 0 /\ list' = <<>>

Load == LoadBlock \/ LoadEntry \/ EndBlock \/ Finish

Next == Load \/ \E align \in BOOLEAN : Rebuild(align)

(* load does not wait for anything.                                        *)
Spec == Init /\ [][Next]_vars /\ WF_vars(Load)

-----------------------------------------------------------------------------
OuterErrors(blocks) == UNION {blocks[i].errors : i \in DOMAIN blocks}

ErrorsOfEntries(b) == UNION {b.entries[k].errors : k \in DOMAIN b.entries}

InnerErrors(blocks) == UNION {ErrorsOfEntries(blocks[i]) : i \in DOMAIN blocks}

AllErrors == errors \cup OuterErrors(list) \cup InnerErrors(list)

Clean == AllErrors \subseteq {"unaligned", "unsupported"}

(* What is loaded without a structural error is the whole directory: built *)
(* again without padding it is the same bytes, so no byte of the directory *)
(* was skipped, read twice, or read beyond its end.                        *)
CleanIsFaithful ==
  phase = "returned" /\ Clean =>
    Built(list, FALSE) = Region(file.rva, file.size)

Contents(blocks) ==
  [i \in DOMAIN blocks |->
    [va |-> blocks[i].va,
     entries |-> [k \in DOMAIN blocks[i].entries |->
                    [half |-> blocks[i].entries[k].half, param |-> blocks[i].entries[k].param]]]]

Padded(blocks, align) ==
  [i \in DOMAIN blocks |->
    IF Padding(blocks[i], align) = 1
    THEN [blocks[i] EXCEPT !.entries = Append(@, NoEntry)] ELSE blocks[i]]

ParamsPresent(blocks) ==
  \A i \in DOMAIN blocks : \A k \in DOMAIN blocks[i].entries :
    TypeOf(blocks[i].entries[k].half) = HighAdj => blocks[i].entries[k].param # None

(* Whatever directory a list was loaded from, with whatever errors, what   *)
(* is built of it loads as the same list, padded, and without structural   *)
(* errors; unless an entry lacks its parameter, which the entry or padding *)
(* behind it then becomes.  get_built_size told its size before.           *)
RebuiltLoads ==
  phase \in {"returned", "thrown"} /\ rebuilds > 0 /\ ParamsPresent(previous) =>
    /\ phase = "returned"
    /\ Contents(list) = Contents(Padded(previous, aligned))
    /\ file.size = BuiltSize(previous, aligned)
    /\ AllErrors \subseteq {"unsupported"} \cup (IF aligned THEN {} ELSE {"unaligned"})

-----------------------------------------------------------------------------
(***************************************************************************)
(* rebase moves an image to another base: it adds the difference to every  *)
(* value a relocation entry names, one after another, and then stores the  *)
(* new base.  It may throw between two entries, and its caller may call it *)
(* again.                                                                  *)
(*                                                                         *)
(* The image is a run of bytes with a virtual tail.  A half, a word and a  *)
(* long are two, four and eight bytes.  Entries are those of all blocks,   *)
(* in order, each with the RVA of its page.                                *)
(***************************************************************************)

Types == {"absolute", "high", "low", "highlow", "dir64", "highadj", "other"}

NoParam == -1

RebasedEntries ==
  [page : 0..U32Max, address : 0..U32Max, type : Types,
   param : {NoParam} \cup 0..(HalfRange - 1)]

IsCase(c) ==
  /\ c.start \in 0..U32Max /\ c.bytes \in Seq(Bytes) /\ c.virt \in Nat
  /\ c.base \in 0..(LongRange - 1) /\ c.bases \subseteq 0..(LongRange - 1)
  /\ c.entries \in Seq(RebasedEntries)

ASSUME RebaseAssumption ==
  /\ MaxCalls \in Nat
  /\ \A c \in Cases : IsCase(c)

VARIABLES
  given,  \* the image as it was loaded, and its relocations
  bytes,  \* the bytes of the image now
  base,   \* image_base in its optional header
  step,   \* what rebase is at: idle, or at an entry of a call
  ahead,  \* history: how far each entry is from base, by the calls that threw
  calls   \* calls so far

rebaseVars == <<given, bytes, base, step, ahead, calls>>

Idle == [at |-> 0, to |-> 0, ignore |-> FALSE]

-----------------------------------------------------------------------------
(* Little-endian numbers of n bytes, at most 8.                            *)

(* What byte k of a number counts for; 8 is behind the last.               *)
Weight(k) ==
  CASE k = 0 -> 1
    [] k = 1 -> ByteRange
    [] k = 2 -> HalfRange
    [] k = 3 -> HalfRange * ByteRange
    [] k = 4 -> WordRange
    [] k = 5 -> WordRange * ByteRange
    [] k = 6 -> WordRange * HalfRange
    [] k = 7 -> WordRange * HalfRange * ByteRange
    [] k = 8 -> LongRange

Digit(v, k) == (v \div Weight(k)) % ByteRange

ByteAt(mem, i) == IF i \in DOMAIN mem THEN mem[i] ELSE 0

(* The number at position i; what is virtual is zero.                      *)
Number(mem, i, n) ==
  LET part(k) == IF k < n THEN ByteAt(mem, i + k) * Weight(k) ELSE 0
  IN  part(0) + part(1) + part(2) + part(3) + part(4) + part(5) + part(6) + part(7)

(* mem with number v written at i, as far as it is physical.               *)
Written(mem, i, n, v) ==
  [j \in DOMAIN mem |-> IF j \in i..(i + n - 1) THEN Digit(v, j - i) ELSE mem[j]]

-----------------------------------------------------------------------------
(* relocation_entry                                                        *)

SupportedEntry(e) == e.type # "other"

(* get_affected_size_in_bytes                                              *)
Affected(e) ==
  CASE e.type = "absolute" -> 0
    [] e.type \in {"high", "low", "highadj"} -> 2
    [] e.type = "highlow" -> 4
    [] e.type = "dir64" -> 8
    [] e.type = "other" -> 0  \* throws

(* apply_to; diff is the difference of the bases, modulo LongRange.        *)
ApplyTo(e, value, diff) ==
  CASE e.type = "highlow" -> (value + diff) % WordRange
    [] e.type = "dir64" -> (value + diff) % LongRange
    [] e.type = "high" -> (value + (diff \div HalfRange)) % HalfRange
    [] e.type = "low" -> (value + diff) % HalfRange
    [] e.type = "highadj" ->
         ((value * HalfRange + e.param + diff + HalfRange \div 2) % WordRange) \div HalfRange

-----------------------------------------------------------------------------
(* rebase                                                                  *)

Entry(k) == given.entries[k]

Position(c, e) == e.page + e.address - c.start + 1

Size(ignore) == Len(bytes) + (IF ignore THEN given.virt ELSE 0)

InvalidAddress(e) == e.page + e.address > U32Max

Exists(e, ignore) ==
  LET i == Position(given, e) IN i >= 1 /\ i + Affected(e) - 1 <= Size(ignore)

Fails(e, ignore) ==
  /\ Affected(e) > 0
  /\ \/ InvalidAddress(e)
     \/ ~Exists(e, ignore)
     \/ e.type = "highadj" /\ e.param = NoParam

Difference(to) == (to - base) % LongRange

(* Faulty: an unsupported entry is found when its turn comes.              *)
BeginUnchecked(to, ignore) ==
  /\ step = Idle /\ calls < MaxCalls
  /\ calls' = calls + 1
  /\ step' = IF Difference(to) = 0 THEN Idle ELSE [at |-> 1, to |-> to, ignore |-> ignore]
  /\ UNCHANGED <<given, bytes, base, ahead>>

(* Nothing is done for the same base, or when an entry is not supported.   *)
Begin(to, ignore) ==
  /\ step = Idle /\ calls < MaxCalls
  /\ calls' = calls + 1
  /\ step' = IF Difference(to) = 0 \/ \E k \in DOMAIN given.entries : ~SupportedEntry(Entry(k))
             THEN Idle ELSE [at |-> 1, to |-> to, ignore |-> ignore]
  /\ UNCHANGED <<given, bytes, base, ahead>>

(* Faulty: the whole value is written where only a part is physical.       *)
RelocateAtEnd ==
  /\ step # Idle /\ step.at <= Len(given.entries)
  /\ LET e == Entry(step.at)
         i == Position(given, e)
         n == Affected(e)
         first == IF i + n - 1 > Len(bytes) THEN Len(bytes) - n + 1 ELSE i
         value == Number(bytes, i, n)
     IN  /\ SupportedEntry(e) /\ ~Fails(e, step.ignore)
         /\ bytes' = IF n = 0 THEN bytes
                     ELSE Written(bytes, first, n, ApplyTo(e, value, Difference(step.to)))
  /\ step' = [step EXCEPT !.at = @ + 1]
  /\ UNCHANGED <<given, base, ahead, calls>>

(* process_relocation of the next entry ...                                *)
Relocate ==
  /\ step # Idle /\ step.at <= Len(given.entries)
  /\ LET e == Entry(step.at)
         i == Position(given, e)
         n == Affected(e)
         value == Number(bytes, i, n)
     IN  /\ SupportedEntry(e) /\ ~Fails(e, step.ignore)
         /\ bytes' = IF n = 0 THEN bytes
                     ELSE Written(bytes, i, n, ApplyTo(e, value, Difference(step.to)))
  /\ step' = [step EXCEPT !.at = @ + 1]
  /\ UNCHANGED <<given, base, ahead, calls>>

(* ... which throws: what is relocated by now stays so, and the base too:  *)
(* the entries before this one are ahead of it from now on.                *)
ThrowAt ==
  /\ step # Idle /\ step.at <= Len(given.entries)
  /\ LET e == Entry(step.at) IN ~SupportedEntry(e) \/ Fails(e, step.ignore)
  /\ ahead' = [k \in DOMAIN ahead |->
                 IF k < step.at THEN ahead[k] + (step.to - base) ELSE ahead[k]]
  /\ step' = Idle
  /\ UNCHANGED <<given, bytes, base, calls>>

(* Faulty: the base stays.                                                 *)
SetBaseNever ==
  /\ step # Idle /\ step.at > Len(given.entries)
  /\ step' = Idle
  /\ UNCHANGED <<given, bytes, base, ahead, calls>>

SetBase ==
  /\ step # Idle /\ step.at > Len(given.entries)
  /\ base' = step.to /\ step' = Idle
  /\ UNCHANGED <<given, bytes, ahead, calls>>

RebaseInit ==
  /\ given \in Cases
  /\ bytes = given.bytes /\ base = given.base
  /\ step = Idle /\ ahead = [k \in DOMAIN given.entries |-> 0] /\ calls = 0

RebaseNext ==
  \/ \E to \in given.bases, ignore \in BOOLEAN : Begin(to, ignore)
  \/ Relocate \/ ThrowAt \/ SetBase

RebaseSpec == RebaseInit /\ [][RebaseNext]_rebaseVars

-----------------------------------------------------------------------------
(* The bytes of the image an entry names.                                  *)
Covered(c, e) ==
  IF SupportedEntry(e)
  THEN (Position(c, e)..(Position(c, e) + Affected(e) - 1)) \cap DOMAIN c.bytes ELSE {}

Apart(c) ==
  \A j, k \in DOMAIN c.entries :
    j # k => Covered(c, c.entries[j]) \cap Covered(c, c.entries[k]) = {}

(* The sum is exact: what an upper half gets does not depend on a lower    *)
(* half that the entry does not see, nor on a parameter that code takes    *)
(* for unsigned where the format's is signed.                              *)
Exact(c, e) ==
  /\ e.type \in {"high", "highadj"} => \A b \in c.bases \cup {c.base} : b % HalfRange = 0
  /\ e.type = "highadj" => e.param < HalfRange \div 2

(* The value of e is what an image loaded at base b would have there.      *)
AtBase(e, b) ==
  LET i == Position(given, e)
      n == Affected(e)
      moved == ApplyTo(e, Number(given.bytes, i, n), (b - given.base) % LongRange)
  IN  \A j \in Covered(given, e) : bytes[j] = Digit(moved, j - i)

(* However often an image is moved, there and back, its values are the     *)
(* ones of a single move from where it was loaded to its base now; during  *)
(* a call, those of the entries before the current one are at the new base *)
(* already.  A call that throws leaves them there, and whatever calls come *)
(* later, each entry stays that far from the base of the header, no more   *)
(* and no less: a call that is made again moves them twice.                *)
MovesCompose ==
  Apart(given) =>
    \A k \in DOMAIN given.entries :
      LET e == Entry(k) IN
      SupportedEntry(e) /\ Affected(e) > 0 /\ Exact(given, e) =>
        AtBase(e, (IF step # Idle /\ k < step.at THEN step.to ELSE base) + ahead[k])

(* No byte changes that no relocation entry names, even when calls fail,   *)
(* values overlap, or a part of one is virtual.                            *)
OnlyRelocated ==
  \A j \in DOMAIN bytes :
    bytes[j] = given.bytes[j] \/ \E k \in DOMAIN given.entries : j \in Covered(given, Entry(k))

(* With an entry that is not supported nothing is relocated, whatever      *)
(* entries come before it (image_rebase.cpp:82: make sure all relocation   *)
(* entries are supported before applying relocations).                     *)
AllOrNothingSupported ==
  (\E k \in DOMAIN given.entries : ~SupportedEntry(Entry(k))) =>
    bytes = given.bytes /\ base = given.base

=============================================================================
