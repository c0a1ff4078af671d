# TLA+ models of pe_bliss2

pe_bliss2 is a C++ library that reads, changes and writes Portable Executable
images. This directory holds TLA+ models of it, TLC configurations that check
them on small instances, and proofs that TLAPS checks for every value of their
constants. `PROJECT.json` lists the parts of the library with their state of
modelling, the runs, the faults each property was tested against (mutants), the
source lines of each definition, the hazards of the code, and the theorems.

Contents: 1 the library, 2 the modules, 3 the runs, 4 bounds and fairness,
5 the proofs, 6 where code and documents differ, 7 what is not modelled,
8 what could come next.

## 1. The library

### Parts, their state and their operations

* **Buffers** (`src/buffers`). `ref_buffer` is the handle everything else stores
  bytes in: it either refers to a buffer of somebody else or owns a copy, and
  copies on the first edit. Its state is a shared pointer, which of the two it
  is, and the physical and virtual sizes. Behind it stand a container, a memory
  span, a stream, a *section* (a window over another buffer) and a *virtual*
  buffer (physical bytes followed by zeros that no file holds). Operations:
  deserialize, copy and move, `copied_data`, serialize, serialize_until.
* **Image** (`image/image.h`). DOS header and stub, file and optional header,
  data directories, section table, a list of section data beside the table,
  overlay, and two buffers over all headers and all sections. The table and the
  data list are only related by position. Callers edit all of it in place.
* **Address space** (`section_data_from_va.cpp`, `section_data_length_from_va.cpp`,
  `rva_file_offset_converter.cpp`, `section/`). Pure functions from RVAs, VAs
  and file offsets to bytes, with the rounding the system's loader applies.
* **Image loader and builder**. `load` fills the image structure by structure,
  each read may throw; `build` writes it back.
* **Checksum and hashes**. They run over the headers' buffer, the sections'
  buffer and the overlay; hashes of pages keep what is left of a page between
  two buffers.
* **Directories**, each with a loader that keeps a list of errors instead of
  giving up, and some with a builder: relocations (and rebase), resources (tree,
  readers and writers of single formats), imports, delay imports, bound imports,
  exports, TLS, exceptions (x64, ARM, ARM64), load configuration, security
  (certificates, Authenticode), debug, Rich header, .NET, trustlet policy.

### How they interact

There are no threads, no callbacks with state, and nothing persists: all
interaction is by calls and by shared state. What makes the code hard is that

* handles share bytes, so that an edit through one may show through another;
* structures repeat each other (header and data, lookup and address table, size
  and content), and a file or a caller may leave them in disagreement;
* everything is read from bytes nobody vouches for: sizes lie, references loop,
  sums pass 32 bits, any read may fail, and the load goes on where it can;
* an object may be loaded, edited, built and loaded again in any order, and a
  failed call leaves what it has done so far;
* a builder computes the same addresses in several passes;
* several loaders add to one list of results, in the order they are called.

### What has to hold

| Part | Correct when |
|---|---|
| ref_buffer | a container has one owner; an edit is seen only through references to that container; a copy reads as the original did; all that a reader can tell is values and who shares them |
| address space | bytes handed out exist; all ways from an address to a byte agree; nothing at the end of a section is lost |
| load | what was read before a failure is usable; no piece of the image lies outside its file |
| build | writes each byte where the file had it; never pairs headers of one file with data of another |
| resources | loops are cut and nothing else is; no entry is skipped; every way to an entry leads to the same one |
| resource formats | what is reported without an error is all that stands there; what is written reads as the same |
| relocations | a block without errors holds what the bytes say; rebuilt it loads the same; moves compose |
| imports | imports stay in step with both tables; what is built is what the system imports |
| exceptions | codes fill the space their header announces and nothing else; what follows them is found; a setter changes its own field |
| tables of other directories | a table about which nothing is reported is whole; a cursor stays inside what it walks |
| their builders | what is built loads as it was given and is as long as announced |
| digests, signatures | every byte that has to be hashed is, once; a signature is valid exactly if everything about it is |

The hazards that endanger these are listed in `PROJECT.json` with their lines.

## 2. The modules

| Module | Models | Extended by |
|---|---|---|
| `RefBuffer` | `ref_buffer`, sections, virtual buffers, copy | `RefBufferProofs`, `MCRefBuffer` |
| `BufferValues` | what a ref_buffer promises: values, and who shares them | instantiated in `RefBuffer` |
| `SectionGeometry` | sizes, pointers and searches of sections, RVA and offset conversion, validators | `ImageSpace`, `ImageLoader` |
| `ImageSpace` | section data and lengths from RVAs on images that are edited | `ImageSpaceProofs`, `MCImageSpace` |
| `ImageLoader` | `image_loader::load` | `ImageBuilder` |
| `ImageBuilder` | `image_builder::build` of what `ImageLoader` loads | `ImageLoaderProofs`, `MCImageBuilder` |
| `ResourceLoader` | the resource directory tree | `ResourceLoaderProofs`, `MCResourceLoader` |
| `Relocations` | `relocations::load`, `build_new`, `get_built_size`; `relocations::rebase` | `RelocationProofs`, `MCRelocations` |
| `ImportLoader` | `imports::load` | `ImportLoaderProofs`, `ImportBuilder` |
| `ImportBuilder` | `imports::build_new`, its caller's edits, loading what was built | `MCImports` |
| `X64Unwind`, `ArmUnwind` | the loaders of the three kinds of exception directory; counts that move between the two headers of an ARM record | `MCExceptions`, `UnwindProofs` |
| `BitFields` | setters of fields of packed words: unwind data, load configuration | `MCExceptions` |
| `Cursor` | a position in data that is partly virtual, and reads through it | most of the rows below |
| `LoadConfig`, `DynamicRelocations` | load configuration: its parts and tables; nested dynamic relocations | `MCDirectories` |
| `Debug` | the list of debug entries; the data of each type | `MCDirectories` |
| `Rich`, `DotNet`, `Trustlet` | the Rich header, the .NET headers and streams, the trustlet policy | `MCDirectories`; `Rich` in `MCFormats` too |
| `Security` | the walk over certificates; the checks of a signature and their verdict | `MCDirectories` |
| `MCDirectories` | the loaders above, side by side | `DirectoryProofs` |
| `Exports`, `Tls`, `BoundImports` | build, load of what was built; in place for TLS | `MCFormats` |
| `ImageHash` | digests of image and pages, the checksum | `MCFormats` |
| `VersionInfo`, `ResourceFormats` | readers (and writers) of resources | `MCFormats` |
| `ResourceEdits` | lookups and edits of a loaded tree | `MCFormats` |
| `Manifest` | the reader of manifests, the values of what it read; the scopes of XML namespaces under it | `MCFormats` |

**RefBuffer.** `handle` says for each `ref_buffer` whether it owns (`copied`),
refers (`ref`) or was moved from, and the window through which it sees its cell;
`heap` holds the containers and the caller's sources, physical bytes and the
number of virtual ones. Actions: `Deserialize` (a source, copied or referred
to), `DeserializeWindow` (a section of another handle), `Assign`, `Move`,
`CopyReferencedBuffer`, `EditOwned` and `EditReferenced` (the two cases of
`copied_data`), `CallerWrites`. `Serialize` and `SerializeUntil` are operators:
they are const. A window keeps the virtual size it was made with, as
`input_buffer_section` does, so it can become stale when what it is over is
edited; reading it then may throw (`ReadFails`), after which the handle is as it
was. A moved-from handle may only be assigned to.

**BufferValues** is the abstract specification: `reads` is the sequence each
reader sees, `owners` the handles that hold a container of their own, `groups`
the sets of readers of one container, `stale` the readers that promise nothing.
A handle is given a value (`Refer`, `Own`), becomes another one (`Become`), and
an edit is an assignment to one handle (`EditAlone`) or to the whole group
(`EditShared`); nothing else is ever read differently. `RefBuffer` names the
mapping (`ValuesRead`, `Owners`, `Sharing`, `Outdated`), and `KeepsValues` says
that it implements this.

**SectionGeometry and ImageSpace.** Numbers are `Width` bits wide, sums that the
code checks are checked (`IsSumSafe`) and those it saturates saturate. `img`
holds headers, data buffers (physical and virtual size), the headers' buffer,
alignments. `Init` is the state the loader leaves for a file; the actions are
the setters and `update_full_headers_buffer`, `update_image_size`, and resizing
the data of a section.

**ImageLoader and ImageBuilder.** A file is told by what `load` decides on: its
header fields and sizes. Bytes are identified by where they came from: a piece
is a run of bytes of a file, some of them virtual. `pc` walks through the parts
in the order of `image_loader.cpp`; every action has the outcomes of its read:
whole, partly virtual, or thrown, which ends the load (`Fail`) or, for sections,
overlay and buffers, only adds a warning. A stream may fail at any eager read.
`Begin` starts a load on the object as the last one left it. `Build` computes
the list of writes, later ones over earlier ones, in the order of
`image_builder.cpp`. Fields of a structure that is partly virtual read as zero.

**ResourceLoader.** The recursion of `load_resource_directory` is an explicit
stack of frames; `visited` is `visited_directories`, `tree` the result by path,
`maxRva` the highest RVA read. Actions: `ReadDescriptor`, `ReadEntry` (a
directory, data, a loop, or one of the errors), `Advance`, `LeaveDirectory` (the
checks of order, duplicates and counts, and the scope guard), `Finish`.

**Relocations.** The directory is real bytes here, of four values each in the
runs, because descriptors and entries overlap when sizes lie. `LoadBlock`
has one disjunct per way out of the loop body (unread, overflow, too small, odd
size, even), `LoadEntry` one per kind of entry, `Rebuild` builds the list and
loads the bytes it got. A block of an odd size at the end of the address space
throws out of `load` (line 195, outside the try block): phase `thrown`. Of rebase,
`Begin` checks that types are supported, `Relocate` applies one entry, `ThrowAt`
leaves the image with those before it, `SetBase` ends the call. `MCRelocations`
composes the two machines: `HandOver` gives the loaded list to `rebase`.

**ImportLoader and ImportBuilder.** `mem` maps an RVA to one byte of the item
written there last, so that tables that overlap are seen as wrong items.
`LoadLibrary` and `LoadImport` walk as the two loops of `load_impl` do. The
builder is one action `Build`, made of its passes (`LibraryNames`,
`LookupTables`, `AddressTables`, `HintsWithNames`, `Descriptors`), each of which
counts string addresses for itself, as in the code; `BuiltSize` counts once more. `object` is the directory
the caller edits; after a build it holds the addresses of that build. What the
system makes of a directory (`SystemLibrary`) is stated apart from the loader:
it follows the lookup table to its first zero.

**Exceptions.** `MCExceptions` runs the loaders in the order a caller calls them
on one list of directories (`stage`: x64, arm64, arm, loaded); then fields
(`words`) and counts (`counts`) are set in any order. An unwind code is told by
the slots or bytes it takes; an entry by its codes, the header and what follows.
`ArmUnwind` has the counts of a record too, which move to its second header when
they outgrow the first. `BitFields` has a word as a set of bits, and one setter
for each field of each packed structure, with the mask the code has. The words
whose setters are edited are `EditedWords`, and `LeftOut` names setters that are
not called: `unwind` edits the words and setters that are right,
`unwind_setters` those that are not.

**The parts of MCDirectories and MCFormats.** Each is a specification over the same five
variables: `given` (what was asked and what stands there), `pc`, `walk` (the
cursors and stacks of the function), `result`, `errors`. The variable `part`
says which of them a behaviour is of. Each has the actions of its own code, one
per step of a loop and per way out of it; a builder is an action that computes
the written layout, followed by the walk that loads it. `Manifest`
holds two specifications: the loaders that take the document apart, and the
accessors that take a text apart (versions, progids, GUIDs, lists of flags,
digits), where a text is a sequence of characters and one step is one part of
it; words and identifiers are a character each. `ImageHash` has the
digests and the checksum: the sum of double words over headers, sections and
overlay, with the words of the field itself left out and the carries folded in
as `checksum.cpp` does. A file is told by the bytes it has (`Contents`), a half
of a double word has `HalfValues` values.

Conventions: definitions that begin with "Faulty:" are what a plausible mistake
would look like; no specification uses them, they are what `mutants` in
`PROJECT.json` put in the place of the definition behind them.

## 3. The runs

| Run | Checks | Shows |
|---|---|---|
| `ref_buffers` | `TypeOK`, `SoleOwner`, `SplitSerialize`, `WriteIsolation`, `CopyPreserves`, `KeepsValues` | whatever is copied, moved, windowed and edited, no edit leaks into another handle, copies read the same, writing in two parts writes the same, and `BufferValues` is implemented |
| `image_space` | `RegionInside`, `RestIsMaximal`, `AddressAgreement`, `ImageSizeCovers` | on any image, edited too, only bytes that exist are handed out; on valid tables RVA, data, length and file offset agree, virtual addresses lead to the sections of their RVAs, and the size of the image covers the sections and is taken by the validator |
| `images` | `TypeOK`, `PiecesInside`, `RoundTrip`, `BuildPairsOwn`, `BuffersTile` | load and build keep every byte at its offset, so does `update_full_headers_buffer`, memory dumps are turned into files, a second load never mixes files in a build |
| `resource_tree` | `TypeOK`, `LoopsAreCut`, `NothingSkipped`, `Terminates` | every graph of references between directories is read to an end, cut at loops only, and its errors are the right ones |
| `relocations` | `CleanIsFaithful`, `RebuiltLoads`, `MovesCompose`, `AllOrNothingSupported`, `Ended` | a block without errors is what the bytes say; building it and loading it again gives the same; moving there and back gives what one move gives, and a call that throws leaves each entry ahead by exactly that move, whatever is called next |
| `imports` | `TablesComplete`, `DifferencesFound`, `Ends`, `BuiltIsImported`, `ReloadFindsImports` | imports stay in step with their tables in any file; what is built is imported as the object says, takes the space announced, and is found again |
| `unwind` | `CodesTile`, `BehindCodesFound`, `FieldsIndependent`, `CountsIndependent`, `EveryLoadEnds` | codes tile their area, handlers and chained entries are found behind them, setters whose masks are right keep to their fields, every load returns |
| `directories` | `WholeTables`, `VerdictsJust`, `LoadsEnd` | tables without an error are whole, cursors stay inside what they walk; a signature is valid exactly if everything about it is |
| `formats` | `Rebuilt`, `FormatsWhole`, `LoadsEnd` | what is built loads back and is as long as announced; digests are of every byte once; what is read of a resource without an error is what stands there; what is written is read again; edits of the tree keep every other entry |
| `imports_reloaded` | `ModifiedLoads` | violated, see 6 |
| `unwind_setters` | `FieldsIndependent` | violated by the setters that `unwind` leaves out, see 6 |
| `edited_directories` | `EditsSurvive` | violated, see 6 |

`CHECK_DEADLOCK FALSE` stands in every configuration: a load that has returned
and a caller who is done stop.

Preconditions of the properties, and why they are there:

* `CopyPreserves` leaves out stale windows: a window made before an edit of what
  it is over promises nothing. `BufferValues` has them in `stale`.
* `AddressAgreement`, `RestIsMaximal` need a section table the validators accept
  and data that still matches its header (`Consistent`).
* `BuffersTile`: valid table; headers fit their size.
* `MovesCompose`: entries that do not overlap, and bases that are multiples of
  the unit of the upper half for entries that see an upper half only (`Exact`):
  64 KB, as the format asks. What calls that threw have left is in the history
  variable `ahead`, which no action reads: how far each entry is from the base
  of the header.
* `BuiltIsImported`, `ReloadFindsImports`: libraries with the same kinds of
  tables (`Alike`), and no new lookup table that begins where an old address
  table was (`Apart`); 6 says what happens otherwise.
* `FieldsIndependent` in `unwind` is of all words but an extended header and the
  guard flags (`RightWords`), and calls every setter but that of the registers
  a packed ARM word saves (`WrongSetters`). Those are the run `unwind_setters`.
* `CodesTile` asks of every function that its codes are in order and inside
  their area, whatever errors it has, and of those without an error of their
  codes that they fill it. What it leaves open: where the code behind an epilog
  of x64 begins (see 6), functions of x64 whose information could not be read,
  and the unsupported code of ARM that is the first of a list, which is
  undefined. Chained entries end where the stack does.
* `FormatsWhole`: where the sections' buffer leaves out bytes between sections,
  the checksum is of the bytes in the buffers, not of the file.
* `Rebuilt`: the counts of names and of references are as the caller has to set
  them (`IsDescribed`), a TLS directory in place has callbacks, and the Rich
  checksum does not begin like the signature (`ChecksumApart`).

## 4. Bounds and fairness

| Run | Bounds | Why they are enough |
|---|---|---|
| `ref_buffers` | 2 handles, 3 containers, 1 stream, up to 2 physical and 1 virtual byte, 6 windows | two handles are a writer and an observer, windows nest through assignment; a window can begin and end in both parts. More handles are the theorems' part |
| `image_space` | 5-bit addresses; up to 2 sections of the headers of two catalogs; 4 layouts; 2 edits on 8 headers and 2 layouts | 5 bits leave room for gaps, overlap and wrapping; searches compare pairs of sections |
| `images` | 336 files of at most 24 bytes, 2 sections, 1 or 2 directories, structures of 1 or 2 bytes; 4 options; 2 loads of 7 files with 4 options; 3 builds | each table crosses each kind of header and of truncation; a third load adds nothing the theorem does not cover |
| `resource_tree` | 3 directories, 2 entries in each but one; lists of 3 names; 5-bit RVAs | 3 directories give loops of each length up to 3, sharing, and loops reached twice |
| `relocations` | bytes of 4 values; blocks of up to 3 entries, two blocks whose sizes lie, blocks at the end of the address space; 1 rebuild; lists of up to 3 relocations of a pool of 16; 3 moves between 3 bases | a lie about one block is seen in the next; three moves go away, on, and back |
| `imports` | sizes 4/1/2 for descriptor, hint and address, RVAs to 150; files of 1 or 2 libraries with 2 entries; built directories of up to 3 libraries, 1 edit, 2 builds | the second build reads addresses of the first and writes over its tables |
| `unwind` | every sequence of 4 code bytes; x64 codes of up to 3 slots; 3 chained entries, `StackDepth` 4; counts {0, 1, 3, 4, 7, 8, 9} over fields of 3 bits | sequences of 4 bytes hold codes of each length cut at each place; counts lie on both sides of both limits |
| `directories` | sizes of tables just below, at and above each item's size; at most 2 items, nesting and blocks of each kind; 2 certificates; 1 nested signature, each step of a check answering in each way | every item is the first, the last and behind another one; the end of the data is at each of its parts. Any sizes and numbers are the theorems' part |
| `formats` | 2 items of each list that is built; pages of 8 bytes; blocks of a version of 6 lengths, 2 deep, up to 4 items; 3 messages in 2 blocks; 2 pictures; 3 strings; trees of up to 10 entries with loops and doubles, 2 edits; manifests of up to 2 elements of each kind, 3 in a scope; texts of up to one part more than is read, a GUID with each of its characters wrong, numbers up to 26 (16 bits) and 222 (64 bits), progids of 6 | a second element of a kind is where the reader decides; edits come before and behind each other |
| `imports_reloaded` | the real sizes 20/2/4, 1 library, 1 build | a single counterexample |

All bounds are constants that a configuration gives: `MaxEdits`, `MaxBuilds`,
`MaxRebuilds`, `MaxCalls`, `MaxLoads` (per file and options), `MaxLen`,
`MaxVirt`, `MaxEntries`, `MaxCallbacks`, `MaxLibraries`, `MaxStreams`,
`MaxNested`, `MaxDepth`, `MaxBlocks`, `MaxMessages`, `MaxPictures`,
`MaxElements`, `NumberMax`, `LongMax`, `ProgidMax`, `KeyLength`, the sets of sizes, and the catalogs of files and cases in the
`MC` modules. Symmetry is used in `ref_buffers` alone, where handles and
containers are told apart by nothing and no liveness property is checked; its
view leaves out `last`, which only labels the last step.

Fairness is assumed of loads, builds and moves only (`WF` of their next step): a
load is a sequential function that waits for nothing, so it goes on until it
returns. Nothing makes a caller edit, build or call again. `Terminates`,
`Ended`, `Ends`, `EveryLoadEnds` and `LoadsEnd` say that the call then returns
on any bytes; loops of references and tables without an end are what could
keep it from it.

## 5. The proofs

| Theorem | Says, for every value of the constants |
|---|---|
| `RefBufferProofs!TypeCorrect`, `OwnersAreUnique`, `WritesAreIsolated` | `TypeOK`, `SoleOwner`, `WriteIsolation`: any number of handles, containers, sources, any windows |
| `RefBufferProofs!PartsWriteWhole`, `CopiesReadTheSame` | `SplitSerialize`, `CopyPreserves`: any buffer, cut anywhere; any copy whose window is up to date |
| `RefBufferProofs!ImplementsValues` | `KeepsValues`: `RefBuffer` implements `BufferValues` |
| `ImageSpaceProofs!RegionsStayInside` | `RegionInside`: any headers, data and edits of them, addresses of any width |
| `ImageSpaceProofs!RestsAreMaximal`, `AddressesAgree`, `ImageSizeIsEnough` | `RestIsMaximal`, `AddressAgreement`, `ImageSizeCovers`: any number of sections, any alignments |
| `ImageLoaderProofs!ImageTypeCorrect`, `PiecesStayInside`, `BuildsPairOwn` | `TypeOK`, `PiecesInside`, `BuildPairsOwn`: any files, header values, options, any number of loads that fail anywhere |
| `ImageLoaderProofs!BuffersTileTheFile` | `BuffersTile`: any file, header values and options, what the first load of an image leaves |
| `ImageLoaderProofs!BuildsRoundTrip` | `RoundTrip`: any file, header values, options, overlaps and number of sections, an image that one load filled |
| `ResourceLoaderProofs!TreeTypeCorrect`, `NoDirectoryWithinItself`, `LoopsAreAlwaysCut` | `TypeOK`, `VisitedIsStack`, `LoopsAreCut`: any files, any depth |
| `ResourceLoaderProofs!NoEntryIsSkipped` | `NothingSkipped`: any files, any depth, reads that fail anywhere |
| `RelocationProofs!RebaseStaysInRelocations`, `UnsupportedIsRefused` | `OnlyRelocated`, `AllOrNothingSupported`: any image, entries, bases, number of calls |
| `RelocationProofs!WhatIsCleanIsWhole` | `CleanIsFaithful`: any bytes, sizes and number of blocks, loaded, built and loaded again any number of times |
| `RelocationProofs!RebuiltIsTheSame` | `RebuiltLoads`: any list that a load of any bytes returns, with or without padding, built and loaded any number of times |
| `RelocationProofs!MovesAddUp` | `MovesCompose`: bytes of any range, any bases, any number of moves, calls between them that are refused or throw |
| `ImportLoaderProofs!NoImportIsLost`, `DifferencesAreTold` | `TablesComplete`, `DifferencesFound`: any memory, sizes of the structures, number of libraries |
| `UnwindProofs!CountsStayIndependent` | `CountsIndependent`: any widths of the fields, any numbers, any sequence of calls |
| `UnwindProofs!CodesTileTheirArea`, `BehindIsFound` | `CodesTile`, `BehindCodesFound`: any images, codes and numbers of them, chains of entries of any length |
| `DirectoryProofs!TablesAreWhole` | `WholeTables`: any sizes, addresses, limits and numbers of items, of load configuration, dynamic relocations (nested to any depth), debug entries and data, Rich header, .NET metadata, trustlet policy and certificates; of products, the table of the model |
| `DirectoryProofs!VerdictsAreJust` | `VerdictsJust`: any directory, any number of nested signatures, time stamps of both kinds, whatever each step of a check answers |

Assumptions are the named `ASSUME`s of the modules, which TLC evaluates in the
runs. They say of what types constants are, and:

* `ObjectsAssumption` (`RefBuffer`): a container is not a source of the caller;
  `SizesAssumption`: the physical and virtual size of a buffer fit `size_t`
  together, as those of data that are in memory do.
* `NoneAssumption` (`ImageSpace`): the mark of a search that found nothing is
  none of the things that can be found.
* `WidthAssumption` (`SectionGeometry`) has the largest address, the unit
  pointers are rounded to and the limit of 2 GB as natural numbers, nothing else:
  that alignments are powers of two is what the code checks (`HasSingleBit`).
* `ImportAssumption` (`ImportLoader`): what stands at an RVA is a byte of one of
  the items of an import directory (`IsMemory`), and structures have a size.
* `BuildsAssumption` (`ImageBuilder`): the options of a build, its start in the
  output a natural number.
* `ByteRangeAssumption` (`Relocations`): a byte has at least two values.
  `RelocationAssumption`: the type that takes a parameter is not 0, the type of
  the padding (in the code it is 4); a padding entry would want one otherwise.
* `X64DirectoriesAssumption`, `ArmDirectoriesAssumption`: an exception directory
  has the entries its size tells of, an entry what it points to, and a record
  the scopes its header tells of; bytes that cannot be read are what a read that
  fails stands for. `ImagesAssumption` (`MCExceptions`): an image has such a
  directory of each kind, or none.
* `DirectoriesAssumption` (`MCDirectories`): addresses, sizes and limits are
  natural numbers, and a load configuration has a part, numbers and a machine
  (`IsHeader`).

The arguments:

* **RefBuffer.** `IInv == TypeOK /\ HandleInv /\ SoleOwner`. `HandleInv` says that
  every handle is well formed and the virtual part of a window no longer than the
  window; without it the lengths a copy or a conversion computes could be negative. Each action is reduced to `Update` (new handles,
  heap cleared of what nobody holds) and `UpdateInv` is proved once.
  `WriteIsolation` is an action property: a step changes only the container its
  handle owns (`IsolatedStep`), and what another handle reads depends only on
  its own container (`ContentOfCell`). `PartsWriteWhole` needs that sizes stay
  bounded, since `serialize_until` computes with `size_t`. `CopiesReadTheSame`
  follows from `UpToDate`: a window whose virtual size is still that of what it
  is over reads what a copy of its bytes reads, byte by byte.
  `ImplementsValues` is the refinement, one lemma per action: which steps of
  `BufferValues` it maps to, or that none of the four mapped values changes. An
  edit of a shared container maps to `EditShared`, which needs that the handles
  that see it are those of its group and that all others are isolated from it.
* **ImageSpace.** `IInv` says that data buffers and headers have the types the
  setters keep (`Matched`) and nothing about their agreement: `RegionInside` has
  to hold on images whose headers lie. What the searches find is reduced to
  "the least index with a property" (`FirstFound`). For the other theorems a
  table the validators take has ascending sections (`InOrder`, proved from
  neighbours by a least counterexample), so an RVA lies in one section at most
  and the first found is the only one; rounding up and down to pages is handled
  with quotients (`WholePages`, `RoundedStays`), never by powers of two.
* **ImageLoader.** `IInv == TypeOK /\ PiecesInside /\ Pairing /\ Position`.
  `Position`: the read position is 0 at the DOS header and behind it at the stub. `Pairing` is the strengthening
  `BuildPairsOwn` needs: from the section table on, the data behind `base` are
  those of this load, one for each header loaded so far; then equal numbers of
  headers and data mean that `base` is 0. `BuffersTile` has an invariant of its
  own on top, `BuffersHeld`: what the headers' buffer, the sections' buffer and
  the overlay hold after each of the last phases, given the warnings so far.
  It holds of the first load of an image: a later one that finds no overlay
  keeps the old one. `RoundTrip` has `PiecesHeld`: each structure of the image,
  once it was read, `Sits` in the file at its place, that is, its bytes are the
  file's from there on, and it is short of its length only where the file ends.
  The data of a section are the file's as far as they are physical. Then every
  write of a build writes the file's own bytes (`HeadersRight`, `GapsRight`,
  `TableRight`, `SectionsRight`), and a byte written twice is the same both times
  (`RightByte`); no order of writes has to be considered. The one place where
  positions matter is a structure that was written short: what follows it then
  lies behind the end of the file and has no bytes to write. `BuiltHeld` ties
  the last output to the image it was built from. `PutStructs` and
  `PutSections`, recursive functions on the number of things written, are
  handled by a least counterexample (`StructsArePut`, `SectionsArePut`).
* **ResourceLoader.** `IInv` adds to the properties `Chain` (the frames of the stack
  lie on one path of the tree), `InTurn` (no entry is in the tree before its turn in its directory) and `Closed`
  (the path of an entry's directory is in the tree): only together they say
  that the directories above an entry are the visited ones. `NothingSkipped` is
  about the finished tree, so `AllRead` says of each directory on the stack that
  the entries before the current one are in the tree as the file has them, and
  of each that is not on it any more that it is finished.
* **Relocations, load.** `LoadInv == LoadShape /\ SoFarFaithful`. What is returned
  says nothing about the steps before, so `SoFarFaithful` says of each of them:
  as long as there is no structural error, the blocks loaded so far, and of the
  block being read its descriptor and entries so far (`BytesSoFar`), are the
  bytes up to the current RVA. A step reads the next ones and adds what writes
  the same (`EvenBlockInv`, `EntryTaken`, `EndBlockInv`), or adds an error, and
  errors are never taken back (`BlockFaulty`, `EntryFaulty`). It rests on two
  groups of lemmas: a number that is read writes the bytes it was read from
  (`HalfRead`, `WordRead`), for bytes of any range; and what is written of a
  list is what is written of it without its last element, and of that
  (`FlattenAppend`). The latter is about a fold, a recursive function
  on sets: that it has a value at all is proved up to the least length at which
  it would not (`FlattensUpTo`, `FlattensOnce`).
* **Relocations, build and load.** `RebuiltLoads` has `RebuiltInv`, on top of
  `LoadInv`: the directory holds the bytes that were built of `previous`, and
  load is `OnTrack` in them. Padding is an entry more of its block, so the list
  to be found is the padded one, built without padding (`PaddedList`). Between
  blocks the current RVA is where as many blocks end (`EndOf`); in a block it is
  where its first entries end, the block read so far `Begins` as the one
  written, and the count is what is left of it (`InBlock`). What is read there
  is what was written: `Stands` says that a sequence stands in another one at a
  place, and goes through from the bytes of the directory to those of a block,
  of an entry, and to a number (`DescriptorFound`, `EntryFound`). From that, no
  disjunct of the loader with an error is taken (`BlockOnTrack`, `EntryOnTrack`),
  a block ends with its last entry and the directory with its last block
  (`EndBlockOnTrack`, `FinishOnTrack`). With padding every block has an even
  number of elements, so no block is reported as not aligned (`EndsAligned`).
  An invariant about the list being loaded goes with it: an entry has a
  parameter only if its type takes one (`ListAdjusts`), else it would be written
  where load does not look for it. `BuiltSize`, a recursive function on the
  number of blocks, is compared with what is written by a least counterexample
  (`SizeIsTold`).
* **Relocations, rebase.** `RebaseInv == Shape /\ OnlyRelocated /\ CheckedFirst /\
  AllOrNothingSupported`.
  `CheckedFirst`: while a call is under way all entries are supported.
  `MovesAddUp` has `MovesInv == BasesGiven /\ MovesCompose`, where `MovesCompose`
  says of a call under way that the entries before the current one are at the
  new base and the others at the old one. `BasesGiven` has `WholeAhead`: what
  calls that threw have left is a sum of differences of bases, so it too is a
  multiple of the unit of the upper half (`WholeSum`). A step relocates one entry, and
  entries apart from it keep theirs (`Apart`). For the entry itself, a number
  modulo the weight of a byte determines the bytes below it (`SameLower`), so
  what is written can be compared as numbers modulo the width of the type;
  every type adds the difference modulo its width (`ApplyAdds`), the upper half
  because bases are multiples of its unit, and differences add up (`MovedTwice`).
  Bytes that are virtual read as zero and are not written: the lower digits,
  which are written, do not depend on them.
* **ImportLoader.** `IInv == TypeOK /\ InTable /\ TablesComplete /\ DifferencesFound`.
  `InTable`: while imports are being read, the number read so far is the index
  of the entry that is next, and none before it was zero in both tables
  (`EntriesThere`). A finished library is never touched again (`LastOnly`), so
  each step is about the last one.
* **UnwindProofs.** The invariant is that every field holds less than its width
  allows and the base header is extended exactly if one of the two numbers needs
  it; each setter either stays in its header or moves both numbers. The loads
  have `UnwindInv == X64Inv /\ ArmInv`: what holds of the functions read so far
  (`X64Settled`, `ArmSettled`) and, phase by phase, of the one being read
  (`X64Turn`, `ArmTurn`). While codes are read, the position is where the last
  code ends (`SlotBehind`, `EndOfCode`), unless a zero byte filled the rest or
  the code is an epilog; x64 codes are in order (`SlotsInOrder`) and reach their
  end (`SlotsReach`, `SlotsEnd`) whatever errors the function has; a
  handler or a chained entry is looked for only from there, and a function is
  settled once no entry on its stack of chained entries is left to be read.
* **DirectoryProofs.** `DirectoriesInv` is the conjunction of nine invariants, one
  for each loader, of which a state has to keep the one of the loader it belongs to. What
  `WholeTables` says is about finished loads, so each says for every place of
  the loop what was found so far: how much of the table or list is read and how
  much is left (`LoadConfigInv`, `DotNetInv`, `DebugDataInv`), that the last item
  ends where the cursor is, that an item without data has an error of its own, and that
  an error was added wherever an item was passed over. Some parts need more:
    * load configuration: a table is a prefix of the entries its header counts,
      at multiples of the size of an entry, and inside of what was tested to fit;
      products of counts and sizes are compared by one lemma (`Scaled`). The
      parts come in the order of the descriptor (`PartsPlaced`), so one that is
      not there is behind the end of it.
    * dynamic relocations: `Nested` says that each frame of the stack ends inside
      of the one below it, the cursor inside of the innermost, and which kind may
      lie in which. Pushing, moving and popping a frame are three lemmas
      (`NestedPushes`, `NestedMoves`, `NestedPops`), and every step is one of
      these (`DynGoes`, `DynEnters`, `DynLeaves`), in frames of any number.
    * certificates: those without an error are apart, begin at multiples of 8
      (`NothingReported`), and the cursor is behind the last of them.
    * products of the Rich header: `std::lower_bound` is the place before which
      all entries are less and behind which none is. Which place that is follows
      from the table of the model (`Bounds`), and the product chosen is the
      latest that is no newer than the build. This part is about that table, a
      sample of the code's, and not about any table.
    * signatures: looks come in an order. `Order` and `StampOrder` say which
      facts are known if a later one is, `Told` and `StampTold` which field of the
      status a fact has set or left unset, and `Reached` which facts are good at each
      label, since a look that fails ends the check of the signature. A verdict is
      taken from the fields alone; with these it is the one the facts ask for
      (`Judged`).

Only model-checked, and why:

* liveness (`Terminates`, `Ended`, `Ends`, `EveryLoadEnds`, `LoadsEnd`): fairness
  and `ENABLED` are beyond the provers here;
* what is computed by recursion over data, for which induction would be needed
  that the provers cannot instantiate (a least counterexample does instead where
  one step of the recursion is enough, as for `CleanIsFaithful`, `RebuiltLoads`
  and `RoundTrip`):
  `BuiltIsImported` and `ReloadFindsImports` (passes that add up lengths),
  `FieldsIndependent` (a word as a sum of bits), and `Rebuilt` and `FormatsWhole`,
  which are about written layouts, digests and documents. The first needs, for
  each of the five passes of the builder, where the strings of every library before lie.

## 6. Where code and documents differ

Findings, each a run that is violated:

1. `import_directory_builder.cpp:62`: no terminator behind the address table of
   a library that has a lookup table, while `load` ends a library only where
   both tables are zero: what was built loads with further imports. (`imports_reloaded`)
2. `arm_exception_directory.cpp:171`: `set_saved_non_volatile_registers` assigns
   its mask instead of clearing with it; `arm_common_unwind_info.cpp:165,172`:
   the two setters of an extended header have each other's mask. (`unwind_setters`)
3. `tls_directory_builder.cpp:82`: in place, a TLS directory with an address of
   callbacks and no callback has its terminator written to RVA 0.
   (`edited_directories`)

Met while modelling, and modelled as the code has it, or left out by a
precondition above:

* `section_data_length_from_va.cpp:16` takes the first RVA behind the headers
  for one of the headers (`<=`), `section_data_from_va.cpp` does not (`<`).
* `data_directories.cpp:70`: directories behind a virtual one stay
  default-constructed, with a full physical size, and a build without virtual
  parts writes them.
* `import_directory_builder.cpp:330` counts names of libraries with a lookup
  table only, the names are written for all; line 270 compares the new lookup
  table with the old address table, so that a rebuild at the same place drops a
  table whose address they share; line 424 returns the end of the address
  tables as their RVA; line 110 aligns behind one descriptor where the build
  (line 400) aligns behind all of them, so that with entries of eight bytes the
  announced size can be four bytes short. `AsAnnounced` asks for the announced
  size where descriptors keep the alignment.
* `image_rebase.cpp:91`: a relocation that fails leaves the ones before it
  applied and the base as it was. `relocation_directory_loader.cpp:195`: the sum
  behind a block is outside the try block.
* `x64_exception_directory.h:246` says that UWOP_EPILOG takes 2 slots, its type
  is `opcode_base<>`, which has no node behind its own: the loader goes on with
  the next slot, and reads the second slot of an epilog as a code. The model has the type (`NodesOfOtherCodes`); `CodesTile` takes the number of
  slots of every other code from its comment, and leaves open what follows an
  epilog.
* x64: `too_many_c_specific_handler_records` cannot be reached (loader, lines
  326-331); the limit of chained entries is not used. ARM: an unsupported code
  overwrites the one before it, and is undefined as the first of a list.
* Load configuration: the previous entry of the continuation table is never
  updated; the dynamic relocation table is reset and then used (loader, lines
  1482-1491); the stride of a guard table is or-ed to the old one
  (`load_config_directory.cpp:177`). Without an error, the loader steps over what
  is left of a version-2 relocation header behind its symbol's fields and over
  what lies around the BDD in the region behind the function overrides.
* Exports: neither adding nor building sets the number of names and the ordinals
  of names; the previous name is a dangling pointer in the loader;
  `get_built_size` throws for the ordinal 0xffff. Bound imports: the number of
  references is left to the caller. TLS: a `noexcept` `get_built_size` throws.
* Debug lists (omap, fpo, pogo) keep a last entry that could not be read.
* Rich: a checksum that begins like the signature is not found; a start mark
  directly before the signature is accepted, its distance being computed
  without a sign (`rich_header_utils.cpp`).
* Security: padding of certificates is counted from where the overlay starts;
  an exception of a nested signature leaves `verify_authenticode_full`; hashes
  take the security directory for the end of the overlay.
* Message tables: reading stops in silence when the messages reach exactly the
  maximum (`message_table_reader.cpp:248`); `set_start_id` computes a last
  identifier one too large (`message_table.cpp:12`).
* Strings with a length: assignment halves the length (`packed_utf16_string.h:44`),
  its constructor leaves the sizes 0, so that a name emplaced in a resource
  directory cannot be serialized; the conversion of byte order is of another
  variable than the one written (`packed_utf16_string.cpp:73`). Virtual strings
  of a string table take one character of it.
* Icons and cursors: a header that is partly virtual is written short and shifts
  what follows; sizes are checked against the entry of the resource, not that of
  the file.
* Version information: `get_value_by_key` chooses the default language without
  looking whether it has the key.
* Manifests: a list of flags with a comma at its end has an empty part there and
  is told to hold an unknown flag (`for_each_part`); `misc_status` asks for
  "ignoreativatewhenvisible" (line 568); a second `application` in `compatibility` is passed over in
  silence, so is a `supportedOS` without an identifier; a `dependentAssembly`
  behind one without identity is reported, not read; attributes with a prefix
  that is not declared, `xml:space` too, make the manifest unreadable.

## 7. What is not modelled

* Names, strings and payloads are abstract: equality and size is all they have.
* Padding, reflection over fields, formatting, console output.
* `build_in_place` of relocations, imports and exports, and the data
  directories they would update; unload tables of delay
  imports; what the loaders of exports and TLS report about directories that
  were not built.
* `thumb_mov32` relocations, and truncation of the new base to 32 bits in PE32.
* The builder's checks of 64-bit sums: with sections of 32-bit sizes they cannot
  fail. Of an import build: the region is large enough.
* Import models load without virtual data and without headers.
* Writes of a caller into the buffer of the headers, and validators of single
  fields of the headers other than those of the sections and the size of the image.
* Cryptography and ASN.1, most of it in libraries: what they answer is chosen.
* The tables of languages, code pages, types and products: data without state.
* `console_dumper`, tests, and third-party code.

## 8. What could come next

1. `build_in_place` of imports and relocations, and the data directories a build
   updates; a directory that was loaded from a file, edited and built.
2. The composition of loader, edits of the headers' buffer and builder; so far
   `update_full_headers_buffer` is compared with the file directly after a load.
3. Theorems: `FieldsIndependent`, from lemmas on sums of bits; `BuiltIsImported`,
   that each table of a built import directory is found where its descriptor
   says.
4. An image as a map from offsets to bytes, which load followed by build keeps,
   as an abstract specification.

## Running

`tlc -config <run>.cfg <MC module>.tla` checks a run, `tlapm <module>.tla` the
proofs of a module. No run takes longer than a few minutes with two workers.
