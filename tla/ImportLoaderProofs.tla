------------------------- MODULE ImportLoaderProofs -------------------------
(***************************************************************************)
(* What holds of the libraries that imports::load finds, for every memory: *)
(* descriptors and tables of any length, at any RVA, one over the other.   *)
(***************************************************************************)
EXTENDS ImportLoader, TLAPS

-----------------------------------------------------------------------------
(* What is read.                                                           *)

(* A descriptor, a thunk, a string, whatever is at an RVA that is there.   *)
LEMMA WhatIsRead ==
  ASSUME IsMemory(mem), NEW rva \in DOMAIN mem
  PROVE  /\ Read("descriptor", rva) \in DescriptorItems
         /\ Read("thunk", rva) \in Thunks
         /\ Read("string", rva).name \in Names \cup {EmptyName, WrongName}
<1>1. mem[rva] = Zero \/ mem[rva].item \in Items
  BY DEF IsMemory
<1>2. /\ Nothing("descriptor") \in DescriptorItems /\ Wrong("descriptor") \in DescriptorItems
      /\ Nothing("thunk") \in Thunks /\ Wrong("thunk") \in Thunks
      /\ Nothing("string").name = EmptyName /\ Wrong("string").name = WrongName
  BY ImportAssumption
  DEF Nothing, Wrong, DescriptorItems, Thunks, Descriptor, NoThunk, Thunk, Rvas, String
<1>3. ASSUME NEW type, mem[rva] # Zero, mem[rva].item.type = type
      PROVE  /\ type = "descriptor" => mem[rva].item \in DescriptorItems
             /\ type = "thunk" => mem[rva].item \in Thunks
             /\ type = "string" => mem[rva].item \in StringItems
  BY <1>1, <1>3 DEF Items, DescriptorItems, Thunks, HintItems, StringItems
<1>4. ASSUME NEW type
      PROVE  \/ Read(type, rva) \in {Nothing(type), Wrong(type)}
             \/ mem[rva] # Zero /\ mem[rva].item.type = type /\ Read(type, rva) = mem[rva].item
  BY DEF Read
<1>5. Read("descriptor", rva) \in DescriptorItems
  BY <1>2, <1>3, <1>4
<1>6. Read("thunk", rva) \in Thunks
  BY <1>2, <1>3, <1>4
<1>7. Read("string", rva).name \in Names \cup {EmptyName, WrongName}
  BY <1>2, <1>3, <1>4 DEF StringItems
<1> QED
  BY <1>5, <1>6, <1>7

(* What can be read is in memory, to the last byte of it.                  *)
LEMMA ReadableThere ==
  ASSUME IsMemory(mem), NEW rva \in Nat, NEW n \in Nat \ {0}, Readable(rva, n)
  PROVE  rva \in DOMAIN mem /\ rva + n - 1 \in Rvas
BY ImportAssumption DEF Readable, IsMemory, Rvas

LEMMA NameThere ==
  ASSUME IsMemory(mem), NEW rva \in Nat, StringEnds(rva)
  PROVE  Read("string", rva).name \in Names \cup {EmptyName, WrongName}
BY WhatIsRead, ReadableThere DEF StringEnds

(* As many entries as memory has room for.                                 *)
LEMMA Division ==
  ASSUME NEW n \in Nat, NEW d \in Nat \ {0}, NEW m \in Nat, n * d <= m
  PROVE  n <= m \div d
<1>1. m < d * (m \div d) + d /\ m \div d \in Nat
  BY SMTT(30)
<1>2. n < m \div d + 1
  <2> SUFFICES ASSUME n >= m \div d + 1 PROVE FALSE
    BY <1>1
  <2>1. n * d >= (m \div d + 1) * d
    BY <1>1, SMTT(30)
  <2>2. (m \div d + 1) * d = d * (m \div d) + d
    BY <1>1, SMTT(30)
  <2>3. n * d \in Nat /\ d * (m \div d) \in Nat /\ (m \div d + 1) * d \in Nat
    BY <1>1, SMTT(30)
  <2> QED
    BY <1>1, <2>1, <2>2, <2>3
<1> QED
  BY <1>1, <1>2

-----------------------------------------------------------------------------
(***************************************************************************)
(* The inductive invariant.  What is said of a table that is loaded is that *)
(* the cursors have gone as far as there are imports, and that no entry     *)
(* behind them is the end.                                                  *)
(***************************************************************************)

ZeroAt(lib, k) == ThunkIsZero(lib.lookup, k) /\ ThunkIsZero(lib.address, k)

CursorAt(table, n) == IF table = 0 THEN 0 ELSE table + n * VaSize

InTable ==
  phase = "imports" =>
    /\ dir # <<>> /\ Current.address # 0
    /\ lookup = CursorAt(Current.lookup, Len(Current.imports))
    /\ address = CursorAt(Current.address, Len(Current.imports))
    /\ \A k \in 0..(Len(Current.imports) - 1) : ~ZeroAt(Current, k)

IInv == TypeOK /\ InTable /\ TablesComplete /\ DifferencesFound

(* Neither a library nor an entry is another one while memory is the same. *)
LEMMA SameMemory ==
  ASSUME mem' = mem
  PROVE  /\ \A lib, k : ZeroAt(lib, k)' <=> ZeroAt(lib, k)
         /\ \A lib : ZeroEntries(lib)' = ZeroEntries(lib)
         /\ \A rva : Read("thunk", rva)' = Read("thunk", rva)
<1>1. \A rva : Read("thunk", rva)' = Read("thunk", rva)
  BY DEF Read, Readable
<1>2. \A table, k : ThunkIsZero(table, k)' <=> ThunkIsZero(table, k)
  BY <1>1 DEF ThunkIsZero, Readable
<1>3. \A lib, k : ZeroAt(lib, k)' <=> ZeroAt(lib, k)
  BY <1>2 DEF ZeroAt
<1>4. \A lib : ZeroEntries(lib)' = ZeroEntries(lib)
  BY <1>2 DEF ZeroEntries
<1> QED
  BY <1>1, <1>3, <1>4

(* A library that is added at the end, and one that is changed there.      *)
LEMMA Added ==
  ASSUME dir \in Seq(Libraries), NEW lib \in Libraries, dir' = Append(dir, lib)
  PROVE  /\ dir' \in Seq(Libraries) /\ Len(dir') = Len(dir) + 1 /\ dir' # <<>>
         /\ dir'[Len(dir')] = lib
         /\ \A i \in DOMAIN dir' : i # Len(dir') => i \in DOMAIN dir /\ dir'[i] = dir[i]
OBVIOUS

LEMMA Changed ==
  ASSUME dir \in Seq(Libraries), dir # <<>>, NEW lib \in Libraries,
         dir' = [dir EXCEPT ![Len(dir)] = lib]
  PROVE  /\ dir' \in Seq(Libraries) /\ Len(dir') = Len(dir) /\ dir' # <<>>
         /\ dir'[Len(dir')] = lib
         /\ \A i \in DOMAIN dir' : i # Len(dir') => i \in DOMAIN dir /\ dir'[i] = dir[i]
OBVIOUS

(* The first entry that is zero is the end.                                *)
LEMMA TheEnd ==
  ASSUME NEW ends \in SUBSET Nat, NEW n \in ends, \A k \in ends : n <= k
  PROVE  Ending(ends) = <<n>>
<1>1. \A m \in ends : (\A k \in ends : m <= k) => m = n
  OBVIOUS
<1> QED
  BY <1>1 DEF Ending

(* The library that is loaded, when its tables end after n imports.        *)
LEMMA EndFound ==
  ASSUME IsMemory(mem), NEW lib \in Libraries, lib.address # 0,
         ThunkIsZero(lib.address, Len(lib.imports)),
         ThunkIsZero(lib.lookup, Len(lib.imports)),
         \A k \in 0..(Len(lib.imports) - 1) : ~ZeroAt(lib, k)
  PROVE  Ending(ZeroEntries(lib)) = <<Len(lib.imports)>>
<1> DEFINE n == Len(lib.imports)
<1> USE ImportAssumption
<1>1. n \in Nat /\ lib.address \in Rvas
  BY DEF Libraries
<1>2. n * VaSize \in Nat
  BY <1>1
<1>3. Readable(lib.address + n * VaSize, VaSize)
  BY DEF ThunkIsZero
<1>4. lib.address + n * VaSize \in DOMAIN mem
  <2> DEFINE p == n * VaSize
  <2> HIDE DEF p
  <2>1. p \in Nat /\ Readable(lib.address + p, VaSize)
    BY <1>2, <1>3 DEF p
  <2>2. lib.address + p \in Nat
    BY <1>1, <2>1 DEF Rvas
  <2> QED
    BY <2>1, <2>2, ReadableThere DEF p
<1>5. n <= RvaMax \div VaSize
  <2>1. lib.address + n * VaSize \in Rvas
    BY <1>4 DEF IsMemory
  <2>2. \A a \in Rvas, p \in Nat : a + p \in Rvas => p <= RvaMax
    BY DEF Rvas
  <2>3. n * VaSize <= RvaMax
    BY <1>1, <1>2, <2>1, <2>2
  <2> QED
    BY <1>1, <2>3, Division
<1>6. RvaMax \div VaSize \in Nat
  OBVIOUS
<1>7. n \in ZeroEntries(lib)
  BY <1>1, <1>5, <1>6 DEF ZeroEntries
<1>8. \A k \in ZeroEntries(lib) : k \in Nat /\ n <= k
  BY <1>1, <1>6 DEF ZeroEntries, ZeroAt
<1> QED
  BY <1>7, <1>8, TheEnd

-----------------------------------------------------------------------------
(* Each step keeps the invariant.                                          *)

LEMMA Initially == Init => IInv
<1> SUFFICES ASSUME Init PROVE IInv
  OBVIOUS
<1>1. TypeOK
  BY ImportAssumption DEF Init, TypeOK, Rvas
<1> QED
  BY <1>1 DEF Init, IInv, InTable, TablesComplete, DifferencesFound

(* What is to hold of one library.                                         *)
Complete(lib) ==
  lib.errors \cap {"tables", "zero_iat", "zero_iat_and_ilt"} = {} =>
    Ending(ZeroEntries(lib)) = <<Len(lib.imports)>>

DifferAt(lib, k) ==
  "differ" \in lib.imports[k].errors <=>
    Read("thunk", lib.lookup + (k - 1) * VaSize) # Read("thunk", lib.address + (k - 1) * VaSize)

Told(lib) ==
  ~dump /\ ~lib.bound /\ lib.lookup # 0 => \A k \in DOMAIN lib.imports : DifferAt(lib, k)

LastDone == phase = "library" \/ (phase = "done" /\ errors = {})

LEMMA OfLibraries ==
  /\ TablesComplete <=> \A i \in DOMAIN dir : i < Len(dir) \/ LastDone => Complete(dir[i])
  /\ DifferencesFound <=> \A i \in DOMAIN dir : Told(dir[i])
BY DEF TablesComplete, DifferencesFound, Complete, Told, DifferAt, LastDone

LEMMA SameLibraries ==
  ASSUME mem' = mem, dump' = dump
  PROVE  /\ \A lib : Complete(lib)' <=> Complete(lib)
         /\ \A lib, k : DifferAt(lib, k)' <=> DifferAt(lib, k)
         /\ \A lib : Told(lib)' <=> Told(lib)
<1>1. \A lib : Complete(lib)' <=> Complete(lib)
  BY SameMemory DEF Complete, Ending
<1>2. \A lib, k : DifferAt(lib, k)' <=> DifferAt(lib, k)
  BY SameMemory DEF DifferAt
<1> QED
  BY <1>1, <1>2 DEF Told

(* A step that adds or changes the last library is to be looked at there   *)
(* alone.                                                                  *)
LEMMA LastOnly ==
  ASSUME IInv, mem' = mem, dump' = dump,
         dir' \in Seq(Libraries), dir' # <<>>,
         \A i \in DOMAIN dir' : i # Len(dir') => i \in DOMAIN dir /\ dir'[i] = dir[i],
         phase = "library" \/ Len(dir') = Len(dir),
         Told(dir'[Len(dir')]),
         LastDone' => Complete(dir'[Len(dir')])
  PROVE  TablesComplete' /\ DifferencesFound'
<1>1. \A i \in DOMAIN dir' : i < Len(dir') \/ LastDone' => Complete(dir'[i])
  <2> SUFFICES ASSUME NEW i \in DOMAIN dir', i < Len(dir') \/ LastDone' PROVE Complete(dir'[i])
    OBVIOUS
  <2>1. CASE i = Len(dir')
    BY <2>1
  <2>2. CASE i # Len(dir')
    <3>1. i \in DOMAIN dir /\ dir'[i] = dir[i]
      BY <2>2
    <3>2. i < Len(dir) \/ LastDone
      BY <2>2, <3>1 DEF LastDone, IInv, TypeOK
    <3> QED
      BY <3>1, <3>2, OfLibraries DEF IInv
  <2> QED
    BY <2>1, <2>2
<1>2. \A i \in DOMAIN dir' : Told(dir'[i])
  <2> SUFFICES ASSUME NEW i \in DOMAIN dir' PROVE Told(dir'[i])
    OBVIOUS
  <2> QED
    BY OfLibraries DEF IInv
<1>3. (\A i \in DOMAIN dir : i < Len(dir) \/ LastDone => Complete(dir[i]))'
  BY <1>1, SameLibraries
<1>4. (\A i \in DOMAIN dir : Told(dir[i]))'
  BY <1>2, SameLibraries
<1>5. TablesComplete'
  BY <1>3 DEF TablesComplete, Complete, LastDone
<1>6. DifferencesFound'
  BY <1>4 DEF DifferencesFound, Told, DifferAt
<1> QED
  BY <1>5, <1>6

LEMMA SameList ==
  ASSUME IInv, mem' = mem, dump' = dump, dir' = dir, LastDone' => LastDone
  PROVE  TablesComplete' /\ DifferencesFound'
<1>1. (\A i \in DOMAIN dir : i < Len(dir) \/ LastDone => Complete(dir[i]))'
  BY OfLibraries, SameLibraries DEF IInv
<1>2. (\A i \in DOMAIN dir : Told(dir[i]))'
  BY OfLibraries, SameLibraries DEF IInv
<1>3. TablesComplete'
  BY <1>1 DEF TablesComplete, Complete, LastDone
<1>4. DifferencesFound'
  BY <1>2 DEF DifferencesFound, Told, DifferAt
<1> QED
  BY <1>3, <1>4

(* load_library.                                                           *)
LEMMA LibraryIs ==
  ASSUME IInv, NEW es \in SUBSET {"zero_iat_and_ilt", "zero_iat"}, Readable(at, DescriptorSize)
  PROVE  LET d == Read("descriptor", at)
             lib == Library(d, LibraryName(d), LibraryErrors(d) \cup es)
         IN  /\ d \in DescriptorItems /\ lib \in Libraries /\ lib.imports = <<>>
             /\ lib.address = d.address /\ lib.lookup = d.lookup /\ es \subseteq lib.errors
<1> DEFINE d == Read("descriptor", at)
<1>1. d \in DescriptorItems
  BY WhatIsRead, ReadableThere, ImportAssumption DEF IInv, TypeOK, Rvas
<1>2. d.name \in Nat /\ d.lookup \in Rvas /\ d.address \in Rvas /\ d.bound \in BOOLEAN
  BY <1>1 DEF DescriptorItems, Rvas
<1> HIDE DEF d
<1>3. LibraryName(d) \in Names \cup {EmptyName, WrongName}
  BY <1>2, NameThere DEF LibraryName, IInv, TypeOK
<1>4. LibraryErrors(d) \subseteq {"name", "empty_name"}
  BY DEF LibraryErrors
<1>5. <<>> \in Seq(Imports)
  OBVIOUS
<1>6. Library(d, LibraryName(d), LibraryErrors(d) \cup es) \in Libraries
  BY <1>2, <1>3, <1>4, <1>5 DEF Library, Libraries
<1> QED
  BY <1>1, <1>6 DEF Library, d

LEMMA LibraryStep == IInv /\ LoadLibrary => IInv'
<1> SUFFICES ASSUME IInv, LoadLibrary PROVE IInv'
  OBVIOUS
<1> DEFINE d == Read("descriptor", at)
<1>1. phase = "library" /\ mem' = mem /\ dump' = dump
  BY DEF LoadLibrary, EndUnread, EndOfLibraries
<1>2. CASE EndUnread
  <2>1. TypeOK' /\ InTable'
    BY <1>2 DEF EndUnread, cursor, IInv, TypeOK, InTable
  <2>2. dir' = dir /\ ~LastDone'
    BY <1>2 DEF EndUnread, LastDone
  <2> QED
    BY <1>1, <2>1, <2>2, SameList DEF IInv
<1>3. CASE EndOfLibraries
  <2>1. TypeOK' /\ InTable'
    BY <1>3 DEF EndOfLibraries, cursor, IInv, TypeOK, InTable
  <2>2. dir' = dir /\ LastDone
    BY <1>1, <1>3 DEF EndOfLibraries, LastDone
  <2> QED
    BY <1>1, <2>1, <2>2, SameList DEF IInv
<1>4. CASE /\ Readable(at, DescriptorSize) /\ AddLibrary(d, {})
           /\ phase' = "done" /\ errors' = errors \cup {"directory"} /\ UNCHANGED cursor
  <2>1. LET lib == Library(d, LibraryName(d), LibraryErrors(d) \cup {}) IN
        lib \in Libraries /\ lib.imports = <<>> /\ dir' = Append(dir, lib)
    BY <1>4, LibraryIs DEF AddLibrary
  <2>2. PICK lib \in Libraries : lib.imports = <<>> /\ dir' = Append(dir, lib)
    BY <2>1
  <2>3. /\ dir' \in Seq(Libraries) /\ dir' # <<>> /\ dir'[Len(dir')] = lib
        /\ \A i \in DOMAIN dir' : i # Len(dir') => i \in DOMAIN dir /\ dir'[i] = dir[i]
    BY <2>2, Added DEF IInv, TypeOK
  <2>4. Told(lib)
    BY <2>2 DEF Told
  <2>5. ~LastDone'
    BY <1>4 DEF LastDone
  <2>6. TablesComplete' /\ DifferencesFound'
    BY <1>1, <2>3, <2>4, <2>5, LastOnly
  <2>7. TypeOK' /\ InTable'
    BY <1>1, <1>4, <2>3 DEF cursor, IInv, TypeOK, InTable
  <2> QED
    BY <2>6, <2>7 DEF IInv
<1>5. CASE /\ Readable(at, DescriptorSize) /\ at + DescriptorSize <= RvaMax
           /\ AddLibrary(d, TableErrors(d))
           /\ at' = at + DescriptorSize
           /\ phase' = IF d.address = 0 THEN "library" ELSE "imports"
           /\ lookup' = d.lookup /\ address' = d.address
           /\ UNCHANGED errors
  <2> DEFINE es == TableErrors(d)
  <2>1. /\ es \in SUBSET {"zero_iat_and_ilt", "zero_iat"}
        /\ d.address = 0 => es # {}
    BY DEF TableErrors
  <2>2. LET lib == Library(d, LibraryName(d), LibraryErrors(d) \cup es) IN
        /\ lib \in Libraries /\ lib.imports = <<>> /\ dir' = Append(dir, lib)
        /\ d \in DescriptorItems
        /\ lib.address = d.address /\ lib.lookup = d.lookup /\ es \subseteq lib.errors
    BY <1>5, <2>1, LibraryIs DEF AddLibrary
  <2> HIDE DEF d, es
  <2>3. PICK lib \in Libraries :
          /\ lib.imports = <<>> /\ dir' = Append(dir, lib)
          /\ lib.address = d.address /\ lib.lookup = d.lookup /\ es \subseteq lib.errors
    BY <2>2
  <2>4. /\ dir' \in Seq(Libraries) /\ dir' # <<>> /\ dir'[Len(dir')] = lib
        /\ \A i \in DOMAIN dir' : i # Len(dir') => i \in DOMAIN dir /\ dir'[i] = dir[i]
    BY <2>3, Added DEF IInv, TypeOK
  <2>5. Told(lib)
    BY <2>3 DEF Told
  <2>6. LastDone' => Complete(lib)
    <3> SUFFICES ASSUME LastDone' PROVE Complete(lib)
      OBVIOUS
    <3>1. d.address = 0
      BY <1>5 DEF LastDone
    <3> QED
      BY <2>1, <2>3, <3>1 DEF Complete
  <2>7. TablesComplete' /\ DifferencesFound'
    BY <1>1, <2>4, <2>5, <2>6, LastOnly
  <2>8. d.lookup \in Rvas /\ d.address \in Rvas /\ at' \in Rvas
    BY <1>5, <2>2, ImportAssumption DEF DescriptorItems, Rvas, IInv, TypeOK
  <2>9. TypeOK'
    BY <1>1, <1>5, <2>4, <2>8 DEF IInv, TypeOK
  <2>10. InTable'
    <3> SUFFICES ASSUME phase' = "imports"
                 PROVE  /\ dir' # <<>> /\ Current'.address # 0
                        /\ lookup' = CursorAt(Current'.lookup, Len(Current'.imports))
                        /\ address' = CursorAt(Current'.address, Len(Current'.imports))
                        /\ Len(Current'.imports) = 0
      BY DEF InTable, CursorAt
    <3>1. Current' = lib /\ Len(lib.imports) = 0
      BY <2>3, <2>4 DEF Current
    <3>2. d.address # 0
      BY <1>5
    <3>3. 0 * VaSize = 0
      BY ImportAssumption
    <3> QED
      BY <1>5, <2>3, <2>4, <2>8, <3>1, <3>2, <3>3 DEF CursorAt, Rvas
  <2> QED
    BY <2>7, <2>9, <2>10 DEF IInv
<1> QED
  BY <1>2, <1>3, <1>4, <1>5 DEF LoadLibrary

(* load_import.  The cursors are where the entries of the import are.      *)
LEMMA TableFacts ==
  ASSUME IInv, phase = "imports"
  PROVE  /\ dir \in Seq(Libraries) /\ dir # <<>> /\ Current \in Libraries
         /\ Len(Current.imports) \in Nat /\ Current.address \in Nat \ {0} /\ Current.lookup \in Nat
         /\ Len(Current.imports) * VaSize \in Nat
         /\ address = Current.address + Len(Current.imports) * VaSize
         /\ Current.lookup = 0 => lookup = 0
         /\ Current.lookup # 0 => lookup = Current.lookup + Len(Current.imports) * VaSize
         /\ lookup = 0 <=> Current.lookup = 0
<1>1. dir \in Seq(Libraries) /\ dir # <<>>
  BY DEF IInv, TypeOK, InTable
<1>2. Current \in Libraries
  BY <1>1 DEF Current
<1>3. Len(Current.imports) \in Nat /\ Current.address \in Nat \ {0} /\ Current.lookup \in Nat
  BY <1>2 DEF Libraries, Rvas, IInv, InTable
<1>4. Len(Current.imports) * VaSize \in Nat
  BY <1>3, ImportAssumption
<1>5. /\ lookup = CursorAt(Current.lookup, Len(Current.imports))
      /\ address = CursorAt(Current.address, Len(Current.imports))
  BY DEF IInv, InTable
<1> QED
  BY <1>1, <1>2, <1>3, <1>4, <1>5 DEF CursorAt

LEMMA EntriesThere ==
  ASSUME IInv, phase = "imports", Readable(address, VaSize), lookup = 0 \/ Readable(lookup, VaSize)
  PROVE  /\ AddressThunk \in Thunks /\ LookupThunk \in Thunks
         /\ ThunkIsZero(Current.address, Len(Current.imports)) <=> AddressThunk = NoThunk
         /\ ThunkIsZero(Current.lookup, Len(Current.imports)) <=> LookupThunk = NoThunk
<1>1. AddressThunk \in Thunks
  BY WhatIsRead, ReadableThere, ImportAssumption DEF AddressThunk, IInv, TypeOK, Rvas
<1>2. LookupThunk \in Thunks
  <2>1. CASE lookup = 0
    BY <2>1 DEF LookupThunk, NoThunk, Thunk, Thunks
  <2>2. CASE lookup # 0
    BY <2>2, WhatIsRead, ReadableThere, ImportAssumption DEF LookupThunk, IInv, TypeOK, Rvas
  <2> QED
    BY <2>1, <2>2
<1>3. ThunkIsZero(Current.address, Len(Current.imports)) <=> AddressThunk = NoThunk
  BY TableFacts DEF ThunkIsZero, AddressThunk
<1>4. ThunkIsZero(Current.lookup, Len(Current.imports)) <=> LookupThunk = NoThunk
  BY TableFacts DEF ThunkIsZero, LookupThunk
<1> QED
  BY <1>1, <1>2, <1>3, <1>4

LEMMA ImportIs ==
  ASSUME IInv, phase = "imports", Readable(address, VaSize), lookup = 0 \/ Readable(lookup, VaSize)
  PROVE  /\ LoadedImport \in Imports
         /\ lookup # 0 => ("differ" \in LoadedImport.errors <=> "differ" \in Differ)
<1> USE EntriesThere, ImportAssumption
<1>1. ImportedVa \in Thunks \cup {None}
  BY DEF ImportedVa
<1>2. Differ \subseteq {"differ"}
  BY DEF Differ
<1>3. ASSUME NEW n \in Nat
      PROVE  OrdinalImport(n) \in Imports /\ ("differ" \in OrdinalImport(n).errors <=> "differ" \in Differ)
  <2>1. n % (OrdinalMax + 1) \in 0..OrdinalMax
    OBVIOUS
  <2> QED
    BY <1>1, <1>2, <2>1 DEF OrdinalImport, Import, Imports
<1>4. ASSUME NEW thunk \in Thunks
      PROVE  NamedImport(thunk) \in Imports /\ ("differ" \in NamedImport(thunk).errors <=> "differ" \in Differ)
  <2>1. thunk.n + HintSize \in Nat
    BY DEF Thunks
  <2>2. StringEnds(thunk.n + HintSize) =>
          Read("string", thunk.n + HintSize).name \in Names \cup {EmptyName, WrongName}
    BY <2>1, NameThere DEF IInv, TypeOK
  <2>3. 0 \in 0..OrdinalMax
    OBVIOUS
  <2> QED
    BY <1>1, <1>2, <2>2, <2>3 DEF NamedImport, Import, Imports
<1>5. CASE lookup = 0 /\ dump
  <2>1. LoadedImport = Import("address", EmptyName, 0, AddressThunk, {})
    BY <1>5 DEF LoadedImport
  <2> QED
    BY <1>5, <2>1 DEF Import, Imports
<1>6. CASE ~(lookup = 0 /\ dump)
  <2> DEFINE thunk == IF lookup = 0 THEN AddressThunk ELSE LookupThunk
  <2>1. thunk \in Thunks /\ thunk.n \in Nat
    BY DEF Thunks
  <2>2. LoadedImport = IF thunk.kind = "ordinal" THEN OrdinalImport(thunk.n) ELSE NamedImport(thunk)
    BY <1>6 DEF LoadedImport
  <2> HIDE DEF thunk
  <2> QED
    BY <1>3, <1>4, <2>1, <2>2
<1> QED
  BY <1>5, <1>6

(* The library with one more import is told, when it was before.           *)
LEMMA OneMore ==
  ASSUME IInv, phase = "imports", Readable(address, VaSize), lookup = 0 \/ Readable(lookup, VaSize),
         NEW es \in SUBSET {"name", "empty_name", "zero_iat_and_ilt", "zero_iat", "tables"},
         NEW lib, lib = [Current EXCEPT !.imports = Append(@, LoadedImport), !.errors = es]
  PROVE  /\ lib \in Libraries /\ Told(lib)
         /\ lib.errors = es /\ lib.address = Current.address /\ lib.lookup = Current.lookup
         /\ Len(lib.imports) = Len(Current.imports) + 1
<1> DEFINE n == Len(Current.imports)
<1>1. Current \in Libraries /\ Current.imports \in Seq(Imports) /\ n \in Nat
  BY TableFacts DEF Libraries
<1>2. /\ lib.errors = es /\ lib.address = Current.address /\ lib.lookup = Current.lookup
      /\ lib.bound = Current.bound /\ lib.imports = Append(Current.imports, LoadedImport)
  BY <1>1 DEF Libraries
<1>3. Append(Current.imports, LoadedImport) \in Seq(Imports)
  BY <1>1, ImportIs
<1>4. lib \in Libraries
  BY <1>1, <1>2, <1>3 DEF Libraries
<1>5. /\ Len(lib.imports) = n + 1 /\ DOMAIN lib.imports = 1..(n + 1) /\ lib.imports[n + 1] = LoadedImport
      /\ DOMAIN Current.imports = 1..n /\ \A k \in 1..n : lib.imports[k] = Current.imports[k]
  BY <1>1, <1>2
<1>6. Told(Current)
  BY TableFacts, OfLibraries DEF Current, IInv
<1>7. ASSUME ~dump, ~lib.bound, lib.lookup # 0, NEW k \in DOMAIN lib.imports
      PROVE  DifferAt(lib, k)
  <2>1. CASE k \in 1..n
    BY <1>2, <1>5, <1>6, <1>7, <2>1 DEF Told, DifferAt
  <2>2. CASE k = n + 1
    <3>1. k - 1 = n
      BY <1>1, <2>2
    <3>2. lookup # 0 /\ lookup = lib.lookup + n * VaSize /\ address = lib.address + n * VaSize
      BY <1>2, <1>7, TableFacts
    <3>3. "differ" \in Differ <=> LookupThunk # AddressThunk
      BY <1>2, <1>7, <3>2 DEF Differ
    <3>4. LookupThunk = Read("thunk", lib.lookup + n * VaSize)
      BY <3>2 DEF LookupThunk
    <3>5. AddressThunk = Read("thunk", lib.address + n * VaSize)
      BY <3>2 DEF AddressThunk
    <3> QED
      BY <1>5, <2>2, <3>1, <3>2, <3>3, <3>4, <3>5, ImportIs DEF DifferAt
  <2> QED
    BY <1>1, <1>5, <2>1, <2>2
<1> QED
  BY <1>2, <1>4, <1>5, <1>7 DEF Told

LEMMA ImportStep == IInv /\ LoadImport => IInv'
<1> SUFFICES ASSUME IInv, LoadImport PROVE IInv'
  OBVIOUS
<1>1. phase = "imports" /\ mem' = mem /\ dump' = dump
  BY DEF LoadImport, TableUnread, EndOfImports, NextImport, LibraryError
<1> USE TableFacts
<1>2. Told(Current)
  BY <1>1, OfLibraries DEF Current, IInv
<1>3. CASE TableUnread
  <2> DEFINE lib == [Current EXCEPT !.errors = @ \cup {"tables"}]
  <2>1. /\ lib \in Libraries /\ lib.errors = Current.errors \cup {"tables"}
        /\ lib.imports = Current.imports /\ lib.lookup = Current.lookup
        /\ lib.address = Current.address /\ lib.bound = Current.bound
    BY <1>1 DEF Libraries
  <2>2. dir' = [dir EXCEPT ![Len(dir)] = lib]
    BY <1>1, <1>3 DEF TableUnread, LibraryError, Current
  <2> HIDE DEF lib
  <2>3. /\ dir' \in Seq(Libraries) /\ Len(dir') = Len(dir) /\ dir' # <<>> /\ dir'[Len(dir')] = lib
        /\ \A i \in DOMAIN dir' : i # Len(dir') => i \in DOMAIN dir /\ dir'[i] = dir[i]
    BY <1>1, <2>1, <2>2, Changed
  <2>4. Told(lib) /\ Complete(lib)
    BY <1>2, <2>1 DEF Told, DifferAt, Complete
  <2>5. TablesComplete' /\ DifferencesFound'
    BY <1>1, <2>3, <2>4, LastOnly
  <2>6. TypeOK' /\ InTable'
    BY <1>1, <1>3, <2>3 DEF TableUnread, LibraryError, cursor, IInv, TypeOK, InTable
  <2> QED
    BY <2>5, <2>6 DEF IInv
<1>4. CASE /\ Readable(address, VaSize) /\ (lookup = 0 \/ Readable(lookup, VaSize))
           /\ EndOfImports
  <2>1. ThunkIsZero(Current.address, Len(Current.imports)) /\ ThunkIsZero(Current.lookup, Len(Current.imports))
    BY <1>1, <1>4, EntriesThere DEF EndOfImports
  <2>2. Complete(Current)
    BY <1>1, <2>1, EndFound DEF Complete, IInv, TypeOK, InTable
  <2>3. dir' = dir /\ dir[Len(dir)] = Current
    BY <1>4 DEF EndOfImports, Current
  <2>4. TablesComplete' /\ DifferencesFound'
    BY <1>1, <1>2, <2>2, <2>3, LastOnly
  <2>5. TypeOK' /\ InTable'
    BY <1>1, <1>4 DEF EndOfImports, cursor, IInv, TypeOK, InTable
  <2> QED
    BY <2>4, <2>5 DEF IInv
<1>5. CASE /\ Readable(address, VaSize) /\ (lookup = 0 \/ Readable(lookup, VaSize))
           /\ NextImport
  <2> DEFINE overflows == Advanced(lookup) > RvaMax \/ Advanced(address) > RvaMax
             es == IF overflows THEN Current.errors \cup {"tables"} ELSE Current.errors
             lib == [Current EXCEPT !.imports = Append(@, LoadedImport), !.errors = es]
  <2>1. es \in SUBSET {"name", "empty_name", "zero_iat_and_ilt", "zero_iat", "tables"}
    BY <1>1 DEF Libraries
  <2>2. dir' = [dir EXCEPT ![Len(dir)] = lib]
    <3>1. dir' = [dir EXCEPT ![Len(dir)] = WithImport(overflows)]
      BY <1>5 DEF NextImport
    <3>2. WithImport(overflows) = lib
      <4> HIDE DEF overflows
      <4>1. Current \in Libraries
        BY <1>1
      <4> QED
        BY <4>1 DEF Libraries, WithImport
    <3> QED
      BY <3>1, <3>2
  <2>3. /\ phase' = IF overflows THEN "done" ELSE "imports"
        /\ lookup' = IF overflows THEN lookup ELSE Advanced(lookup)
        /\ address' = IF overflows THEN address ELSE Advanced(address)
        /\ ~(AddressThunk = NoThunk /\ LookupThunk = NoThunk)
        /\ at' = at /\ errors' = errors
    BY <1>5 DEF NextImport
  <2>4. lookup \in Rvas /\ address \in Rvas
    BY DEF IInv, TypeOK
  <2>5. ~overflows => Advanced(lookup) \in Rvas /\ Advanced(address) \in Rvas
    BY <2>4, ImportAssumption DEF Advanced, Rvas
  <2>6. overflows => "tables" \in es
    OBVIOUS
  <2> HIDE DEF overflows, es
  <2>7. /\ lib \in Libraries /\ Told(lib)
        /\ lib.errors = es /\ lib.address = Current.address /\ lib.lookup = Current.lookup
        /\ Len(lib.imports) = Len(Current.imports) + 1
    BY <1>1, <1>5, <2>1, OneMore
  <2> HIDE DEF lib
  <2>8. /\ dir' \in Seq(Libraries) /\ Len(dir') = Len(dir) /\ dir' # <<>> /\ dir'[Len(dir')] = lib
        /\ \A i \in DOMAIN dir' : i # Len(dir') => i \in DOMAIN dir /\ dir'[i] = dir[i]
    BY <1>1, <2>2, <2>7, Changed
  <2>9. LastDone' => Complete(lib)
    BY <2>3, <2>6, <2>7 DEF LastDone, Complete
  <2>10. TablesComplete' /\ DifferencesFound'
    BY <1>1, <2>7, <2>8, <2>9, LastOnly
  <2>11. TypeOK'
    BY <1>1, <2>3, <2>5, <2>8 DEF IInv, TypeOK
  <2>12. InTable'
    <3> SUFFICES ASSUME phase' = "imports"
                 PROVE  /\ dir' # <<>> /\ Current'.address # 0
                        /\ lookup' = CursorAt(Current'.lookup, Len(Current'.imports))
                        /\ address' = CursorAt(Current'.address, Len(Current'.imports))
                        /\ \A k \in 0..(Len(Current'.imports) - 1) : ~ZeroAt(Current', k)
      BY <1>1, SameMemory DEF InTable, CursorAt
    <3> DEFINE n == Len(Current.imports)
    <3>1. Current' = lib /\ ~overflows
      BY <2>3, <2>8 DEF Current
    <3>2. n \in Nat /\ (n + 1) * VaSize = n * VaSize + VaSize /\ n * VaSize \in Nat
      BY <1>1, ImportAssumption
    <3>3. address' = CursorAt(lib.address, n + 1) /\ lookup' = CursorAt(lib.lookup, n + 1)
      <4> DEFINE p == n * VaSize
      <4>1. /\ p \in Nat /\ VaSize \in Nat \ {0} /\ (n + 1) * VaSize = p + VaSize
            /\ lib.address \in Nat \ {0} /\ lib.lookup \in Nat
            /\ address = lib.address + p /\ (lib.lookup = 0 => lookup = 0)
            /\ (lib.lookup # 0 => lookup = lib.lookup + p)
        BY <1>1, <2>7, <3>2, ImportAssumption
      <4>2. address' = Advanced(address) /\ lookup' = Advanced(lookup)
        BY <2>3, <3>1
      <4> HIDE DEF p, n
      <4>3. address' = lib.address + p + VaSize
        BY <4>1, <4>2 DEF Advanced
      <4>4. lookup' = IF lib.lookup = 0 THEN 0 ELSE lib.lookup + p + VaSize
        BY <4>1, <4>2 DEF Advanced
      <4> QED
        BY <4>1, <4>3, <4>4 DEF CursorAt
    <3>5. \A k \in 0..n : ~ZeroAt(lib, k)
      <4>1. ~ZeroAt(Current, n)
        BY <1>1, <1>5, <2>3, EntriesThere DEF ZeroAt
      <4>2. \A k \in 0..n - 1 : ~ZeroAt(Current, k)
        BY <1>1 DEF IInv, InTable
      <4>3. \A k : ZeroAt(lib, k) <=> ZeroAt(Current, k)
        BY <2>7 DEF ZeroAt
      <4> QED
        BY <3>2, <4>1, <4>2, <4>3
    <3> QED
      BY <1>1, <2>7, <2>8, <3>1, <3>2, <3>3, <3>5
  <2> QED
    BY <2>10, <2>11, <2>12 DEF IInv
<1> QED
  BY <1>3, <1>4, <1>5 DEF LoadImport

-----------------------------------------------------------------------------
(* The theorems.                                                           *)

(* The load of a directory keeps the invariant, whatever is in memory.     *)
THEOREM Invariance == Spec => []IInv
<1>1. IInv /\ [Load]_vars => IInv'
  <2> SUFFICES ASSUME IInv, [Load]_vars PROVE IInv'
    OBVIOUS
  <2>1. CASE UNCHANGED vars
    <3>1. mem' = mem /\ dump' = dump /\ dir' = dir /\ (LastDone' => LastDone)
      BY <2>1 DEF vars, LastDone
    <3>2. TablesComplete' /\ DifferencesFound'
      BY <3>1, SameList
    <3>3. TypeOK'
      BY <2>1 DEF vars, cursor, IInv, TypeOK
    <3>4. InTable'
      BY <2>1, SameMemory DEF vars, cursor, IInv, InTable, Current, CursorAt
    <3> QED
      BY <3>2, <3>3, <3>4 DEF IInv
  <2> QED
    BY <2>1, LibraryStep, ImportStep DEF Load
<1> QED
  BY <1>1, Initially, PTL DEF Spec

(* load_import: a library without an error has all the imports that its    *)
(* two tables hold before they end, and none behind.                       *)
THEOREM NoImportIsLost == Spec => []TablesComplete
<1>1. IInv => TablesComplete
  BY DEF IInv
<1> QED
  BY <1>1, Invariance, PTL

(* load_import: an import is said to differ exactly if its own entries of  *)
(* the two tables do.                                                      *)
THEOREM DifferencesAreTold == Spec => []DifferencesFound
<1>1. IInv => DifferencesFound
  BY DEF IInv
<1> QED
  BY <1>1, Invariance, PTL

=============================================================================
