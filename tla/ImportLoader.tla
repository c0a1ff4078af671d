---------------------------- MODULE ImportLoader ----------------------------
(***************************************************************************)
(* imports::load walks the import directory: descriptors of libraries one  *)
(* behind the other up to one without a name, and for each library its     *)
(* lookup table and its address table in parallel, up to an entry that is  *)
(* zero in both.                                                           *)
(*                                                                         *)
(* Memory maps an RVA to one byte of the item that was written there last, *)
(* so that a builder's tables can overwrite each other; an RVA outside its *)
(* domain cannot be read.  Names are abstract, with a size each.           *)
(***************************************************************************)
EXTENDS Integers, Sequences

CONSTANTS
  Files,     \* directories to load: memory, the RVA, is it a memory dump
  Names,     \* names of libraries and functions
  NameSize,  \* how long each is
  DescriptorSize, HintSize, \* packed sizes
  VaSize,    \* 4 or 8
  OrdinalMax, \* the largest ordinal
  RvaMax     \* the largest RVA

Rvas == 0..RvaMax

None == <<>>

EmptyName == "none"
WrongName == "wrong"

(* What can be at an RVA.                                                  *)
DescriptorItems ==
  [type : {"descriptor"}, lookup : Rvas, address : Rvas, name : Rvas, bound : BOOLEAN]

Thunks == [type : {"thunk"}, kind : {"rva", "va", "ordinal"}, n : Nat]

HintItems == [type : {"hint"}]

StringItems == [type : {"string"}, name : Names \cup {EmptyName}]

Items == DescriptorItems \cup Thunks \cup HintItems \cup StringItems

Zero == [item |-> None, at |-> 0]

IsMemory(m) == DOMAIN m \subseteq Rvas /\ \A r \in DOMAIN m : m[r] = Zero \/ m[r].item \in Items

ASSUME ImportAssumption ==
  /\ DescriptorSize \in Nat \ {0} /\ HintSize \in Nat
  /\ VaSize \in Nat \ {0} /\ RvaMax \in Nat /\ OrdinalMax \in Nat
  /\ NameSize \in [Names -> Nat \ {0}]
  /\ \A f \in Files : IsMemory(f.mem) /\ f.rva \in Rvas /\ f.dump \in BOOLEAN

VARIABLES
  mem,      \* the bytes of the image
  dump,     \* is_loaded_to_memory
  phase,    \* where load is
  at,       \* current_descriptor_rva
  lookup,   \* current_lookup_rva
  address,  \* current_address_rva
  dir,      \* the libraries loaded so far
  errors    \* errors of the directory itself

cursor == <<at, lookup, address>>
vars == <<mem, dump, phase, cursor, dir, errors>>

-----------------------------------------------------------------------------
(* What is in memory.                                                      *)

Descriptor(l, a, name, bound) ==
  [type |-> "descriptor", lookup |-> l, address |-> a, name |-> name, bound |-> bound]

Thunk(kind, n) == [type |-> "thunk", kind |-> kind, n |-> n]

Hint == [type |-> "hint"]

String(name) == [type |-> "string", name |-> name]

NoThunk == Thunk("rva", 0)

(* What is read where nothing is written, and where something else is.     *)
Nothing(type) ==
  CASE type = "descriptor" -> Descriptor(0, 0, 0, FALSE)
    [] type = "thunk" -> NoThunk
    [] type = "hint" -> Hint
    [] type = "string" -> String(EmptyName)

Wrong(type) ==
  CASE type = "descriptor" -> Descriptor(RvaMax, RvaMax, RvaMax, FALSE)
    [] type = "thunk" -> Thunk("va", RvaMax)
    [] type = "hint" -> Hint
    [] type = "string" -> String(WrongName)

SizeOf(item) ==
  CASE item.type = "descriptor" -> DescriptorSize
    [] item.type = "thunk" -> VaSize
    [] item.type = "hint" -> HintSize
    [] item.type = "string" -> IF item.name \in Names THEN NameSize[item.name] + 1 ELSE 1

Readable(rva, n) == rva..(rva + n - 1) \subseteq DOMAIN mem

(* struct_from_rva and string_from_rva, where they do not throw.           *)
Read(type, rva) ==
  LET first == mem[rva]
      size == SizeOf(IF first = Zero THEN Nothing(type) ELSE first.item)
  IN  CASE first = Zero /\ (\A k \in rva..(rva + size - 1) : mem[k] = Zero) -> Nothing(type)
        [] /\ first # Zero /\ first.item.type = type /\ Readable(rva, size)
           /\ \A k \in 0..(size - 1) : mem[rva + k] = [item |-> first.item, at |-> k] -> first.item
        [] OTHER -> Wrong(type)

(* A string can be read when it ends before the memory does.               *)
StringEnds(rva) ==
  /\ Readable(rva, 1)
  /\ mem[rva] # Zero /\ mem[rva].item.type = "string" => Readable(rva, SizeOf(mem[rva].item))

-----------------------------------------------------------------------------
(* Libraries and imports                                                   *)

HasLookup(lib) == lib.lookup # 0 /\ lib.lookup # lib.address

Import(kind, name, n, va, es) ==
  [kind |-> kind, name |-> name, n |-> n, va |-> va, errors |-> es]

Library(d, name, es) ==
  [lookup |-> d.lookup, address |-> d.address, bound |-> d.bound, name |-> name,
   imports |-> <<>>, errors |-> es]

Init ==
  /\ \E f \in Files : mem = f.mem /\ dump = f.dump /\ at = f.rva
  /\ phase = "library" /\ lookup = 0 /\ address = 0
  /\ dir = <<>> /\ errors = {}

-----------------------------------------------------------------------------
(* load_library                                                            *)

EndUnread ==
  /\ ~Readable(at, DescriptorSize)
  /\ phase' = "done" /\ errors' = errors \cup {"directory"}
  /\ UNCHANGED <<mem, dump, cursor, dir>>

EndOfLibraries ==
  /\ Readable(at, DescriptorSize) /\ Read("descriptor", at).name = 0
  /\ phase' = "done"
  /\ UNCHANGED <<mem, dump, cursor, dir, errors>>

LibraryName(d) == IF StringEnds(d.name) THEN Read("string", d.name).name ELSE EmptyName

LibraryErrors(d) ==
  IF ~StringEnds(d.name) THEN {"name"}
  ELSE IF LibraryName(d) = EmptyName THEN {"empty_name"} ELSE {}

TableErrors(d) ==
  IF d.address # 0 THEN {} ELSE IF d.lookup = 0 THEN {"zero_iat_and_ilt"} ELSE {"zero_iat"}

AddLibrary(d, es) == dir' = Append(dir, Library(d, LibraryName(d), LibraryErrors(d) \cup es))

LoadLibrary ==
  /\ phase = "library"
  /\ \/ EndUnread
     \/ EndOfLibraries
     \/ /\ Readable(at, DescriptorSize)
        /\ LET d == Read("descriptor", at) IN
           /\ d.name # 0
           /\ \/ /\ at + DescriptorSize > RvaMax
                 /\ AddLibrary(d, {})
                 /\ phase' = "done" /\ errors' = errors \cup {"directory"}
                 /\ UNCHANGED cursor
              \/ /\ at + DescriptorSize <= RvaMax
                 /\ AddLibrary(d, TableErrors(d))
                 /\ at' = at + DescriptorSize
                 /\ phase' = IF d.address = 0 THEN "library" ELSE "imports"
                 /\ lookup' = d.lookup /\ address' = d.address
                 /\ UNCHANGED errors
        /\ UNCHANGED <<mem, dump>>

-----------------------------------------------------------------------------
(* load_import                                                             *)

Current == dir[Len(dir)]

AddressThunk == Read("thunk", address)

(* The thunk of the lookup table; the library may have none.               *)
LookupThunk == IF lookup = 0 THEN NoThunk ELSE Read("thunk", lookup)

(* Adding to a number 0 of the code, an RVA that is not there, is skipped. *)
Advanced(rva) == IF rva = 0 THEN 0 ELSE rva + VaSize

LibraryError(e, step) ==
  /\ dir' = [dir EXCEPT ![Len(dir)].errors = @ \cup {e}]
  /\ phase' = step
  /\ UNCHANGED <<mem, dump, cursor, errors>>

(* Faulty: entries that cannot be read are tried again.                     *)
TableUnreadAgain ==
  /\ ~Readable(address, VaSize) \/ (lookup # 0 /\ ~Readable(lookup, VaSize))
  /\ LibraryError("tables", "imports")

TableUnread ==
  /\ ~Readable(address, VaSize) \/ (lookup # 0 /\ ~Readable(lookup, VaSize))
  /\ LibraryError("tables", "library")

(* Faulty: one zero ends the tables.                                       *)
EndOfImportsEither ==
  /\ AddressThunk = NoThunk \/ LookupThunk = NoThunk
  /\ phase' = "library"
  /\ UNCHANGED <<mem, dump, cursor, dir, errors>>

EndOfImports ==
  /\ AddressThunk = NoThunk /\ LookupThunk = NoThunk
  /\ phase' = "library"
  /\ UNCHANGED <<mem, dump, cursor, dir, errors>>

(* Faulty: an entry missing from the address table is not a difference.    *)
DifferPresent ==
  IF lookup # 0 /\ ~dump /\ ~Current.bound /\ LookupThunk # AddressThunk /\ AddressThunk # NoThunk
  THEN {"differ"} ELSE {}

Differ ==
  IF lookup # 0 /\ ~dump /\ ~Current.bound /\ LookupThunk # AddressThunk THEN {"differ"} ELSE {}

ImportedVa == IF (HasLookup(Current) /\ Current.bound) \/ dump THEN AddressThunk ELSE None

(* The hint and the name the thunk refers to, as far as they can be read.  *)
NamedImport(thunk) ==
  LET name == thunk.n + HintSize IN
  IF thunk.kind = "va" \/ ~Readable(thunk.n, HintSize)
  THEN Import("name", EmptyName, 0, ImportedVa, Differ \cup {"hint"})
  ELSE IF ~StringEnds(name)
       THEN Import("name", EmptyName, 0, ImportedVa, Differ \cup {"name"})
       ELSE LET s == Read("string", name).name
            IN  Import("name", s, 0, ImportedVa,
                       Differ \cup (IF s = EmptyName THEN {"empty_name"} ELSE {}))

(* The number is cut to the width of an ordinal.                           *)
OrdinalImport(n) ==
  Import("ordinal", EmptyName, n % (OrdinalMax + 1), ImportedVa,
         Differ \cup (IF n > OrdinalMax THEN {"ordinal"} ELSE {}))

LoadedImport ==
  LET thunk == IF lookup = 0 THEN AddressThunk ELSE LookupThunk IN
  IF lookup = 0 /\ dump THEN Import("address", EmptyName, 0, AddressThunk, {})
  ELSE IF thunk.kind = "ordinal" THEN OrdinalImport(thunk.n)
       ELSE NamedImport(thunk)

WithImport(overflows) ==
  [Current EXCEPT !.imports = Append(@, LoadedImport),
                  !.errors = IF overflows THEN @ \cup {"tables"} ELSE @]

(* An overflow of one of the cursors ends the whole load.                  *)
NextImport ==
  LET overflows == Advanced(lookup) > RvaMax \/ Advanced(address) > RvaMax IN
  /\ ~(AddressThunk = NoThunk /\ LookupThunk = NoThunk)
  /\ dir' = [dir EXCEPT ![Len(dir)] = WithImport(overflows)]
  /\ phase' = IF overflows THEN "done" ELSE "imports"
  /\ lookup' = IF overflows THEN lookup ELSE Advanced(lookup)
  /\ address' = IF overflows THEN address ELSE Advanced(address)
  /\ UNCHANGED <<mem, dump, at, errors>>

LoadImport ==
  /\ phase = "imports"
  /\ \/ TableUnread
     \/ /\ Readable(address, VaSize)
        /\ lookup = 0 \/ Readable(lookup, VaSize)
        /\ EndOfImports \/ NextImport

Load == LoadLibrary \/ LoadImport

(* load does not wait for anything.                                        *)
Spec == Init /\ [][Load]_vars /\ WF_vars(Load)

-----------------------------------------------------------------------------
Imports ==
  [kind : {"name", "ordinal", "address"}, name : Names \cup {EmptyName, WrongName}, n : 0..OrdinalMax,
   va : Thunks \cup {None}, errors : SUBSET {"differ", "ordinal", "hint", "name", "empty_name"}]

Libraries ==
  [lookup : Rvas, address : Rvas, bound : BOOLEAN, name : Names \cup {EmptyName, WrongName},
   imports : Seq(Imports),
   errors : SUBSET {"name", "empty_name", "zero_iat_and_ilt", "zero_iat", "tables"}]

TypeOK ==
  /\ IsMemory(mem) /\ dump \in BOOLEAN
  /\ phase \in {"library", "imports", "done"}
  /\ at \in Rvas /\ lookup \in Rvas /\ address \in Rvas
  /\ dir \in Seq(Libraries) /\ errors \subseteq {"directory"}

(* The first index, from 0, at which a table ends.                         *)
Ending(ends) == IF ends = {} THEN None ELSE <<CHOOSE k \in ends : \A j \in ends : k <= j>>

ThunkIsZero(table, k) ==
  table = 0 \/ (Readable(table + k * VaSize, VaSize) /\ Read("thunk", table + k * VaSize) = NoThunk)

(* The entries, from 0, that are zero in both tables.                      *)
ZeroEntries(lib) ==
  {k \in 0..(RvaMax \div VaSize) : ThunkIsZero(lib.lookup, k) /\ ThunkIsZero(lib.address, k)}

(* A library that is loaded without an error has all its imports: as many  *)
(* as there are entries before the first that is zero in both tables.      *)
TablesComplete ==
  \A i \in DOMAIN dir :
    dir[i].errors \cap {"tables", "zero_iat", "zero_iat_and_ilt"} = {}
      /\ (i < Len(dir) \/ phase = "library" \/ (phase = "done" /\ errors = {})) =>
      Ending(ZeroEntries(dir[i])) = <<Len(dir[i].imports)>>

(* In a file, the two tables of a library that is not bound say the same;  *)
(* where an entry differs, that import carries an error, and the others    *)
(* do not: a wrong entry does not put the ones behind it out of step.      *)
DifferencesFound ==
  \A i \in DOMAIN dir : ~dump /\ ~dir[i].bound /\ dir[i].lookup # 0 =>
    \A k \in DOMAIN dir[i].imports :
      "differ" \in dir[i].imports[k].errors <=>
        Read("thunk", dir[i].lookup + (k - 1) * VaSize)
          # Read("thunk", dir[i].address + (k - 1) * VaSize)

(* load comes to an end, with every table without an end, too.             *)
Ends == phase # "done" ~> phase = "done"

=============================================================================
