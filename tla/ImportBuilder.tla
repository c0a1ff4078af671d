--------------------------- MODULE ImportBuilder ---------------------------
(***************************************************************************)
(* imports::build_new writes a directory of imports: descriptors, lookup   *)
(* tables, address tables (behind them or at an RVA of their own), names   *)
(* of libraries, hints with names of functions.  Each table is written by  *)
(* a pass of its own that counts for itself where the names are.           *)
(*                                                                         *)
(* A caller edits a directory object and builds it, once or more often,    *)
(* into memory that is zero or holds the previous build; what is built is  *)
(* loaded again.  The memory is large enough.                              *)
(***************************************************************************)
EXTENDS ImportLoader, FiniteSetsExt

CONSTANTS
  Starts,     \* the directories a caller may put together
  NewLibrary, \* the library a caller adds
  Places,     \* where to build: the RVA, and that of the address tables or 0
  MaxEdits,   \* bound: edits of the caller
  MaxBuilds   \* bound: builds of one directory

ASSUME BuilderAssumption ==
  /\ Places \subseteq [rva : Rvas, iat : Rvas]
  /\ MaxEdits \in Nat /\ MaxBuilds \in Nat

VARIABLES
  object,  \* the caller's directory object
  left,    \* edits and builds that are left; none where a file is loaded
  built    \* the last build: its place and sizes, and the object then

builderVars == <<vars, object, left, built>>

NotBuilt ==
  [place |-> [rva |-> 0, iat |-> 0], of |-> <<>>, apart |-> FALSE, directory |-> 0, iat |-> 0]

-----------------------------------------------------------------------------
(* The caller: adds a library or an import, removes a lookup table, binds. *)

AddLibraryTo(o) == Append(o, NewLibrary)

AddImportTo(o, i) ==
  [o EXCEPT ![i].imports = Append(@, Import("ordinal", EmptyName, 1, None, {}))]

RemoveLookupTable(o, i) == [o EXCEPT ![i].lookup = 0]

SetBound(o, i) ==
  [o EXCEPT ![i].bound = TRUE,
            ![i].imports = [k \in DOMAIN @ |-> [@[k] EXCEPT !.va = Thunk("va", k)]]]

Edited(o) ==
  {AddLibraryTo(o)}
    \cup UNION {{AddImportTo(o, i), RemoveLookupTable(o, i), SetBound(o, i)} :
                 i \in {j \in DOMAIN o : ~o[j].bound}}

Edit ==
  /\ phase = "done" /\ left.edits > 0
  /\ object' \in Edited(object) \ {object}
  /\ left' = [left EXCEPT !.edits = @ - 1]
  /\ UNCHANGED <<vars, built>>

-----------------------------------------------------------------------------
(* How large the parts are.                                                *)

Symbols(o) == UNION {{i} \X DOMAIN o[i].imports : i \in DOMAIN o}

Symbol(o, p) == o[p[1]].imports[p[2]]

Before(o, q) == {p \in Symbols(o) : p[1] < q[1] \/ (p[1] = q[1] /\ p[2] < q[2])}

(* The hints and names of these imports.                                   *)
StringsSize(o, symbols) ==
  MapThenSumSet(LAMBDA p : HintSize + NameSize[Symbol(o, p).name] + 1,
                {p \in symbols : Symbol(o, p).kind = "name"})

NamesSize(o, libraries) == MapThenSumSet(LAMBDA j : NameSize[o[j].name] + 1, libraries)

LookupsSize(o, libraries) ==
  VaSize * MapThenSumSet(LAMBDA j : IF HasLookup(o[j]) THEN Len(o[j].imports) + 1 ELSE 0, libraries)

(* Faulty: no table of addresses has an end.                               *)
AddressesSizeBare(o, libraries) ==
  VaSize * MapThenSumSet(LAMBDA j : Len(o[j].imports), libraries)

(* Only a library without a lookup table ends its address table.           *)
AddressesSize(o, libraries) ==
  VaSize * MapThenSumSet(LAMBDA j : Len(o[j].imports) + (IF HasLookup(o[j]) THEN 0 ELSE 1), libraries)

AlignedUp(rva) == rva + ((VaSize - (rva % VaSize)) % VaSize)

(* Where the parts begin, one behind the other.                            *)
Layout(o, place) ==
  LET end == place.rva + (Len(o) + 1) * DescriptorSize
      lookups == IF LookupsSize(o, DOMAIN o) # 0 \/ place.iat = 0 THEN AlignedUp(end) ELSE end
      behind == lookups + LookupsSize(o, DOMAIN o)
      names == behind + (IF place.iat = 0 THEN AddressesSize(o, DOMAIN o) ELSE 0)
  IN  [lookups |-> lookups, addresses |-> IF place.iat = 0 THEN behind ELSE place.iat,
       names |-> names, strings |-> names + NamesSize(o, DOMAIN o)]

(* get_built_size: what a caller is told to make room for.  The gap before *)
(* the tables is that behind one descriptor.                               *)
BuiltSize(o, place) ==
  LET Gap(rva) == AlignedUp(rva) - rva
      lookups == LookupsSize(o, DOMAIN o)
      addresses == AddressesSize(o, DOMAIN o)
  IN  [directory |-> (Len(o) + 1) * DescriptorSize + lookups + NamesSize(o, DOMAIN o)
         + StringsSize(o, Symbols(o)) + (IF place.iat = 0 THEN addresses ELSE 0)
         + (IF place.iat = 0 \/ lookups # 0 THEN Gap(place.rva + DescriptorSize) ELSE 0),
       iat |-> addresses + (IF place.iat = 0 THEN 0 ELSE Gap(place.iat))]

-----------------------------------------------------------------------------
(* The passes of build_new_impl.                                           *)

NameAt(o, l, i) == l.names + NamesSize(o, 1..(i - 1))

LibraryNames(o, l) == {<<NameAt(o, l, i), String(o[i].name)>> : i \in DOMAIN o}

LookupAt(o, l, i) == l.lookups + LookupsSize(o, 1..(i - 1))

(* The pass goes over the libraries that have a lookup table alone.        *)
LookupEntry(o, l, p) ==
  LET before == {q \in Before(o, p) : HasLookup(o[q[1]])} IN
  CASE Symbol(o, p).kind = "name" -> Thunk("rva", l.strings + StringsSize(o, before))
    [] Symbol(o, p).kind = "ordinal" -> Thunk("ordinal", Symbol(o, p).n)
    [] OTHER -> IF Symbol(o, p).va = None THEN NoThunk ELSE Symbol(o, p).va

LookupTables(o, l) ==
  {<<LookupAt(o, l, p[1]) + (p[2] - 1) * VaSize, LookupEntry(o, l, p)>> :
      p \in {q \in Symbols(o) : HasLookup(o[q[1]])}}
    \cup {<<LookupAt(o, l, i) + Len(o[i].imports) * VaSize, NoThunk>> :
             i \in {j \in DOMAIN o : HasLookup(o[j])}}

WithLookups(o, l) ==
  [i \in DOMAIN o |-> IF HasLookup(o[i]) THEN [o[i] EXCEPT !.lookup = LookupAt(o, l, i)] ELSE o[i]]

(* The address table of a bound library holds the imports' addresses.      *)
KeepsVa(o, p) == HasLookup(o[p[1]]) /\ o[p[1]].bound /\ Symbol(o, p).va # None

AddressAt(o, l, i) == l.addresses + AddressesSize(o, 1..(i - 1))

(* Faulty: the names of each library are counted from the first again.     *)
AddressEntryPerLibrary(o, l, p) ==
  LET before == {q \in Before(o, p) : q[1] = p[1]} IN
  IF Symbol(o, p).kind = "name" THEN Thunk("rva", l.strings + StringsSize(o, before))
  ELSE Thunk("ordinal", Symbol(o, p).n)

AddressEntry(o, l, p) ==
  LET before == {q \in Before(o, p) : ~KeepsVa(o, q)} IN
  CASE KeepsVa(o, p) -> Symbol(o, p).va
    [] Symbol(o, p).kind = "name" /\ ~KeepsVa(o, p) -> Thunk("rva", l.strings + StringsSize(o, before))
    [] Symbol(o, p).kind = "ordinal" /\ ~KeepsVa(o, p) -> Thunk("ordinal", Symbol(o, p).n)
    [] OTHER -> NoThunk

AddressTables(o, l) ==
  {<<AddressAt(o, l, p[1]) + (p[2] - 1) * VaSize, AddressEntry(o, l, p)>> : p \in Symbols(o)}
    \cup {<<AddressAt(o, l, i) + Len(o[i].imports) * VaSize, NoThunk>> :
             i \in {j \in DOMAIN o : ~HasLookup(o[j])}}

WithAddresses(o, l) ==
  [i \in DOMAIN o |-> [o[i] EXCEPT !.address = AddressAt(o, l, i),
                                   !.lookup = IF HasLookup(o[i]) THEN @ ELSE 0]]

HintsWithNames(o, l) ==
  UNION {LET at0 == l.strings + StringsSize(o, Before(o, p))
         IN  {<<at0, Hint>>, <<at0 + HintSize, String(Symbol(o, p).name)>>} :
           p \in {q \in Symbols(o) : Symbol(o, q).kind = "name"}}

Descriptors(o, place, l) ==
  {<<place.rva + (i - 1) * DescriptorSize,
     Descriptor(o[i].lookup, o[i].address, NameAt(o, l, i), o[i].bound)>> : i \in DOMAIN o}
    \cup {<<place.rva + Len(o) * DescriptorSize, Descriptor(0, 0, 0, FALSE)>>}

(* The memory after items were written to it.                              *)
Written(m, items) ==
  [r \in DOMAIN m |->
     LET over == {p \in items : r \in p[1]..(p[1] + SizeOf(p[2]) - 1)} IN
     IF over = {} THEN m[r]
     ELSE LET p == CHOOSE q \in over : TRUE
          IN  IF p[2] \in {NoThunk, Descriptor(0, 0, 0, FALSE)} THEN Zero
              ELSE [item |-> p[2], at |-> r - p[1]]]

(* No new lookup table begins where the object's old address table was.    *)
Apart(o, l) == \A i \in DOMAIN o : HasLookup(o[i]) => LookupAt(o, l, i) # o[i].address

Build(place) ==
  LET l == Layout(object, place)
      looked == WithLookups(object, l)
      addressed == WithAddresses(looked, l)
      names == Written(mem, LibraryNames(object, l))
      lookups == Written(names, LookupTables(object, l))
      addresses == Written(lookups, AddressTables(looked, l))
      hints == Written(addresses, HintsWithNames(object, l))
  IN  /\ phase = "done" /\ left.builds > 0
      /\ mem' = Written(hints, Descriptors(addressed, place, l))
      /\ object' = addressed
      /\ built' = [place |-> place, of |-> object, apart |-> Apart(object, l),
                   directory |-> l.strings + StringsSize(object, Symbols(object)) - place.rva,
                   iat |-> AddressesSize(looked, DOMAIN looked)]
      /\ left' = [left EXCEPT !.builds = @ - 1]
      /\ at' = place.rva /\ phase' = "library" /\ dir' = <<>> /\ errors' = {}
      /\ UNCHANGED <<dump, lookup, address>>

InitBuild ==
  /\ mem = [r \in Rvas |-> Zero] /\ dump = FALSE
  /\ phase = "done" /\ at = 0 /\ lookup = 0 /\ address = 0
  /\ dir = <<>> /\ errors = {}
  /\ object \in Starts /\ left = [edits |-> MaxEdits, builds |-> MaxBuilds]

InitLoad == Init /\ object = <<>> /\ left = [edits |-> 0, builds |-> 0]

BuilderInit == (InitLoad \/ InitBuild) /\ built = NotBuilt

Next ==
  \/ Edit
  \/ \E place \in Places : Build(place)
  \/ Load /\ UNCHANGED <<object, left, built>>

(* Nothing makes a caller edit or build; load does not wait.               *)
BuilderSpec == BuilderInit /\ [][Next]_builderVars /\ WF_vars(Load)

-----------------------------------------------------------------------------
(* Tables of the same kind: every library has a lookup table or none has,  *)
(* and those that have one are all bound or none is.                       *)
Alike(o) ==
  \A i, j \in DOMAIN o :
    HasLookup(o[i]) = HasLookup(o[j]) /\ (HasLookup(o[i]) => o[i].bound = o[j].bound)

JustBuilt == built # NotBuilt /\ phase = "library" /\ dir = <<>>

Loaded == built # NotBuilt /\ phase = "done"

(* What the loader of the system makes of the directory: it follows the    *)
(* lookup table, or the address table where there is none, to its first    *)
(* zero, and finds each import's slot in the address table.                *)
SystemImport(n, slot) ==
  LET thunk == Read("thunk", n) IN
  [kind |-> IF thunk.kind = "ordinal" THEN "ordinal" ELSE "name",
   what |-> IF thunk.kind = "ordinal" THEN thunk.n ELSE Read("string", thunk.n + HintSize).name,
   slot |-> IF Read("thunk", slot) = thunk THEN None ELSE Read("thunk", slot)]

Entry(table, k) == table + k * VaSize

EndsAt(table, k) ==
  ~Readable(Entry(table, k), VaSize) \/ Read("thunk", Entry(table, k)) = NoThunk

SystemLibrary(rva) ==
  LET d == Read("descriptor", rva)
      table == IF d.lookup # 0 THEN d.lookup ELSE d.address
      n == CHOOSE k \in 0..RvaMax :
             EndsAt(table, k) /\ \A j \in 0..(k - 1) : ~EndsAt(table, j)
  IN  [name |-> Read("string", d.name).name, bound |-> d.bound,
       imports |-> [k \in 1..n |-> SystemImport(Entry(table, k - 1), Entry(d.address, k - 1))]]

ObjectLibrary(lib) ==
  [name |-> lib.name, bound |-> lib.bound,
   imports |-> [k \in DOMAIN lib.imports |->
     [kind |-> lib.imports[k].kind,
      what |-> IF lib.imports[k].kind = "ordinal" THEN lib.imports[k].n ELSE lib.imports[k].name,
      slot |-> IF HasLookup(lib) /\ lib.bound THEN lib.imports[k].va ELSE None]]]

SystemSeesObject ==
  /\ Read("descriptor", built.place.rva + Len(built.of) * DescriptorSize).name = 0
  /\ \A i \in DOMAIN built.of :
       SystemLibrary(built.place.rva + (i - 1) * DescriptorSize) = ObjectLibrary(built.of[i])

(* get_built_size announced the space that was needed.                     *)
AsAnnounced ==
  LET announced == BuiltSize(built.of, built.place) IN
  built.directory = announced.directory /\ built.iat <= announced.iat

(* The system imports from a directory that was built what its object      *)
(* says, after any edits and builds of it, as long as its libraries have   *)
(* the same tables and none of the new ones begins where an old one was;   *)
(* and it took the space that was announced, as long as descriptors do not *)
(* leave entries of tables unaligned.                                      *)
BuiltIsImported ==
  JustBuilt /\ built.apart =>
    /\ Alike(built.of) => SystemSeesObject
    /\ DescriptorSize % VaSize = 0 => AsAnnounced

(* The import as load makes it of what was built.                          *)
LoadedImports(lib) ==
  [k \in DOMAIN lib.imports |->
    [lib.imports[k] EXCEPT !.va = IF HasLookup(lib) /\ lib.bound THEN @ ELSE None]]

SameLibrary(i) == dir[i].name = built.of[i].name /\ dir[i].bound = built.of[i].bound

(* load finds the libraries that were built, and in each its imports, all  *)
(* without an error, before anything else; of a library without a lookup   *)
(* table it finds just these.                                              *)
ReloadFindsImports ==
  Loaded /\ built.apart /\ Alike(built.of) =>
    /\ errors = {} /\ DOMAIN dir = DOMAIN built.of
    /\ \A i \in DOMAIN dir :
         LET n == Len(built.of[i].imports) IN
         /\ SameLibrary(i) /\ Len(dir[i].imports) >= n
         /\ SubSeq(dir[i].imports, 1, n) = LoadedImports(built.of[i])
         /\ HasLookup(built.of[i]) \/ Len(dir[i].imports) = n

(* README.md:44-46 counts "Modify" among what is done with imports: a      *)
(* directory that was modified and built loads as it was.                  *)
ModifiedLoads ==
  Loaded => /\ DOMAIN dir = DOMAIN built.of
            /\ \A i \in DOMAIN dir : SameLibrary(i) /\ dir[i].imports = LoadedImports(built.of[i])

=============================================================================
