----------------------------- MODULE MCImports -----------------------------
(* Directories of imports in files and memory dumps, to be loaded, and     *)
(* directories a caller puts together, builds and loads.                   *)
EXTENDS ImportBuilder

MCNames == {"k", "f", "gh"}

MCNameSize == [name \in MCNames |-> IF name = "gh" THEN 2 ELSE 1]

Named(name) == Import("name", name, 0, None, {})

Ordinal(n) == Import("ordinal", EmptyName, n, None, {})

Tokens(items) ==
  [r \in UNION {p[1]..(p[1] + SizeOf(p[2]) - 1) : p \in items} |->
     LET p == CHOOSE q \in items : r \in q[1]..(q[1] + SizeOf(q[2]) - 1)
     IN  IF p[2] \in {NoThunk, Descriptor(0, 0, 0, FALSE)} THEN Zero
         ELSE [item |-> p[2], at |-> r - p[1]]]

(* One or two descriptors from 4 on, lookup tables at 100, address tables  *)
(* at 115 and 130, strings from 70 on.                                     *)
Strings == {<<70, String("k")>>, <<73, Hint>>, <<73 + HintSize, String("f")>>,
            <<78, Hint>>, <<78 + HintSize, String("gh")>>, <<84, Hint>>}

Entries == {NoThunk, Thunk("rva", 73), Thunk("ordinal", 1)}

Odd == {Thunk("rva", 78), Thunk("rva", 84), Thunk("rva", 95), Thunk("va", 9), Thunk("ordinal", 5)}

Table(start, thunks) == {<<start + VaSize * (k - 1), thunks[k]>> : k \in DOMAIN thunks}

Tables == UNION {[1..n -> Entries] : n \in 0..2} \cup {<<t, NoThunk>> : t \in Odd}

One ==
  {Strings \cup {<<4, Descriptor(l, a, name, bound)>>, <<4 + DescriptorSize, Descriptor(0, 0, 0, FALSE)>>}
     \cup Table(100, first) \cup Table(115, second) :
     l \in {0, 100}, a \in {0, 115}, name \in {70, 95}, bound \in BOOLEAN,
     first \in Tables, second \in Tables}

Two ==
  {Strings \cup {<<4, Descriptor(l, 115, 70, FALSE)>>, <<4 + DescriptorSize, Descriptor(0, a, 73 + HintSize, FALSE)>>} \cup last
     \cup Table(100, <<Thunk("rva", 73), NoThunk>>) \cup Table(115, first)
     \cup Table(130, <<Thunk("ordinal", 2), NoThunk>>) :
     l \in {0, 100, 115}, a \in {130, RvaMax - VaSize + 1}, first \in {<<NoThunk>>, <<Thunk("rva", 73), NoThunk>>},
     last \in {{}, {<<4 + 2 * DescriptorSize, Descriptor(0, 0, 0, FALSE)>>}, {<<4 + 2 * DescriptorSize, Descriptor(0, 115, 72, FALSE)>>}}}

LastDescriptor == RvaMax - DescriptorSize + 1

BeforeLast == LastDescriptor - 7 * VaSize

(* Tables and descriptors without an end, up to the last address.          *)
Endless ==
  {Strings \cup {<<LastDescriptor, Descriptor(0, a, 70, FALSE)>>}
     \cup Table(BeforeLast, [k \in 1..n |-> Thunk("ordinal", k % 4)]) :
     a \in {0, BeforeLast, RvaMax - VaSize + 1}, n \in {1, 7}}

(* The directories that are loaded.                                        *)
MCFiles ==
  {[mem |-> Tokens(items), rva |-> 4, dump |-> d] : items \in One \cup Two, d \in BOOLEAN}
    \cup {[mem |-> Tokens(items), rva |-> LastDescriptor, dump |-> FALSE] : items \in Endless}
    \cup {[mem |-> Tokens(Strings \cup Table(RvaMax - 4 * VaSize + 1, [k \in 1..4 |-> Thunk("ordinal", k % 4)])
                          \cup {<<4, Descriptor(0, RvaMax - 4 * VaSize + 1, 70, FALSE)>>}),
           rva |-> 4, dump |-> FALSE]}

-----------------------------------------------------------------------------
(* A library the caller has put together; a lookup table is asked for by   *)
(* any RVA of it that is not 0.                                            *)
Lib(name, lookups, imports) ==
  [lookup |-> IF lookups THEN 1 ELSE 0, address |-> 0, bound |-> FALSE, name |-> name,
   imports |-> imports, errors |-> {}]

Lists == {<<>>, <<Named("f")>>, <<Ordinal(2), Named("gh")>>}

MCStarts ==
  {<<Lib("k", lookups, list)>> : lookups \in BOOLEAN, list \in Lists}
    \cup {<<Lib("k", lookups, list), Lib("gh", lookups, second)>> :
            lookups \in BOOLEAN, list \in Lists, second \in {<<Named("gh")>>, <<Named("f"), Ordinal(3)>>}}

MCNewLibrary == Lib("f", TRUE, <<Named("f")>>)

MCPlaces == [rva : {3, 8}, iat : {0, 124}]

(* The address tables begin behind the lookup tables.                      *)
MCOneStart == {<<Lib("k", TRUE, <<Named("f")>>)>>}

MCOnePlace == {[rva |-> 4, iat |-> 0]}

=============================================================================
