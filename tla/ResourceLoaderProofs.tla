------------------------ MODULE ResourceLoaderProofs ------------------------
(* What holds of the tree of resource directories for every file, however  *)
(* many directories it has and however they refer to each other.           *)
EXTENDS ResourceLoader, FiniteSetTheorems, TLAPS

-----------------------------------------------------------------------------
(* Paths and frames.                                                       *)

LEMMA Extended ==
  ASSUME NEW s \in Paths, NEW x \in Nat \ {0}
  PROVE  /\ Append(s, x) \in Paths
         /\ Len(Append(s, x)) = Len(s) + 1
         /\ Append(s, x)[Len(s) + 1] = x
         /\ \A n \in 0..Len(s) : SubSeq(Append(s, x), 1, n) = SubSeq(s, 1, n)
         /\ \A i \in 1..Len(s) : Append(s, x)[i] = s[i]
         /\ SubSeq(s, 1, Len(s)) = s
<1>1. \A n \in 0..Len(s) : SubSeq(Append(s, x), 1, n) = SubSeq(s, 1, n)
  BY DEF Paths
<1> QED
  BY <1>1 DEF Paths

LEMMA Shortened ==
  ASSUME NEW s \in Paths, NEW n \in 0..Len(s)
  PROVE  /\ SubSeq(s, 1, n) \in Paths
         /\ Len(SubSeq(s, 1, n)) = n
         /\ \A m \in 0..n : SubSeq(SubSeq(s, 1, n), 1, m) = SubSeq(s, 1, m)
         /\ \A i \in 1..n : SubSeq(s, 1, n)[i] = s[i]
BY DEF Paths

LEMMA Appended ==
  ASSUME NEW S, NEW s \in Seq(S), NEW e \in S
  PROVE  /\ Append(s, e) \in Seq(S)
         /\ DOMAIN Append(s, e) = 1..(Len(s) + 1)
         /\ \A i \in 1..Len(s) : Append(s, e)[i] = s[i]
         /\ Append(s, e)[Len(s) + 1] = e
OBVIOUS

-----------------------------------------------------------------------------
(* The inductive invariant.                                                *)

(* The directories being read lie in each other, from the root on.         *)
Seated(i) ==
  /\ Len(stack[i].path) = i - 1
  /\ stack[i].path \in DOMAIN tree
  /\ tree[stack[i].path].is = "directory"
  /\ tree[stack[i].path].rva = stack[i].rva

Chain ==
  /\ \A i \in DOMAIN stack : Seated(i)
  /\ \A i, j \in DOMAIN stack : i <= j => SubSeq(stack[j].path, 1, i - 1) = stack[i].path

(* How many entries of its directory a call has made.                      *)
Made(f) == f.read + (IF f.step \in {"descriptor", "entries"} THEN 0 ELSE 1)

(* No entry is made before its turn, so none is made twice.                *)
InTurn ==
  \A i \in DOMAIN stack : \A p \in DOMAIN tree :
    Len(p) >= i /\ SubSeq(p, 1, i - 1) = stack[i].path => p[i] <= Made(stack[i])

Closed == \A p \in DOMAIN tree : Above(p) \subseteq DOMAIN tree

IInv == TypeOK /\ VisitedIsStack /\ LoopsAreCut /\ Chain /\ InTurn /\ Closed

LEMMA TopFacts ==
  ASSUME IInv, stack # <<>>
  PROVE  /\ stack \in Seq(Frames) /\ Len(stack) \in Nat /\ Len(stack) >= 1
         /\ Len(stack) \in DOMAIN stack /\ DOMAIN stack = 1..Len(stack)
         /\ Top \in Frames /\ Top = stack[Len(stack)]
         /\ Top.path \in Paths /\ Top.rva \in U32 /\ Top.pos \in U32
         /\ Top.read \in Nat /\ Top.named \in Nat
         /\ Top.path \in DOMAIN tree
<1>1. stack \in Seq(Frames) /\ Len(stack) \in Nat /\ DOMAIN stack = 1..Len(stack)
  BY DEF IInv, TypeOK
<1>2. Len(stack) >= 1
  BY <1>1
<1>3. stack[Len(stack)] \in Frames /\ Len(stack) \in DOMAIN stack
  BY <1>1, <1>2
<1> QED
  BY <1>1, <1>2, <1>3 DEF Top, Frames, IInv, Chain, Seated

LEMMA FileFacts ==
  ASSUME IInv
  PROVE  /\ U32Max \in Nat /\ U32 \subseteq Nat
         /\ DirectorySize \in Nat /\ EntrySize \in Nat /\ DataEntrySize \in Nat
         /\ file.root \in U32 /\ file.size \in U32
         /\ \A r \in DOMAIN file.entries : file.entries[r] \in Entries
         /\ \A r \in DOMAIN file.data : file.data[r] \in Data
BY ResourceAssumption DEF IInv, TypeOK, IsFile, U32

-----------------------------------------------------------------------------
(* The tree when only errors are added to it.                              *)

Similar(t, u) ==
  /\ DOMAIN u = DOMAIN t
  /\ \A p \in DOMAIN t :
       /\ u[p] \in Nodes
       /\ u[p].is = t[p].is /\ u[p].rva = t[p].rva /\ u[p].name = t[p].name
       /\ t[p].errors \subseteq u[p].errors

LEMMA ErrorsAdded ==
  ASSUME IInv, NEW path, NEW errors \in SUBSET Errors
  PROVE  Similar(tree, AddErrors(tree, path, errors))
<1>1. \A p \in DOMAIN tree : tree[p] \in Nodes
  BY DEF IInv, TypeOK
<1>2. DOMAIN AddErrors(tree, path, errors) = DOMAIN tree
  BY DEF AddErrors
<1>3. ASSUME NEW p \in DOMAIN tree, p # path
      PROVE  AddErrors(tree, path, errors)[p] = tree[p]
  BY <1>3 DEF AddErrors
<1>4. path \in DOMAIN tree =>
        AddErrors(tree, path, errors)[path]
          = [tree[path] EXCEPT !.errors = tree[path].errors \cup errors]
  BY DEF AddErrors
<1>5. path \in DOMAIN tree =>
        [tree[path] EXCEPT !.errors = tree[path].errors \cup errors] \in Nodes
  BY <1>1 DEF Nodes
<1> QED
  BY <1>1, <1>2, <1>3, <1>4, <1>5 DEF Similar, Nodes

LEMMA SimilarKeeps ==
  ASSUME IInv, Similar(tree, tree')
  PROVE  /\ LoopsAreCut' /\ Closed'
         /\ DOMAIN tree' \subseteq Paths /\ \A p \in DOMAIN tree' : tree'[p] \in Nodes
<1>1. \A p : Above(p)' = Above(p)
  BY DEF Above
<1>2. LoopsAreCut /\ Closed /\ DOMAIN tree \subseteq Paths
  BY DEF IInv, TypeOK
<1>3. Closed'
  BY <1>1, <1>2 DEF Closed, Similar
<1>4. LoopsAreCut'
  BY <1>1, <1>2 DEF LoopsAreCut, Similar, Closed
<1> QED
  BY <1>2, <1>3, <1>4 DEF Similar

(* The current call goes on.                                               *)
LEMMA ReplaceKeeps ==
  ASSUME IInv, stack # <<>>, NEW f \in Frames, Replace(f),
         f.path = Top.path, f.rva = Top.rva, Made(f) >= Made(Top), UNCHANGED visited,
         Similar(tree, tree')
  PROVE  VisitedIsStack' /\ Chain' /\ InTurn' /\ stack' \in Seq(Frames)
<1> DEFINE n == Len(stack)
<1>1. /\ stack \in Seq(Frames) /\ n \in 1..n /\ n \in Nat /\ DOMAIN stack = 1..n
      /\ Top = stack[n] /\ Top \in Frames /\ Top.read \in Nat
  BY TopFacts
<1>2. /\ stack' \in Seq(Frames) /\ DOMAIN stack' = DOMAIN stack
      /\ \A i \in DOMAIN stack : stack'[i] = IF i = n THEN f ELSE stack[i]
  BY <1>1 DEF Replace
<1>3. \A i \in DOMAIN stack : stack'[i].path = stack[i].path /\ stack'[i].rva = stack[i].rva
  BY <1>1, <1>2
<1>4. VisitedIsStack'
  <2>1. VisitedIsStack
    BY DEF IInv
  <2> QED
    BY <2>1, <1>2, <1>3 DEF VisitedIsStack
<1>5. Chain'
  <2>1. Chain
    BY DEF IInv
  <2>2. ASSUME NEW i \in DOMAIN stack PROVE Seated(i)'
    <3>1. /\ stack[i].path \in DOMAIN tree'
          /\ tree'[stack[i].path].is = tree[stack[i].path].is
          /\ tree'[stack[i].path].rva = tree[stack[i].path].rva
      BY <2>1 DEF Chain, Seated, Similar
    <3> QED
      BY <2>1, <3>1, <1>3 DEF Chain, Seated
  <2>3. \A i, j \in DOMAIN stack' :
          i <= j => SubSeq(stack'[j].path, 1, i - 1) = stack'[i].path
    <3>1. \A i, j \in DOMAIN stack : i <= j => SubSeq(stack[j].path, 1, i - 1) = stack[i].path
      BY <2>1 DEF Chain
    <3> QED
      BY <3>1, <1>2, <1>3
  <2> QED
    BY <1>2, <2>2, <2>3 DEF Chain
<1>6. InTurn'
  <2> SUFFICES ASSUME NEW i \in DOMAIN stack, NEW p \in DOMAIN tree,
                      Len(p) >= i, SubSeq(p, 1, i - 1) = stack[i].path
               PROVE  p[i] <= Made(stack'[i])
    BY <1>2, <1>3 DEF InTurn, Similar, Made
  <2>1. p[i] <= Made(stack[i])
    BY DEF IInv, InTurn
  <2>2. p \in Paths /\ i \in 1..Len(p)
    BY <1>1 DEF IInv, TypeOK, Paths
  <2>3. p[i] \in Nat
    BY <2>2 DEF Paths
  <2>4. Made(f) \in Nat /\ Made(Top) \in Nat
    <3>1. f \in Frames /\ Top \in Frames
      BY <1>1
    <3>2. \A g \in Frames : Made(g) \in Nat
      BY DEF Made, Frames
    <3> QED
      BY <3>1, <3>2
  <2> QED
    BY <1>1, <1>2, <2>1, <2>3, <2>4
<1> QED
  BY <1>2, <1>4, <1>5, <1>6

(* The current call returns.                                               *)
LEMMA ReturnKeeps ==
  ASSUME IInv, stack # <<>>, Return, Similar(tree, tree')
  PROVE  VisitedIsStack' /\ Chain' /\ InTurn' /\ stack' \in Seq(Frames) /\ visited' \subseteq U32
<1> DEFINE n == Len(stack)
<1>1. /\ stack \in Seq(Frames) /\ n \in 1..n /\ n \in Nat /\ DOMAIN stack = 1..n
      /\ Top = stack[n]
  BY TopFacts
<1>2. /\ stack' \in Seq(Frames) /\ DOMAIN stack' = 1..(n - 1)
      /\ \A i \in 1..(n - 1) : stack'[i] = stack[i] /\ i \in DOMAIN stack
  BY <1>1 DEF Return
<1>n. n \in Nat /\ n >= 1
  BY <1>1
<1>m. \A i \in 1..(n - 1) : i \in 1..n /\ i # n
  BY <1>n
<1>l. \A i \in 1..n : i \in 1..(n - 1) \/ i = n
  BY <1>n
<1>3. VisitedIsStack'
  <2>1. VisitedIsStack
    BY DEF IInv
  <2>2. visited' = {stack[i].rva : i \in 1..n} \ {stack[n].rva}
    BY <1>1, <2>1 DEF VisitedIsStack, Return
  <2>3. visited' = {stack[i].rva : i \in 1..(n - 1)}
    <3>2. ASSUME NEW i \in 1..(n - 1)
          PROVE  stack[i].rva # stack[n].rva
      <4>1. i \in DOMAIN stack /\ n \in DOMAIN stack /\ i # n
        BY <1>1, <1>m
      <4> QED
        BY <4>1, <2>1 DEF VisitedIsStack
    <3> QED
      BY <1>m, <1>l, <2>2, <3>2
  <2>4. visited' = {stack'[i].rva : i \in DOMAIN stack'}
    BY <1>2, <2>3
  <2>5. \A i, j \in DOMAIN stack' : stack'[i].rva = stack'[j].rva => i = j
    <3>1. \A i, j \in DOMAIN stack : stack[i].rva = stack[j].rva => i = j
      BY <2>1 DEF VisitedIsStack
    <3> QED
      BY <3>1, <1>2
  <2> QED
    BY <2>4, <2>5 DEF VisitedIsStack
<1>4. Chain'
  <2>1. Chain
    BY DEF IInv
  <2>2. \A i \in DOMAIN stack' : Seated(i)'
    <3>1. \A i \in DOMAIN stack : Seated(i)
      BY <2>1 DEF Chain
    <3>2. \A i \in 1..(n - 1) : Seated(i) /\ stack'[i] = stack[i]
      BY <3>1, <1>2
    <3>3. ASSUME NEW i \in 1..(n - 1)
          PROVE  Seated(i)'
      <4>1. stack'[i] = stack[i] /\ Seated(i)
        BY <3>2
      <4>2. stack[i].path \in DOMAIN tree
        BY <4>1 DEF Seated
      <4>3. /\ stack[i].path \in DOMAIN tree'
            /\ tree'[stack[i].path].is = tree[stack[i].path].is
            /\ tree'[stack[i].path].rva = tree[stack[i].path].rva
        BY <4>2 DEF Similar
      <4> QED
        BY <4>1, <4>3 DEF Seated
    <3> QED
      BY <3>3, <1>2
  <2>3. \A i, j \in DOMAIN stack' :
          i <= j => SubSeq(stack'[j].path, 1, i - 1) = stack'[i].path
    <3>1. \A i, j \in DOMAIN stack : i <= j => SubSeq(stack[j].path, 1, i - 1) = stack[i].path
      BY <2>1 DEF Chain
    <3> QED
      BY <3>1, <1>2
  <2> QED
    BY <2>2, <2>3 DEF Chain
<1>5. InTurn'
  <2>1. InTurn
    BY DEF IInv
  <2> QED
    BY <2>1, <1>2 DEF InTurn, Similar, Made
<1>6. visited' \subseteq U32
  BY DEF Return, IInv, TypeOK
<1> QED
  BY <1>2, <1>3, <1>4, <1>5, <1>6

-----------------------------------------------------------------------------
(* A new entry.                                                            *)

NewPath == Append(Top.path, Top.read + 1)

LEMMA NewPathFacts ==
  ASSUME IInv, stack # <<>>, Top.step = "entries"
  PROVE  /\ NewPath \in Paths
         /\ Len(NewPath) = Len(stack)
         /\ NewPath \notin DOMAIN tree
         /\ \A p \in DOMAIN tree :
              ~(Len(p) >= Len(stack) /\ SubSeq(p, 1, Len(stack)) = NewPath)
         /\ \A i \in DOMAIN stack : SubSeq(NewPath, 1, i - 1) = stack[i].path
         /\ \A i \in DOMAIN stack : NewPath[i] <= Made(stack[i]) + 1
         /\ \A i \in DOMAIN stack : i < Len(stack) => NewPath[i] <= Made(stack[i])
         /\ Above(NewPath) = {stack[i].path : i \in DOMAIN stack}
<1> DEFINE n == Len(stack)
           s == Top.path
           x == Top.read + 1
<1>1. /\ stack \in Seq(Frames) /\ n \in Nat /\ n >= 1 /\ DOMAIN stack = 1..n
      /\ Top = stack[n] /\ n \in DOMAIN stack
      /\ s \in Paths /\ x \in Nat \ {0} /\ Top.read \in Nat /\ s \in DOMAIN tree
  BY TopFacts
<1>2. \A i \in DOMAIN stack : Seated(i)
  BY DEF IInv, Chain
<1>3. Len(s) = n - 1
  BY <1>1, <1>2 DEF Seated
<1> HIDE DEF n
<1>4. /\ NewPath \in Paths /\ Len(NewPath) = n /\ NewPath[n] = x
      /\ \A m \in 0..(n - 1) : SubSeq(NewPath, 1, m) = SubSeq(s, 1, m)
      /\ \A i \in 1..(n - 1) : NewPath[i] = s[i]
      /\ SubSeq(s, 1, n - 1) = s
  <2> HIDE DEF s, x
  <2>1. /\ Append(s, x) \in Paths
        /\ Len(Append(s, x)) = Len(s) + 1
        /\ Append(s, x)[Len(s) + 1] = x
        /\ \A m \in 0..Len(s) : SubSeq(Append(s, x), 1, m) = SubSeq(s, 1, m)
        /\ \A i \in 1..Len(s) : Append(s, x)[i] = s[i]
        /\ SubSeq(s, 1, Len(s)) = s
    BY <1>1, Extended
  <2>2. NewPath = Append(s, x) /\ Len(s) + 1 = n
    BY <1>1, <1>3 DEF NewPath, s, x
  <2> QED
    BY <2>1, <2>2, <1>3
<1>5. ASSUME NEW p \in DOMAIN tree, Len(p) >= n, SubSeq(p, 1, n) = NewPath
      PROVE  FALSE
  <2>1. p \in Paths
    BY DEF IInv, TypeOK
  <2>2. n \in 0..Len(p) /\ n - 1 \in 0..n
    BY <1>1, <1>5, <2>1 DEF Paths
  <2>3. SubSeq(SubSeq(p, 1, n), 1, n - 1) = SubSeq(p, 1, n - 1) /\ SubSeq(p, 1, n)[n] = p[n]
    BY <1>1, <2>1, <2>2, Shortened
  <2>4. SubSeq(p, 1, n - 1) = s /\ p[n] = x
    BY <1>1, <1>4, <1>5, <2>2, <2>3
  <2>5. p[n] <= Made(stack[n])
    BY <1>1, <1>5, <2>4 DEF IInv, InTurn
  <2>6. Made(stack[n]) = Top.read
    BY <1>1 DEF Made
  <2> QED
    BY <1>1, <2>4, <2>5, <2>6
<1>6. NewPath \notin DOMAIN tree
  <2>1. SubSeq(NewPath, 1, n) = NewPath
    BY <1>4 DEF Paths
  <2> QED
    BY <1>1, <1>4, <1>5, <2>1
<1>c. \A i \in DOMAIN stack : SubSeq(s, 1, i - 1) = stack[i].path
  <2>1. \A i, j \in DOMAIN stack : i <= j => SubSeq(stack[j].path, 1, i - 1) = stack[i].path
    BY DEF IInv, Chain
  <2>2. \A i \in DOMAIN stack : i <= n
    BY <1>1
  <2>3. s = stack[n].path
    BY <1>1
  <2> QED
    BY <1>1, <2>1, <2>2, <2>3
<1>7. ASSUME NEW i \in DOMAIN stack
      PROVE  SubSeq(NewPath, 1, i - 1) = stack[i].path
  <2> QED
    BY <1>1, <1>4, <1>c
<1>8. ASSUME NEW i \in DOMAIN stack, i < n
      PROVE  NewPath[i] <= Made(stack[i])
  <2>1. SubSeq(s, 1, i - 1) = stack[i].path /\ Len(s) >= i /\ s \in DOMAIN tree
    BY <1>1, <1>3, <1>8, <1>c
  <2>2. s[i] <= Made(stack[i])
    BY <2>1 DEF IInv, InTurn
  <2>3. NewPath[i] = s[i]
    BY <1>1, <1>4, <1>8
  <2> QED
    BY <2>2, <2>3
<1>9. ASSUME NEW i \in DOMAIN stack
      PROVE  NewPath[i] <= Made(stack[i]) + 1
  <2>1. CASE i < n
    <3>1. stack[i] \in Frames
      BY <1>1
    <3>2. Made(stack[i]) \in Nat
      BY <3>1 DEF Made, Frames
    <3>3. NewPath[i] \in Nat
      <4>1. NewPath \in Seq(Nat)
        BY <1>4 DEF Paths
      <4>2. i \in 1..Len(NewPath)
        BY <1>1, <1>4
      <4> QED
        BY <4>1, <4>2
    <3> QED
      BY <1>8, <2>1, <3>2, <3>3
  <2>2. CASE i = n
    BY <1>1, <1>4, <2>2 DEF Made
  <2> QED
    BY <1>1, <2>1, <2>2
<1>10. Above(NewPath) = {stack[i].path : i \in DOMAIN stack}
  <2>1. Above(NewPath) = {SubSeq(NewPath, 1, m) : m \in 0..(n - 1)}
    BY <1>4 DEF Above
  <2>2. \A m \in 0..(n - 1) : m + 1 \in DOMAIN stack /\ SubSeq(NewPath, 1, m) = stack[m + 1].path
    <3>1. \A m \in 0..(n - 1) : m + 1 \in DOMAIN stack /\ (m + 1) - 1 = m
      BY <1>1
    <3> QED
      BY <3>1, <1>7
  <2>3. \A i \in DOMAIN stack : i - 1 \in 0..(n - 1) /\ SubSeq(NewPath, 1, i - 1) = stack[i].path
    BY <1>1, <1>7
  <2> QED
    BY <2>1, <2>2, <2>3
<1> QED
  BY <1>4, <1>5, <1>6, <1>7, <1>8, <1>9, <1>10 DEF n

Grown(node) ==
  /\ DOMAIN tree' = DOMAIN tree \cup {NewPath}
  /\ tree'[NewPath] = node
  /\ \A p \in DOMAIN tree : tree'[p] = tree[p]

LEMMA GrowKeeps ==
  ASSUME IInv, stack # <<>>, Top.step = "entries", NEW node \in Nodes,
         tree' = Extend(tree, NewPath, node),
         node.is = "link" => node.rva \in visited,
         node.is = "directory" /\ "directory" \notin node.errors => node.rva \notin visited
  PROVE  /\ LoopsAreCut' /\ Closed' /\ Grown(node)
         /\ DOMAIN tree' \subseteq Paths /\ \A p \in DOMAIN tree' : tree'[p] \in Nodes
<1>1. /\ NewPath \in Paths /\ NewPath \notin DOMAIN tree
      /\ Above(NewPath) = {stack[i].path : i \in DOMAIN stack}
  BY NewPathFacts
<1>2. Grown(node)
  BY <1>1 DEF Extend, Grown
<1>3. /\ visited = {stack[i].rva : i \in DOMAIN stack}
      /\ \A i \in DOMAIN stack : /\ stack[i].path \in DOMAIN tree
                                 /\ tree[stack[i].path].is = "directory"
                                 /\ tree[stack[i].path].rva = stack[i].rva
  BY DEF IInv, VisitedIsStack, Chain, Seated
<1>4. DOMAIN tree \subseteq Paths /\ \A p \in DOMAIN tree : tree[p] \in Nodes
  BY DEF IInv, TypeOK
<1>5. \A p \in DOMAIN tree : Above(p) \subseteq DOMAIN tree
  BY DEF IInv, Closed
<1>6. Above(NewPath) \subseteq DOMAIN tree
  BY <1>1, <1>3
<1>7. \A p : Above(p)' = Above(p)
  BY DEF Above
<1>8. Closed'
  BY <1>2, <1>5, <1>6, <1>7 DEF Closed, Grown
<1>9. ASSUME NEW p \in DOMAIN tree'
      PROVE  /\ tree'[p].is = "link" =>
                  \E q \in Above(p) : q \in DOMAIN tree' /\ tree'[q].is = "directory"
                                        /\ tree'[q].rva = tree'[p].rva
             /\ tree'[p].is = "directory" /\ "directory" \notin tree'[p].errors =>
                  \A q \in Above(p) : tree'[q].is = "directory" /\ tree'[q].rva # tree'[p].rva
  <2>1. CASE p \in DOMAIN tree
    <3>1. tree'[p] = tree[p] /\ \A q \in Above(p) : q \in DOMAIN tree' /\ tree'[q] = tree[q]
      BY <1>2, <1>5, <2>1 DEF Grown
    <3> QED
      BY <2>1, <3>1 DEF IInv, LoopsAreCut
  <2>2. CASE p = NewPath
    <3>1. tree'[p] = node
      BY <1>2, <2>2 DEF Grown
    <3>2. \A i \in DOMAIN stack : /\ stack[i].path \in DOMAIN tree'
                                  /\ tree'[stack[i].path].is = "directory"
                                  /\ tree'[stack[i].path].rva = stack[i].rva
      BY <1>2, <1>3 DEF Grown
    <3>3. ASSUME node.is = "link"
          PROVE  \E q \in Above(p) : q \in DOMAIN tree' /\ tree'[q].is = "directory"
                                       /\ tree'[q].rva = node.rva
      <4>1. PICK i \in DOMAIN stack : node.rva = stack[i].rva
        BY <1>3, <3>3
      <4> QED
        BY <4>1, <1>1, <2>2, <3>2
    <3>4. ASSUME node.is = "directory", "directory" \notin node.errors, NEW q \in Above(p)
          PROVE  tree'[q].is = "directory" /\ tree'[q].rva # node.rva
      <4>1. PICK i \in DOMAIN stack : q = stack[i].path
        BY <1>1, <2>2
      <4> QED
        BY <4>1, <1>3, <3>2, <3>4
    <3> QED
      BY <3>1, <3>3, <3>4
  <2> QED
    BY <1>2, <2>1, <2>2 DEF Grown
<1>10. LoopsAreCut'
  BY <1>7, <1>9 DEF LoopsAreCut
<1> QED
  BY <1>1, <1>2, <1>4, <1>8, <1>10 DEF Grown

(* The stack after a new entry, with f for the current call.               *)
LEMMA EntryKeeps ==
  ASSUME IInv, stack # <<>>, Top.step = "entries", NEW node, Grown(node),
         NEW f \in Frames, f.path = Top.path, f.rva = Top.rva, f.read = Top.read,
         f.step \in {"advance", "leaving"}, Replace(f)
  PROVE  /\ stack' \in Seq(Frames) /\ Chain' /\ InTurn'
         /\ UNCHANGED visited => VisitedIsStack'
<1> DEFINE n == Len(stack)
<1>1. /\ stack \in Seq(Frames) /\ n \in 1..n /\ n \in Nat /\ DOMAIN stack = 1..n
      /\ Top = stack[n] /\ Top \in Frames /\ Top.read \in Nat
  BY TopFacts
<1>2. /\ stack' \in Seq(Frames) /\ DOMAIN stack' = DOMAIN stack
      /\ \A i \in DOMAIN stack : stack'[i] = IF i = n THEN f ELSE stack[i]
  BY <1>1 DEF Replace
<1>3. \A i \in DOMAIN stack : stack'[i].path = stack[i].path /\ stack'[i].rva = stack[i].rva
  BY <1>1, <1>2
<1>4. UNCHANGED visited => VisitedIsStack'
  <2>1. VisitedIsStack
    BY DEF IInv
  <2> QED
    BY <2>1, <1>2, <1>3 DEF VisitedIsStack
<1>5. Chain'
  <2>1. \A i \in DOMAIN stack : Seated(i)
    BY DEF IInv, Chain
  <2>2. ASSUME NEW i \in DOMAIN stack PROVE Seated(i)'
    <3>1. stack[i].path \in DOMAIN tree
      BY <2>1 DEF Seated
    <3>2. stack[i].path \in DOMAIN tree' /\ tree'[stack[i].path] = tree[stack[i].path]
      BY <3>1 DEF Grown
    <3> QED
      BY <2>1, <3>2, <1>3 DEF Seated
  <2>3. \A i, j \in DOMAIN stack : i <= j => SubSeq(stack[j].path, 1, i - 1) = stack[i].path
    BY DEF IInv, Chain
  <2>4. \A i, j \in DOMAIN stack' :
          i <= j => SubSeq(stack'[j].path, 1, i - 1) = stack'[i].path
    BY <2>3, <1>2, <1>3
  <2> QED
    BY <1>2, <2>2, <2>4 DEF Chain
<1>6. ASSUME NEW i \in DOMAIN stack
      PROVE  /\ Made(stack'[i]) \in Nat /\ Made(stack[i]) \in Nat
             /\ Made(stack'[i]) >= Made(stack[i])
             /\ i = n => Made(stack'[i]) = Made(stack[i]) + 1
  <2>1. stack[i] \in Frames
    BY <1>1
  <2>2. Made(stack[i]) \in Nat
    BY <2>1 DEF Made, Frames
  <2>3. CASE i = n
    BY <1>1, <1>2, <2>3 DEF Made
  <2>4. CASE i # n
    BY <1>2, <2>2, <2>4
  <2> QED
    BY <2>3, <2>4
<1>7. InTurn'
  <2> SUFFICES ASSUME NEW i \in DOMAIN stack, NEW p \in DOMAIN tree',
                      Len(p) >= i, SubSeq(p, 1, i - 1) = stack[i].path
               PROVE  p[i] <= Made(stack'[i])
    BY <1>2, <1>3 DEF InTurn, Made
  <2>1. CASE p \in DOMAIN tree
    <3>1. p[i] <= Made(stack[i])
      BY <2>1 DEF IInv, InTurn
    <3>2. p \in Paths /\ i \in 1..Len(p)
      BY <1>1, <2>1 DEF IInv, TypeOK, Paths
    <3>3. p[i] \in Nat
      BY <3>2 DEF Paths
    <3> QED
      BY <3>1, <3>3, <1>6
  <2>2. CASE p = NewPath
    <3>1. /\ NewPath \in Paths /\ Len(NewPath) = n
          /\ NewPath[i] <= Made(stack[i]) + 1
          /\ i < n => NewPath[i] <= Made(stack[i])
      BY NewPathFacts
    <3>2. NewPath[i] \in Nat
      BY <3>1, <1>1 DEF Paths
    <3>3. i <= n /\ i \in Nat
      BY <1>1
    <3> QED
      BY <1>1, <1>6, <2>2, <3>1, <3>2, <3>3
  <2> QED
    BY <2>1, <2>2 DEF Grown
<1> QED
  BY <1>2, <1>4, <1>5, <1>7

(* A call for the directory of a new entry.                                *)
Called(rva) ==
  /\ stack' = Append([stack EXCEPT ![Len(stack)] = [Top EXCEPT !.step = "advance"]],
                     Frame(NewPath, rva))
  /\ visited' = visited \cup {rva}

LEMMA CallKeeps ==
  ASSUME IInv, stack # <<>>, Top.step = "entries", NEW node, Grown(node),
         NEW rva \in U32 \ visited, node.is = "directory", node.rva = rva,
         Called(rva)
  PROVE  stack' \in Seq(Frames) /\ VisitedIsStack' /\ Chain' /\ InTurn'
<1> DEFINE n == Len(stack)
           f == [Top EXCEPT !.step = "advance"]
           g == Frame(NewPath, rva)
<1>1. /\ stack \in Seq(Frames) /\ n \in 1..n /\ n \in Nat /\ DOMAIN stack = 1..n
      /\ Top = stack[n] /\ Top \in Frames /\ Top.read \in Nat
  BY TopFacts
<1>2. /\ NewPath \in Paths /\ Len(NewPath) = n /\ NewPath \notin DOMAIN tree
      /\ \A p \in DOMAIN tree : ~(Len(p) >= n /\ SubSeq(p, 1, n) = NewPath)
      /\ \A i \in DOMAIN stack : SubSeq(NewPath, 1, i - 1) = stack[i].path
      /\ \A i \in DOMAIN stack : NewPath[i] <= Made(stack[i]) + 1
      /\ \A i \in DOMAIN stack : i < n => NewPath[i] <= Made(stack[i])
  BY NewPathFacts
<1>3. f \in Frames /\ g \in Frames
  BY <1>1, <1>2 DEF Frames, Frame
<1>4. /\ f.path = Top.path /\ f.rva = Top.rva /\ f.read = Top.read /\ f.step = "advance"
      /\ g.path = NewPath /\ g.rva = rva /\ Made(g) = 0
  BY <1>1 DEF Frames, Frame, Made
<1>5. /\ stack' \in Seq(Frames) /\ DOMAIN stack' = 1..(n + 1)
      /\ \A i \in 1..n : stack'[i] = IF i = n THEN f ELSE stack[i]
      /\ stack'[n + 1] = g
  <2> DEFINE s == [stack EXCEPT ![n] = f]
  <2>1. s \in Seq(Frames) /\ Len(s) = n /\ \A i \in 1..n : s[i] = IF i = n THEN f ELSE stack[i]
    BY <1>1, <1>3
  <2>2. stack' = Append(s, g)
    BY DEF Called
  <2> HIDE DEF s, f, g
  <2> QED
    BY <2>1, <2>2, <1>3, Appended
<1>0. n \in Nat /\ n >= 1
  BY <1>1
<1> HIDE DEF f, g, n
<1>6. \A i \in 1..n : stack'[i].path = stack[i].path /\ stack'[i].rva = stack[i].rva
  BY <1>1, <1>4, <1>5
<1>n. \A i \in 1..(n + 1) : i \in 1..n \/ i = n + 1
  BY <1>0
<1>m. \A i \in 1..n : i \in 1..(n + 1) /\ i # n + 1 /\ i <= n + 1 /\ ~(n + 1 <= i) /\ i \in Nat
  BY <1>0
<1>7. VisitedIsStack'
  <2>1. VisitedIsStack
    BY DEF IInv
  <2>2. visited = {stack[i].rva : i \in 1..n}
    BY <1>1, <2>1 DEF VisitedIsStack
  <2>3. visited' = {stack'[i].rva : i \in 1..(n + 1)}
    <3>1. visited' = visited \cup {rva}
      BY DEF Called
    <3>2. \A i \in 1..(n + 1) : stack'[i].rva \in visited'
      BY <3>1, <1>n, <1>4, <1>5, <1>6, <2>2
    <3>3. \A x \in visited' : \E i \in 1..(n + 1) : x = stack'[i].rva
      <4>1. n + 1 \in 1..(n + 1) /\ stack'[n + 1].rva = rva
        BY <1>0, <1>4, <1>5
      <4>2. \A x \in visited : \E i \in 1..n : x = stack'[i].rva
        BY <1>6, <2>2
      <4> QED
        BY <3>1, <4>1, <4>2, <1>m
    <3> QED
      BY <3>2, <3>3
  <2>4. ASSUME NEW i \in 1..(n + 1), NEW j \in 1..(n + 1), stack'[i].rva = stack'[j].rva
        PROVE  i = j
    <3>1. CASE i \in 1..n /\ j \in 1..n
      BY <1>1, <1>6, <2>1, <2>4, <3>1 DEF VisitedIsStack
    <3>2. CASE i = n + 1 /\ j \in 1..n
      BY <1>4, <1>5, <1>6, <2>2, <2>4, <3>2
    <3>3. CASE i \in 1..n /\ j = n + 1
      BY <1>4, <1>5, <1>6, <2>2, <2>4, <3>3
    <3> QED
      BY <1>n, <3>1, <3>2, <3>3
  <2> QED
    BY <1>5, <2>3, <2>4 DEF VisitedIsStack
<1>8. Chain'
  <2>1. \A i \in DOMAIN stack : Seated(i)
    BY DEF IInv, Chain
  <2>2. ASSUME NEW i \in 1..n PROVE Seated(i)'
    <3>1. stack[i].path \in DOMAIN tree /\ Seated(i)
      BY <1>1, <2>1 DEF Seated
    <3>2. stack[i].path \in DOMAIN tree' /\ tree'[stack[i].path] = tree[stack[i].path]
      BY <3>1 DEF Grown
    <3> QED
      BY <3>1, <3>2, <1>6 DEF Seated
  <2>3. ASSUME NEW i, i = n + 1 PROVE Seated(i)'
    <3>1. i - 1 = n
      BY <1>0, <2>3
    <3>2. stack'[i].path = NewPath /\ stack'[i].rva = rva
      BY <1>4, <1>5, <2>3
    <3>3. NewPath \in DOMAIN tree' /\ tree'[NewPath].is = "directory" /\ tree'[NewPath].rva = rva
      BY DEF Grown
    <3> QED
      BY <1>2, <3>1, <3>2, <3>3 DEF Seated
  <2>4. ASSUME NEW i \in 1..(n + 1), NEW j \in 1..(n + 1), i <= j
        PROVE  SubSeq(stack'[j].path, 1, i - 1) = stack'[i].path
    <3>1. CASE i \in 1..n /\ j \in 1..n
      <4>1. \A k, l \in DOMAIN stack : k <= l => SubSeq(stack[l].path, 1, k - 1) = stack[k].path
        BY DEF IInv, Chain
      <4> QED
        BY <4>1, <3>1, <1>1, <1>6, <2>4
    <3>2. CASE i \in 1..n /\ j = n + 1
      <4>1. stack'[j].path = NewPath
        BY <3>2, <1>4, <1>5
      <4>2. SubSeq(NewPath, 1, i - 1) = stack[i].path
        BY <3>2, <1>1, <1>2
      <4> QED
        BY <4>1, <4>2, <3>2, <1>6
    <3>3. CASE i = n + 1 /\ j = n + 1
      <4>1. SubSeq(NewPath, 1, n) = NewPath
        BY <1>2 DEF Paths
      <4>2. i - 1 = n
        BY <1>1, <3>3
      <4> QED
        BY <4>1, <4>2, <3>3, <1>4, <1>5
    <3> QED
      BY <1>n, <1>m, <2>4, <3>1, <3>2, <3>3
  <2>5. \A i \in 1..(n + 1) : Seated(i)'
    BY <1>n, <2>2, <2>3
  <2> QED
    BY <1>5, <2>4, <2>5 DEF Chain
<1>9. ASSUME NEW i \in 1..n
      PROVE  /\ Made(stack'[i]) \in Nat /\ Made(stack[i]) \in Nat
             /\ Made(stack'[i]) >= Made(stack[i])
             /\ i = n => Made(stack'[i]) = Made(stack[i]) + 1
  <2>1. stack[i] \in Frames
    BY <1>1
  <2>2. Made(stack[i]) \in Nat
    BY <2>1 DEF Made, Frames
  <2>3. CASE i = n
    BY <1>1, <1>4, <1>5, <2>3 DEF Made
  <2>4. CASE i # n
    <3>1. stack'[i] = stack[i]
      BY <1>5, <2>4
    <3> QED
      BY <2>2, <2>4, <3>1
  <2> QED
    BY <2>3, <2>4
<1>10. InTurn'
  <2> SUFFICES ASSUME NEW i \in 1..(n + 1), NEW p \in DOMAIN tree',
                      Len(p) >= i, SubSeq(p, 1, i - 1) = stack'[i].path
               PROVE  p[i] <= Made(stack'[i])
    BY <1>5 DEF InTurn, Made
  <2>1. p \in DOMAIN tree \/ p = NewPath
    BY DEF Grown
  <2>2. CASE i \in 1..n /\ p \in DOMAIN tree
    <3>1. p[i] <= Made(stack[i])
      BY <1>1, <1>6, <2>2 DEF IInv, InTurn
    <3>2. p \in Paths /\ i \in 1..Len(p)
      <4>1. p \in Paths
        BY <2>2 DEF IInv, TypeOK
      <4>2. Len(p) \in Nat
        BY <4>1 DEF Paths
      <4> QED
        BY <4>1, <4>2, <1>0, <2>2
    <3>3. p[i] \in Nat
      BY <3>2 DEF Paths
    <3>4. /\ Made(stack'[i]) \in Nat /\ Made(stack[i]) \in Nat
          /\ Made(stack'[i]) >= Made(stack[i])
      BY <1>9, <2>2
    <3> QED
      BY <3>1, <3>3, <3>4
  <2>3. CASE i \in 1..n /\ p = NewPath
    <3>0. i \in 1..Len(NewPath)
      BY <1>2, <2>3
    <3>1. NewPath[i] \in Nat
      BY <1>2, <3>0 DEF Paths
    <3>2. i \in DOMAIN stack /\ (i < n \/ i = n)
      BY <1>0, <1>1, <2>3
    <3>3. /\ Made(stack'[i]) \in Nat /\ Made(stack[i]) \in Nat
          /\ Made(stack'[i]) >= Made(stack[i])
          /\ i = n => Made(stack'[i]) = Made(stack[i]) + 1
      BY <1>9, <2>3
    <3>4. NewPath[i] <= Made(stack[i]) + 1 /\ (i < n => NewPath[i] <= Made(stack[i]))
      BY <1>2, <3>2
    <3>5. NewPath[i] <= Made(stack'[i])
      BY <3>1, <3>2, <3>3, <3>4
    <3> QED
      BY <2>3, <3>5
  <2>4. CASE i = n + 1
    <3>1. Len(NewPath) = n /\ Len(p) >= n + 1
      BY <1>2, <2>4
    <3>2. p # NewPath
      BY <1>0, <3>1
    <3>3. p \in DOMAIN tree /\ SubSeq(p, 1, n) = NewPath
      <4>1. i - 1 = n
        BY <1>0, <2>4
      <4> QED
        BY <2>1, <3>2, <4>1, <2>4, <1>4, <1>5
    <3>4. Len(p) \in Nat
      <4>1. p \in Paths
        BY <3>3 DEF IInv, TypeOK
      <4> QED
        BY <4>1 DEF Paths
    <3> QED
      BY <1>0, <1>2, <3>1, <3>3, <3>4
  <2> QED
    BY <1>n, <2>1, <2>2, <2>3, <2>4
<1> QED
  BY <1>5, <1>7, <1>8, <1>10

-----------------------------------------------------------------------------
(* The steps.                                                              *)

LEMMA NoNameType == NoName \in Names
BY DEF NoName, Names

LEMMA InitIInv == Init => IInv
<1> SUFFICES ASSUME Init PROVE IInv
  OBVIOUS
<1> DEFINE root == Node("directory", NoName, file.root, {})
<1>1. file \in Files /\ IsFile(file) /\ file.root \in U32 /\ U32 \subseteq Nat
  BY ResourceAssumption DEF Init, IsFile, U32
<1>2. /\ root \in Nodes /\ root.is = "directory" /\ root.rva = file.root /\ root.errors = {}
  BY <1>1, NoNameType DEF Node, Nodes, Contents
<1>3. /\ stack = <<Frame(<<>>, file.root)>> /\ visited = {file.root} /\ maxRva = file.root
      /\ DOMAIN tree = {<<>>} /\ tree[<<>>] = root /\ done = FALSE
  BY DEF Init
<1> HIDE DEF root
<1>4. <<>> \in Paths /\ Len(<<>>) = 0
  BY DEF Paths
<1>5. Frame(<<>>, file.root) \in Frames
  BY <1>1, <1>4 DEF Frame, Frames
<1>6. /\ DOMAIN stack = {1} /\ stack[1].path = <<>> /\ stack[1].rva = file.root
  BY <1>3 DEF Frame
<1>7. TypeOK
  <2>1. stack \in Seq(Frames)
    BY <1>3, <1>5
  <2>2. DOMAIN tree \subseteq Paths /\ \A p \in DOMAIN tree : tree[p] \in Nodes
    BY <1>2, <1>3, <1>4
  <2>3. visited \subseteq U32 /\ maxRva \in Nat /\ done \in BOOLEAN
    BY <1>1, <1>3
  <2> QED
    BY <1>1, <2>1, <2>2, <2>3 DEF TypeOK
<1>8. VisitedIsStack
  BY <1>3, <1>6 DEF VisitedIsStack
<1>9. Above(<<>>) = {}
  BY <1>4 DEF Above
<1>10. LoopsAreCut /\ Closed
  BY <1>2, <1>3, <1>9 DEF LoopsAreCut, Closed
<1>11. Chain
  <2>1. ASSUME NEW i \in DOMAIN stack PROVE Seated(i)
    <3>1. i = 1 /\ i - 1 = 0
      BY <1>6
    <3> QED
      BY <3>1, <1>2, <1>3, <1>4, <1>6 DEF Seated
  <2>2. ASSUME NEW i \in DOMAIN stack, NEW j \in DOMAIN stack
        PROVE  SubSeq(stack[j].path, 1, i - 1) = stack[i].path
    <3>1. i = 1 /\ j = 1 /\ i - 1 = 0
      BY <1>6
    <3>2. SubSeq(<<>>, 1, 0) = <<>>
      OBVIOUS
    <3> QED
      BY <3>1, <3>2, <1>6
  <2> QED
    BY <2>1, <2>2 DEF Chain
<1>12. InTurn
  BY <1>3, <1>4, <1>6 DEF InTurn
<1> QED
  BY <1>7, <1>8, <1>10, <1>11, <1>12 DEF IInv

LEMMA LargerType == \A x, y \in Nat : Larger(x, y) \in Nat
BY DEF Larger

LEMMA DescriptorStep ==
  ASSUME IInv, ReadDescriptor
  PROVE  IInv'
<1>1. stack # <<>> /\ Top.step = "descriptor" /\ UNCHANGED <<file, done>>
  BY DEF ReadDescriptor
<1>2. /\ Top \in Frames /\ Top.path \in DOMAIN tree /\ Top.rva \in U32 /\ Top.read \in Nat
  BY <1>1, TopFacts
<1>3. DirectorySize \in Nat /\ U32Max \in Nat /\ U32 \subseteq Nat /\ maxRva \in Nat
  BY FileFacts DEF IInv, TypeOK
<1>4. TypeOK
  BY DEF IInv
<1>5. CASE /\ tree' = AddErrors(tree, Top.path, {"directory"}) /\ Return
           /\ UNCHANGED maxRva
  <2>1. Similar(tree, tree')
    BY <1>2, <1>5, ErrorsAdded DEF Errors
  <2>2. VisitedIsStack' /\ Chain' /\ InTurn' /\ stack' \in Seq(Frames) /\ visited' \subseteq U32
    BY <1>1, <1>5, <2>1, ReturnKeeps
  <2>3. /\ LoopsAreCut' /\ Closed'
        /\ DOMAIN tree' \subseteq Paths /\ \A p \in DOMAIN tree' : tree'[p] \in Nodes
    BY <2>1, SimilarKeeps
  <2>4. TypeOK'
    BY <1>1, <1>4, <1>5, <2>2, <2>3 DEF TypeOK, IsFile
  <2> QED
    BY <2>2, <2>3, <2>4 DEF IInv
<1>6. CASE /\ Top.rva + DirectorySize <= U32Max
           /\ Replace([Top EXCEPT !.pos = Top.rva + DirectorySize, !.step = "entries"])
           /\ maxRva' = Larger(maxRva, Top.rva + DirectorySize)
           /\ UNCHANGED <<visited, tree>>
  <2> DEFINE f == [Top EXCEPT !.pos = Top.rva + DirectorySize, !.step = "entries"]
  <2>1. Similar(tree, tree')
    BY <1>4, <1>6 DEF Similar, TypeOK
  <2>2. Top.rva + DirectorySize \in U32
    BY <1>2, <1>3, <1>6 DEF U32
  <2>3. f \in Frames /\ f.path = Top.path /\ f.rva = Top.rva /\ Made(f) = Made(Top)
    BY <1>1, <1>2, <2>2 DEF Frames, Made
  <2>a. Made(f) >= Made(Top) /\ Replace(f)
    BY <1>2, <1>6, <2>3 DEF Made
  <2> HIDE DEF f
  <2>4. VisitedIsStack' /\ Chain' /\ InTurn' /\ stack' \in Seq(Frames)
    BY <1>1, <1>6, <2>1, <2>3, <2>a, ReplaceKeeps
  <2>5. /\ LoopsAreCut' /\ Closed'
        /\ DOMAIN tree' \subseteq Paths /\ \A p \in DOMAIN tree' : tree'[p] \in Nodes
    BY <2>1, SimilarKeeps
  <2>6. maxRva' \in Nat
    BY <1>2, <1>3, <1>6, LargerType
  <2>7. TypeOK'
    BY <1>1, <1>4, <1>6, <2>4, <2>5, <2>6 DEF TypeOK, IsFile
  <2> QED
    BY <2>4, <2>5, <2>7 DEF IInv
<1>n. Top.rva \in Nat
  BY <1>2, <1>3
<1>7. ~(Top.rva + DirectorySize > U32Max) => Top.rva + DirectorySize <= U32Max
  BY <1>n, <1>3
<1> QED
  BY <1>5, <1>6, <1>7 DEF ReadDescriptor

(* A new entry that makes no call.                                         *)
LEMMA EntryStep ==
  ASSUME IInv, stack # <<>>, Top.step = "entries", UNCHANGED <<file, done, visited>>,
         NEW node \in Nodes, tree' = Extend(tree, NewPath, node),
         node.is = "link" => node.rva \in visited,
         node.is = "directory" => "directory" \in node.errors,
         NEW step \in {"advance", "leaving"}, Replace([Top EXCEPT !.step = step]),
         maxRva' \in Nat
  PROVE  IInv'
<1> DEFINE f == [Top EXCEPT !.step = step]
<1>1. Top \in Frames
  BY TopFacts
<1>2. /\ f \in Frames /\ f.path = Top.path /\ f.rva = Top.rva /\ f.read = Top.read
      /\ f.step \in {"advance", "leaving"}
  BY <1>1 DEF Frames
<1>3. Replace(f)
  OBVIOUS
<1> HIDE DEF f
<1>4. /\ LoopsAreCut' /\ Closed' /\ Grown(node)
      /\ DOMAIN tree' \subseteq Paths /\ \A p \in DOMAIN tree' : tree'[p] \in Nodes
  BY GrowKeeps
<1>5. stack' \in Seq(Frames) /\ Chain' /\ InTurn' /\ VisitedIsStack'
  BY <1>2, <1>3, <1>4, EntryKeeps
<1>6. TypeOK'
  BY <1>4, <1>5 DEF TypeOK, IInv, IsFile
<1> QED
  BY <1>4, <1>5, <1>6 DEF IInv

LEMMA ReadEntryStep ==
  ASSUME IInv, ReadEntry
  PROVE  IInv'
<1> DEFINE e == file.entries[Top.pos]
<1>1. /\ stack # <<>> /\ Top.step = "entries" /\ UNCHANGED <<file, done>>
      /\ \/ EntryUnread(NewPath)
         \/ /\ Top.pos \in DOMAIN file.entries
            /\ EntryUnnamed(NewPath, e) \/ EntryDirectory(NewPath, e) \/ EntryData(NewPath, e)
  BY DEF ReadEntry, NewPath
<1>2. U32 \subseteq Nat /\ U32Max \in Nat /\ maxRva \in Nat /\ file.root \in U32 /\ 0 \in U32
  BY FileFacts DEF IInv, TypeOK, U32
<1>3. CASE EntryUnread(NewPath)
  <2>1. Node("nothing", NoName, 0, {"entry"}) \in Nodes
    BY <1>2, NoNameType DEF Node, Nodes, Contents, Errors
  <2>2. maxRva' \in Nat /\ UNCHANGED visited
    BY <1>2, <1>3 DEF EntryUnread
  <2> QED
    BY <1>1, <1>3, <2>1, <2>2, EntryStep DEF EntryUnread, Node
<1>4. CASE EntryUnnamed(NewPath, e)
  <2>1. Node("nothing", NoName, 0, {"name"}) \in Nodes
    BY <1>2, NoNameType DEF Node, Nodes, Contents, Errors
  <2>2. maxRva' \in Nat /\ UNCHANGED visited
    BY <1>2, <1>4 DEF EntryUnnamed
  <2> QED
    BY <1>1, <1>4, <2>1, <2>2, EntryStep DEF EntryUnnamed, Node
<1>5. ASSUME Top.pos \in DOMAIN file.entries
      PROVE  /\ e \in Entries /\ NameOf(e) \in Names /\ NameOf(e).end \in Nat
             /\ Target(e) \in Nat
  <2>1. e \in Entries
    BY <1>5, FileFacts
  <2> HIDE DEF e
  <2>2. NameOf(e) \in Names
    BY <2>1, NoNameType DEF NameOf, Entries
  <2>3. Target(e) \in Nat
    <3>1. e.offset \in Nat /\ file.root \in Nat
      BY <1>2, <2>1 DEF Entries
    <3> QED
      BY <3>1 DEF Target
  <2> QED
    BY <2>1, <2>2, <2>3 DEF Names
<1>6. CASE Top.pos \in DOMAIN file.entries /\ EntryDirectory(NewPath, e)
  <2>0. NameOf(e) \in Names /\ NameOf(e).end \in Nat /\ Target(e) \in Nat
    BY <1>5, <1>6
  <2> HIDE DEF e
  <2>1. maxRva' \in Nat
    BY <1>2, <1>6, <2>0, LargerType DEF EntryDirectory
  <2>2. CASE /\ Target(e) > U32Max
             /\ tree' = Extend(tree, NewPath, Node("directory", NameOf(e), 0, {"directory"}))
             /\ Replace([Top EXCEPT !.step = "advance"]) /\ UNCHANGED visited
    <3>1. Node("directory", NameOf(e), 0, {"directory"}) \in Nodes
      BY <1>2, <2>0 DEF Node, Nodes, Contents, Errors
    <3> QED
      BY <1>1, <2>1, <2>2, <3>1, EntryStep DEF Node
  <2>3. CASE /\ Target(e) \in visited
             /\ tree' = Extend(tree, NewPath, Node("link", NameOf(e), Target(e), {}))
             /\ Replace([Top EXCEPT !.step = "advance"]) /\ UNCHANGED visited
    <3>1. Target(e) \in U32
      BY <2>3 DEF IInv, TypeOK
    <3>2. Node("link", NameOf(e), Target(e), {}) \in Nodes
      BY <2>0, <3>1 DEF Node, Nodes, Contents, Errors
    <3> QED
      BY <1>1, <2>1, <2>3, <3>2, EntryStep DEF Node
  <2>4. CASE /\ Target(e) <= U32Max /\ Target(e) \notin visited
             /\ tree' = Extend(tree, NewPath, Node("directory", NameOf(e), Target(e), {}))
             /\ stack' = Append([stack EXCEPT ![Len(stack)] = [Top EXCEPT !.step = "advance"]],
                                Frame(NewPath, Target(e)))
             /\ visited' = visited \cup {Target(e)}
    <3> DEFINE node == Node("directory", NameOf(e), Target(e), {})
               rva == Target(e)
    <3>1. rva \in U32 \ visited /\ Called(rva)
      BY <1>2, <2>0, <2>4 DEF U32, Called
    <3>2. node \in Nodes /\ node.is = "directory" /\ node.rva = rva
      BY <2>0, <3>1 DEF Node, Nodes, Contents, Errors
    <3>3. tree' = Extend(tree, NewPath, node) /\ rva \notin visited
      BY <2>4
    <3> HIDE DEF node, rva
    <3>4. /\ LoopsAreCut' /\ Closed' /\ Grown(node)
          /\ DOMAIN tree' \subseteq Paths /\ \A p \in DOMAIN tree' : tree'[p] \in Nodes
      BY <1>1, <3>2, <3>3, GrowKeeps
    <3>5. stack' \in Seq(Frames) /\ VisitedIsStack' /\ Chain' /\ InTurn'
      BY <1>1, <3>1, <3>2, <3>4, CallKeeps
    <3>6. visited' \subseteq U32
      BY <3>1 DEF Called, IInv, TypeOK
    <3>7. TypeOK'
      BY <1>1, <2>1, <3>4, <3>5, <3>6 DEF TypeOK, IInv, IsFile
    <3> QED
      BY <3>4, <3>5, <3>7 DEF IInv
  <2> QED
    BY <1>6, <2>2, <2>3, <2>4 DEF EntryDirectory
<1>7. CASE Top.pos \in DOMAIN file.entries /\ EntryData(NewPath, e)
  <2>0. NameOf(e) \in Names /\ NameOf(e).end \in Nat /\ Target(e) \in Nat
    BY <1>5, <1>7
  <2> HIDE DEF e
  <2> DEFINE rva == IF Target(e) > U32Max THEN 0 ELSE Target(e)
             node == Node("data", NameOf(e), rva, DataErrors(e))
  <2>1. rva \in U32
    BY <1>2, <2>0 DEF U32
  <2>2. DataErrors(e) \in SUBSET Errors
    BY DEF DataErrors, Errors
  <2>3. node \in Nodes /\ node.is = "data"
    BY <2>0, <2>1, <2>2 DEF Node, Nodes, Contents
  <2>4. DataEnd(e) \in Nat
    <3>1. "data_entry" \notin DataErrors(e) => Target(e) \in DOMAIN file.data
      BY DEF DataErrors
    <3>2. CASE Target(e) \in DOMAIN file.data
      <4>1. file.data[Target(e)].rva \in Nat /\ file.data[Target(e)].size \in Nat
        BY <1>2, <3>2, FileFacts DEF Data
      <4>2. Target(e) + DataEntrySize \in Nat
        BY <2>0, FileFacts
      <4>3. file.data[Target(e)].rva + file.data[Target(e)].size \in Nat
        BY <4>1
      <4> QED
        BY <4>2, <4>3, LargerType DEF DataEnd
    <3>3. CASE "data_entry" \in DataErrors(e)
      BY <3>3 DEF DataEnd
    <3> QED
      BY <3>1, <3>2, <3>3
  <2>5. maxRva' \in Nat
    BY <1>2, <1>7, <2>0, <2>4, LargerType DEF EntryData
  <2>6. /\ tree' = Extend(tree, NewPath, node)
        /\ Replace([Top EXCEPT !.step = "advance"]) /\ UNCHANGED visited
    BY <1>7 DEF EntryData
  <2> HIDE DEF node
  <2> QED
    BY <1>1, <2>3, <2>5, <2>6, EntryStep
<1> QED
  BY <1>1, <1>3, <1>4, <1>6, <1>7

(* The current call after a turn of the loop.                              *)
Turned(named, read, pos) ==
  [Top EXCEPT !.named = named, !.step = "entries", !.read = read, !.pos = pos]

LEMMA TurnedFrame ==
  ASSUME Top \in Frames, NEW named \in Nat, NEW read \in Nat, NEW pos \in U32
  PROVE  /\ Turned(named, read, pos) \in Frames
         /\ Turned(named, read, pos).path = Top.path
         /\ Turned(named, read, pos).rva = Top.rva
         /\ Turned(named, read, pos).read = read
         /\ Turned(named, read, pos).step = "entries"
BY DEF Turned, Frames

LEMMA AdvanceStep ==
  ASSUME IInv, Advance
  PROVE  IInv'
<1> DEFINE path == Append(Top.path, Top.read + 1)
           named == Top.named + (IF tree[path].name.kind = "name" THEN 1 ELSE 0)
           f == [Top EXCEPT !.named = named, !.step = "leaving"]
           read == Top.read + 1
           pos == Top.pos + EntrySize
           g == Turned(named, read, pos)
<1>1. stack # <<>> /\ Top.step = "advance" /\ UNCHANGED <<file, visited, maxRva, done>>
  BY DEF Advance
<1>2. /\ Top \in Frames /\ Top.pos \in U32 /\ Top.read \in Nat /\ named \in Nat
      /\ read \in Nat /\ read = Top.read + 1
  BY <1>1, TopFacts
<1>3. EntrySize \in Nat /\ U32Max \in Nat /\ U32 \subseteq Nat /\ TypeOK
  BY FileFacts DEF IInv
<1> HIDE DEF named
<1>4. CASE tree' = AddErrors(tree, path, {"entry"}) /\ Replace(f)
  <2>1. f \in Frames /\ f.path = Top.path /\ f.rva = Top.rva /\ Made(f) >= Made(Top)
    <3>1. /\ f \in Frames /\ f.path = Top.path /\ f.rva = Top.rva /\ f.read = Top.read
          /\ f.step = "leaving"
      BY <1>1, <1>2 DEF Frames
    <3>2. Made(f) = Top.read + 1 /\ Made(Top) = Top.read + 1
      BY <1>1, <3>1 DEF Made
    <3> QED
      BY <1>2, <3>1, <3>2
  <2>2. Similar(tree, tree')
    BY <1>4, ErrorsAdded DEF Errors
  <2> HIDE DEF f
  <2>3. VisitedIsStack' /\ Chain' /\ InTurn' /\ stack' \in Seq(Frames)
    BY <1>1, <1>4, <2>1, <2>2, ReplaceKeeps
  <2>4. /\ LoopsAreCut' /\ Closed'
        /\ DOMAIN tree' \subseteq Paths /\ \A p \in DOMAIN tree' : tree'[p] \in Nodes
    BY <2>2, SimilarKeeps
  <2>5. TypeOK'
    BY <1>1, <1>3, <2>3, <2>4 DEF TypeOK, IsFile
  <2> QED
    BY <2>3, <2>4, <2>5 DEF IInv
<1>5. CASE ~(pos > U32Max) /\ Replace(g) /\ UNCHANGED tree
  <2>1. pos \in U32
    <3>1. Top.pos \in Nat
      BY <1>2, <1>3
    <3> QED
      BY <3>1, <1>3, <1>5 DEF U32
  <2> HIDE DEF read, pos
  <2>2. g \in Frames /\ g.path = Top.path /\ g.rva = Top.rva /\ Made(g) >= Made(Top)
    <3>1. /\ g \in Frames /\ g.path = Top.path /\ g.rva = Top.rva /\ g.read = read
          /\ g.step = "entries"
      BY <1>2, <2>1, TurnedFrame
    <3>2. Made(g) = read /\ Made(Top) = read
      BY <1>1, <1>2, <3>1 DEF Made
    <3> QED
      BY <1>2, <3>1, <3>2
  <2>3. Similar(tree, tree')
    BY <1>3, <1>5 DEF Similar, TypeOK
  <2> HIDE DEF g
  <2>4. VisitedIsStack' /\ Chain' /\ InTurn' /\ stack' \in Seq(Frames)
    BY <1>1, <1>5, <2>2, <2>3, ReplaceKeeps
  <2>5. /\ LoopsAreCut' /\ Closed'
        /\ DOMAIN tree' \subseteq Paths /\ \A p \in DOMAIN tree' : tree'[p] \in Nodes
    BY <2>3, SimilarKeeps
  <2>6. TypeOK'
    BY <1>1, <1>3, <2>4, <2>5 DEF TypeOK, IsFile
  <2> QED
    BY <2>4, <2>5, <2>6 DEF IInv
<1> QED
  BY <1>4, <1>5 DEF Advance, Turned, named

LEMMA LeaveStep ==
  ASSUME IInv, LeaveDirectory
  PROVE  IInv'
<1>1. /\ stack # <<>> /\ Return /\ UNCHANGED <<file, done>>
      /\ maxRva' = Larger(maxRva, Top.pos)
  BY DEF LeaveDirectory
<1>2. Top.path \in DOMAIN tree /\ Top.pos \in U32 /\ U32 \subseteq Nat /\ maxRva \in Nat
  BY <1>1, TopFacts, FileFacts DEF IInv, TypeOK
<1>3. DirectoryErrors(NamesOf(tree, Top.path), Top.named) \in SUBSET Errors
  BY DEF DirectoryErrors, Errors
<1>4. Similar(tree, tree')
  <2> DEFINE es == DirectoryErrors(NamesOf(tree, Top.path), Top.named)
  <2>1. tree' = AddErrors(tree, Top.path, es) /\ es \in SUBSET Errors
    BY <1>3 DEF LeaveDirectory
  <2> HIDE DEF es
  <2> QED
    BY <1>2, <2>1, ErrorsAdded
<1>5. VisitedIsStack' /\ Chain' /\ InTurn' /\ stack' \in Seq(Frames) /\ visited' \subseteq U32
  BY <1>1, <1>4, ReturnKeeps
<1>6. /\ LoopsAreCut' /\ Closed'
      /\ DOMAIN tree' \subseteq Paths /\ \A p \in DOMAIN tree' : tree'[p] \in Nodes
  BY <1>4, SimilarKeeps
<1>7. maxRva' \in Nat
  BY <1>1, <1>2, LargerType
<1>8. TypeOK'
  BY <1>1, <1>5, <1>6, <1>7 DEF TypeOK, IInv, IsFile
<1> QED
  BY <1>5, <1>6, <1>8 DEF IInv

LEMMA FinishStep ==
  ASSUME IInv, Finish
  PROVE  IInv'
<1>1. stack = <<>> /\ UNCHANGED <<file, stack, visited, maxRva>> /\ done' = TRUE
  BY DEF Finish
<1>2. tree' = AddErrors(tree, <<>>, {"size"}) \/ tree' = tree
  BY DEF Finish
<1>3. TypeOK
  BY DEF IInv
<1>4. Similar(tree, tree')
  <2>1. CASE tree' = tree
    BY <1>3, <2>1 DEF Similar, TypeOK
  <2>2. CASE tree' = AddErrors(tree, <<>>, {"size"})
    BY <2>2, ErrorsAdded DEF Errors
  <2> QED
    BY <1>2, <2>1, <2>2
<1>5. /\ LoopsAreCut' /\ Closed'
      /\ DOMAIN tree' \subseteq Paths /\ \A p \in DOMAIN tree' : tree'[p] \in Nodes
  BY <1>4, SimilarKeeps
<1>6. VisitedIsStack' /\ Chain' /\ InTurn'
  <2>1. DOMAIN stack' = {} /\ DOMAIN stack = {}
    BY <1>1
  <2> QED
    BY <1>1, <2>1 DEF IInv, VisitedIsStack, Chain, InTurn
<1>7. TypeOK'
  BY <1>1, <1>3, <1>5 DEF TypeOK, IsFile
<1> QED
  BY <1>5, <1>6, <1>7 DEF IInv

LEMMA StepIInv == IInv /\ [Next]_vars => IInv'
<1> SUFFICES ASSUME IInv, [Next]_vars PROVE IInv'
  OBVIOUS
<1>1. CASE UNCHANGED vars
  <2>1. TypeOK' /\ VisitedIsStack' /\ LoopsAreCut'
    BY <1>1 DEF vars, IInv, TypeOK, IsFile, VisitedIsStack, LoopsAreCut, Above
  <2>2. Chain' /\ InTurn' /\ Closed'
    BY <1>1 DEF vars, IInv, Chain, Seated, InTurn, Made, Closed, Above
  <2> QED
    BY <2>1, <2>2 DEF IInv
<1> QED
  BY <1>1, DescriptorStep, ReadEntryStep, AdvanceStep, LeaveStep, FinishStep DEF Next

THEOREM Invariance == Spec => []IInv
<1>1. Init => IInv
  BY InitIInv
<1>2. IInv /\ [Next]_vars => IInv'
  BY StepIInv
<1> QED
  BY <1>1, <1>2, PTL DEF Spec

(* Whatever the file holds, the loader of resource directories keeps to    *)
(* RVAs of 32 bits, and its tree is well formed.                           *)
THEOREM TreeTypeCorrect == Spec => []TypeOK
<1>1. IInv => TypeOK
  BY DEF IInv
<1> QED
  BY <1>1, Invariance, PTL

(* visited_directories and the calls of load_resource_directory agree: no  *)
(* directory is being read twice, whatever the file holds, so the depth of *)
(* the recursion is at most the number of directories.                     *)
THEOREM NoDirectoryWithinItself == Spec => []VisitedIsStack
<1>1. IInv => VisitedIsStack
  BY DEF IInv
<1> QED
  BY <1>1, Invariance, PTL

(* load_resource_directory_entry cuts an entry to an RVA exactly when its  *)
(* directory is one of those it lies in.                                   *)
THEOREM LoopsAreAlwaysCut == Spec => []LoopsAreCut
<1>1. IInv => LoopsAreCut
  BY DEF IInv
<1> QED
  BY <1>1, Invariance, PTL

-----------------------------------------------------------------------------
(* Every entry is read: what is known of a directory while and after it is *)
(* read.                                                                   *)

EntryAt(p, i) == file.entries[tree[p].rva + DirectorySize + (i - 1) * EntrySize]

(* The entry made for the i-th one of the directory at p holds what the    *)
(* file has for it.                                                        *)
Holds(c, e) ==
  c.is # "nothing" =>
    /\ c.name = e.name
    /\ c.is \in (IF e.directory THEN {"directory", "link"} ELSE {"data"})
    /\ Target(e) <= U32Max => c.rva = Target(e)

EntryHolds(p, i) == Holds(tree[Append(p, i)], EntryAt(p, i))

EntriesMade(p, n) ==
  /\ ChildrenOf(tree, p) = {Append(p, i) : i \in 1..n}
  /\ \A i \in 1..n : EntryHolds(p, i)

Finished(p) ==
  \E n \in Nat :
    /\ EntriesMade(p, n)
    /\ \/ n = file.dirs[tree[p].rva].named + file.dirs[tree[p].rva].ids
       \/ n > 0 /\ "entry" \in tree[Append(p, n)].errors

Reading(f) ==
  /\ EntriesMade(f.path, Made(f))
  /\ IF f.step = "descriptor" THEN f.read = 0
     ELSE f.pos = f.rva + DirectorySize + f.read * EntrySize
  /\ f.step = "leaving" => "entry" \in tree[Append(f.path, f.read + 1)].errors

ReadThere(p) == tree[p].is = "directory" /\ "directory" \notin tree[p].errors

(* A directory that could be read is being read, or all its entries are.   *)
AllRead ==
  /\ \A i \in DOMAIN stack : Reading(stack[i])
  /\ \A p \in DOMAIN tree :
       ReadThere(p) => (\E i \in DOMAIN stack : stack[i].path = p) \/ Finished(p)
  /\ done => stack = <<>>

(* A step that adds no entry to a directory leaves it as it was.           *)
Kept(p) ==
  /\ tree'[p].rva = tree[p].rva
  /\ ChildrenOf(tree', p) = ChildrenOf(tree, p)
  /\ \A c \in ChildrenOf(tree, p) :
       /\ tree'[c].is = tree[c].is /\ tree'[c].name = tree[c].name
       /\ tree'[c].rva = tree[c].rva /\ tree[c].errors \subseteq tree'[c].errors

LEMMA EntriesKept ==
  ASSUME UNCHANGED file, NEW p, Kept(p), NEW n, EntriesMade(p, n)
  PROVE  EntriesMade(p, n)'
<1>1. \A i \in 1..n : Append(p, i) \in ChildrenOf(tree, p)
  BY DEF EntriesMade
<1>2. ASSUME NEW i \in 1..n
      PROVE  EntryHolds(p, i)'
  <2>1. EntryAt(p, i)' = EntryAt(p, i)
    BY DEF EntryAt, Kept
  <2>2. EntryHolds(p, i)
    BY DEF EntriesMade
  <2> QED
    BY <1>1, <2>1, <2>2 DEF EntryHolds, Holds, Kept, Target
<1>3. ChildrenOf(tree, p)' = {Append(p, i) : i \in 1..n}
  BY DEF EntriesMade, Kept, ChildrenOf
<1> QED
  BY <1>2, <1>3 DEF EntriesMade

LEMMA FinishedKept ==
  ASSUME UNCHANGED file, NEW p, Kept(p), Finished(p)
  PROVE  Finished(p)'
<1>1. PICK n \in Nat :
        /\ EntriesMade(p, n)
        /\ \/ n = file.dirs[tree[p].rva].named + file.dirs[tree[p].rva].ids
           \/ n > 0 /\ "entry" \in tree[Append(p, n)].errors
  BY DEF Finished
<1>2. EntriesMade(p, n)'
  BY <1>1, EntriesKept
<1>3. ASSUME n > 0, "entry" \in tree[Append(p, n)].errors
      PROVE  "entry" \in tree'[Append(p, n)].errors
  <2>1. n \in 1..n
    BY <1>3
  <2>2. Append(p, n) \in ChildrenOf(tree, p)
    BY <1>1, <2>1 DEF EntriesMade
  <2> QED
    BY <1>3, <2>2 DEF Kept
<1>4. tree'[p].rva = tree[p].rva
  BY DEF Kept
<1> QED
  BY <1>1, <1>2, <1>3, <1>4 DEF Finished

LEMMA ReadingKept ==
  ASSUME UNCHANGED file
  PROVE  \A f \in Frames : Kept(f.path) /\ Reading(f) => Reading(f)'
<1> SUFFICES ASSUME NEW f \in Frames, Kept(f.path), Reading(f)
             PROVE  Reading(f)'
  OBVIOUS
<1>1. EntriesMade(f.path, Made(f))
  BY DEF Reading
<1>2. EntriesMade(f.path, Made(f))'
  <2> DEFINE n == Made(f)
             p == f.path
  <2>1. EntriesMade(p, n) /\ Kept(p)
    BY <1>1
  <2> HIDE DEF n, p
  <2>2. EntriesMade(p, n)'
    BY <2>1, EntriesKept
  <2> QED
    BY <2>2 DEF n, p, Made
<1>3. ASSUME f.step = "leaving"
      PROVE  "entry" \in tree'[Append(f.path, f.read + 1)].errors
  <2>1. f.read \in Nat /\ Made(f) = f.read + 1
    BY <1>3 DEF Frames, Made
  <2>2. f.read + 1 \in 1..Made(f)
    BY <2>1
  <2>3. Append(f.path, f.read + 1) \in ChildrenOf(tree, f.path)
    BY <1>1, <2>2 DEF EntriesMade
  <2> QED
    BY <1>3, <2>3 DEF Kept, Reading
<1> QED
  BY <1>2, <1>3 DEF Reading

LEMMA SimilarIsKept ==
  ASSUME Similar(tree, tree')
  PROVE  \A p \in DOMAIN tree : Kept(p) /\ (ReadThere(p)' => ReadThere(p))
<1>1. \A p : ChildrenOf(tree', p) = ChildrenOf(tree, p) /\ ChildrenOf(tree, p) \subseteq DOMAIN tree
  BY DEF ChildrenOf, Similar
<1> QED
  BY <1>1 DEF Similar, Kept, ReadThere

LEMMA FramesApart ==
  ASSUME IInv, NEW i \in DOMAIN stack, NEW j \in DOMAIN stack, stack[i].path = stack[j].path
  PROVE  i = j
<1>1. Len(stack[i].path) = i - 1 /\ Len(stack[j].path) = j - 1
  BY DEF IInv, Chain, Seated
<1>2. i \in Nat /\ j \in Nat
  BY DEF IInv, TypeOK
<1> QED
  BY <1>1, <1>2

LEMMA GrownChildren ==
  ASSUME IInv, stack # <<>>, Top.step = "entries", NEW node, Grown(node)
  PROVE  /\ ChildrenOf(tree', NewPath) = {}
         /\ ChildrenOf(tree', Top.path) = ChildrenOf(tree, Top.path) \cup {NewPath}
         /\ \A p \in DOMAIN tree : p # Top.path => Kept(p)
         /\ \A p \in DOMAIN tree : ReadThere(p)' <=> ReadThere(p)
<1> DEFINE n == Len(stack)
<1>1. /\ NewPath \in Paths /\ Len(NewPath) = n
      /\ \A p \in DOMAIN tree : ~(Len(p) >= n /\ SubSeq(p, 1, n) = NewPath)
      /\ \A i \in DOMAIN stack : SubSeq(NewPath, 1, i - 1) = stack[i].path
  BY NewPathFacts
<1>2. n \in Nat /\ n >= 1 /\ n \in DOMAIN stack /\ Top.path = stack[n].path
  BY TopFacts
<1>3. NewPath # <<>> /\ SubSeq(NewPath, 1, Len(NewPath) - 1) = Top.path
  BY <1>1, <1>2 DEF Paths
<1> HIDE DEF n
<1>4. /\ DOMAIN tree' = DOMAIN tree \cup {NewPath}
      /\ \A p \in DOMAIN tree : tree'[p] = tree[p]
  BY DEF Grown
<1>5. ASSUME NEW q \in DOMAIN tree', q # <<>>, SubSeq(q, 1, Len(q) - 1) = NewPath
      PROVE  FALSE
  <2>1. q \in Paths
    BY <1>1, <1>4 DEF IInv, TypeOK
  <2>2. Len(q) \in Nat /\ Len(q) >= 1
    BY <1>5, <2>1 DEF Paths
  <2>3. Len(q) - 1 \in 0..Len(q)
    BY <2>2
  <2>4. Len(SubSeq(q, 1, Len(q) - 1)) = Len(q) - 1
    BY <2>1, <2>3, Shortened
  <2>5. Len(q) - 1 = n
    BY <1>1, <1>5, <2>4
  <2>6. q # NewPath /\ Len(q) >= n
    BY <1>1, <1>2, <2>2, <2>5
  <2> QED
    BY <1>1, <1>4, <1>5, <2>5, <2>6
<1>6. ChildrenOf(tree', NewPath) = {}
  BY <1>5 DEF ChildrenOf
<1>7. ChildrenOf(tree', Top.path) = ChildrenOf(tree, Top.path) \cup {NewPath}
  BY <1>3, <1>4 DEF ChildrenOf
<1>8. \A p \in DOMAIN tree : p # Top.path => Kept(p)
  <2>1. \A p : p # Top.path => ChildrenOf(tree', p) = ChildrenOf(tree, p)
    BY <1>3, <1>4 DEF ChildrenOf
  <2>2. \A p : ChildrenOf(tree, p) \subseteq DOMAIN tree
    BY DEF ChildrenOf
  <2> QED
    BY <1>4, <2>1, <2>2 DEF Kept
<1> QED
  BY <1>4, <1>6, <1>7, <1>8 DEF ReadThere

(* The current call returns from a directory that could not be read or is  *)
(* read to its end.                                                        *)
LEMMA ReturnRead ==
  ASSUME IInv, AllRead, stack # <<>>, Return, Similar(tree, tree'), UNCHANGED <<file, done>>,
         NEW path, path = Top.path, ReadThere(path)' => Finished(path)
  PROVE  AllRead'
<1> DEFINE n == Len(stack)
<1>1. /\ stack \in Seq(Frames) /\ n \in Nat /\ n >= 1 /\ DOMAIN stack = 1..n
      /\ path = stack[n].path
  BY TopFacts
<1>2. /\ DOMAIN stack' = 1..(n - 1)
      /\ \A i \in 1..(n - 1) : stack'[i] = stack[i] /\ i \in DOMAIN stack
  BY <1>1 DEF Return
<1>3. \A p \in DOMAIN tree : Kept(p) /\ (ReadThere(p)' => ReadThere(p))
  BY SimilarIsKept
<1>4. \A i \in DOMAIN stack : stack[i] \in Frames /\ stack[i].path \in DOMAIN tree
  BY <1>1 DEF IInv, Chain, Seated
<1>m. n \in Nat /\ n >= 1
  BY <1>1
<1> HIDE DEF n
<1>n. \A i \in 1..n : i \in 1..(n - 1) \/ i = n
  BY <1>m
<1>5. (\A i \in DOMAIN stack : Reading(stack[i]))'
  <2>1. \A i \in DOMAIN stack : Reading(stack[i])
    BY DEF AllRead
  <2>2. \A f \in Frames : Kept(f.path) /\ Reading(f) => Reading(f)'
    BY ReadingKept
  <2> QED
    BY <1>2, <1>3, <1>4, <2>1, <2>2
<1>6. ASSUME NEW p \in DOMAIN tree', ReadThere(p)'
      PROVE  (\E i \in DOMAIN stack' : stack'[i].path = p) \/ Finished(p)'
  <2>1. p \in DOMAIN tree /\ Kept(p) /\ ReadThere(p)
    BY <1>3, <1>6 DEF Similar
  <2>2. CASE Finished(p)
    BY <2>1, <2>2, FinishedKept
  <2>3. CASE \E i \in DOMAIN stack : stack[i].path = p
    <3>1. PICK i \in DOMAIN stack : stack[i].path = p
      BY <2>3
    <3>2. CASE i = n
      <4>1. Finished(p)
        BY <1>1, <1>6, <3>1, <3>2
      <4> QED
        BY <2>1, <4>1, FinishedKept
    <3>3. CASE i \in 1..(n - 1)
      BY <1>2, <3>1, <3>3
    <3> QED
      BY <1>1, <1>n, <3>2, <3>3
  <2> QED
    BY <2>1, <2>2, <2>3 DEF AllRead
<1>7. done' => stack' = <<>>
  BY DEF AllRead
<1> QED
  BY <1>5, <1>6, <1>7 DEF AllRead

(* The current call goes on, and adds at most errors to the tree.          *)
LEMMA ReplaceRead ==
  ASSUME IInv, AllRead, stack # <<>>, NEW f \in Frames, Replace(f), f.path = Top.path,
         Similar(tree, tree'), UNCHANGED <<file, done>>, Reading(f)'
  PROVE  AllRead'
<1> DEFINE n == Len(stack)
<1>1. /\ stack \in Seq(Frames) /\ n \in Nat /\ n >= 1 /\ DOMAIN stack = 1..n
      /\ f.path = stack[n].path
  BY TopFacts
<1>2. /\ DOMAIN stack' = DOMAIN stack
      /\ \A i \in DOMAIN stack : stack'[i] = IF i = n THEN f ELSE stack[i]
  BY <1>1 DEF Replace
<1> HIDE DEF n
<1>3. \A p \in DOMAIN tree : Kept(p) /\ (ReadThere(p)' => ReadThere(p))
  BY SimilarIsKept
<1>4. \A i \in DOMAIN stack : stack[i] \in Frames /\ stack[i].path \in DOMAIN tree
  BY <1>1 DEF IInv, Chain, Seated
<1>5. (\A i \in DOMAIN stack : Reading(stack[i]))'
  <2>1. \A i \in DOMAIN stack : Reading(stack[i])
    BY DEF AllRead
  <2>2. \A g \in Frames : Kept(g.path) /\ Reading(g) => Reading(g)'
    BY ReadingKept
  <2> QED
    BY <1>2, <1>3, <1>4, <2>1, <2>2
<1>6. ASSUME NEW p \in DOMAIN tree', ReadThere(p)'
      PROVE  (\E i \in DOMAIN stack' : stack'[i].path = p) \/ Finished(p)'
  <2>1. p \in DOMAIN tree /\ Kept(p) /\ ReadThere(p)
    BY <1>3, <1>6 DEF Similar
  <2>2. CASE Finished(p)
    BY <2>1, <2>2, FinishedKept
  <2>3. CASE \E i \in DOMAIN stack : stack[i].path = p
    BY <1>1, <1>2, <2>3
  <2> QED
    BY <2>1, <2>2, <2>3 DEF AllRead
<1>7. done' => stack' = <<>>
  BY DEF AllRead
<1> QED
  BY <1>5, <1>6, <1>7 DEF AllRead

(* The entry whose turn it is.                                             *)
LEMMA Place ==
  ASSUME NEW rva \in Nat, NEW size \in Nat, NEW entry \in Nat, NEW read \in Nat
  PROVE  /\ rva + size + ((read + 1) - 1) * entry = rva + size + read * entry
         /\ rva + size + (read + 1) * entry = rva + size + read * entry + entry
         /\ rva + size + 0 * entry = rva + size
<1>1. (read + 1) - 1 = read
  OBVIOUS
<1>2. (read + 1) * entry = read * entry + entry
  OBVIOUS
<1>3. read * entry \in Nat /\ 0 * entry = 0
  OBVIOUS
<1> QED
  BY <1>1, <1>2, <1>3

LEMMA EntryRead ==
  ASSUME IInv, AllRead, stack # <<>>, Top.step = "entries", UNCHANGED file,
         NEW node, Grown(node), Holds(node, file.entries[Top.pos]),
         NEW f \in Frames, f.path = Top.path, f.rva = Top.rva, f.pos = Top.pos,
         f.read = Top.read, f.step \in {"advance", "leaving"},
         f.step = "leaving" => "entry" \in node.errors
  PROVE  Reading(f)'
<1> DEFINE p == f.path
           n == f.read
           k == n + 1
<1>1. /\ Len(stack) \in DOMAIN stack /\ Top = stack[Len(stack)]
      /\ p \in Paths /\ n \in Nat /\ f.rva \in Nat
      /\ DirectorySize \in Nat /\ EntrySize \in Nat
      /\ NewPath = Append(p, k) /\ NewPath \notin DOMAIN tree
      /\ p \in DOMAIN tree /\ p # NewPath
  BY TopFacts, FileFacts, NewPathFacts DEF NewPath, Frames
<1>2. /\ EntriesMade(p, n)
      /\ f.pos = f.rva + DirectorySize + n * EntrySize
  <2>1. Reading(Top)
    BY <1>1 DEF AllRead
  <2>2. Made(Top) = Top.read
    <3>1. Top.read + 0 = Top.read
      BY <1>1
    <3> QED
      BY <3>1 DEF Made
  <2> QED
    BY <2>1, <2>2 DEF Reading
<1>3. tree[p].rva = f.rva
  BY <1>1 DEF IInv, Chain, Seated
<1>4. /\ ChildrenOf(tree', p) = ChildrenOf(tree, p) \cup {Append(p, k)}
      /\ tree'[p] = tree[p] /\ tree'[Append(p, k)] = node
      /\ \A c \in DOMAIN tree : tree'[c] = tree[c]
  BY <1>1, GrownChildren DEF Grown
<1>5. k \in 1..k /\ \A i \in 1..k : i = k \/ i \in 1..n
  BY <1>1
<1>a. \A i \in 1..n : i \in 1..k
  BY <1>1
<1>6. f.rva + DirectorySize + (k - 1) * EntrySize = f.pos
  BY <1>1, <1>2, Place
<1> HIDE DEF p, k, n
<1>7. ASSUME NEW i \in 1..n PROVE EntryHolds(p, i)'
  <2>1. EntryHolds(p, i) /\ Append(p, i) \in DOMAIN tree
    BY <1>2 DEF EntriesMade, ChildrenOf
  <2> QED
    BY <1>4, <2>1 DEF EntryHolds, EntryAt, Holds, Target
<1>8. EntryHolds(p, k)'
  <2>1. EntryAt(p, k)' = file.entries[f.pos]
    BY <1>3, <1>4, <1>6 DEF EntryAt
  <2> QED
    BY <1>4, <2>1 DEF EntryHolds, Holds, Target
<1>9. ChildrenOf(tree', p) = {Append(p, i) : i \in 1..k}
  BY <1>2, <1>4, <1>5, <1>a DEF EntriesMade
<1>10. EntriesMade(p, k)'
  <2>1. \A i \in 1..k : EntryHolds(p, i)'
    BY <1>5, <1>7, <1>8
  <2> QED
    BY <1>9, <2>1 DEF EntriesMade, ChildrenOf
<1>11. p = f.path /\ k = f.read + 1 /\ n = f.read
  BY DEF p, k, n
<1>12. Made(f) = k
  BY <1>11 DEF Made
<1> QED
  BY <1>2, <1>4, <1>10, <1>11, <1>12 DEF Reading, Made

(* A new entry that makes no call, and one that does.                      *)
LEMMA GrowRead ==
  ASSUME IInv, AllRead, stack # <<>>, Top.step = "entries", UNCHANGED <<file, done>>,
         NEW node, Grown(node), Holds(node, file.entries[Top.pos]),
         node.is = "directory" => "directory" \in node.errors,
         NEW step \in {"advance", "leaving"}, Replace([Top EXCEPT !.step = step]),
         step = "leaving" => "entry" \in node.errors
  PROVE  AllRead'
<1> DEFINE n == Len(stack)
<1>1. /\ stack \in Seq(Frames) /\ n \in Nat /\ n >= 1 /\ DOMAIN stack = 1..n
      /\ Top.path = stack[n].path /\ Top \in Frames /\ Top.path \in DOMAIN tree
  BY TopFacts
<1>f. PICK f : f = [Top EXCEPT !.step = step]
  OBVIOUS
<1>2. /\ f \in Frames /\ f.path = Top.path /\ f.rva = Top.rva /\ f.pos = Top.pos
      /\ f.read = Top.read /\ f.step = step
  BY <1>1, <1>f DEF Frames
<1>3. Reading(f)'
  BY <1>2, EntryRead
<1>4. /\ DOMAIN stack' = DOMAIN stack
      /\ \A i \in DOMAIN stack : stack'[i] = IF i = n THEN f ELSE stack[i]
  BY <1>1, <1>f DEF Replace
<1>5. /\ \A p \in DOMAIN tree : p # Top.path => Kept(p)
      /\ \A p \in DOMAIN tree : ReadThere(p)' <=> ReadThere(p)
  BY GrownChildren
<1>6. \A i \in DOMAIN stack : /\ stack[i] \in Frames /\ stack[i].path \in DOMAIN tree
                              /\ i # n => stack[i].path # Top.path
  <2>1. \A i \in DOMAIN stack : stack[i] \in Frames /\ stack[i].path \in DOMAIN tree
    BY <1>1 DEF IInv, Chain, Seated
  <2>2. n \in DOMAIN stack
    BY <1>1
  <2> QED
    BY <1>1, <2>1, <2>2, FramesApart
<1> HIDE DEF n
<1>7. (\A i \in DOMAIN stack : Reading(stack[i]))'
  <2>1. \A i \in DOMAIN stack : Reading(stack[i])
    BY DEF AllRead
  <2>2. \A g \in Frames : Kept(g.path) /\ Reading(g) => Reading(g)'
    BY ReadingKept
  <2> QED
    BY <1>3, <1>4, <1>5, <1>6, <2>1, <2>2
<1>8. ASSUME NEW p \in DOMAIN tree', ReadThere(p)'
      PROVE  (\E i \in DOMAIN stack' : stack'[i].path = p) \/ Finished(p)'
  <2>1. p \in DOMAIN tree /\ ReadThere(p)
    BY <1>5, <1>8 DEF Grown, ReadThere
  <2>2. CASE \E i \in DOMAIN stack : stack[i].path = p
    BY <1>1, <1>2, <1>4, <2>2
  <2>3. CASE Finished(p) /\ p # Top.path
    BY <1>5, <2>1, <2>3, FinishedKept
  <2>4. CASE p = Top.path
    BY <1>1, <2>2, <2>4
  <2> QED
    BY <2>1, <2>2, <2>3, <2>4 DEF AllRead
<1>9. done' => stack' = <<>>
  BY DEF AllRead
<1> QED
  BY <1>7, <1>8, <1>9 DEF AllRead

LEMMA CallRead ==
  ASSUME IInv, AllRead, stack # <<>>, Top.step = "entries", UNCHANGED <<file, done>>,
         NEW node, Grown(node), Holds(node, file.entries[Top.pos]),
         NEW rva \in U32, Called(rva)
  PROVE  AllRead'
<1> DEFINE n == Len(stack)
<1>1. /\ stack \in Seq(Frames) /\ n \in Nat /\ n >= 1 /\ DOMAIN stack = 1..n
      /\ Top.path = stack[n].path /\ Top \in Frames /\ Top.path \in DOMAIN tree
      /\ NewPath \in Paths
  BY TopFacts, NewPathFacts
<1>f. PICK f : f = [Top EXCEPT !.step = "advance"]
  OBVIOUS
<1>g. PICK g : g = Frame(NewPath, rva)
  OBVIOUS
<1>2. /\ f \in Frames /\ f.path = Top.path /\ f.rva = Top.rva /\ f.pos = Top.pos
      /\ f.read = Top.read /\ f.step = "advance"
  BY <1>1, <1>f DEF Frames
<1>3. /\ g \in Frames /\ g.path = NewPath /\ g.read = 0 /\ g.step = "descriptor"
  BY <1>1, <1>g, FileFacts DEF Frames, Frame
<1>4. Reading(f)'
  BY <1>2, EntryRead
<1>5. /\ DOMAIN stack' = 1..(n + 1) /\ stack'[n + 1] = g
      /\ \A i \in 1..n : stack'[i] = IF i = n THEN f ELSE stack[i]
  <2> DEFINE s == [stack EXCEPT ![n] = f]
  <2>1. s \in Seq(Frames) /\ Len(s) = n /\ \A i \in 1..n : s[i] = IF i = n THEN f ELSE stack[i]
    BY <1>1, <1>2
  <2>2. stack' = Append(s, g)
    BY <1>f, <1>g DEF Called
  <2> HIDE DEF s, n
  <2> QED
    BY <2>1, <2>2, <1>3, Appended
<1>6. /\ \A p \in DOMAIN tree : p # Top.path => Kept(p)
      /\ \A p \in DOMAIN tree : ReadThere(p)' <=> ReadThere(p)
      /\ ChildrenOf(tree', g.path) = {}
  BY <1>3, GrownChildren
<1>7. \A i \in DOMAIN stack : /\ stack[i] \in Frames /\ stack[i].path \in DOMAIN tree
                              /\ i # n => stack[i].path # Top.path
  BY <1>1, FramesApart DEF IInv, Chain, Seated
<1>8. /\ \A i \in 1..(n + 1) : i \in 1..n \/ i = n + 1
      /\ \A i \in 1..n : i \in 1..(n + 1)
      /\ n \in 1..(n + 1) /\ n + 1 \in 1..(n + 1)
  BY <1>1
<1> HIDE DEF n
<1>9. Reading(g)'
  <2>1. Made(g) = 0 /\ 1..0 = {}
    BY <1>3 DEF Made
  <2> DEFINE p == g.path
             k == Made(g)
  <2>2. ChildrenOf(tree', p) = {} /\ k = 0
    BY <1>6, <2>1
  <2> HIDE DEF p, k
  <2>3. EntriesMade(p, k)'
    BY <2>1, <2>2 DEF EntriesMade, ChildrenOf
  <2>4. EntriesMade(g.path, Made(g))'
    BY <2>3 DEF p, k, Made
  <2> QED
    BY <1>3, <2>4 DEF Reading
<1>10. (\A i \in DOMAIN stack : Reading(stack[i]))'
  <2>1. \A i \in DOMAIN stack : Reading(stack[i])
    BY DEF AllRead
  <2>2. \A h \in Frames : Kept(h.path) /\ Reading(h) => Reading(h)'
    BY ReadingKept
  <2> QED
    BY <1>1, <1>4, <1>5, <1>6, <1>7, <1>8, <1>9, <2>1, <2>2
<1>11. ASSUME NEW p \in DOMAIN tree', ReadThere(p)'
      PROVE  (\E i \in DOMAIN stack' : stack'[i].path = p) \/ Finished(p)'
  <2>1. CASE p = NewPath
    BY <1>3, <1>5, <1>8, <2>1
  <2> SUFFICES ASSUME p \in DOMAIN tree
               PROVE  (\E i \in DOMAIN stack' : stack'[i].path = p) \/ Finished(p)'
    BY <2>1 DEF Grown
  <2>2. ReadThere(p)
    BY <1>6, <1>11
  <2>3. CASE \E i \in DOMAIN stack : stack[i].path = p
    BY <1>1, <1>2, <1>5, <1>8, <2>3
  <2>4. CASE Finished(p) /\ p # Top.path
    BY <1>6, <2>4, FinishedKept
  <2>5. CASE p = Top.path
    BY <1>1, <1>2, <1>5, <1>8, <2>5
  <2> QED
    BY <2>2, <2>3, <2>4, <2>5 DEF AllRead
<1>12. done' => stack' = <<>>
  BY DEF AllRead
<1> QED
  BY <1>10, <1>11, <1>12 DEF AllRead

-----------------------------------------------------------------------------
LEMMA InitRead == Init => AllRead
<1> SUFFICES ASSUME Init PROVE AllRead
  OBVIOUS
<1> DEFINE f == Frame(<<>>, file.root)
<1>1. DOMAIN stack = {1} /\ stack[1] = f /\ DOMAIN tree = {<<>>} /\ done = FALSE
  BY DEF Init
<1>2. f.path = <<>> /\ f.read = 0 /\ f.step = "descriptor" /\ Made(f) = 0
  BY DEF Frame, Made
<1> HIDE DEF f
<1>3. ChildrenOf(tree, <<>>) = {} /\ 1..0 = {}
  BY <1>1 DEF ChildrenOf
<1>4. Reading(f)
  BY <1>2, <1>3 DEF Reading, EntriesMade
<1> QED
  BY <1>1, <1>2, <1>4 DEF AllRead

LEMMA DescriptorRead ==
  ASSUME IInv, AllRead, ReadDescriptor
  PROVE  AllRead'
<1>1. stack # <<>> /\ Top.step = "descriptor" /\ UNCHANGED <<file, done>>
  BY DEF ReadDescriptor
<1>2. Top \in Frames /\ Top.path \in DOMAIN tree /\ Top.rva \in Nat /\ Reading(Top)
  BY <1>1, TopFacts, FileFacts DEF AllRead
<1>3. DirectorySize \in Nat /\ EntrySize \in Nat /\ U32Max \in Nat
  BY FileFacts
<1>4. CASE tree' = AddErrors(tree, Top.path, {"directory"}) /\ Return
  <2>1. Similar(tree, tree')
    BY <1>4, ErrorsAdded DEF Errors
  <2>2. PICK path : path = Top.path
    OBVIOUS
  <2>3. ~ReadThere(path)'
    <3>1. /\ path \in DOMAIN tree /\ tree[path] \in Nodes
          /\ tree'[path]
               = [tree[path] EXCEPT !.errors = tree[path].errors \cup {"directory"}]
      BY <1>2, <1>4, <2>2 DEF AddErrors, IInv, TypeOK
    <3>2. "directory" \in tree'[path].errors
      BY <3>1 DEF Nodes
    <3> QED
      BY <3>2 DEF ReadThere
  <2> QED
    BY <1>1, <1>4, <2>1, <2>2, <2>3, ReturnRead
<1>5. CASE /\ ~(Top.rva + DirectorySize > U32Max) /\ UNCHANGED tree
           /\ Replace([Top EXCEPT !.pos = Top.rva + DirectorySize, !.step = "entries"])
  <2>1. Similar(tree, tree')
    BY <1>5 DEF Similar, IInv, TypeOK
  <2>2. PICK f : f = [Top EXCEPT !.pos = Top.rva + DirectorySize, !.step = "entries"]
    OBVIOUS
  <2>3. Top.rva + DirectorySize \in U32
    BY <1>2, <1>3, <1>5 DEF U32
  <2>4. /\ f \in Frames /\ f.path = Top.path /\ f.rva = Top.rva /\ f.read = Top.read
        /\ f.pos = Top.rva + DirectorySize /\ f.step = "entries"
    BY <1>2, <2>2, <2>3 DEF Frames
  <2>5. Top.read = 0 /\ Made(Top) = 0 /\ Made(f) = 0
    BY <1>1, <1>2, <2>4 DEF Reading, Made
  <2>6. Reading(f)
    <3>1. f.pos = f.rva + DirectorySize + f.read * EntrySize
      BY <1>2, <1>3, <2>4, <2>5
    <3> QED
      BY <1>2, <2>4, <2>5, <3>1 DEF Reading
  <2>7. Kept(f.path)
    BY <1>2, <2>1, <2>4, SimilarIsKept
  <2>8. Reading(f)'
    BY <1>1, <2>4, <2>6, <2>7, ReadingKept
  <2> QED
    BY <1>1, <1>5, <2>1, <2>2, <2>4, <2>8, ReplaceRead
<1> QED
  BY <1>4, <1>5 DEF ReadDescriptor

LEMMA ReadEntryRead ==
  ASSUME IInv, AllRead, ReadEntry
  PROVE  AllRead'
<1> DEFINE e == file.entries[Top.pos]
<1>1. /\ stack # <<>> /\ Top.step = "entries" /\ UNCHANGED <<file, done>>
      /\ \/ EntryUnread(NewPath)
         \/ /\ Top.pos \in DOMAIN file.entries
            /\ EntryUnnamed(NewPath, e) \/ EntryDirectory(NewPath, e) \/ EntryData(NewPath, e)
  BY DEF ReadEntry, NewPath
<1>2. NewPath \notin DOMAIN tree
  BY <1>1, NewPathFacts
<1>3. \A node : tree' = Extend(tree, NewPath, node) => Grown(node)
  BY <1>2 DEF Extend, Grown
<1>4. CASE EntryUnread(NewPath)
  <2> DEFINE node == Node("nothing", NoName, 0, {"entry"})
  <2>1. Grown(node) /\ Replace([Top EXCEPT !.step = "leaving"])
    BY <1>3, <1>4 DEF EntryUnread
  <2>2. node.is = "nothing" /\ "entry" \in node.errors /\ Holds(node, e)
    BY DEF Node, Holds
  <2> HIDE DEF node
  <2> QED
    BY <1>1, <2>1, <2>2, GrowRead
<1>5. CASE EntryUnnamed(NewPath, e)
  <2> DEFINE node == Node("nothing", NoName, 0, {"name"})
  <2>1. Grown(node) /\ Replace([Top EXCEPT !.step = "advance"])
    BY <1>3, <1>5 DEF EntryUnnamed
  <2>2. node.is = "nothing" /\ Holds(node, e)
    BY DEF Node, Holds
  <2> HIDE DEF node
  <2> QED
    BY <1>1, <2>1, <2>2, GrowRead
<1>n. (e.string => NameOf(e) # NoName) => NameOf(e) = e.name
  BY DEF NameOf
<1>6. CASE Top.pos \in DOMAIN file.entries /\ EntryDirectory(NewPath, e)
  <2>1. NameOf(e) = e.name /\ e.directory
    BY <1>6, <1>n DEF EntryDirectory
  <2>2. CASE /\ Target(e) > U32Max
             /\ tree' = Extend(tree, NewPath, Node("directory", NameOf(e), 0, {"directory"}))
             /\ Replace([Top EXCEPT !.step = "advance"])
    <3> DEFINE node == Node("directory", NameOf(e), 0, {"directory"})
    <3>1. Target(e) \in Nat
      <4>1. e \in Entries
        BY <1>1, <1>6, <2>2, FileFacts
      <4> QED
        BY <4>1, FileFacts DEF Target, Entries
    <3>2. Grown(node) /\ ~(Target(e) <= U32Max)
      BY <1>3, <2>2, <3>1, FileFacts
    <3>3. "directory" \in node.errors /\ Holds(node, e)
      BY <2>1, <3>2 DEF Node, Holds
    <3> HIDE DEF node, e
    <3> QED
      BY <1>1, <2>2, <3>2, <3>3, GrowRead DEF e
  <2>3. CASE /\ tree' = Extend(tree, NewPath, Node("link", NameOf(e), Target(e), {}))
             /\ Replace([Top EXCEPT !.step = "advance"])
    <3> DEFINE node == Node("link", NameOf(e), Target(e), {})
    <3>1. Grown(node)
      BY <1>3, <2>3
    <3>2. node.is = "link" /\ Holds(node, e)
      BY <2>1 DEF Node, Holds
    <3> HIDE DEF node
    <3> QED
      BY <1>1, <2>3, <3>1, <3>2, GrowRead
  <2>4. CASE /\ Target(e) <= U32Max
             /\ tree' = Extend(tree, NewPath, Node("directory", NameOf(e), Target(e), {}))
             /\ Called(Target(e))
    <3> DEFINE node == Node("directory", NameOf(e), Target(e), {})
               rva == Target(e)
    <3>1. Grown(node)
      BY <1>3, <2>4
    <3>2. Holds(node, e)
      BY <2>1 DEF Node, Holds
    <3>3. rva \in U32
      <4>1. e \in Entries
        BY <1>1, <1>6, FileFacts
      <4> QED
        BY <2>4, <4>1, FileFacts DEF Target, Entries, U32
    <3>4. Called(rva)
      BY <2>4
    <3> HIDE DEF node, rva
    <3> QED
      BY <1>1, <3>1, <3>2, <3>3, <3>4, CallRead
  <2> QED
    BY <1>6, <2>2, <2>3, <2>4 DEF EntryDirectory, Called
<1>7. CASE Top.pos \in DOMAIN file.entries /\ EntryData(NewPath, e)
  <2>1. NameOf(e) = e.name /\ ~e.directory
    BY <1>7, <1>n DEF EntryData
  <2> DEFINE rva == IF Target(e) > U32Max THEN 0 ELSE Target(e)
             node == Node("data", NameOf(e), rva, DataErrors(e))
  <2>2. Grown(node) /\ Replace([Top EXCEPT !.step = "advance"])
    BY <1>3, <1>7 DEF EntryData
  <2>3. Target(e) <= U32Max => rva = Target(e)
    <3>1. e \in Entries
      BY <1>1, <1>7, FileFacts
    <3>2. Target(e) \in Nat /\ U32Max \in Nat
      BY <3>1, FileFacts DEF Target, Entries
    <3> QED
      BY <3>2
  <2>4. node.is = "data" /\ Holds(node, e)
    BY <2>1, <2>3 DEF Node, Holds
  <2> HIDE DEF node
  <2> QED
    BY <1>1, <2>2, <2>4, GrowRead
<1> QED
  BY <1>1, <1>4, <1>5, <1>6, <1>7

LEMMA AdvanceRead ==
  ASSUME IInv, AllRead, Advance
  PROVE  AllRead'
<1> DEFINE path == Append(Top.path, Top.read + 1)
           named == Top.named + (IF tree[path].name.kind = "name" THEN 1 ELSE 0)
<1>1. stack # <<>> /\ Top.step = "advance" /\ UNCHANGED <<file, done>>
  BY DEF Advance
<1>2. /\ Top \in Frames /\ Top.path \in DOMAIN tree /\ Top.rva \in Nat /\ Reading(Top)
      /\ Top.read \in Nat /\ Top.pos \in Nat /\ named \in Nat
  <2>1. /\ Top \in Frames /\ Top.path \in DOMAIN tree
        /\ Top.rva \in Nat /\ Top.read \in Nat /\ Top.pos \in Nat /\ Top.named \in Nat
    BY <1>1, TopFacts, FileFacts
  <2>2. Reading(Top)
    BY <1>1, TopFacts DEF AllRead
  <2>3. named \in Nat
    BY <2>1
  <2> QED
    BY <2>1, <2>2, <2>3
<1>3. DirectorySize \in Nat /\ EntrySize \in Nat /\ U32Max \in Nat
  BY FileFacts
<1>4. Made(Top) = Top.read + 1 /\ Top.pos = Top.rva + DirectorySize + Top.read * EntrySize
  BY <1>1, <1>2 DEF Reading, Made
<1>5. path \in ChildrenOf(tree, Top.path)
  <2>1. Top.read + 1 \in 1..(Top.read + 1)
    BY <1>2
  <2> QED
    BY <1>2, <1>4, <2>1 DEF Reading, EntriesMade
<1> HIDE DEF named
<1>6. CASE /\ tree' = AddErrors(tree, path, {"entry"})
           /\ Replace([Top EXCEPT !.named = named, !.step = "leaving"])
  <2>1. Similar(tree, tree')
    BY <1>6, ErrorsAdded DEF Errors
  <2>2. PICK f : f = [Top EXCEPT !.named = named, !.step = "leaving"]
    OBVIOUS
  <2>3. /\ f \in Frames /\ f.path = Top.path /\ f.rva = Top.rva /\ f.read = Top.read
        /\ f.pos = Top.pos /\ f.step = "leaving"
    BY <1>2, <2>2 DEF Frames
  <2>4. PICK g : g = [f EXCEPT !.step = "advance"]
    OBVIOUS
  <2>5. /\ g \in Frames /\ g.path = f.path /\ g.rva = f.rva /\ g.read = f.read
        /\ g.pos = f.pos /\ g.step = "advance" /\ Made(g) = Made(Top) /\ Made(f) = Made(g)
    BY <1>1, <2>3, <2>4 DEF Frames, Made
  <2>6. Reading(g) /\ Kept(g.path)
    BY <1>1, <1>2, <2>1, <2>3, <2>5, SimilarIsKept DEF Reading
  <2>7. Reading(g)'
    BY <1>1, <2>5, <2>6, ReadingKept
  <2>8. "entry" \in tree'[path].errors
    <3>1. /\ path \in DOMAIN tree /\ tree[path] \in Nodes
          /\ tree'[path] = [tree[path] EXCEPT !.errors = tree[path].errors \cup {"entry"}]
      BY <1>5, <1>6 DEF AddErrors, IInv, TypeOK, ChildrenOf
    <3> QED
      BY <3>1 DEF Nodes
  <2>9. "entry" \in tree'[Append(f.path, f.read + 1)].errors
    BY <2>3, <2>8
  <2>10. Reading(f)'
    <3>1. EntriesMade(f.path, Made(f))'
      <4> DEFINE p == f.path
                 n == Made(f)
      <4>1. g.path = p /\ Made(g) = n
        BY <2>5
      <4> HIDE DEF p, n
      <4>2. EntriesMade(p, n)'
        <5>1. EntriesMade(p, n) /\ Kept(p)
          BY <2>6, <4>1 DEF Reading
        <5> QED
          BY <1>1, <5>1, EntriesKept
      <4> QED
        BY <4>2 DEF p, n, Made
    <3>2. f.pos = f.rva + DirectorySize + f.read * EntrySize
      BY <1>4, <2>3
    <3> QED
      BY <2>3, <2>9, <3>1, <3>2 DEF Reading
  <2> QED
    BY <1>1, <1>6, <2>1, <2>2, <2>3, <2>10, ReplaceRead
<1>7. CASE /\ ~(Top.pos + EntrySize > U32Max) /\ UNCHANGED tree
           /\ Replace(Turned(named, Top.read + 1, Top.pos + EntrySize))
  <2>1. Similar(tree, tree')
    BY <1>7 DEF Similar, IInv, TypeOK
  <2> DEFINE read == Top.read + 1
             pos == Top.pos + EntrySize
  <2>2. read \in Nat /\ pos \in U32
    BY <1>2, <1>3, <1>7 DEF U32
  <2>3. /\ read = Top.read + 1 /\ Made(Top) = read
        /\ pos = Top.rva + DirectorySize + read * EntrySize
    BY <1>2, <1>3, <1>4, Place
  <2> HIDE DEF read, pos
  <2>4. PICK f : f = Turned(named, read, pos)
    OBVIOUS
  <2>5. /\ f \in Frames /\ f.path = Top.path /\ f.rva = Top.rva /\ f.read = read
        /\ f.pos = pos /\ f.step = "entries"
    <3>1. Turned(named, read, pos).pos = pos
      BY <1>2 DEF Turned, Frames
    <3>2. /\ Turned(named, read, pos) \in Frames
          /\ Turned(named, read, pos).path = Top.path
          /\ Turned(named, read, pos).rva = Top.rva
          /\ Turned(named, read, pos).read = read
          /\ Turned(named, read, pos).step = "entries"
      BY <1>2, <2>2, TurnedFrame
    <3> QED
      BY <2>4, <3>1, <3>2
  <2>6. Made(f) = read
    BY <2>2, <2>5 DEF Made
  <2>7. Reading(f) /\ Kept(f.path)
    BY <1>2, <2>1, <2>3, <2>5, <2>6, SimilarIsKept DEF Reading
  <2>8. Reading(f)'
    BY <1>1, <2>5, <2>7, ReadingKept
  <2> QED
    BY <1>1, <1>7, <2>1, <2>4, <2>5, <2>8, ReplaceRead DEF read, pos
<1> QED
  BY <1>6, <1>7 DEF Advance, Turned, named

LEMMA LeaveRead ==
  ASSUME IInv, AllRead, LeaveDirectory
  PROVE  AllRead'
<1>1. /\ stack # <<>> /\ Return /\ UNCHANGED <<file, done>>
      /\ Top.step = "leaving" \/ (Top.step = "entries" /\ Top.read = Count)
  BY DEF LeaveDirectory
<1>2. /\ Top \in Frames /\ Top.path \in DOMAIN tree /\ Reading(Top) /\ Top.read \in Nat
      /\ tree[Top.path].rva = Top.rva
  BY <1>1, TopFacts DEF AllRead, IInv, Chain, Seated
<1>3. Similar(tree, tree')
  <2> DEFINE es == DirectoryErrors(NamesOf(tree, Top.path), Top.named)
  <2>1. tree' = AddErrors(tree, Top.path, es) /\ es \in SUBSET Errors
    BY DEF LeaveDirectory, DirectoryErrors, Errors
  <2> HIDE DEF es
  <2> QED
    BY <2>1, ErrorsAdded
<1>4. PICK path : path = Top.path
  OBVIOUS
<1>5. Finished(path)
  <2>1. CASE Top.step = "leaving"
    <3>1. Made(Top) = Top.read + 1 /\ Top.read + 1 \in Nat /\ Top.read + 1 > 0
      BY <1>2, <2>1 DEF Made
    <3> QED
      BY <1>2, <1>4, <2>1, <3>1 DEF Reading, Finished
  <2>2. CASE Top.step = "entries" /\ Top.read = Count
    <3>1. Made(Top) = Top.read
      BY <1>2, <2>2 DEF Made
    <3>2. Count = file.dirs[tree[path].rva].named + file.dirs[tree[path].rva].ids
      BY <1>2, <1>4 DEF Count
    <3> QED
      BY <1>2, <1>4, <2>2, <3>1, <3>2 DEF Reading, Finished
  <2> QED
    BY <1>1, <2>1, <2>2
<1> QED
  BY <1>1, <1>3, <1>4, <1>5, ReturnRead

LEMMA FinishRead ==
  ASSUME IInv, AllRead, Finish
  PROVE  AllRead'
<1>1. stack = <<>> /\ UNCHANGED <<file, stack>> /\ DOMAIN stack = {}
  BY DEF Finish
<1>2. Similar(tree, tree')
  <2>1. CASE tree' = tree
    BY <2>1 DEF Similar, IInv, TypeOK
  <2>2. CASE tree' = AddErrors(tree, <<>>, {"size"})
    BY <2>2, ErrorsAdded DEF Errors
  <2> QED
    BY <2>1, <2>2 DEF Finish
<1>3. \A p \in DOMAIN tree : Kept(p) /\ (ReadThere(p)' => ReadThere(p))
  BY <1>2, SimilarIsKept
<1>4. \A p \in DOMAIN tree' : ReadThere(p)' => Finished(p)'
  BY <1>1, <1>2, <1>3, FinishedKept DEF AllRead, Similar
<1> QED
  BY <1>1, <1>4 DEF AllRead

LEMMA StepRead == IInv /\ AllRead /\ [Next]_vars => AllRead'
<1> SUFFICES ASSUME IInv, AllRead, [Next]_vars PROVE AllRead'
  OBVIOUS
<1>1. CASE UNCHANGED vars
  <2>1. /\ UNCHANGED <<file, stack, tree, done>>
        /\ \A p : ChildrenOf(tree', p) = ChildrenOf(tree, p)
    BY <1>1 DEF vars, ChildrenOf
  <2>2. \A p : Kept(p) /\ (ReadThere(p)' <=> ReadThere(p))
    BY <2>1 DEF Kept, ReadThere
  <2>3. \A f \in Frames : Reading(f) => Reading(f)'
    BY <2>1, <2>2, ReadingKept
  <2>4. \A p \in DOMAIN tree : Finished(p) => Finished(p)'
    BY <2>1, <2>2, FinishedKept
  <2>5. \A i \in DOMAIN stack : stack[i] \in Frames
    BY DEF IInv, TypeOK
  <2>6. (\A i \in DOMAIN stack : Reading(stack[i]))'
    BY <2>1, <2>3, <2>5 DEF AllRead
  <2>7. ASSUME NEW p \in DOMAIN tree', ReadThere(p)'
        PROVE  (\E i \in DOMAIN stack' : stack'[i].path = p) \/ Finished(p)'
    BY <2>1, <2>2, <2>4, <2>7 DEF AllRead
  <2> QED
    BY <2>1, <2>6, <2>7 DEF AllRead
<1> QED
  BY <1>1, DescriptorRead, ReadEntryRead, AdvanceRead, LeaveRead, FinishRead DEF Next

LEMMA CountOfChildren ==
  ASSUME NEW p \in Paths, NEW n \in Nat
  PROVE  Cardinality({Append(p, i) : i \in 1..n}) = n
<1> DEFINE S == {Append(p, i) : i \in 1..n}
           f == [i \in 1..n |-> Append(p, i)]
<1>1. \A i, j \in 1..n : Append(p, i) = Append(p, j) => i = j
  <2> SUFFICES ASSUME NEW i \in 1..n, NEW j \in 1..n, Append(p, i) = Append(p, j)
               PROVE  i = j
    OBVIOUS
  <2>1. i \in Nat \ {0} /\ j \in Nat \ {0}
    OBVIOUS
  <2>2. Append(p, i)[Len(p) + 1] = i /\ Append(p, j)[Len(p) + 1] = j
    BY <2>1, Extended
  <2> QED
    BY <2>2
<1>2. f \in [1..n -> S]
  OBVIOUS
<1>3. f \in Bijection(1..n, S)
  <2>1. \A i, j \in 1..n : f[i] = f[j] => i = j
    BY <1>1
  <2>2. \A c \in S : \E i \in 1..n : f[i] = c
    OBVIOUS
  <2> HIDE DEF f, S
  <2> QED
    BY <1>2, <2>1, <2>2 DEF Bijection, Injection, Surjection, IsInjective
<1>4. ExistsBijection(1..n, S)
  BY <1>3 DEF ExistsBijection
<1> HIDE DEF S
<1> QED
  BY <1>4, FS_CountingElements DEF S

LEMMA AllReadIsEnough == IInv /\ AllRead => NothingSkipped
<1> SUFFICES ASSUME IInv, AllRead, done, NEW p \in DOMAIN tree,
                    tree[p].is = "directory", "directory" \notin tree[p].errors
             PROVE  LET d == file.dirs[tree[p].rva]
                        n == Cardinality(ChildrenOf(tree, p))
                        At(i) == tree[p].rva + DirectorySize + (i - 1) * EntrySize
                    IN  /\ ChildrenOf(tree, p) = {Append(p, i) : i \in 1..n}
                        /\ n = d.named + d.ids \/ (n > 0 /\ "entry" \in tree[Append(p, n)].errors)
                        /\ \A i \in 1..n :
                             LET c == tree[Append(p, i)]
                                 e == file.entries[At(i)]
                             IN  c.is # "nothing" =>
                                   /\ c.name = e.name
                                   /\ c.is \in (IF e.directory THEN {"directory", "link"}
                                                ELSE {"data"})
                                   /\ Target(e) <= U32Max => c.rva = Target(e)
  BY DEF NothingSkipped
<1>1. Finished(p) /\ p \in Paths
  BY DEF AllRead, ReadThere, IInv, TypeOK
<1>2. PICK n \in Nat :
        /\ EntriesMade(p, n)
        /\ \/ n = file.dirs[tree[p].rva].named + file.dirs[tree[p].rva].ids
           \/ n > 0 /\ "entry" \in tree[Append(p, n)].errors
  BY <1>1 DEF Finished
<1>3. Cardinality(ChildrenOf(tree, p)) = n
  BY <1>1, <1>2, CountOfChildren DEF EntriesMade
<1> QED
  BY <1>2, <1>3 DEF EntriesMade, EntryHolds, EntryAt, Holds

(* When load_resource_directory has returned from the root, every          *)
(* directory that could be read has every entry its descriptor counts,     *)
(* unless the last of them carries the error that ended it, and each entry *)
(* holds what the file has where the entry lies: whatever the other        *)
(* entries lead to, none is skipped and none is read from the wrong place. *)
THEOREM NoEntryIsSkipped == Spec => []NothingSkipped
<1>1. Init => AllRead
  BY InitRead
<1>2. IInv /\ AllRead /\ [Next]_vars => AllRead'
  BY StepRead
<1>3. IInv /\ AllRead => NothingSkipped
  BY AllReadIsEnough
<1> QED
  BY <1>1, <1>2, <1>3, Invariance, PTL DEF Spec

=============================================================================
