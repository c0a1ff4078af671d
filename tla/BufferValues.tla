---------------------------- MODULE BufferValues -----------------------------
(***************************************************************************)
(* What ref_buffers promise to those who use them, with no word of          *)
(* containers: each has a value, the bytes that are read of it, and some    *)
(* share their bytes.  A handle that owns its bytes may be edited, which    *)
(* the handles that share with it may see; nobody else does.  RefBuffer     *)
(* implements this.                                                         *)
(***************************************************************************)
EXTENDS Integers, Sequences

CONSTANTS
  Buffers,   \* the ref_buffer objects
  Sources    \* buffers of the caller

VARIABLES
  reads,    \* what is read of each: a sequence of bytes
  owners,   \* the ref_buffers that have bytes of their own
  groups,   \* who shares with whom, a partition; what was moved from is in no group
  stale     \* the ref_buffers whose window was measured before an edit

valueVars == <<reads, owners, groups, stale>>

Readers == Buffers \cup Sources
Live(x) == x \in UNION groups
With(x) == UNION {g \in groups : x \in g}

Left(b) == {g \ {b} : g \in groups} \ {{}}
Alone(b) == Left(b) \cup {{b}}
Joined(b, x) == IF b = x THEN groups ELSE {IF x \in g THEN g \cup {b} ELSE g : g \in Left(b)}

(* The parts of what is read of something.                                 *)
Parts(value) == {SubSeq(value, from + 1, to) : from, to \in 0..Len(value)}

(* Only of these may something else be read than before.                   *)
OnlyOf(xs) ==
  /\ \A x \in Readers \ xs : reads'[x] = reads[x]
  /\ reads' \in [Readers -> Seq(Nat)]

Init ==
  /\ reads \in [Readers -> Seq(Nat)]
  /\ \A b \in Buffers : reads[b] = <<>>
  /\ owners = Buffers
  /\ groups = {{x} : x \in Readers}
  /\ stale = {}

(* b refers to a part of x: deserialize and assignment.                    *)
Refer(b, x) ==
  /\ Live(x)
  /\ owners' = owners \ {b}
  /\ reads'[b] \in Parts(reads[x]) /\ OnlyOf({b})
  /\ groups' = Joined(b, x)
  /\ stale' \ {b} = stale \ {b} /\ (b \in stale' => x \in stale)

(* b has a part of x for itself: deserialize with a copy, and              *)
(* copy_referenced_buffer.  What a stale window has besides its physical   *)
(* bytes is not known.                                                     *)
Own(b, x) ==
  /\ Live(x)
  /\ owners' = owners \cup {b}
  /\ IF x \in stale THEN Len(reads'[b]) <= Len(reads[x]) ELSE reads'[b] \in Parts(reads[x])
  /\ OnlyOf({b})
  /\ groups' = Alone(b)
  /\ stale' = stale \ {b}

(* b is what x was.                                                        *)
Become(b, x) ==
  /\ b # x /\ Live(x)
  /\ owners' = (owners \ {b, x}) \cup (IF x \in owners THEN {b} ELSE {})
  /\ reads'[b] = reads[x] /\ reads'[x] = <<>> /\ OnlyOf({b, x})
  /\ groups' = {IF x \in g THEN (g \ {x}) \cup {b} ELSE g : g \in Left(b)}
  /\ stale' = (stale \ {b, x}) \cup (IF x \in stale THEN {b} ELSE {})

(* b is edited in place: those that share its bytes see it.                *)
EditShared(b) ==
  /\ b \in owners
  /\ UNCHANGED owners
  /\ OnlyOf(With(b))
  /\ UNCHANGED groups
  /\ stale' \ With(b) = stale \ With(b) /\ stale' \subseteq stale \cup (With(b) \ owners)

(* b is edited, on bytes that it gets for itself: nobody sees it.          *)
EditAlone(b) ==
  /\ b \notin owners /\ Live(b)
  /\ owners' = owners \cup {b}
  /\ OnlyOf({b})
  /\ groups' = Alone(b)
  /\ stale' = stale \ {b}

(* The caller's bytes are other ones, and as many.                         *)
Rewrite(s) ==
  /\ UNCHANGED owners
  /\ OnlyOf(With(s)) /\ \A x \in With(s) : Len(reads'[x]) = Len(reads[x])
  /\ UNCHANGED <<groups, stale>>

Next ==
  \/ \E b \in Buffers, x \in Readers : Refer(b, x) \/ Own(b, x)
  \/ \E b, x \in Buffers : Become(b, x)
  \/ \E b \in Buffers : EditShared(b) \/ EditAlone(b)
  \/ \E s \in Sources : Rewrite(s)

Spec == Init /\ [][Next]_valueVars

=============================================================================
