---------------------------- MODULE MCRefBuffer ----------------------------
(* RefBuffer on two ref_buffers over one caller's stream.                  *)
EXTENDS RefBuffer, TLC

CONSTANTS b1, b2, c1, c2, c3, src

MCBuffers == {b1, b2}
MCCells == {c1, c2, c3}
MCSources == {src}

(* All that lie in three bytes and are not empty, and an empty one.        *)
MCWindows == {w \in (0..2) \X (1..2) : w[1] + w[2] <= 3} \cup {<<1, 0>>}

(* Nothing reads last: two states that differ in it alone have the same    *)
(* successors, and action properties are checked on every step generated.  *)
View == <<heap, handle>>

Symmetry == Permutations(Buffers) \cup Permutations(Cells)

=============================================================================
