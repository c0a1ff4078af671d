-------------------------- MODULE RelocationProofs ---------------------------
(***************************************************************************)
(* Proofs about relocations: what rebase moves, and what the loader reads.  *)
(***************************************************************************)
EXTENDS Relocations, FiniteSetTheorems, SequenceTheorems, WellFoundedInduction, NaturalsInduction, TLAPS

-----------------------------------------------------------------------------
(***************************************************************************)
(* For every image, every list of relocations and every sequence of calls: *)
(* rebase changes no byte that no relocation names, and with an entry that *)
(* is not supported it changes nothing.                                    *)
(***************************************************************************)

(* The image keeps its size, and the step points at one of its entries or  *)
(* behind the last one.                                                    *)
Shape ==
  /\ given \in Cases
  /\ DOMAIN bytes = DOMAIN given.bytes
  /\ step # Idle => step.at \in Nat \ {0}

(* A call that has begun has found all entries supported.                  *)
CheckedFirst == step # Idle => \A k \in DOMAIN given.entries : SupportedEntry(Entry(k))

RebaseInv == Shape /\ OnlyRelocated /\ CheckedFirst /\ AllOrNothingSupported

(* A number is written to the places it is written to, and nowhere else.   *)
LEMMA WrittenThere ==
  ASSUME NEW mem, NEW i, NEW n, NEW v
  PROVE  /\ DOMAIN Written(mem, i, n, v) = DOMAIN mem
         /\ \A j \in DOMAIN mem :
              j \in i..(i + n - 1) \/ Written(mem, i, n, v)[j] = mem[j]
  BY DEF Written

(* The positions of the entries of a case are integers.                    *)
LEMMA EntriesOfCase ==
  ASSUME NEW c \in Cases
  PROVE  /\ DOMAIN c.entries \subseteq Nat /\ DOMAIN c.entries = 1..Len(c.entries)
         /\ Len(c.entries) \in Nat
         /\ DOMAIN c.bytes \subseteq Nat
  BY RebaseAssumption DEF IsCase

LEMMA RebaseInitially == RebaseInit => RebaseInv
  BY DEF RebaseInit, RebaseInv, Shape, OnlyRelocated, CheckedFirst, AllOrNothingSupported

LEMMA RebaseStep == RebaseInv /\ [RebaseNext]_rebaseVars => RebaseInv'
<1>. SUFFICES ASSUME RebaseInv, [RebaseNext]_rebaseVars PROVE RebaseInv'
  OBVIOUS
<1>. USE DEF RebaseInv
<1>1. ASSUME NEW to \in given.bases, NEW ignore \in BOOLEAN, Begin(to, ignore) PROVE RebaseInv'
  <2>1. Shape'
    BY <1>1 DEF Begin, Shape, Idle
  <2>2. OnlyRelocated'
    BY <1>1 DEF Begin, OnlyRelocated, Entry
  <2>3. CheckedFirst'
    BY <1>1 DEF Begin, CheckedFirst, Entry
  <2>4. AllOrNothingSupported'
    BY <1>1 DEF Begin, AllOrNothingSupported, Entry
  <2>. QED
    BY <2>1, <2>2, <2>3, <2>4
<1>2. ASSUME Relocate PROVE RebaseInv'
  <2>. DEFINE e == Entry(step.at)
              i == Position(given, e)
              n == Affected(e)
              v == ApplyTo(e, Number(bytes, i, n), Difference(step.to))
  <2>1. /\ step.at \in DOMAIN given.entries
        /\ step # Idle /\ given' = given /\ base' = base
        /\ step' = [step EXCEPT !.at = @ + 1]
    BY <1>2, EntriesOfCase DEF Relocate, Shape
  <2>2. SupportedEntry(e) /\ (bytes' = bytes \/ bytes' = Written(bytes, i, n, v))
    BY <1>2 DEF Relocate
  <2>3. DOMAIN bytes' = DOMAIN bytes
    BY <2>2, WrittenThere
  <2>4. \A j \in DOMAIN bytes : bytes'[j] = bytes[j] \/ j \in Covered(given, e)
    <3>. SUFFICES ASSUME NEW j \in DOMAIN bytes, bytes'[j] # bytes[j]
                  PROVE  j \in Covered(given, e)
      OBVIOUS
    <3>1. j \in i..(i + n - 1)
      BY <2>2, WrittenThere
    <3>. QED
      BY <3>1, <2>2 DEF Covered, Shape
  <2>5. Shape'
    BY <2>1, <2>3 DEF Shape, Idle
  <2>6. OnlyRelocated'
    BY <2>1, <2>3, <2>4 DEF OnlyRelocated, Entry
  <2>7. CheckedFirst'
    BY <2>1 DEF CheckedFirst, Entry
  <2>8. AllOrNothingSupported'
    BY <2>1 DEF AllOrNothingSupported, CheckedFirst, Entry
  <2>. QED
    BY <2>5, <2>6, <2>7, <2>8
<1>3. ASSUME ThrowAt PROVE RebaseInv'
  BY <1>3 DEF ThrowAt, Shape, OnlyRelocated, CheckedFirst, AllOrNothingSupported, Entry
<1>4. ASSUME SetBase PROVE RebaseInv'
  BY <1>4 DEF SetBase, Shape, OnlyRelocated, CheckedFirst, AllOrNothingSupported, Entry
<1>5. CASE UNCHANGED rebaseVars
  BY <1>5 DEF rebaseVars, Shape, OnlyRelocated, CheckedFirst, AllOrNothingSupported, Entry
<1>. QED
  BY <1>1, <1>2, <1>3, <1>4, <1>5 DEF RebaseNext

(* No byte is ever changed that is not in the image at the place and in    *)
(* the size of some relocation: not by an entry that reaches over the end  *)
(* of the physical data, nor by a call that fails.                         *)
THEOREM RebaseStaysInRelocations == RebaseSpec => []OnlyRelocated
<1>1. RebaseInv => OnlyRelocated
  BY DEF RebaseInv
<1>. QED
  BY RebaseInitially, RebaseStep, <1>1, PTL DEF RebaseSpec

(* With an entry that is not supported, wherever in the list it is, no     *)
(* call changes the image.                                                 *)
THEOREM UnsupportedIsRefused == RebaseSpec => []AllOrNothingSupported
<1>1. RebaseInv => AllOrNothingSupported
  BY DEF RebaseInv
<1>. QED
  BY RebaseInitially, RebaseStep, <1>1, PTL DEF RebaseSpec

-----------------------------------------------------------------------------
(***************************************************************************)
(* However often an image is moved, its values are those of one move       *)
(* (MovesCompose).  A value of which only a part is physical is known      *)
(* modulo the weight of its first virtual byte; adding respects that, and  *)
(* lower bytes never depend on higher ones.                                *)
(***************************************************************************)

(* A quotient and a remainder, and that there are no others.               *)
LEMMA Division ==
  ASSUME NEW x \in Int, NEW M \in Nat \ {0}
  PROVE  x \div M \in Int /\ x % M \in 0..(M - 1) /\ x = M * (x \div M) + (x % M)
OBVIOUS

LEMMA AtLeastOnce ==
  ASSUME NEW M \in Nat, NEW a \in Int, a >= 1
  PROVE  M * a >= M
OBVIOUS

LEMMA DivisionUnique ==
  ASSUME NEW x \in Int, NEW M \in Nat \ {0}, NEW q \in Int, NEW r \in 0..(M - 1), x = M * q + r
  PROVE  x \div M = q /\ x % M = r
<1> DEFINE p == x \div M
           s == x % M
<1>1. p \in Int /\ s \in 0..(M - 1) /\ x = M * p + s
  BY Division
<1> HIDE DEF p, s
<1>2. M * (q - p) = s - r /\ M * (p - q) = r - s
  BY <1>1
<1>3. ~(q - p >= 1)
  <2> SUFFICES ASSUME q - p >= 1 PROVE FALSE
    OBVIOUS
  <2>1. M * (q - p) >= M
    BY <1>1, AtLeastOnce
  <2> QED
    BY <1>1, <1>2, <2>1
<1>4. ~(p - q >= 1)
  <2> SUFFICES ASSUME p - q >= 1 PROVE FALSE
    OBVIOUS
  <2>1. M * (p - q) >= M
    BY <1>1, AtLeastOnce
  <2> QED
    BY <1>1, <1>2, <2>1
<1>5. p = q
  BY <1>1, <1>3, <1>4
<1> QED
  BY <1>1, <1>5 DEF p, s

(* Numbers that differ by a multiple, and sums of such.                    *)
LEMMA Multiple ==
  ASSUME NEW x \in Int, NEW M \in Nat \ {0}, NEW a \in Int
  PROVE  (x + M * a) % M = x % M
<1> DEFINE q == x \div M
           r == x % M
<1>1. q \in Int /\ r \in 0..(M - 1) /\ x = M * q + r
  BY Division
<1> HIDE DEF q, r
<1>2. x + M * a = M * (q + a) + r
  BY <1>1
<1>3. (x + M * a) % M = r
  BY <1>1, <1>2, DivisionUnique
<1> QED
  BY <1>3 DEF r

LEMMA SameSum ==
  ASSUME NEW x \in Int, NEW y \in Int, NEW c \in Int, NEW M \in Nat \ {0}, x % M = y % M
  PROVE  (x + c) % M = (y + c) % M /\ (c + x) % M = (c + y) % M
<1> DEFINE p == x \div M
           q == y \div M
           r == x % M
<1>1. p \in Int /\ q \in Int /\ r \in Int /\ x = M * p + r /\ y = M * q + r
  BY Division
<1> HIDE DEF p, q, r
<1>2. x + c = (y + c) + M * (p - q)
  BY <1>1
<1> DEFINE z == y + c
           a == p - q
<1>3. z \in Int /\ a \in Int /\ x + c = z + M * a
  BY <1>1, <1>2
<1> HIDE DEF z, a
<1>4. (z + M * a) % M = z % M
  BY <1>3, Multiple
<1>5. (x + c) % M = z % M
  BY <1>3, <1>4
<1>6. (x + c) % M = (y + c) % M
  BY <1>5 DEF z
<1>7. c + x = x + c /\ c + y = y + c
  OBVIOUS
<1> QED
  BY <1>6, <1>7

LEMMA Remainder ==
  ASSUME NEW x \in Int, NEW M \in Nat \ {0}
  PROVE  x % M \in Int /\ (x % M) % M = x % M
<1> DEFINE r == x % M
<1>1. r \in 0..(M - 1)
  BY Division
<1> HIDE DEF r
<1>2. r = M * 0 + r
  BY <1>1
<1>3. r % M = r /\ r \in Int
  BY <1>1, <1>2, DivisionUnique
<1> QED
  BY <1>3 DEF r

(* Numbers with the same remainder.                                        *)
Same(x, y, M) == x % M = y % M

LEMMA Sameness ==
  ASSUME NEW M \in Nat \ {0}, NEW x \in Int, NEW y \in Int, NEW z \in Int
  PROVE  /\ Same(x, y, M) => Same(y, x, M)
         /\ Same(x, y, M) /\ Same(y, z, M) => Same(x, z, M)
         /\ Same(x, y, M) => Same(x + z, y + z, M)
         /\ x % M \in Int /\ Same(x % M, x, M)
<1>1. Same(x, y, M) => Same(y, x, M)
  BY DEF Same
<1>2. Same(x, y, M) /\ Same(y, z, M) => Same(x, z, M)
  BY DEF Same
<1>3. Same(x, y, M) => Same(x + z, y + z, M)
  BY SameSum DEF Same
<1>4. x % M \in Int /\ Same(x % M, x, M)
  BY Remainder DEF Same
<1> QED
  BY <1>1, <1>2, <1>3, <1>4

(* One more digit.                                                         *)
LEMMA OneMore ==
  ASSUME NEW x \in Int, NEW D \in Nat \ {0}, NEW E \in Nat \ {0}
  PROVE  /\ D * E \in Nat \ {0}
         /\ x % (D * E) = (x % D) + ((x \div D) % E) * D
<1> DEFINE p == x \div D
           r == x % D
           q == p \div E
           d == p % E
<1>1. p \in Int /\ r \in 0..(D - 1) /\ x = D * p + r
  BY Division
<1> HIDE DEF p, r
<1>2. q \in Int /\ d \in 0..(E - 1) /\ p = E * q + d
  BY <1>1, Division
<1> HIDE DEF q, d
<1>3. D * E \in Nat \ {0}
  <2>1. D * E >= D /\ D * E \in Int
    BY AtLeastOnce
  <2> QED
    BY <2>1
<1>4. D * d + r \in 0..(D * E - 1)
  <2>1. D * (E - d) >= D
    BY <1>2, AtLeastOnce
  <2>2. D * (E - d) = D * E - D * d /\ D * d \in Nat
    BY <1>2
  <2> QED
    BY <1>1, <1>3, <2>1, <2>2
<1>5. x = (D * E) * q + (D * d + r)
  <2>1. D * (E * q + d) = (D * E) * q + D * d
    BY <1>2
  <2> QED
    BY <1>1, <1>2, <2>1
<1>6. x % (D * E) = D * d + r
  BY <1>2, <1>3, <1>4, <1>5, DivisionUnique
<1> QED
  BY <1>1, <1>2, <1>3, <1>6 DEF d, p, r

(* Each byte counts ByteRange times the one before.                        *)
LEMMA Weights ==
  /\ Weight(0) = 1 /\ Weight(2) = HalfRange /\ Weight(4) = WordRange /\ Weight(8) = LongRange
  /\ \A k \in 0..8 : Weight(k) \in Nat \ {0}
  /\ \A k \in 0..7 : Weight(k + 1) = Weight(k) * ByteRange
<1>1. ByteRange \in Nat \ {0}
  BY ByteRangeAssumption
<1>2. \A a, b \in Nat \ {0} : a * b \in Nat \ {0}
  <2> SUFFICES ASSUME NEW a \in Nat \ {0}, NEW b \in Nat \ {0} PROVE a * b \in Nat \ {0}
    OBVIOUS
  <2>1. a * b >= a /\ a * b \in Int
    BY AtLeastOnce
  <2> QED
    BY <2>1
<1>3. HalfRange \in Nat \ {0}
  BY <1>1, <1>2 DEF HalfRange
<1>4. WordRange \in Nat \ {0}
  BY <1>2, <1>3 DEF WordRange
<1>5. /\ HalfRange * ByteRange \in Nat \ {0} /\ WordRange * ByteRange \in Nat \ {0}
      /\ WordRange * HalfRange \in Nat \ {0} /\ LongRange \in Nat \ {0}
  BY <1>1, <1>2, <1>3, <1>4 DEF LongRange
<1>6. WordRange * HalfRange * ByteRange \in Nat \ {0}
  BY <1>1, <1>2, <1>5
<1>7. \A k \in 0..8 : k = 0 \/ k = 1 \/ k = 2 \/ k = 3 \/ k = 4 \/ k = 5 \/ k = 6 \/ k = 7 \/ k = 8
  OBVIOUS
<1>8. \A k \in 0..8 : Weight(k) \in Nat \ {0}
  BY <1>1, <1>3, <1>4, <1>5, <1>6, <1>7 DEF Weight
<1>9. ASSUME NEW k \in 0..7 PROVE Weight(k + 1) = Weight(k) * ByteRange
  <2>1. CASE k = 0
    BY <1>1, <2>1 DEF Weight
  <2>2. CASE k = 1
    BY <1>1, <2>2 DEF Weight, HalfRange
  <2>3. CASE k = 2
    BY <1>1, <2>3 DEF Weight
  <2>4. CASE k = 3
    BY <1>1, <2>4 DEF Weight, WordRange, HalfRange
  <2>5. CASE k = 4
    BY <1>1, <2>5 DEF Weight
  <2>6. CASE k = 5
    <3>1. WordRange * ByteRange * ByteRange = WordRange * (ByteRange * ByteRange)
      BY <1>1, <1>4
    <3> QED
      BY <2>6, <3>1 DEF Weight, HalfRange
  <2>7. CASE k = 6
    BY <1>1, <2>7 DEF Weight
  <2>8. CASE k = 7
    <3>1. WordRange * HalfRange * ByteRange * ByteRange
            = WordRange * (HalfRange * (ByteRange * ByteRange))
      BY <1>1, <1>3, <1>4
    <3> QED
      BY <2>8, <3>1 DEF Weight, LongRange, WordRange, HalfRange
  <2> QED
    BY <2>1, <2>2, <2>3, <2>4, <2>5, <2>6, <2>7, <2>8
<1> QED
  BY <1>8, <1>9 DEF Weight

(* The lower bytes of a number and the next one.                           *)
LEMMA LowerBytes ==
  ASSUME NEW x \in Int, NEW k \in 0..7
  PROVE  /\ x % Weight(k) \in 0..(Weight(k) - 1)
         /\ Digit(x, k) \in Bytes
         /\ x % Weight(k + 1) = Weight(k) * Digit(x, k) + (x % Weight(k))
<1> DEFINE w == Weight(k)
           p == x \div w
           d == p % ByteRange
           r == x % w
<1>1. w \in Nat \ {0} /\ Weight(k + 1) = w * ByteRange /\ ByteRange \in Nat \ {0}
  BY Weights, ByteRangeAssumption
<1> HIDE DEF w
<1>2. r \in 0..(w - 1) /\ p \in Int
  BY <1>1, Division
<1>3. d \in 0..(ByteRange - 1)
  <2> HIDE DEF p
  <2> QED
    BY <1>1, <1>2, Division
<1>4. x % (w * ByteRange) = r + d * w
  BY <1>1, OneMore
<1> HIDE DEF d, r, p
<1>5. r + d * w = w * d + r
  BY <1>1, <1>2, <1>3
<1>6. Digit(x, k) = d
  BY DEF Digit, d, p, w
<1>7. x % w = r
  BY DEF r
<1>8. x % w \in 0..(w - 1)
  BY <1>2, <1>7
<1>9. Digit(x, k) \in Bytes
  BY <1>3, <1>6 DEF Bytes
<1>10. x % Weight(k + 1) = w * Digit(x, k) + (x % w)
  BY <1>1, <1>4, <1>5, <1>6, <1>7
<1> QED
  BY <1>8, <1>9, <1>10 DEF w

(* Numbers that are the same in their lower bytes are so in fewer.         *)
LEMMA SameByte ==
  ASSUME NEW x \in Int, NEW y \in Int, NEW k \in 0..7, x % Weight(k + 1) = y % Weight(k + 1)
  PROVE  Digit(x, k) = Digit(y, k) /\ x % Weight(k) = y % Weight(k)
<1> DEFINE w == Weight(k)
           n == x % Weight(k + 1)
           a == Digit(x, k)
           b == Digit(y, k)
           r == x % w
           s == y % w
<1>1. w \in Nat \ {0}
  BY Weights
<1>2. /\ r \in 0..(w - 1) /\ s \in 0..(w - 1) /\ a \in Int /\ b \in Int
      /\ n = w * a + r /\ n = w * b + s
  <2>1. /\ r \in 0..(w - 1)
        /\ a \in Bytes
        /\ n = w * a + r
    BY LowerBytes
  <2>2. /\ s \in 0..(w - 1)
        /\ b \in Bytes
        /\ y % Weight(k + 1) = w * b + s
    BY LowerBytes
  <2>3. Bytes \subseteq Int
    BY ByteRangeAssumption DEF Bytes
  <2> HIDE DEF w, a, b, r, s
  <2> QED
    BY <2>1, <2>2, <2>3
<1> HIDE DEF w, n, a, b, r, s
<1>3. n \in Int
  BY <1>1, <1>2
<1>4. n \div w = a /\ n % w = r
  BY <1>1, <1>2, <1>3, DivisionUnique
<1>5. n \div w = b /\ n % w = s
  BY <1>1, <1>2, <1>3, DivisionUnique
<1> QED
  BY <1>4, <1>5 DEF a, b, r, s, w

LEMMA SameLower ==
  ASSUME NEW x \in Int, NEW y \in Int, NEW n \in 0..8, NEW m \in 0..8, m <= n,
         x % Weight(n) = y % Weight(n)
  PROVE  x % Weight(m) = y % Weight(m) /\ (m < n => Digit(x, m) = Digit(y, m))
<1> DEFINE S(k) == x % Weight(k) = y % Weight(k)
           T(k) == Digit(x, k) = Digit(y, k)
<1>1. \A k \in 0..7 : S(k + 1) => S(k) /\ T(k)
  BY SameByte
<1> HIDE DEF S, T
<1>2. /\ S(8) => S(7) /\ T(7) 
      /\ S(7) => S(6) /\ T(6) 
      /\ S(6) => S(5) /\ T(5) 
      /\ S(5) => S(4) /\ T(4) 
      /\ S(4) => S(3) /\ T(3) 
      /\ S(3) => S(2) /\ T(2) 
      /\ S(2) => S(1) /\ T(1) 
      /\ S(1) => S(0) /\ T(0)
  <2>1. 7 + 1 = 8 /\ 6 + 1 = 7 /\ 5 + 1 = 6 /\ 4 + 1 = 5 /\ 3 + 1 = 4 /\ 2 + 1 = 3 /\ 1 + 1 = 2 /\ 0 + 1 = 1
    OBVIOUS
  <2> QED
    BY <1>1, <2>1
<1>3. \A k \in 0..8 : k = 0 \/ k = 1 \/ k = 2 \/ k = 3 \/ k = 4 \/ k = 5 \/ k = 6 \/ k = 7 \/ k = 8
  OBVIOUS
<1>4. S(n) => S(m) /\ (m < n => T(m))
  BY <1>2, <1>3
<1> QED
  BY <1>4 DEF S, T

(* Of number x at i, m bytes are physical.                                 *)
Known(mem, i, n, m, x) ==
  /\ \A k \in 0..7 : k < m => ByteAt(mem, i + k) = Digit(x, k)
  /\ \A k \in 0..7 : m <= k /\ k < n => ByteAt(mem, i + k) = 0

(* A number that is read back where only its first m bytes are physical.   *)
LEMMA NumberRead ==
  ASSUME NEW x \in Int, NEW mem, NEW i \in Int, NEW n \in 0..8, NEW m \in 0..8, m <= n,
         Known(mem, i, n, m, x)
  PROVE  Number(mem, i, n) = x % Weight(m)
<1> DEFINE t(k) == x % Weight(k)
           part(k) == IF k < n THEN ByteAt(mem, i + k) * Weight(k) ELSE 0
<1>1. /\ \A k \in 0..8 : t(k) \in Int
      /\ t(0) = 0
  <2>1. \A k \in 0..8 : Weight(k) \in Nat \ {0}
    BY Weights
  <2>2. \A M \in Nat \ {0} : x % M \in 0..(M - 1)
    BY Division
  <2>3. \A M \in Nat \ {0} : x % M \in Int
    BY <2>2
  <2>4. x % 1 \in 0..(1 - 1)
    BY <2>2
  <2> QED
    BY <2>1, <2>3, <2>4, Weights
<1>2. ASSUME NEW k \in 0..7
      PROVE  part(k) = IF k < m THEN t(k + 1) - t(k) ELSE 0
  <2>0. /\ k < m => ByteAt(mem, i + k) = Digit(x, k)
        /\ m <= k /\ k < n => ByteAt(mem, i + k) = 0
    BY DEF Known
  <2>1. CASE k < m
    <3> DEFINE w == Weight(k)
               d == Digit(x, k)
               r == x % w
    <3>1. /\ x % Weight(k + 1) = w * d + r
          /\ d \in Bytes
          /\ r \in 0..(w - 1)
          /\ w \in Nat \ {0}
      <4>1. w \in Nat \ {0}
        BY Weights
      <4> QED
        BY <4>1, LowerBytes
    <3>2. part(k) = d * w
      BY <2>0, <2>1
    <3>3. Bytes \subseteq Int
      BY ByteRangeAssumption DEF Bytes
    <3>4. t(k) = r
      OBVIOUS
    <3> HIDE DEF w, d, r, part
    <3>5. d * w = (w * d + r) - r
      BY <3>1, <3>3
    <3> QED
      BY <2>1, <3>1, <3>2, <3>4, <3>5
  <2>2. CASE ~(k < m) /\ k < n
    <3>1. ByteAt(mem, i + k) = 0 /\ Weight(k) \in Nat
      BY <2>0, <2>2, Weights
    <3> QED
      BY <2>2, <3>1
  <2>3. CASE ~(k < n)
    BY <2>3
  <2> QED
    BY <2>1, <2>2, <2>3
<1>3. Number(mem, i, n) =
        part(0) + part(1) + part(2) + part(3) + part(4) + part(5) + part(6) + part(7)
  BY DEF Number
<1> HIDE DEF t, part
<1>4. /\ part(0) = IF 0 < m THEN t(1) - t(0) ELSE 0
      /\ part(1) = IF 1 < m THEN t(2) - t(1) ELSE 0
      /\ part(2) = IF 2 < m THEN t(3) - t(2) ELSE 0
      /\ part(3) = IF 3 < m THEN t(4) - t(3) ELSE 0
      /\ part(4) = IF 4 < m THEN t(5) - t(4) ELSE 0
      /\ part(5) = IF 5 < m THEN t(6) - t(5) ELSE 0
      /\ part(6) = IF 6 < m THEN t(7) - t(6) ELSE 0
      /\ part(7) = IF 7 < m THEN t(8) - t(7) ELSE 0
  <2>1. 7 + 1 = 8 /\ 6 + 1 = 7 /\ 5 + 1 = 6 /\ 4 + 1 = 5 /\ 3 + 1 = 4 /\ 2 + 1 = 3 /\ 1 + 1 = 2 /\ 0 + 1 = 1
    OBVIOUS
  <2> QED
    BY <1>2, <2>1
<1>5. /\ t(0) = 0 /\ t(1) \in Int /\ t(2) \in Int /\ t(3) \in Int /\ t(4) \in Int
      /\ t(5) \in Int /\ t(6) \in Int /\ t(7) \in Int /\ t(8) \in Int
  BY <1>1
<1>6. part(0) + part(1) + part(2) + part(3) + part(4) + part(5) + part(6) + part(7) = t(m)
  <2>1. m = 0 \/ m = 1 \/ m = 2 \/ m = 3 \/ m = 4 \/ m = 5 \/ m = 6 \/ m = 7 \/ m = 8
    OBVIOUS
  <2> QED
    BY <1>4, <1>5, <2>1
<1> QED
  BY <1>3, <1>6 DEF t

(* The digits of a number are the bytes it was put together from.          *)
LEMMA OneByte ==
  ASSUME NEW x \in Int, NEW k \in 0..7, NEW s \in 0..(Weight(k) - 1), NEW c \in Bytes
  PROVE  /\ s + c * Weight(k) \in 0..(Weight(k + 1) - 1)
         /\ x % Weight(k + 1) = s + c * Weight(k) => x % Weight(k) = s /\ Digit(x, k) = c
<1> DEFINE w == Weight(k)
           n == x % Weight(k + 1)
           d == Digit(x, k)
           r == x % w
<1>1. w \in Nat \ {0} /\ Weight(k + 1) = w * ByteRange /\ ByteRange \in Nat
  BY Weights, ByteRangeAssumption
<1>2. /\ r \in 0..(w - 1)
      /\ d \in Bytes
      /\ n = w * d + r
  BY LowerBytes
<1>3. c \in 0..(ByteRange - 1) /\ d \in 0..(ByteRange - 1)
  BY <1>2 DEF Bytes
<1>4. s \in 0..(w - 1)
  OBVIOUS
<1> HIDE DEF w, n, d, r
<1>5. s + c * w \in 0..(w * ByteRange - 1)
  <2>1. w * (ByteRange - c) >= w
    BY <1>1, <1>3, AtLeastOnce
  <2>2. w * (ByteRange - c) = w * ByteRange - c * w /\ c * w \in Nat /\ w * ByteRange \in Nat
    BY <1>1, <1>3
  <2> QED
    BY <1>1, <1>4, <2>1, <2>2
<1>6. ASSUME n = s + c * w PROVE r = s /\ d = c
  <2>1. /\ n \in Int /\ w \in Nat \ {0} /\ c \in Int /\ d \in Int
        /\ s \in 0..(w - 1) /\ r \in 0..(w - 1)
    BY <1>1, <1>2, <1>3, <1>4, <1>6
  <2>2. n = w * c + s /\ n = w * d + r
    BY <1>2, <1>6, <2>1
  <2>3. n \div w = c /\ n % w = s
    BY <2>1, <2>2, DivisionUnique
  <2>4. n \div w = d /\ n % w = r
    BY <2>1, <2>2, DivisionUnique
  <2> QED
    BY <2>3, <2>4
<1> QED
  BY <1>1, <1>5, <1>6 DEF w, n, d, r

LEMMA NumberDigits ==
  ASSUME NEW mem, NEW i \in Int, NEW n \in 0..8,
         \A k \in 0..7 : ByteAt(mem, i + k) \in Bytes
  PROVE  /\ Number(mem, i, n) \in Nat
         /\ \A k \in 0..7 : k < n => Digit(Number(mem, i, n), k) = ByteAt(mem, i + k)
<1> DEFINE x == Number(mem, i, n)
           c(k) == IF k < n THEN ByteAt(mem, i + k) ELSE 0
           part(k) == IF k < n THEN ByteAt(mem, i + k) * Weight(k) ELSE 0
           s0 == 0
           s1 == s0 + part(0)
           s2 == s1 + part(1)
           s3 == s2 + part(2)
           s4 == s3 + part(3)
           s5 == s4 + part(4)
           s6 == s5 + part(5)
           s7 == s6 + part(6)
           s8 == s7 + part(7)
<1>1. ASSUME NEW k \in 0..7
      PROVE  /\ c(k) \in Bytes
             /\ part(k) = c(k) * Weight(k)
             /\ part(k) \in Nat
  <2>1. 0 \in Bytes /\ Bytes \subseteq Nat /\ Weight(k) \in Nat /\ 0 * Weight(k) = 0
    BY Weights, ByteRangeAssumption DEF Bytes
  <2>2. c(k) \in Bytes
    BY <2>1
  <2>3. part(k) = c(k) * Weight(k)
    BY <2>1
  <2>4. c(k) * Weight(k) \in Nat
    <3>1. \A a, b \in Nat : a * b \in Nat
      OBVIOUS
    <3> HIDE DEF c
    <3> QED
      BY <2>1, <2>2, <3>1
  <2> QED
    BY <2>2, <2>3, <2>4
<1>2. /\ part(0) \in Nat /\ part(1) \in Nat /\ part(2) \in Nat /\ part(3) \in Nat
      /\ part(4) \in Nat /\ part(5) \in Nat /\ part(6) \in Nat /\ part(7) \in Nat
  <2> HIDE DEF part
  <2> QED
    BY <1>1
<1>3. x = part(0) + part(1) + part(2) + part(3) + part(4) + part(5) + part(6) + part(7)
  BY DEF Number
<1>4. x = s8 /\ x \in Nat
  <2> HIDE DEF part, x
  <2> QED
    BY <1>2, <1>3
<1> HIDE DEF x
<1> DEFINE Holds(k, s, t) ==
             /\ s \in 0..(Weight(k) - 1) => t \in 0..(Weight(k + 1) - 1)
             /\ s \in 0..(Weight(k) - 1) /\ x % Weight(k + 1) = t
                => x % Weight(k) = s /\ Digit(x, k) = c(k)
<1>5. ASSUME NEW k \in 0..7, NEW s
      PROVE  Holds(k, s, s + part(k))
  <2>1. c(k) \in Bytes /\ part(k) = c(k) * Weight(k) /\ x \in Int
    BY <1>1, <1>4
  <2> HIDE DEF part, c
  <2> SUFFICES ASSUME s \in 0..(Weight(k) - 1)
               PROVE  /\ s + part(k) \in 0..(Weight(k + 1) - 1)
                      /\ x % Weight(k + 1) = s + part(k)
                         => x % Weight(k) = s /\ Digit(x, k) = c(k)
    OBVIOUS
  <2> QED
    BY <2>1, OneByte
<1>6. s0 \in 0..(Weight(0) - 1)
  BY Weights
<1> DEFINE I(k, s) == s \in 0..(Weight(k) - 1)
           D(k, s) == x % Weight(k) = s
           G(k) == Digit(x, k) = c(k)
<1>7. /\ \A k \in 0..7 : \A s : I(k, s) => I(k + 1, s + part(k))
      /\ \A k \in 0..7 : \A s : I(k, s) /\ D(k + 1, s + part(k)) => D(k, s) /\ G(k)
  BY <1>5
<1>8. I(0, s0)
  BY <1>6
<1>9. I(8, s8) => D(8, s8)
  <2> SUFFICES ASSUME I(8, s8) PROVE D(8, s8)
    OBVIOUS
  <2>1. x \in 0..(Weight(8) - 1) /\ Weight(8) \in Nat \ {0}
    BY <1>4, Weights
  <2>2. x = Weight(8) * 0 + x
    BY <2>1
  <2>3. x % Weight(8) = x
    BY <1>4, <2>1, <2>2, DivisionUnique
  <2> QED
    BY <1>4, <2>3
<1> HIDE DEF I, D, G, c, part, Holds, s0
<1>10. 7 + 1 = 8 /\ 6 + 1 = 7 /\ 5 + 1 = 6 /\ 4 + 1 = 5 /\ 3 + 1 = 4 /\ 2 + 1 = 3 /\ 1 + 1 = 2 /\ 0 + 1 = 1
  OBVIOUS
<1>11. /\ I(1, s1) /\ (D(1, s1) => G(0))
  BY <1>7, <1>8, <1>10
<1> HIDE DEF s1
<1>12. /\ I(2, s2) /\ (D(2, s2) => D(1, s1) /\ G(1))
  BY <1>7, <1>10, <1>11
<1> HIDE DEF s2
<1>13. /\ I(3, s3) /\ (D(3, s3) => D(2, s2) /\ G(2))
  BY <1>7, <1>10, <1>12
<1> HIDE DEF s3
<1>14. /\ I(4, s4) /\ (D(4, s4) => D(3, s3) /\ G(3))
  BY <1>7, <1>10, <1>13
<1> HIDE DEF s4
<1>15. /\ I(5, s5) /\ (D(5, s5) => D(4, s4) /\ G(4))
  BY <1>7, <1>10, <1>14
<1> HIDE DEF s5
<1>16. /\ I(6, s6) /\ (D(6, s6) => D(5, s5) /\ G(5))
  BY <1>7, <1>10, <1>15
<1> HIDE DEF s6
<1>17. /\ I(7, s7) /\ (D(7, s7) => D(6, s6) /\ G(6))
  BY <1>7, <1>10, <1>16
<1> HIDE DEF s7
<1>18. /\ I(8, s8) /\ (D(8, s8) => D(7, s7) /\ G(7))
  BY <1>7, <1>10, <1>17
<1> HIDE DEF s8
<1>19. G(0) /\ G(1) /\ G(2) /\ G(3) /\ G(4) /\ G(5) /\ G(6) /\ G(7)
  BY <1>9, <1>11, <1>12, <1>13, <1>14, <1>15, <1>16, <1>17, <1>18
<1>20. \A k \in 0..7 : k = 0 \/ k = 1 \/ k = 2 \/ k = 3 \/ k = 4 \/ k = 5 \/ k = 6 \/ k = 7
  OBVIOUS
<1>21. \A k \in 0..7 : G(k)
  BY <1>19, <1>20
<1> QED
  BY <1>4, <1>21 DEF G, c, x

-----------------------------------------------------------------------------
(* What is added to a value for a difference of the bases.                 *)
Added(e, diff) == IF e.type \in {"high", "highadj"} THEN diff \div HalfRange ELSE diff

Moved(e) == e.type \in {"high", "low", "highadj", "highlow", "dir64"}

(* An entry that sees an upper half has its lower half's part in nothing   *)
(* but whole halves.                                                       *)
Whole(e, x) == e.type \in {"high", "highadj"} => x % HalfRange = 0

LEMMA Widths ==
  /\ HalfRange \in Nat \ {0} /\ WordRange \in Nat \ {0} /\ LongRange \in Nat \ {0}
  /\ HalfRange >= 2
  /\ WordRange = HalfRange * HalfRange
  /\ LongRange = HalfRange * Weight(6)
<1>1. HalfRange \in Nat \ {0} /\ WordRange \in Nat \ {0} /\ LongRange \in Nat \ {0}
  BY Weights
<1>2. HalfRange >= 2
  <2>1. ByteRange * ByteRange >= ByteRange
    BY ByteRangeAssumption, AtLeastOnce
  <2> QED
    BY <2>1, ByteRangeAssumption DEF HalfRange
<1>3. LongRange = HalfRange * Weight(6)
  <2>1. Weight(6) = WordRange * HalfRange
    BY DEF Weight
  <2>2. HalfRange * (WordRange * HalfRange) = WordRange * (HalfRange * HalfRange)
    BY <1>1
  <2> QED
    BY <2>1, <2>2 DEF LongRange, WordRange
<1> QED
  BY <1>1, <1>2, <1>3 DEF WordRange

LEMMA ApplyAdds ==
  ASSUME NEW e \in RebasedEntries, Moved(e), NEW value \in Int, NEW diff \in Int, Whole(e, diff),
         e.type = "highadj" => e.param < HalfRange \div 2
  PROVE  /\ ApplyTo(e, value, diff) = (value + Added(e, diff)) % Weight(Affected(e))
         /\ Added(e, diff) \in Int
<1> DEFINE H == HalfRange
           u == diff \div H
<1>1. H \in Nat \ {0} /\ H >= 2
  BY Widths
<1>2. u \in Int /\ (Whole(e, diff) /\ e.type \in {"high", "highadj"} => diff = H * u)
  <2>1. u \in Int /\ diff = H * u + (diff % H)
    BY <1>1, Division
  <2>2. H * u \in Int
    <3> HIDE DEF u, H
    <3> QED
      BY <1>1, <2>1
  <2> QED
    BY <2>1, <2>2 DEF Whole
<1>3. CASE e.type = "highlow"
  BY <1>3, Weights DEF ApplyTo, Added, Affected
<1>4. CASE e.type = "dir64"
  BY <1>4, Weights DEF ApplyTo, Added, Affected
<1>5. CASE e.type = "low"
  BY <1>5, Weights DEF ApplyTo, Added, Affected
<1>6. CASE e.type = "high"
  BY <1>2, <1>6, Weights DEF ApplyTo, Added, Affected
<1>7. CASE e.type = "highadj"
  <2> DEFINE c == e.param + H \div 2
             x == value * H + e.param + diff + H \div 2
             y == (value + u) % H
  <2>1. e.param \in Int /\ e.param >= -1
    BY Widths DEF RebasedEntries, NoParam
  <2> HIDE DEF H, u
  <2>2. H \div 2 \in Nat /\ H \div 2 >= 1 /\ H \div 2 + H \div 2 <= H
    BY <1>1
  <2>3. c \in 0..(H - 1)
    BY <1>1, <1>7, <2>1, <2>2 DEF H
  <2>4. x = H * (value + u) + c
    <3>1. diff = H * u
      BY <1>2, <1>7
    <3>2. H * (value + u) = value * H + H * u
      BY <1>1, <1>2
    <3>3. value * H \in Int /\ H * u \in Int
      BY <1>1, <1>2
    <3> QED
      BY <2>1, <2>2, <3>1, <3>2, <3>3
  <2> HIDE DEF c, x
  <2>5. value + u \in Int
    BY <1>2
  <2>6. x \in Int
    BY <1>1, <2>3, <2>4, <2>5
  <2>7. x \div H = value + u /\ x % H = c
    BY <1>1, <2>3, <2>4, <2>5, <2>6, DivisionUnique
  <2>8. x % (H * H) = c + y * H
    BY <1>1, <2>6, <2>7, OneMore
  <2>9. y \in 0..(H - 1)
    BY <1>1, <2>5, Division
  <2> HIDE DEF y
  <2> DEFINE z == c + y * H
  <2>10. z \in Int /\ z = H * y + c /\ y \in Int
    BY <1>1, <2>3, <2>9
  <2> HIDE DEF z
  <2>11. z \div H = y
    BY <1>1, <2>3, <2>10, DivisionUnique
  <2>12. (x % (H * H)) \div H = y
    BY <2>8, <2>11 DEF z
  <2>13. ApplyTo(e, value, diff) = (x % WordRange) \div H
    BY <1>7 DEF ApplyTo, x, H
  <2>14. WordRange = H * H
    BY Widths DEF H
  <2>15. Weight(Affected(e)) = H /\ Added(e, diff) = u
    BY <1>7, Weights DEF Affected, Added, H, u
  <2> QED
    BY <1>2, <2>12, <2>13, <2>14, <2>15 DEF y
<1> QED
  BY <1>3, <1>4, <1>5, <1>6, <1>7 DEF Moved

(* Two moves add up to one.                                                *)
LEMMA DifferencesAdd ==
  ASSUME NEW a \in Int, NEW b \in Int, NEW M \in Nat \ {0}
  PROVE  ((a % M) + (b % M)) % M = ((a + b) % M) % M
<1> DEFINE p == a % M
           q == b % M
           z == a + b
           r == z % M
<1>1. z \in Int
  OBVIOUS
<1>2. p \in Int /\ Same(p, a, M) /\ q \in Int /\ Same(q, b, M)
  BY Sameness
<1>3. r \in Int /\ Same(r, z, M)
  <2> HIDE DEF z
  <2> QED
    BY <1>1, Sameness
<1> HIDE DEF p, q, r
<1>4. Same(p + q, a + q, M)
  BY <1>2, Sameness
<1>5. Same(q + a, b + a, M)
  BY <1>2, Sameness
<1>6. q + a = a + q /\ b + a = z
  BY <1>2
<1> DEFINE x == p + q
           y == a + q
<1>7. /\ x \in Int /\ y \in Int
      /\ Same(x, y, M) /\ Same(y, z, M)
  BY <1>2, <1>4, <1>5, <1>6
<1> HIDE DEF x, y, z
<1>8. Same(x, r, M)
  <2>1. Same(x, z, M) /\ Same(z, r, M)
    BY <1>1, <1>3, <1>7, Sameness
  <2> QED
    BY <1>1, <1>3, <1>7, <2>1, Sameness
<1> QED
  BY <1>8 DEF Same, x, p, q, r, z

LEMMA WholeDifference ==
  ASSUME NEW x \in Int, x % HalfRange = 0
  PROVE  /\ (x % LongRange) % HalfRange = 0
         /\ (x % LongRange) \div HalfRange = (x \div HalfRange) % Weight(6)
<1> DEFINE H == HalfRange
           K == Weight(6)
           y == (x \div H) % K
<1>1. H \in Nat \ {0} /\ K \in Nat \ {0} /\ LongRange = H * K
  BY Widths, Weights
<1> HIDE DEF H, K
<1>2. x \div H \in Int
  BY <1>1, Division
<1>3. x % (H * K) = (x % H) + y * H
  BY <1>1, OneMore
<1>4. y \in 0..(K - 1)
  <2> DEFINE u == x \div H
  <2>1. u \in Int
    BY <1>2
  <2> HIDE DEF u
  <2>2. u % K \in 0..(K - 1)
    BY <1>1, <2>1, Division
  <2> QED
    BY <2>2 DEF u
<1> HIDE DEF y
<1> DEFINE z == x % (H * K)
<1>5. x % H = 0
  BY DEF H
<1>6. z \in Int /\ z = H * y + 0 /\ y \in Int /\ 0 \in 0..(H - 1)
  BY <1>1, <1>3, <1>4, <1>5
<1> HIDE DEF z
<1>7. z \div H = y /\ z % H = 0
  BY <1>1, <1>6, DivisionUnique
<1> QED
  BY <1>1, <1>7 DEF z, y, H, K

LEMMA MovesAdd ==
  ASSUME NEW e \in RebasedEntries, Moved(e), NEW x \in Int, NEW y \in Int,
         Whole(e, x), Whole(e, y)
  PROVE  (Added(e, x % LongRange) + Added(e, y % LongRange)) % Weight(Affected(e))
           = Added(e, (x + y) % LongRange) % Weight(Affected(e))
<1>1. LongRange \in Nat \ {0} /\ LongRange = Weight(8) /\ Weight(6) \in Nat \ {0}
  BY Weights
<1>2. x + y \in Int
  OBVIOUS
<1>3. x % LongRange \in Int /\ y % LongRange \in Int /\ (x + y) % LongRange \in Int
  BY <1>1, <1>2, Remainder
<1>4. CASE e.type \in {"high", "highadj"}
  <2> DEFINE H == HalfRange
             K == Weight(6)
             u == x \div H
             v == y \div H
  <2>1. H \in Nat \ {0} /\ K \in Nat \ {0}
    BY Widths, Weights
  <2>2. x % H = 0 /\ y % H = 0
    BY <1>4 DEF Whole
  <2>3. u \in Int /\ v \in Int /\ x = H * u + (x % H) /\ y = H * v + (y % H)
    BY <2>1, Division
  <2> HIDE DEF u, v
  <2>4. x + y = H * (u + v) + 0 /\ u + v \in Int
    <3> HIDE DEF H
    <3>1. H * u + 0 = H * u /\ H * v + 0 = H * v /\ H * (u + v) + 0 = H * u + H * v
      BY <2>1, <2>3
    <3>2. x = H * u /\ y = H * v
      BY <2>2, <2>3, <3>1
    <3> QED
      BY <2>3, <3>1, <3>2
  <2>5. (x + y) \div H = u + v /\ (x + y) % H = 0
    <3> DEFINE z == x + y
               w == u + v
    <3>1. z \in Int /\ w \in Int /\ z = H * w + 0 /\ 0 \in 0..(H - 1)
      BY <1>2, <2>1, <2>4
    <3> HIDE DEF z, w
    <3>2. z \div H = w /\ z % H = 0
      BY <2>1, <3>1, DivisionUnique
    <3> QED
      BY <3>2 DEF z, w
  <2>6. /\ Added(e, x % LongRange) = u % K
        /\ Added(e, y % LongRange) = v % K
        /\ Added(e, (x + y) % LongRange) = (u + v) % K
    <3>1. (x % LongRange) \div H = u % K
      BY <2>2, WholeDifference DEF u
    <3>2. (y % LongRange) \div H = v % K
      BY <2>2, WholeDifference DEF v
    <3>3. ((x + y) % LongRange) \div H = (u + v) % K
      BY <1>2, <2>5, WholeDifference
    <3> QED
      BY <1>4, <3>1, <3>2, <3>3 DEF Added
  <2>7. ((u % K) + (v % K)) % K = ((u + v) % K) % K
    BY <2>1, <2>3, DifferencesAdd
  <2> DEFINE l == (u % K) + (v % K)
             r == (u + v) % K
  <2>8. l \in Int /\ r \in Int
    <3>1. u % K \in Int /\ v % K \in Int
      BY <2>1, <2>3, Remainder
    <3>2. r \in Int
      BY <2>1, <2>4, Remainder
    <3> QED
      BY <3>1, <3>2
  <2>9. l % Weight(6) = r % Weight(6)
    BY <2>7
  <2> HIDE DEF l, r
  <2>10. l % Weight(2) = r % Weight(2)
    BY <2>8, <2>9, SameLower
  <2>11. Affected(e) = 2
    BY <1>4 DEF Affected
  <2> QED
    BY <2>6, <2>10, <2>11 DEF l, r
<1>5. CASE e.type \in {"low", "highlow", "dir64"}
  <2>1. \A d : Added(e, d) = d
    BY <1>5 DEF Added
  <2>2. ((x % LongRange) + (y % LongRange)) % LongRange = ((x + y) % LongRange) % LongRange
    BY <1>1, DifferencesAdd
  <2> DEFINE l == (x % LongRange) + (y % LongRange)
             r == (x + y) % LongRange
  <2>3. l \in Int /\ r \in Int
    BY <1>3
  <2>4. l % Weight(8) = r % Weight(8)
    BY <1>1, <2>2
  <2> HIDE DEF l, r
  <2>5. Affected(e) \in 0..8
    BY <1>5 DEF Affected
  <2>6. l % Weight(Affected(e)) = r % Weight(Affected(e))
    BY <2>3, <2>4, <2>5, SameLower
  <2> QED
    BY <2>1, <2>6 DEF l, r
<1> QED
  BY <1>4, <1>5 DEF Moved

(* What is modulo N determines what is modulo P.                           *)
Coarser(N, P) == \A x, y \in Int : Same(x, y, N) => Same(x, y, P)

(* A value moved by a, of which only a part is known, and moved on by b.   *)
LEMMA MovedOn ==
  ASSUME NEW N \in Nat \ {0}, NEW P \in Nat \ {0}, Coarser(N, P),
         NEW value \in Int, NEW a \in Int, NEW b \in Int, NEW c \in Int,
         Same(a + b, c, N)
  PROVE  Same(((((value + a) % N) % P) + b) % N, (value + c) % N, P)
<1> DEFINE va == value + a
           there == va % N
           known == there % P
           on == known + b
           once == value + c
           ab == a + b
           vab == va + b
<1>1. /\ va \in Int /\ once \in Int /\ ab \in Int /\ vab \in Int
      /\ vab = ab + value /\ once = c + value
  OBVIOUS
<1>2. Same(vab, once, N)
  <2> HIDE DEF ab
  <2>1. Same(ab, c, N)
    BY DEF ab
  <2>2. Same(ab + value, c + value, N)
    BY <1>1, <2>1, Sameness
  <2> HIDE DEF vab, once
  <2> QED
    BY <1>1, <2>2
<1>3. /\ there \in Int /\ Same(there, va, N)
      /\ known \in Int /\ Same(known, there, P)
  <2> HIDE DEF va
  <2>1. there \in Int /\ Same(there, va, N)
    BY <1>1, Sameness
  <2> HIDE DEF there
  <2> QED
    BY <2>1, Sameness
<1> HIDE DEF va, there, known
<1>4. Same(known, va, P)
  <2>1. Same(there, va, P)
    BY <1>1, <1>3 DEF Coarser
  <2> QED
    BY <1>1, <1>3, <2>1, Sameness
<1>5. on \in Int /\ Same(on, vab, P)
  <2>1. va \in Int
    BY <1>1
  <2>2. Same(known + b, va + b, P)
    BY <1>3, <1>4, <2>1, Sameness
  <2>3. known + b \in Int
    BY <1>3
  <2> QED
    BY <2>2, <2>3
<1> HIDE DEF on, once, vab
<1>6. Same(on, once, P)
  <2>1. Same(vab, once, P)
    BY <1>1, <1>2 DEF Coarser
  <2> QED
    BY <1>1, <1>5, <2>1, Sameness
<1>7. /\ on % N \in Int /\ Same(on % N, on, P)
      /\ once % N \in Int /\ Same(once % N, once, P)
  <2>1. /\ on % N \in Int /\ Same(on % N, on, N)
        /\ once % N \in Int /\ Same(once % N, once, N)
    BY <1>1, <1>5, Sameness
  <2> QED
    BY <1>1, <1>5, <2>1 DEF Coarser
<1> DEFINE l == on % N
           r == once % N
<1>8. l \in Int /\ Same(l, on, P) /\ r \in Int /\ Same(r, once, P)
  BY <1>7
<1> HIDE DEF l, r
<1>9. Same(l, once, P)
  BY <1>1, <1>5, <1>6, <1>8, Sameness
<1>10. Same(once, r, P)
  BY <1>1, <1>8, Sameness
<1>11. Same(l, r, P)
  BY <1>1, <1>8, <1>9, <1>10, Sameness
<1> QED
  BY <1>11 DEF l, r, on, known, there, va, once

(* Two moves by whole upper halves make one.                               *)
LEMMA WholeSum ==
  ASSUME NEW e, NEW x \in Int, NEW y \in Int, Whole(e, x), Whole(e, y)
  PROVE  x + y \in Int /\ Whole(e, x + y)
<1>1. CASE e.type \in {"high", "highadj"}
  <2>1. x % HalfRange = 0 /\ y % HalfRange = 0 /\ HalfRange \in Nat \ {0}
    BY <1>1, Widths DEF Whole
  <2>2. 0 + y = y /\ x + y \in Int /\ 0 = HalfRange * 0 + 0 /\ 0 \in 0..(HalfRange - 1)
    BY <2>1
  <2>3. 0 % HalfRange = 0
    BY <2>1, <2>2, DivisionUnique
  <2>4. Same(x, 0, HalfRange)
    BY <2>1, <2>3 DEF Same
  <2>5. Same(x + y, 0 + y, HalfRange)
    BY <2>1, <2>4, Sameness
  <2> QED
    BY <2>1, <2>2, <2>5 DEF Same, Whole
<1>2. CASE e.type \notin {"high", "highadj"}
  BY <1>2 DEF Whole
<1> QED
  BY <1>1, <1>2

(* A value that is moved twice, its virtual bytes lost in between, has the *)
(* physical bytes of one that is moved once.                               *)
LEMMA MovedTwice ==
  ASSUME NEW e \in RebasedEntries, Moved(e), e.type = "highadj" => e.param < HalfRange \div 2,
         NEW value \in Int, NEW x \in Int, NEW y \in Int, Whole(e, x), Whole(e, y),
         NEW m \in 0..8, m <= Affected(e), NEW k \in 0..7, k < m
  PROVE  Digit(ApplyTo(e, ApplyTo(e, value, x % LongRange) % Weight(m), y % LongRange), k)
           = Digit(ApplyTo(e, value, (x + y) % LongRange), k)
<1> DEFINE n == Affected(e)
           dx == x % LongRange
           dy == y % LongRange
           dz == (x + y) % LongRange
           N == Weight(n)
           P == Weight(m)
           a == Added(e, dx)
           b == Added(e, dy)
           c == Added(e, dz)
           there == (value + a) % N
           known == there % P
           on == (known + b) % N
           once == (value + c) % N
<1>1. n \in 0..8
  BY DEF Moved, Affected
<1>2. N \in Nat \ {0} /\ P \in Nat \ {0} /\ LongRange \in Nat \ {0}
  BY <1>1, Weights
<1>3. x + y \in Int /\ Whole(e, x + y)
  BY WholeSum
<1>4. /\ dx \in Int /\ Whole(e, dx)
      /\ dy \in Int /\ Whole(e, dy)
      /\ dz \in Int /\ Whole(e, dz)
  <2>1. ASSUME NEW d \in Int, Whole(e, d)
        PROVE  d % LongRange \in Int /\ Whole(e, d % LongRange)
    BY <1>2, <2>1, Sameness, WholeDifference DEF Whole
  <2> QED
    BY <1>3, <2>1
<1>5. Same(a + b, c, N)
  BY MovesAdd DEF Same
<1> HIDE DEF dx, dy, dz
<1>6. a \in Int /\ b \in Int /\ c \in Int
  BY <1>4, ApplyAdds
<1>7. ApplyTo(e, value, dx) = there /\ ApplyTo(e, value, dz) = once
  BY <1>4, ApplyAdds
<1>8. there \in Int /\ known \in Int
  <2> HIDE DEF a, N, P
  <2>1. there \in Int
    <3>1. value + a \in Int
      BY <1>6
    <3> QED
      BY <1>2, <3>1, Sameness
  <2> HIDE DEF there
  <2> QED
    BY <1>2, <2>1, Sameness
<1>9. ApplyTo(e, known, dy) = on
  <2> HIDE DEF known
  <2> QED
    BY <1>4, <1>8, ApplyAdds
<1>10. Coarser(N, P)
  BY <1>1, SameLower DEF Coarser, Same
<1>11. Same(on, once, P)
  <2> HIDE DEF N, P, a, b, c
  <2> QED
    BY <1>2, <1>5, <1>6, <1>10, MovedOn
<1>12. on \in Int /\ once \in Int
  <2> HIDE DEF N, a, b, c, known
  <2>1. known + b \in Int /\ value + c \in Int
    BY <1>6, <1>8
  <2> QED
    BY <1>2, <2>1, Sameness
<1>13. on % Weight(m) = once % Weight(m)
  BY <1>11 DEF Same
<1> HIDE DEF on, once
<1>14. Digit(on, k) = Digit(once, k)
  <2>1. on % Weight(k + 1) = once % Weight(k + 1)
    <3>1. k + 1 \in 0..8 /\ k + 1 <= m
      OBVIOUS
    <3> QED
      BY <1>12, <1>13, <3>1, SameLower
  <2> QED
    BY <1>12, <2>1, SameByte
<1> QED
  BY <1>7, <1>9, <1>14 DEF known, dx, dy, dz

-----------------------------------------------------------------------------
(* AtBase of any memory, and MovesCompose in these terms.                  *)
ValueAt(c, mem, e, b) ==
  LET i == Position(c, e)
      value == Number(c.bytes, i, Affected(e))
  IN  \A j \in Covered(c, e) :
        mem[j] = Digit(ApplyTo(e, value, (b - c.base) % LongRange), j - i)

(* The base that entry k is due at, but for the calls that threw.          *)
Due(s, b, k) == IF s # Idle /\ k < s.at THEN s.to ELSE b

Follows(c, e) == SupportedEntry(e) /\ Affected(e) > 0 /\ Exact(c, e)

Composed(c, mem, b, s, h) ==
  \A k \in DOMAIN c.entries :
    Follows(c, c.entries[k]) => ValueAt(c, mem, c.entries[k], Due(s, b, k) + h[k])

(* What throws moves by whole upper halves the entries that see only one.  *)
WholeAhead(c, h) ==
  /\ DOMAIN h = DOMAIN c.entries
  /\ \A k \in DOMAIN c.entries :
       h[k] \in Int /\ (Follows(c, c.entries[k]) => Whole(c.entries[k], h[k]))

LEMMA ComposedIs ==
  /\ MovesCompose <=> (Apart(given) => Composed(given, bytes, base, step, ahead))
  /\ MovesCompose' <=> (Apart(given') => Composed(given', bytes', base', step', ahead'))
  BY DEF MovesCompose, Composed, Follows, AtBase, ValueAt, Due, Entry

(* The bases an image is at are those it was given.                        *)
BasesGiven ==
  /\ given \in Cases
  /\ DOMAIN bytes = DOMAIN given.bytes
  /\ base \in given.bases \cup {given.base}
  /\ step = Idle \/ step \in [at : Nat \ {0}, to : given.bases, ignore : BOOLEAN]
  /\ WholeAhead(given, ahead)

MovesInv == BasesGiven /\ MovesCompose

LEMMA CaseFacts ==
  ASSUME NEW c \in Cases
  PROVE  /\ c.bytes \in Seq(Bytes) /\ DOMAIN c.bytes = 1..Len(c.bytes) /\ Len(c.bytes) \in Nat
         /\ c.base \in Int /\ c.bases \subseteq Int /\ c.virt \in Nat
         /\ c.entries \in Seq(RebasedEntries) /\ DOMAIN c.entries = 1..Len(c.entries)
         /\ Len(c.entries) \in Nat
         /\ \A k \in DOMAIN c.entries : /\ c.entries[k] \in RebasedEntries
                                        /\ Position(c, c.entries[k]) \in Int
<1>1. IsCase(c)
  BY RebaseAssumption
<1>2. U32Max \in Nat
  BY Widths DEF U32Max
<1>3. \A e \in RebasedEntries : Position(c, e) \in Int
  BY <1>1, <1>2 DEF IsCase, Position, RebasedEntries
<1> QED
  BY <1>1, <1>3 DEF IsCase

(* What is known of an entry whose value follows the bases.                *)
LEMMA EntryFacts ==
  ASSUME NEW c \in Cases, NEW e \in RebasedEntries, Follows(c, e)
  PROVE  /\ Moved(e) /\ Affected(e) \in 1..8
         /\ e.type = "highadj" => e.param < HalfRange \div 2
         /\ \A x, y \in c.bases \cup {c.base} : Whole(e, x - y)
         /\ Covered(c, e) = (Position(c, e)..(Position(c, e) + Affected(e) - 1)) \cap DOMAIN c.bytes
<1>1. Moved(e)
  BY DEF Follows, SupportedEntry, Affected, Moved, RebasedEntries, Types
<1>2. Affected(e) \in 1..8
  BY <1>1 DEF Moved, Affected
<1>3. ASSUME NEW x \in c.bases \cup {c.base}, NEW y \in c.bases \cup {c.base},
             e.type \in {"high", "highadj"}
      PROVE  (x - y) % HalfRange = 0
  <2> DEFINE H == HalfRange
             p == x \div H
             q == y \div H
  <2>1. x \in Int /\ y \in Int /\ x % H = 0 /\ y % H = 0 /\ H \in Nat \ {0}
    BY <1>3, CaseFacts, Widths DEF Follows, Exact
  <2> HIDE DEF H
  <2>2. p \in Int /\ q \in Int /\ x = H * p + 0 /\ y = H * q + 0
    BY <2>1, Division
  <2> HIDE DEF p, q
  <2>3. x - y = H * (p - q) + 0 /\ p - q \in Int /\ x - y \in Int /\ 0 \in 0..(H - 1)
    BY <2>1, <2>2
  <2> DEFINE u == x - y
             v == p - q
  <2>4. u \in Int /\ v \in Int /\ u = H * v + 0 /\ 0 \in 0..(H - 1)
    BY <2>3
  <2> HIDE DEF u, v
  <2>5. u % H = 0
    BY <2>1, <2>4, DivisionUnique
  <2> QED
    BY <2>5 DEF u, H
<1>4. \A x, y \in c.bases \cup {c.base} : Whole(e, x - y)
  BY <1>3 DEF Whole
<1>5. e.type = "highadj" => e.param < HalfRange \div 2
  BY DEF Follows, Exact
<1>6. Covered(c, e) = (Position(c, e)..(Position(c, e) + Affected(e) - 1)) \cap DOMAIN c.bytes
  BY DEF Covered, Follows
<1> QED
  BY <1>1, <1>2, <1>4, <1>5, <1>6

(* Nothing is moved yet: every value is what it is.                        *)
LEMMA Unmoved ==
  ASSUME NEW c \in Cases, NEW e \in RebasedEntries, Position(c, e) \in Int, Follows(c, e)
  PROVE  ValueAt(c, c.bytes, e, c.base)
<1> DEFINE i == Position(c, e)
           n == Affected(e)
           value == Number(c.bytes, i, n)
<1>1. /\ Moved(e) /\ n \in 1..8 /\ n \in 0..8
      /\ e.type = "highadj" => e.param < HalfRange \div 2
  BY EntryFacts
<1>2. \A k \in 0..7 : ByteAt(c.bytes, i + k) \in Bytes
  <2>1. c.bytes \in Seq(Bytes) /\ 0 \in Bytes
    BY CaseFacts, ByteRangeAssumption DEF Bytes
  <2> QED
    BY <2>1 DEF ByteAt
<1>3. /\ value \in Nat
      /\ \A k \in 0..7 : k < n => Digit(value, k) = ByteAt(c.bytes, i + k)
  <2> HIDE DEF n, i
  <2>1. i \in Int
    BY DEF i
  <2> QED
    BY <1>1, <1>2, <2>1, NumberDigits
<1>4. (c.base - c.base) % LongRange = 0
  <2>1. c.base \in Int /\ LongRange \in Nat \ {0}
    BY CaseFacts, Widths
  <2>2. c.base - c.base = 0 /\ 0 = LongRange * 0 + 0 /\ 0 \in 0..(LongRange - 1)
    BY <2>1
  <2> QED
    BY <2>1, <2>2, DivisionUnique
<1>5. Whole(e, 0) /\ Added(e, 0) = 0
  <2>1. HalfRange \in Nat \ {0} /\ 0 = HalfRange * 0 + 0 /\ 0 \in 0..(HalfRange - 1)
    BY Widths
  <2>2. 0 % HalfRange = 0 /\ 0 \div HalfRange = 0
    BY <2>1, DivisionUnique
  <2> QED
    BY <2>2 DEF Whole, Added
<1> HIDE DEF value
<1>6. ApplyTo(e, value, 0) = value % Weight(n)
  <2>1. ApplyTo(e, value, 0) = (value + Added(e, 0)) % Weight(n)
    BY <1>1, <1>3, <1>5, ApplyAdds
  <2>2. value + 0 = value
    BY <1>3
  <2> QED
    BY <1>5, <2>1, <2>2
<1>7. ASSUME NEW k \in 0..7, k < n
      PROVE  Digit(value % Weight(n), k) = ByteAt(c.bytes, i + k)
  <2> HIDE DEF n
  <2> DEFINE z == value % Weight(n)
  <2>1. z \in Int /\ z % Weight(n) = value % Weight(n)
    <3>1. Weight(n) \in Nat \ {0} /\ value \in Int
      BY <1>1, <1>3, Weights
    <3> QED
      BY <3>1, Remainder
  <2> HIDE DEF z
  <2>2. z % Weight(k + 1) = value % Weight(k + 1)
    <3>1. k + 1 \in 0..8 /\ k + 1 <= n
      BY <1>1, <1>7
    <3> QED
      BY <1>1, <1>3, <2>1, <3>1, SameLower
  <2>3. Digit(z, k) = Digit(value, k)
    BY <1>3, <2>1, <2>2, SameByte
  <2> QED
    BY <1>3, <1>7, <2>3 DEF z
<1>8. ASSUME NEW j \in Covered(c, e)
      PROVE  c.bytes[j] = Digit(ApplyTo(e, value, 0), j - i)
  <2> DEFINE k == j - i
  <2>1. j \in DOMAIN c.bytes /\ k \in 0..7 /\ k < n /\ i + k = j
    <3>1. j \in i..(i + n - 1) /\ j \in DOMAIN c.bytes
      BY <1>8, EntryFacts
    <3>2. i \in Int /\ n \in 1..8
      BY <1>1
    <3> HIDE DEF i, n
    <3> QED
      BY <3>1, <3>2
  <2> HIDE DEF k, n, i
  <2>2. ByteAt(c.bytes, i + k) = c.bytes[j]
    BY <2>1 DEF ByteAt
  <2>3. Digit(value % Weight(n), k) = c.bytes[j]
    BY <1>7, <2>1, <2>2
  <2> QED
    BY <1>6, <2>3 DEF k
<1> QED
  BY <1>4, <1>8 DEF ValueAt, value

(* The entry that is relocated now: its value was due at base b, and is    *)
(* at base t then.                                                         *)
LEMMA RelocatedOnce ==
  ASSUME NEW c \in Cases, NEW e \in RebasedEntries, Follows(c, e),
         Position(c, e) \in Nat \ {0},
         NEW mem, DOMAIN mem = DOMAIN c.bytes,
         NEW b \in Int, NEW t \in Int, Whole(e, b - c.base), Whole(e, t - b),
         ValueAt(c, mem, e, b)
  PROVE  LET i == Position(c, e)
             n == Affected(e)
             v == ApplyTo(e, Number(mem, i, n), (t - b) % LongRange)
         IN  ValueAt(c, Written(mem, i, n, v), e, t)
<1> DEFINE i == Position(c, e)
           n == Affected(e)
           value == Number(c.bytes, i, n)
           x == b - c.base
           y == t - b
           there == ApplyTo(e, value, x % LongRange)
           v == ApplyTo(e, Number(mem, i, n), y % LongRange)
           l == Len(c.bytes)
           m == IF i > l THEN 0 ELSE IF i + n - 1 <= l THEN n ELSE l - i + 1
<1>1. /\ Moved(e) /\ n \in 1..8 /\ n \in 0..8
      /\ e.type = "highadj" => e.param < HalfRange \div 2
      /\ Whole(e, x) /\ Whole(e, y)
      /\ Covered(c, e) = (i..(i + n - 1)) \cap DOMAIN c.bytes
  BY EntryFacts
<1>2. /\ b \in Int /\ t \in Int /\ c.base \in Int /\ l \in Nat /\ DOMAIN c.bytes = 1..l
      /\ i \in Nat \ {0} /\ x \in Int /\ y \in Int /\ x + y = t - c.base
  BY CaseFacts
<1>3. /\ m \in 0..8 /\ m <= n
      /\ \A k \in 0..7 : k < m => i + k \in (i..(i + n - 1)) \cap (1..l)
      /\ \A k \in 0..7 : m <= k /\ k < n => i + k \notin 1..l
      /\ \A j \in (i..(i + n - 1)) \cap (1..l) :
           /\ j - i \in 0..7
           /\ j - i < m
           /\ i + (j - i) = j
  <2> HIDE DEF i, n, l
  <2> QED
    BY <1>1, <1>2
<1> HIDE DEF m
<1>4. value \in Int
  <2>1. \A k \in 0..7 : ByteAt(c.bytes, i + k) \in Bytes
    <3>1. c.bytes \in Seq(Bytes) /\ 0 \in Bytes
      BY CaseFacts, ByteRangeAssumption DEF Bytes
    <3> QED
      BY <3>1 DEF ByteAt
  <2>2. value \in Nat
    <3> HIDE DEF n, i
    <3>1. i \in Int
      BY <1>2
    <3> QED
      BY <1>1, <2>1, <3>1, NumberDigits
  <2> QED
    BY <2>2
<1>5. \A j \in Covered(c, e) : mem[j] = Digit(there, j - i)
  BY DEF ValueAt
<1>6. there \in Int
  <2> DEFINE d == x % LongRange
             a == Added(e, d)
  <2>1. d \in Int /\ Whole(e, d)
    <3>1. LongRange \in Nat \ {0}
      BY Widths
    <3> HIDE DEF x
    <3> QED
      BY <1>1, <1>2, <3>1, Sameness, WholeDifference DEF Whole
  <2>2. there = ApplyTo(e, value, d)
    OBVIOUS
  <2> HIDE DEF d, value, there
  <2>3. there = (value + a) % Weight(n) /\ a \in Int
    BY <1>1, <1>4, <2>1, <2>2, ApplyAdds
  <2> HIDE DEF a, n
  <2>4. value + a \in Int /\ Weight(n) \in Nat \ {0}
    BY <1>1, <1>4, <2>3, Weights
  <2> QED
    BY <2>3, <2>4, Remainder
<1>7. Number(mem, i, n) = there % Weight(m)
  <2> HIDE DEF there
  <2>1. ASSUME NEW k \in 0..7, k < m PROVE ByteAt(mem, i + k) = Digit(there, k)
    <3>1. i + k \in Covered(c, e) /\ i + k \in DOMAIN mem
      BY <1>1, <1>2, <1>3, <2>1
    <3>2. (i + k) - i = k
      BY <1>2
    <3> QED
      BY <1>5, <3>1, <3>2 DEF ByteAt
  <2>2. ASSUME NEW k \in 0..7, m <= k, k < n PROVE ByteAt(mem, i + k) = 0
    <3>1. i + k \notin DOMAIN mem
      BY <1>2, <1>3, <2>2
    <3> QED
      BY <3>1 DEF ByteAt
  <2>3. i \in Int /\ n \in 0..8 /\ m \in 0..8 /\ m <= n
    BY <1>1, <1>2, <1>3
  <2>4. Known(mem, i, n, m, there)
    BY <2>1, <2>2 DEF Known
  <2> HIDE DEF i, n
  <2> QED
    BY <1>6, <2>3, <2>4, NumberRead
<1>8. ASSUME NEW k \in 0..7, k < m
      PROVE  Digit(v, k) = Digit(ApplyTo(e, value, (x + y) % LongRange), k)
  <2>1. v = ApplyTo(e, there % Weight(m), y % LongRange)
    BY <1>7
  <2>2. m \in 0..8 /\ m <= Affected(e) /\ there = ApplyTo(e, value, x % LongRange)
    BY <1>3
  <2>3. x \in Int /\ y \in Int
    BY <1>2
  <2> HIDE DEF v, x, y, value, there
  <2> QED
    BY <1>1, <1>4, <1>8, <2>1, <2>2, <2>3, MovedTwice
<1>9. ASSUME NEW j \in Covered(c, e)
      PROVE  Written(mem, i, n, v)[j] = Digit(ApplyTo(e, value, (t - c.base) % LongRange), j - i)
  <2>1. j \in DOMAIN mem /\ j \in i..(i + n - 1) /\ j - i \in 0..7 /\ j - i < m
    BY <1>1, <1>2, <1>3
  <2>2. Written(mem, i, n, v)[j] = Digit(v, j - i)
    BY <2>1 DEF Written
  <2>3. Digit(v, j - i) = Digit(ApplyTo(e, value, (x + y) % LongRange), j - i)
    BY <1>8, <2>1
  <2> QED
    BY <1>2, <2>2, <2>3
<1> QED
  BY <1>9 DEF ValueAt

LEMMA MovesInit == RebaseInit => MovesInv
<1> SUFFICES ASSUME RebaseInit PROVE MovesInv
  OBVIOUS
<1>1. /\ given \in Cases /\ bytes = given.bytes /\ base = given.base /\ step = Idle
      /\ ahead = [k \in DOMAIN given.entries |-> 0] /\ given.base + 0 = given.base
  BY CaseFacts DEF RebaseInit
<1>2. BasesGiven
  <2>1. \A e : Whole(e, 0)
    <3>1. HalfRange \in Nat \ {0} /\ 0 = HalfRange * 0 + 0 /\ 0 \in 0..(HalfRange - 1)
      BY Widths
    <3>2. 0 % HalfRange = 0
      BY <3>1, DivisionUnique
    <3> QED
      BY <3>2 DEF Whole
  <2>2. WholeAhead(given, ahead)
    BY <1>1, <2>1 DEF WholeAhead
  <2> QED
    BY <1>1, <2>2 DEF BasesGiven
<1>3. Composed(given, bytes, base, step, ahead)
  <2> SUFFICES ASSUME NEW k \in DOMAIN given.entries, Follows(given, given.entries[k])
               PROVE  ValueAt(given, given.bytes, given.entries[k], given.base)
    BY <1>1 DEF Composed, Due
  <2> QED
    BY <1>1, CaseFacts, Unmoved
<1> QED
  BY <1>2, <1>3, ComposedIs DEF MovesInv

LEMMA MovesStep == MovesInv /\ [RebaseNext]_rebaseVars => MovesInv'
<1> SUFFICES ASSUME MovesInv, [RebaseNext]_rebaseVars PROVE MovesInv'
  OBVIOUS
<1> USE DEF MovesInv
<1>1. ASSUME NEW to \in given.bases, NEW ignore \in BOOLEAN, Begin(to, ignore)
      PROVE  MovesInv'
  <2>1. /\ step = Idle /\ UNCHANGED <<given, bytes, base, ahead>>
        /\ step' = Idle \/ step' = [at |-> 1, to |-> to, ignore |-> ignore]
    BY <1>1 DEF Begin
  <2>2. BasesGiven'
    BY <2>1 DEF BasesGiven
  <2>3. \A k \in DOMAIN given.entries : Due(step', base, k) = base /\ Due(step, base, k) = base
    <3>1. given \in Cases
      BY DEF BasesGiven
    <3>2. \A k \in DOMAIN given.entries : k \in Nat /\ ~(k < 1)
      BY <3>1, CaseFacts
    <3> QED
      BY <2>1, <3>2 DEF Due, Idle
  <2>4. Composed(given, bytes, base, step, ahead)
          => Composed(given', bytes', base', step', ahead')
    BY <2>1, <2>3 DEF Composed
  <2> QED
    BY <2>1, <2>2, <2>4, ComposedIs
<1>2. ASSUME Relocate PROVE MovesInv'
  <2> DEFINE e == given.entries[step.at]
             i == Position(given, e)
             n == Affected(e)
             v == ApplyTo(e, Number(bytes, i, n), Difference(step.to))
  <2>1. /\ step # Idle /\ UNCHANGED <<given, base, ahead>>
        /\ step' = [step EXCEPT !.at = @ + 1] /\ step.at <= Len(given.entries)
        /\ SupportedEntry(e) /\ ~Fails(e, step.ignore)
        /\ bytes' = IF n = 0 THEN bytes ELSE Written(bytes, i, n, v)
    BY <1>2 DEF Relocate, Entry
  <2>2. /\ given \in Cases /\ DOMAIN bytes = DOMAIN given.bytes
        /\ step \in [at : Nat \ {0}, to : given.bases, ignore : BOOLEAN]
        /\ base \in given.bases \cup {given.base} /\ WholeAhead(given, ahead)
    BY <2>1 DEF BasesGiven
  <2>3. /\ step.at \in Nat \ {0} /\ step.at \in DOMAIN given.entries /\ e \in RebasedEntries
        /\ step.to \in given.bases
        /\ step' \in [at : Nat \ {0}, to : given.bases, ignore : BOOLEAN]
        /\ step'.at = step.at + 1 /\ step'.to = step.to /\ step' # Idle
    <3>1. step.at \in Nat \ {0} /\ step.at \in DOMAIN given.entries
      BY <2>1, <2>2, CaseFacts
    <3>2. /\ step' \in [at : Nat \ {0}, to : given.bases, ignore : BOOLEAN]
          /\ step'.at = step.at + 1 /\ step'.to = step.to
      BY <2>1, <2>2
    <3> QED
      BY <2>2, <3>1, <3>2, CaseFacts DEF Idle
  <2>4. DOMAIN bytes' = DOMAIN bytes
    BY <2>1, WrittenThere
  <2>5. BasesGiven'
    BY <2>1, <2>2, <2>3, <2>4 DEF BasesGiven
  <2>6. ASSUME Apart(given), Composed(given, bytes, base, step, ahead)
        PROVE  Composed(given, bytes', base, step', ahead)
    <3> SUFFICES ASSUME NEW k \in DOMAIN given.entries, Follows(given, given.entries[k])
                 PROVE  ValueAt(given, bytes', given.entries[k], Due(step', base, k) + ahead[k])
      BY DEF Composed
    <3>1. ValueAt(given, bytes, given.entries[k], Due(step, base, k) + ahead[k])
      BY <2>6 DEF Composed
    <3>2. k \in Nat
      BY <2>2, CaseFacts
    <3>3. CASE k = step.at
      <4>1. Due(step, base, k) = base /\ Due(step', base, k) = step.to
        BY <2>3, <3>2, <3>3 DEF Due
      <4>2. Follows(given, e) /\ n # 0 /\ Affected(e) > 0
        <5>1. Follows(given, e) /\ Affected(e) \in 1..8
          BY <2>2, <2>3, <3>3, EntryFacts
        <5> QED
          BY <5>1
      <4>3. i \in Nat \ {0}
        <5>1. i >= 1
          BY <2>1, <4>2 DEF Fails, Exists
        <5>2. i \in Int
          BY <2>2, <2>3, CaseFacts
        <5> QED
          BY <5>1, <5>2
      <4>4. v = ApplyTo(e, Number(bytes, i, n), (step.to - base) % LongRange)
        BY DEF Difference
      <4>5. ValueAt(given, Written(bytes, i, n, v), e, step.to + ahead[k])
        <5> DEFINE b == base + ahead[k]
                   t == step.to + ahead[k]
        <5>1. ValueAt(given, bytes, e, b)
          BY <3>1, <3>3, <4>1
        <5>2. /\ base \in Int /\ step.to \in Int /\ given.base \in Int
              /\ ahead[k] \in Int /\ Whole(e, ahead[k])
              /\ step.to \in given.bases \cup {given.base}
          BY <2>2, <2>3, <3>3, <4>2, CaseFacts DEF WholeAhead
        <5>3. Whole(e, base - given.base) /\ Whole(e, step.to - base)
          <6> HIDE DEF e
          <6> QED
            BY <2>2, <2>3, <4>2, <5>2, EntryFacts
        <5>4. /\ b \in Int /\ t \in Int /\ t - b = step.to - base
              /\ b - given.base = (base - given.base) + ahead[k] /\ base - given.base \in Int
          BY <5>2
        <5>5. Whole(e, b - given.base) /\ Whole(e, t - b)
          <6> HIDE DEF e, b, t
          <6> QED
            BY <5>2, <5>3, <5>4, WholeSum
        <5>6. v = ApplyTo(e, Number(bytes, i, n), (t - b) % LongRange)
          BY <4>4, <5>4
        <5> HIDE DEF e, b, t, v
        <5>7. ValueAt(given, Written(bytes, i, n, v), e, t)
          BY <2>2, <2>3, <4>2, <4>3, <5>1, <5>4, <5>5, <5>6, RelocatedOnce
        <5> QED
          BY <5>7 DEF t
      <4> QED
        BY <2>1, <3>3, <4>1, <4>2, <4>5
    <3>4. CASE k # step.at
      <4>1. Due(step', base, k) = Due(step, base, k)
        <5>1. k < step.at + 1 <=> k < step.at
          BY <2>3, <3>2, <3>4
        <5> QED
          BY <2>1, <2>3, <5>1 DEF Due
      <4>2. \A j \in Covered(given, given.entries[k]) : bytes'[j] = bytes[j]
        <5> SUFFICES ASSUME NEW j \in Covered(given, given.entries[k]) PROVE bytes'[j] = bytes[j]
          OBVIOUS
        <5>1. j \in DOMAIN bytes
          BY <2>2 DEF Covered
        <5>2. j \notin Covered(given, e)
          BY <2>3, <2>6, <3>4 DEF Apart
        <5>3. j \notin i..(i + n - 1)
          BY <2>1, <2>2, <5>1, <5>2 DEF Covered
        <5> QED
          BY <2>1, <5>1, <5>3, WrittenThere
      <4> QED
        BY <3>1, <4>1, <4>2 DEF ValueAt
    <3> QED
      BY <3>3, <3>4
  <2> QED
    BY <2>1, <2>5, <2>6, ComposedIs
<1>3. ASSUME ThrowAt PROVE MovesInv'
  <2>1. /\ step # Idle /\ step' = Idle /\ UNCHANGED <<given, bytes, base>>
        /\ ahead' = [k \in DOMAIN ahead |->
                       IF k < step.at THEN ahead[k] + (step.to - base) ELSE ahead[k]]
    BY <1>3 DEF ThrowAt
  <2>2. /\ given \in Cases /\ step.at \in Nat \ {0} /\ WholeAhead(given, ahead)
        /\ step.to \in given.bases \cup {given.base} /\ base \in given.bases \cup {given.base}
    BY <2>1 DEF BasesGiven
  <2>3. step.to \in Int /\ base \in Int /\ step.to - base \in Int
    BY <2>2, CaseFacts
  <2>4. ASSUME NEW k \in DOMAIN given.entries
        PROVE  /\ ahead[k] \in Int /\ k \in DOMAIN ahead
               /\ Due(step', base, k) + ahead'[k] = Due(step, base, k) + ahead[k]
    <3>1. ahead[k] \in Int /\ k \in DOMAIN ahead
      BY <2>2 DEF WholeAhead
    <3>2. Due(step', base, k) = base
      BY <2>1 DEF Due
    <3>3. CASE k < step.at
      <4>1. Due(step, base, k) = step.to /\ ahead'[k] = ahead[k] + (step.to - base)
        BY <2>1, <3>1, <3>3 DEF Due
      <4> QED
        BY <2>3, <3>1, <3>2, <4>1
    <3>4. CASE ~(k < step.at)
      <4>1. Due(step, base, k) = base /\ ahead'[k] = ahead[k]
        BY <2>1, <3>1, <3>4 DEF Due
      <4> QED
        BY <3>1, <3>2, <4>1
    <3> QED
      BY <3>1, <3>3, <3>4
  <2>5. WholeAhead(given, ahead')
    <3> SUFFICES ASSUME NEW k \in DOMAIN given.entries
                 PROVE  /\ ahead'[k] \in Int
                        /\ Follows(given, given.entries[k]) => Whole(given.entries[k], ahead'[k])
      BY <2>1, <2>2 DEF WholeAhead
    <3> DEFINE e == given.entries[k]
    <3>1. /\ ahead'[k] = ahead[k] \/ ahead'[k] = ahead[k] + (step.to - base)
          /\ ahead[k] \in Int
      BY <2>1, <2>4
    <3>2. ahead'[k] \in Int
      BY <2>3, <3>1
    <3>3. ASSUME Follows(given, e) PROVE Whole(e, ahead'[k])
      <4>1. Whole(e, ahead[k]) /\ e \in RebasedEntries
        BY <2>2, <3>3, CaseFacts DEF WholeAhead
      <4> HIDE DEF e
      <4>2. Whole(e, step.to - base)
        BY <2>2, <3>3, <4>1, EntryFacts
      <4>3. Whole(e, ahead[k] + (step.to - base))
        BY <2>3, <3>1, <4>1, <4>2, WholeSum
      <4> QED
        BY <3>1, <4>1, <4>3
    <3> QED
      BY <3>2, <3>3
  <2>6. BasesGiven'
    BY <2>1, <2>5 DEF BasesGiven
  <2>7. ASSUME Composed(given, bytes, base, step, ahead)
        PROVE  Composed(given, bytes, base, step', ahead')
    <3> SUFFICES ASSUME NEW k \in DOMAIN given.entries, Follows(given, given.entries[k])
                 PROVE  ValueAt(given, bytes, given.entries[k], Due(step', base, k) + ahead'[k])
      BY DEF Composed
    <3>1. ValueAt(given, bytes, given.entries[k], Due(step, base, k) + ahead[k])
      BY <2>7 DEF Composed
    <3> QED
      BY <2>4, <3>1
  <2> QED
    BY <2>1, <2>6, <2>7, ComposedIs
<1>4. ASSUME SetBase PROVE MovesInv'
  <2>1. /\ step # Idle /\ step.at > Len(given.entries) /\ step' = Idle /\ base' = step.to
        /\ UNCHANGED <<given, bytes, ahead>>
    BY <1>4 DEF SetBase
  <2>2. given \in Cases /\ step.at \in Nat \ {0} /\ step.to \in given.bases
    BY <2>1 DEF BasesGiven
  <2>3. BasesGiven'
    BY <2>1, <2>2 DEF BasesGiven
  <2>4. \A k \in DOMAIN given.entries : Due(step', base', k) = Due(step, base, k)
    <3>1. \A k \in DOMAIN given.entries : k < step.at
      BY <2>1, <2>2, CaseFacts
    <3> QED
      BY <2>1, <3>1 DEF Due
  <2>5. Composed(given, bytes, base, step, ahead)
          => Composed(given', bytes', base', step', ahead')
    BY <2>1, <2>4 DEF Composed
  <2> QED
    BY <2>1, <2>3, <2>5, ComposedIs
<1>5. CASE UNCHANGED rebaseVars
  <2>1. BasesGiven'
    BY <1>5 DEF rebaseVars, BasesGiven
  <2> QED
    BY <1>5, <2>1, ComposedIs DEF rebaseVars
<1> QED
  BY <1>1, <1>2, <1>3, <1>4, <1>5 DEF RebaseNext

(* However often rebase moves an image, forth and back, through bases      *)
(* given and refused, and whatever part of a value is virtual: what a      *)
(* relocation names is what one move from the base the image was loaded    *)
(* at to the base in its header would give, or as far from it as the calls *)
(* that failed have left it; as long as relocations do not overlap and the *)
(* upper halves they see do not depend on lower ones.                      *)
THEOREM MovesAddUp == RebaseSpec => []MovesCompose
<1>1. MovesInv => MovesCompose
  BY DEF MovesInv
<1>. QED
  BY MovesInit, MovesStep, <1>1, PTL DEF RebaseSpec

-----------------------------------------------------------------------------
(***************************************************************************)
(* Sequences of sequences, one behind the other (FlattenSeq).              *)
(***************************************************************************)

(* f is what flattening s has come to after each of its first n elements.  *)
Flattens(s, n, f) == \A i \in 1..n : f[i] = IF i = 1 THEN s[i] ELSE f[i - 1] \o s[i]

(* Some number is the least one.                                           *)
LEMMA LeastNumber ==
  ASSUME NEW T \in SUBSET Nat, T # {}
  PROVE  \E x \in T : \A y \in T : x <= y
<1>1. PICK x \in T : \A y \in T : ~(<<y, x>> \in OpToRel(<, Nat))
  BY NatLessThanWellFounded, WFMin
<1>2. \A y \in T : ~(y < x)
  BY <1>1 DEF OpToRel
<1> QED
  BY <1>2

(* Every sequence can be flattened up to any element ...                   *)
LEMMA FlattensUpTo ==
  ASSUME NEW S, NEW s \in Seq(Seq(S)), NEW n \in 0..Len(s)
  PROVE  \E f \in [1..n -> Seq(S)] : Flattens(s, n, f)
<1> DEFINE P(m) == \E f \in [1..m -> Seq(S)] : Flattens(s, m, f)
           T == {m \in 0..Len(s) : ~P(m)}
<1>1. SUFFICES ASSUME T # {} PROVE FALSE
  OBVIOUS
<1>2. PICK m \in T : \A k \in T : m <= k
  <2>1. T \in SUBSET Nat
    OBVIOUS
  <2> HIDE DEF T
  <2> QED
    BY <1>1, <2>1, LeastNumber
<1>3. m \in 0..Len(s) /\ ~P(m)
  OBVIOUS
<1>4. P(0)
  <2>1. 1..0 = {}
    OBVIOUS
  <2>2. [i \in 1..0 |-> <<>>] \in [1..0 -> Seq(S)]
    BY <2>1
  <2> QED
    BY <2>1, <2>2 DEF Flattens
<1>5. m # 0
  BY <1>3, <1>4
<1>6. P(m - 1)
  <2>1. m - 1 \in 0..Len(s) /\ ~(m <= m - 1)
    BY <1>3, <1>5
  <2> HIDE DEF P
  <2> QED
    BY <1>2, <2>1
<1>7. PICK f \in [1..(m - 1) -> Seq(S)] : Flattens(s, m - 1, f)
  BY <1>6
<1> DEFINE last == IF m = 1 THEN s[m] ELSE f[m - 1] \o s[m]
           g == [i \in 1..m |-> IF i = m THEN last ELSE f[i]]
<1>8. s[m] \in Seq(S) /\ last \in Seq(S)
  <2>1. m \in 1..Len(s)
    BY <1>3, <1>5
  <2>2. s[m] \in Seq(S)
    BY <2>1
  <2>3. m # 1 => f[m - 1] \in Seq(S)
    BY <1>7, <2>1
  <2> QED
    BY <2>2, <2>3
<1> HIDE DEF last
<1>9. g \in [1..m -> Seq(S)]
  BY <1>3, <1>7, <1>8
<1>10. ASSUME NEW i \in 1..m PROVE g[i] = IF i = 1 THEN s[i] ELSE g[i - 1] \o s[i]
  <2>1. CASE i = m
    <3>1. m # 1 => g[m - 1] = f[m - 1]
      BY <1>3, <1>5
    <3> QED
      BY <2>1, <3>1 DEF last
  <2>2. CASE i # m
    <3>1. i \in 1..(m - 1) /\ (i # 1 => i - 1 \in 1..(m - 1))
      BY <1>3, <2>2
    <3>2. g[i] = f[i] /\ (i # 1 => g[i - 1] = f[i - 1])
      BY <1>3, <2>2, <3>1
    <3> QED
      BY <1>7, <3>1, <3>2 DEF Flattens
  <2> QED
    BY <2>1, <2>2
<1> QED
  BY <1>3, <1>9, <1>10 DEF Flattens

(* ... in one way only.                                                    *)
LEMMA FlattensOnce ==
  ASSUME NEW s, Len(s) \in Nat, NEW n \in 0..Len(s), NEW f, NEW g,
         Flattens(s, n, f), Flattens(s, n, g)
  PROVE  \A i \in 1..n : f[i] = g[i]
<1> DEFINE T == {i \in 1..n : f[i] # g[i]}
<1>1. SUFFICES ASSUME T # {} PROVE FALSE
  OBVIOUS
<1>2. T \in SUBSET Nat
  OBVIOUS
<1>3. PICK i \in T : \A k \in T : i <= k
  BY <1>1, <1>2, LeastNumber
<1>4. i \in 1..n /\ f[i] # g[i]
  OBVIOUS
<1>5. i # 1 => i - 1 \in 1..n /\ i - 1 \notin T
  BY <1>3, <1>4
<1>6. i # 1 => f[i - 1] = g[i - 1]
  BY <1>5
<1> QED
  BY <1>4, <1>6 DEF Flattens

(* The last of them is what FlattenSeq gives.                              *)
LEMMA FlattenedIs ==
  ASSUME NEW S, NEW s \in Seq(Seq(S)), NEW f, Len(s) # 0, Flattens(s, Len(s), f)
  PROVE  FlattenSeq(s) = f[Len(s)]
<1> DEFINE n == Len(s)
           g == CHOOSE g : g = [i \in 1..n |-> IF i = 1 THEN s[i] ELSE g[i - 1] \o s[i]]
<1>1. n \in Nat \ {0}
  OBVIOUS
<1>2. PICK h \in [1..n -> Seq(S)] : Flattens(s, n, h)
  <2>1. n \in 0..Len(s)
    BY <1>1
  <2> HIDE DEF n
  <2> QED
    BY <2>1, FlattensUpTo
<1>3. h = [i \in 1..n |-> IF i = 1 THEN s[i] ELSE h[i - 1] \o s[i]]
  BY <1>2 DEF Flattens
<1>4. g = [i \in 1..n |-> IF i = 1 THEN s[i] ELSE g[i - 1] \o s[i]]
  BY <1>3
<1>5. FlattenSeq(s) = g[n]
  BY DEF FlattenSeq
<1> HIDE DEF g
<1>6. Flattens(s, n, g)
  BY <1>4 DEF Flattens
<1>7. \A i \in 1..n : g[i] = f[i]
  <2>1. n \in 0..Len(s) /\ Len(s) \in Nat
    BY <1>1
  <2>2. Flattens(s, n, f)
    OBVIOUS
  <2> HIDE DEF n
  <2> QED
    BY <1>6, <2>1, <2>2, FlattensOnce
<1>8. n \in 1..n
  BY <1>1
<1> HIDE DEF n
<1> QED
  BY <1>5, <1>7, <1>8 DEF n

LEMMA Associative ==
  ASSUME NEW a \in Seq(Int), NEW b \in Seq(Int), NEW c \in Seq(Int)
  PROVE  (a \o b) \o c = a \o (b \o c)
BY ConcatAssociative

LEMMA FlattenEmpty == FlattenSeq(<<>>) = <<>>
  BY DEF FlattenSeq

(* One more element is one more behind the others.                         *)
LEMMA FlattenAppend ==
  ASSUME NEW S, NEW s \in Seq(Seq(S)), NEW x \in Seq(S)
  PROVE  /\ FlattenSeq(s) \in Seq(S)
         /\ FlattenSeq(Append(s, x)) = FlattenSeq(s) \o x
<1> DEFINE n == Len(s)
           t == Append(s, x)
<1>1. /\ t \in Seq(Seq(S)) /\ Len(t) = n + 1 /\ n \in Nat /\ t[n + 1] = x
      /\ \A i \in 1..n : t[i] = s[i]
  OBVIOUS
<1> HIDE DEF n, t
<1>2. PICK f \in [1..(n + 1) -> Seq(S)] : Flattens(t, n + 1, f)
  BY <1>1, FlattensUpTo
<1>3. Flattens(s, n, f)
  <2> SUFFICES ASSUME NEW i \in 1..n
               PROVE  f[i] = IF i = 1 THEN s[i] ELSE f[i - 1] \o s[i]
    BY DEF Flattens
  <2>1. i \in 1..(n + 1) /\ t[i] = s[i]
    BY <1>1
  <2> QED
    BY <1>2, <2>1 DEF Flattens
<1>4. FlattenSeq(t) = f[n + 1]
  BY <1>1, <1>2, FlattenedIs
<1>5. f[n + 1] = IF n = 0 THEN x ELSE f[n] \o x
  <2>1. n + 1 \in 1..(n + 1) /\ (n + 1) - 1 = n /\ (n + 1 = 1 <=> n = 0)
    BY <1>1
  <2> QED
    BY <1>1, <1>2, <2>1 DEF Flattens
<1>6. CASE n = 0
  <2>1. s = <<>>
    BY <1>6 DEF n
  <2>2. FlattenSeq(s) = <<>> /\ <<>> \o x = x
    BY <2>1, FlattenEmpty
  <2> QED
    BY <1>4, <1>5, <1>6, <2>2 DEF t
<1>7. CASE n # 0
  <2>1. FlattenSeq(s) = f[n] /\ n \in 1..(n + 1)
    BY <1>1, <1>3, <1>7, FlattenedIs DEF n
  <2> QED
    BY <1>2, <1>4, <1>5, <1>7, <2>1 DEF t
<1> QED
  BY <1>6, <1>7

(* What the first elements give is the beginning, and one more element is  *)
(* behind them.                                                            *)
LEMMA FlattenSplit ==
  ASSUME NEW S, NEW s \in Seq(Seq(S)), NEW n \in 0..Len(s)
  PROVE  /\ FlattenSeq(SubSeq(s, 1, n)) \in Seq(S)
         /\ \E rest \in Seq(S) : FlattenSeq(s) = FlattenSeq(SubSeq(s, 1, n)) \o rest
<1> DEFINE F(m) == FlattenSeq(SubSeq(s, 1, m))
           P(m) == \E rest \in Seq(S) : F(m) = F(n) \o rest
           T == {m \in n..Len(s) : ~P(m)}
<1>1. \A m \in 0..Len(s) : SubSeq(s, 1, m) \in Seq(Seq(S))
  OBVIOUS
<1>2. \A m \in 0..Len(s) : F(m) \in Seq(S)
  <2>1. <<>> \in Seq(S)
    OBVIOUS
  <2> QED
    BY <1>1, <2>1, FlattenAppend
<1>3. ASSUME NEW m \in 1..Len(s) PROVE F(m) = F(m - 1) \o s[m] /\ s[m] \in Seq(S)
  <2>1. SubSeq(s, 1, m) = Append(SubSeq(s, 1, m - 1), s[m])
    OBVIOUS
  <2>2. m - 1 \in 0..Len(s) /\ s[m] \in Seq(S)
    OBVIOUS
  <2> QED
    BY <1>1, <2>1, <2>2, FlattenAppend
<1>4. SubSeq(s, 1, Len(s)) = s
  OBVIOUS
<1> HIDE DEF F
<1>5. P(n)
  <2>1. F(n) = F(n) \o <<>> /\ <<>> \in Seq(S)
    BY <1>2
  <2> QED
    BY <2>1
<1>6. ASSUME T # {} PROVE FALSE
  <2>1. T \in SUBSET Nat
    OBVIOUS
  <2>2. PICK m \in T : \A k \in T : m <= k
    <3> HIDE DEF T
    <3> QED
      BY <1>6, <2>1, LeastNumber
  <2>3. m \in n..Len(s) /\ ~P(m) /\ m # n
    BY <1>5
  <2>4. m - 1 \in n..Len(s) /\ m - 1 \notin T /\ m \in 1..Len(s)
    <3>1. Len(s) \in Nat /\ n \in 0..Len(s) /\ m \in n..Len(s) /\ m # n
      BY <2>3
    <3>2. m - 1 \in n..Len(s) /\ m \in 1..Len(s) /\ ~(m <= m - 1)
      BY <3>1
    <3> HIDE DEF T
    <3> QED
      BY <2>2, <3>2
  <2>5. P(m - 1)
    BY <2>4
  <2>6. PICK rest \in Seq(S) : F(m - 1) = F(n) \o rest
    BY <2>5
  <2>7. F(m) = (F(n) \o rest) \o s[m] /\ s[m] \in Seq(S)
    BY <1>3, <2>4, <2>6
  <2>8. F(m) = F(n) \o (rest \o s[m]) /\ rest \o s[m] \in Seq(S)
    <3>1. F(n) \in Seq(S)
      BY <1>2
    <3>2. rest \o s[m] \in Seq(S)
      BY <2>6, <2>7, ConcatProperties
    <3>3. (F(n) \o rest) \o s[m] = F(n) \o (rest \o s[m])
      <4> DEFINE a == F(n)
                 b == s[m]
      <4>1. a \in Seq(S) /\ b \in Seq(S)
        BY <2>7, <3>1
      <4> HIDE DEF a, b
      <4>2. (a \o rest) \o b = a \o (rest \o b)
        BY <4>1, ConcatAssociative
      <4> QED
        BY <4>2 DEF a, b
    <3> QED
      BY <2>7, <3>2, <3>3
  <2> QED
    BY <2>3, <2>8
<1>7. P(Len(s))
  <2>1. Len(s) \in n..Len(s)
    OBVIOUS
  <2> HIDE DEF P
  <2> QED
    BY <1>6, <2>1
<1> QED
  BY <1>2, <1>4, <1>7 DEF F

(* No element is longer than all together.                                 *)
LEMMA FlattenLonger ==
  ASSUME NEW S, NEW s \in Seq(Seq(S)), NEW i \in DOMAIN s
  PROVE  Len(s[i]) <= Len(FlattenSeq(s))
<1> DEFINE before == SubSeq(s, 1, i - 1)
<1>1. i \in 1..Len(s) /\ i \in 0..Len(s) /\ s[i] \in Seq(S)
  OBVIOUS
<1>2. before \in Seq(Seq(S)) /\ SubSeq(s, 1, i) = Append(before, s[i])
  <2>1. before \in Seq(Seq(S))
    BY <1>1
  <2>2. SubSeq(s, 1, i) = Append(before, s[i])
    BY <1>1
  <2> QED
    BY <2>1, <2>2
<1>3. PICK rest \in Seq(S) : FlattenSeq(s) = FlattenSeq(SubSeq(s, 1, i)) \o rest
  BY <1>1, FlattenSplit
<1> HIDE DEF before
<1>4. FlattenSeq(before) \in Seq(S) /\ FlattenSeq(s) = (FlattenSeq(before) \o s[i]) \o rest
  BY <1>1, <1>2, <1>3, FlattenAppend
<1>5. /\ FlattenSeq(before) \o s[i] \in Seq(S)
      /\ Len(FlattenSeq(before) \o s[i]) = Len(FlattenSeq(before)) + Len(s[i])
  BY <1>1, <1>4, ConcatProperties
<1> QED
  BY <1>1, <1>3, <1>4, <1>5, ConcatProperties

-----------------------------------------------------------------------------
(***************************************************************************)
(* Numbers as bytes, and the bytes of an image.                            *)
(***************************************************************************)

(* Two digits make a number, and it tells them.                            *)
LEMMA TwoDigits ==
  ASSUME NEW M \in Nat \ {0}, NEW a \in 0..(M - 1), NEW b \in 0..(M - 1)
  PROVE  /\ a + M * b \in 0..(M * M - 1)
         /\ (a + M * b) % M = a /\ (a + M * b) \div M = b
<1>1. M * (M - b) >= M /\ M * b \in Nat
  BY AtLeastOnce
<1>2. M * (M - b) = M * M - M * b
  OBVIOUS
<1> DEFINE x == a + M * b
<1>3. x \in 0..(M * M - 1) /\ x = M * b + a
  BY <1>1, <1>2
<1> HIDE DEF x
<1>4. x \div M = b /\ x % M = a
  BY <1>3, DivisionUnique
<1> QED
  BY <1>3, <1>4 DEF x

(* A number of two digits has two.                                         *)
LEMMA DigitsOf ==
  ASSUME NEW M \in Nat \ {0}, NEW x \in 0..(M * M - 1)
  PROVE  x % M \in 0..(M - 1) /\ x \div M \in 0..(M - 1)
<1> DEFINE q == x \div M
           r == x % M
<1>1. q \in Int /\ r \in 0..(M - 1) /\ x = M * q + r /\ x \in Nat /\ x < M * M
  BY Division
<1> HIDE DEF q, r
<1>2. q >= 0
  <2>1. SUFFICES ASSUME -q >= 1 PROVE FALSE
    BY <1>1
  <2>2. M * (-q) >= M /\ M * (-q) = -(M * q)
    BY <1>1, <2>1, AtLeastOnce
  <2> QED
    BY <1>1, <2>2
<1>3. q < M
  <2>1. SUFFICES ASSUME (q - M) + 1 >= 1 PROVE FALSE
    BY <1>1
  <2>2. M * ((q - M) + 1) >= M /\ M * ((q - M) + 1) = ((M * q) - (M * M)) + M
    BY <1>1, <2>1, AtLeastOnce
  <2> QED
    BY <1>1, <2>2
<1> QED
  BY <1>1, <1>2, <1>3 DEF q, r

LEMMA ByteWidths ==
  /\ ByteRange \in Nat \ {0} /\ HalfRange \in Nat \ {0} /\ U32Max \in Nat
  /\ HalfRange = ByteRange * ByteRange /\ U32 = 0..(HalfRange * HalfRange - 1)
<1>1. ByteRange \in Nat \ {0}
  BY ByteRangeAssumption
<1>2. HalfRange \in Nat \ {0} /\ WordRange \in Nat \ {0}
  BY Widths
<1> QED
  BY <1>1, <1>2 DEF HalfRange, WordRange, U32Max, U32

Halves == 0..(HalfRange - 1)

(* Writing a number of two bytes, and of four.                             *)
LEMMA HalfWritten ==
  ASSUME NEW h \in Nat
  PROVE  /\ HalfBytes(h) \in Seq(Int) /\ Len(HalfBytes(h)) = 2
         /\ h \in Halves => HalfBytes(h) \in Seq(Bytes)
<1>1. h % ByteRange \in Int /\ h \div ByteRange \in Int
  BY ByteWidths, Division
<1>2. h \in Halves => h % ByteRange \in Bytes /\ h \div ByteRange \in Bytes
  BY ByteWidths, DigitsOf DEF Halves, Bytes
<1> QED
  BY <1>1, <1>2 DEF HalfBytes

LEMMA WordWritten ==
  ASSUME NEW w \in Nat
  PROVE  /\ WordBytes(w) \in Seq(Int) /\ Len(WordBytes(w)) = 4
         /\ w \in U32 => WordBytes(w) \in Seq(Bytes)
<1> DEFINE l == w % HalfRange
           h == w \div HalfRange
<1>1. l \in Nat /\ h \in Nat
  BY ByteWidths
<1>2. w \in U32 => l \in Halves /\ h \in Halves
  BY ByteWidths, DigitsOf DEF Halves
<1> HIDE DEF l, h
<1>3. /\ HalfBytes(l) \in Seq(Int) /\ Len(HalfBytes(l)) = 2
      /\ HalfBytes(h) \in Seq(Int) /\ Len(HalfBytes(h)) = 2
  BY <1>1, HalfWritten
<1>4. HalfBytes(l) \o HalfBytes(h) \in Seq(Int) /\ Len(HalfBytes(l) \o HalfBytes(h)) = 4
  <2>1. Len(HalfBytes(l) \o HalfBytes(h)) = Len(HalfBytes(l)) + Len(HalfBytes(h))
    BY <1>3, ConcatProperties
  <2> QED
    BY <1>3, <2>1, ConcatProperties
<1>5. ASSUME w \in U32 PROVE HalfBytes(l) \o HalfBytes(h) \in Seq(Bytes)
  <2>1. HalfBytes(l) \in Seq(Bytes) /\ HalfBytes(h) \in Seq(Bytes)
    BY <1>1, <1>2, <1>5, HalfWritten
  <2> QED
    BY <2>1, ConcatProperties
<1> QED
  BY <1>4, <1>5 DEF WordBytes, l, h

(* What can be read are bytes.                                             *)
LEMMA BytesThere ==
  ASSUME file \in DirectoryFiles, NEW rva \in Nat, NEW n \in Nat, Readable(rva, n)
  PROVE  \A k \in Nat : k < n => Byte(rva + k) \in Bytes
<1> SUFFICES ASSUME NEW k \in Nat, k < n PROVE Byte(rva + k) \in Bytes
  OBVIOUS
<1> DEFINE i == (rva + k) - file.start
<1>1. file.start \in Nat /\ file.bytes \in Seq(Bytes) /\ 0 \in Bytes
  BY ByteWidths DEF DirectoryFiles, U32, Bytes
<1>2. i \in Nat
  BY <1>1 DEF Readable
<1> HIDE DEF i
<1>3. i < Len(file.bytes) => file.bytes[i + 1] \in Bytes
  <2>1. i < Len(file.bytes) => i + 1 \in 1..Len(file.bytes)
    BY <1>1, <1>2
  <2> QED
    BY <1>1, <2>1
<1> QED
  BY <1>1, <1>3 DEF Byte, i

LEMMA SeqWider ==
  ASSUME NEW S, NEW T, S \subseteq T, NEW s \in Seq(S)
  PROVE  s \in Seq(T)
OBVIOUS

(* Two regions, one behind the other.                                      *)
LEMMA RegionJoins ==
  ASSUME NEW rva \in Int, NEW m \in Nat, NEW n \in Nat
  PROVE  Region(rva, m) \o Region(rva + m, n) = Region(rva, m + n)
<1> DEFINE S == {Byte(k) : k \in Int}
           a == Region(rva, m)
           b == Region(rva + m, n)
           c == Region(rva, m + n)
<1>1. /\ a \in Seq(S) /\ Len(a) = m /\ b \in Seq(S) /\ Len(b) = n
      /\ c \in Seq(S) /\ Len(c) = m + n
  BY DEF Region
<1>2. \A i \in 1..m : a[i] = Byte((rva + i) - 1)
  BY DEF Region
<1>3. \A i \in 1..n : b[i] = Byte(((rva + m) + i) - 1)
  BY DEF Region
<1>4. \A i \in 1..(m + n) : c[i] = Byte((rva + i) - 1)
  BY DEF Region
<1> HIDE DEF a, b, c, S
<1>5. /\ a \o b \in Seq(S) /\ Len(a \o b) = m + n
      /\ \A i \in 1..(m + n) : (a \o b)[i] = IF i <= m THEN a[i] ELSE b[i - m]
  BY <1>1, ConcatProperties
<1>6. ASSUME NEW i \in 1..(m + n) PROVE (a \o b)[i] = c[i]
  <2>1. CASE i <= m
    <3>1. i \in 1..m
      BY <2>1
    <3> QED
      BY <1>2, <1>4, <1>5, <2>1, <3>1
  <2>2. CASE ~(i <= m)
    <3>1. i - m \in 1..n /\ ((rva + m) + (i - m)) - 1 = (rva + i) - 1
      BY <2>2
    <3> QED
      BY <1>3, <1>4, <1>5, <2>2, <3>1
  <2> QED
    BY <2>1, <2>2
<1>7. a \o b = c
  <2> DEFINE d == a \o b
  <2>1. d \in Seq(S) /\ Len(d) = Len(c) /\ \A i \in 1..Len(d) : d[i] = c[i]
    BY <1>1, <1>5, <1>6
  <2> HIDE DEF d
  <2>2. d = c
    BY <1>1, <2>1, SeqEqual
  <2> QED
    BY <2>2 DEF d
<1> QED
  BY <1>7 DEF a, b, c

(* A number that is read is written as it was.                             *)
LEMMA HalfRead ==
  ASSUME NEW rva \in Int, Byte(rva) \in Bytes, Byte(rva + 1) \in Bytes
  PROVE  Half(rva) \in Halves /\ HalfBytes(Half(rva)) = Region(rva, 2)
<1> DEFINE a == Byte(rva)
           b == Byte(rva + 1)
<1>1. a \in Bytes /\ b \in Bytes
  OBVIOUS
<1>2. Region(rva, 2) = <<a, b>>
  <2>1. \A k \in 1..2 : (k = 1 /\ (rva + k) - 1 = rva) \/ (k = 2 /\ (rva + k) - 1 = rva + 1)
    OBVIOUS
  <2>2. <<a, b>> = [k \in 1..2 |-> IF k = 1 THEN a ELSE b]
    OBVIOUS
  <2> QED
    BY <2>1, <2>2 DEF Region
<1> HIDE DEF a, b
<1>3. /\ a + ByteRange * b \in Halves
      /\ (a + ByteRange * b) % ByteRange = a /\ (a + ByteRange * b) \div ByteRange = b
  BY <1>1, ByteWidths, TwoDigits DEF Halves, Bytes
<1> QED
  BY <1>2, <1>3 DEF HalfBytes, Half, a, b

LEMMA WordRead ==
  ASSUME NEW rva \in Int, \A k \in Nat : k < 4 => Byte(rva + k) \in Bytes
  PROVE  Word(rva) \in U32 /\ WordBytes(Word(rva)) = Region(rva, 4)
<1> DEFINE l == Half(rva)
           h == Half(rva + 2)
<1>1. l \in Halves /\ HalfBytes(l) = Region(rva, 2)
  <2>1. rva = rva + 0 /\ 0 \in Nat /\ 1 \in Nat
    OBVIOUS
  <2>2. Byte(rva) \in Bytes /\ Byte(rva + 1) \in Bytes
    BY <2>1
  <2> QED
    BY <2>2, HalfRead
<1>2. h \in Halves /\ HalfBytes(h) = Region(rva + 2, 2)
  <2>1. rva + 3 = (rva + 2) + 1 /\ 2 \in Nat /\ 3 \in Nat
    OBVIOUS
  <2>2. Byte(rva + 2) \in Bytes /\ Byte((rva + 2) + 1) \in Bytes
    BY <2>1
  <2> QED
    BY <2>2, HalfRead
<1>3. Region(rva, 2) \o Region(rva + 2, 2) = Region(rva, 4)
  <2>1. 2 \in Nat /\ 2 + 2 = 4
    OBVIOUS
  <2>2. Region(rva, 2) \o Region(rva + 2, 2) = Region(rva, 2 + 2)
    BY <2>1, RegionJoins
  <2> QED
    BY <2>1, <2>2
<1> HIDE DEF l, h
<1>4. /\ l + HalfRange * h \in U32
      /\ (l + HalfRange * h) % HalfRange = l /\ (l + HalfRange * h) \div HalfRange = h
  <2>1. HalfRange \in Nat \ {0} /\ l \in 0..(HalfRange - 1) /\ h \in 0..(HalfRange - 1)
    BY <1>1, <1>2, ByteWidths DEF Halves
  <2>2. /\ l + HalfRange * h \in 0..(HalfRange * HalfRange - 1)
        /\ (l + HalfRange * h) % HalfRange = l /\ (l + HalfRange * h) \div HalfRange = h
    BY <2>1, TwoDigits
  <2> QED
    BY <2>2, ByteWidths
<1>5. Word(rva) = l + HalfRange * h
  BY DEF Word, l, h
<1>6. WordBytes(Word(rva)) = HalfBytes(l) \o HalfBytes(h)
  BY <1>4, <1>5 DEF WordBytes
<1>7. Word(rva) \in U32
  BY <1>4, <1>5
<1>8. WordBytes(Word(rva)) = Region(rva, 4)
  BY <1>1, <1>2, <1>3, <1>6
<1> QED
  BY <1>7, <1>8

-----------------------------------------------------------------------------
(***************************************************************************)
(* load.  What it has read without a structural error is the directory, up *)
(* to where it is: built again, it is the same bytes.                      *)
(***************************************************************************)

LoadedEntries ==
  [half : Halves, param : {None} \cup {<<h>> : h \in Halves}, errors : SUBSET EntryErrors]

(* A block, and how long its entries are.                                  *)
LoadedBlocks ==
  {b \in [va : U32, size : U32, errors : SUBSET BlockErrors, entries : Seq(LoadedEntries)] :
     /\ EntriesBytes(b.entries) \in Seq(Bytes) /\ ElementCount(b) \in Nat
     /\ Len(EntriesBytes(b.entries)) = EntrySize * ElementCount(b)}

(* What has been read of a block of which n entries are left.              *)
BytesSoFar(b, n) ==
  (WordBytes(b.va) \o WordBytes(DescriptorSize + EntrySize * (ElementCount(b) + n)))
    \o EntriesBytes(b.entries)

LoadShape ==
  /\ file \in DirectoryFiles
  /\ phase \in {"block", "elements", "returned", "thrown"}
  /\ cur \in Nat /\ file.rva <= cur /\ count \in Nat
  /\ list \in Seq(LoadedBlocks)
  /\ phase = "elements" => list # <<>>

SoFarFaithful ==
  Clean =>
    /\ phase = "block" => Built(list, FALSE) = Region(file.rva, cur - file.rva)
    /\ phase = "elements" =>
         Built(Front(list), FALSE) \o BytesSoFar(Last(list), count)
           = Region(file.rva, cur - file.rva)
    /\ phase = "returned" => Built(list, FALSE) = Region(file.rva, file.size)

LoadInv == LoadShape /\ SoFarFaithful

(* An entry is two bytes, and two more with a parameter.                   *)
Elements(e) == IF e.param = None THEN 1 ELSE 2

LEMMA EntryWritten ==
  ASSUME NEW e \in LoadedEntries
  PROVE  EntryBytes(e) \in Seq(Bytes) /\ Len(EntryBytes(e)) = EntrySize * Elements(e)
<1>1. e.half \in Halves /\ e.half \in Nat
  BY ByteWidths DEF LoadedEntries, Halves
<1>2. HalfBytes(e.half) \in Seq(Bytes) /\ Len(HalfBytes(e.half)) = 2
  BY <1>1, HalfWritten
<1>3. CASE e.param = None
  <2>1. HalfBytes(e.half) \o <<>> = HalfBytes(e.half)
    BY <1>2
  <2> QED
    BY <1>2, <1>3, <2>1 DEF EntryBytes, Elements, EntrySize
<1>4. CASE e.param # None
  <2>1. e.param[1] \in Halves /\ e.param[1] \in Nat
    BY <1>4, ByteWidths DEF LoadedEntries, Halves
  <2>2. HalfBytes(e.param[1]) \in Seq(Bytes) /\ Len(HalfBytes(e.param[1])) = 2
    BY <2>1, HalfWritten
  <2>3. /\ HalfBytes(e.half) \o HalfBytes(e.param[1]) \in Seq(Bytes)
        /\ Len(HalfBytes(e.half) \o HalfBytes(e.param[1])) = 4
    <3>1. Len(HalfBytes(e.half) \o HalfBytes(e.param[1]))
            = Len(HalfBytes(e.half)) + Len(HalfBytes(e.param[1]))
      BY <1>2, <2>2, ConcatProperties
    <3> QED
      BY <1>2, <2>2, <3>1, ConcatProperties
  <2> QED
    BY <1>4, <2>3 DEF EntryBytes, Elements, EntrySize
<1> QED
  BY <1>3, <1>4

(* Its entries grow by one.                                                *)
LEMMA EntryAdded ==
  ASSUME NEW b \in LoadedBlocks, NEW e \in LoadedEntries
  PROVE  /\ WithEntry(b, e) \in LoadedBlocks /\ WithEntry(b, e).va = b.va
         /\ ElementCount(WithEntry(b, e)) = ElementCount(b) + Elements(e)
         /\ EntriesBytes(WithEntry(b, e).entries) = EntriesBytes(b.entries) \o EntryBytes(e)
<1> DEFINE c == WithEntry(b, e)
           es == b.entries
           n == Len(es)
           had == {k \in DOMAIN es : es[k].param # None}
           after == {k \in DOMAIN c.entries : c.entries[k].param # None}
<1>1. /\ es \in Seq(LoadedEntries) /\ n \in Nat /\ DOMAIN es = 1..n
      /\ c.entries = Append(es, e) /\ Len(c.entries) = n + 1
      /\ c \in [va : U32, size : U32, errors : SUBSET BlockErrors, entries : Seq(LoadedEntries)]
      /\ c.va = b.va
  <2>1. /\ b \in [va : U32, size : U32, errors : SUBSET BlockErrors, entries : Seq(LoadedEntries)]
        /\ es \in Seq(LoadedEntries)
    BY DEF LoadedBlocks
  <2>2. c = [b EXCEPT !.entries = Append(es, e)]
    BY DEF WithEntry
  <2>3. Append(es, e) \in Seq(LoadedEntries) /\ Len(Append(es, e)) = Len(es) + 1
    BY <2>1
  <2> HIDE DEF es, c
  <2>4. /\ c.entries = Append(es, e) /\ c.va = b.va
        /\ c \in [va : U32, size : U32, errors : SUBSET BlockErrors, entries : Seq(LoadedEntries)]
    BY <2>1, <2>2, <2>3
  <2> QED
    BY <2>1, <2>3, <2>4
<1>2. /\ DOMAIN c.entries = 1..(n + 1) /\ c.entries[n + 1] = e
      /\ \A k \in 1..n : c.entries[k] = es[k]
  BY <1>1
<1>3. EntryBytes(e) \in Seq(Bytes) /\ Len(EntryBytes(e)) = EntrySize * Elements(e)
  BY EntryWritten
<1>4. IsFiniteSet(had) /\ n + 1 \notin had
  <2>1. IsFiniteSet(1..n)
    <3>1. 1 \in Int /\ n \in Int
      BY <1>1
    <3> HIDE DEF n
    <3> QED
      BY <3>1, FS_Interval
  <2>2. had \subseteq 1..n
    BY <1>1
  <2> QED
    BY <1>1, <2>1, <2>2, FS_Subset
<1>5. after = IF e.param # None THEN had \cup {n + 1} ELSE had
  <2>1. \A k : k \in 1..(n + 1) <=> k \in 1..n \/ k = n + 1
    BY <1>1
  <2>2. \A k \in 1..n : k # n + 1
    BY <1>1
  <2> HIDE DEF c, n, es
  <2> QED
    BY <1>1, <1>2, <2>1, <2>2
<1>6. Cardinality(after) = Cardinality(had) + (IF e.param # None THEN 1 ELSE 0)
  <2> HIDE DEF had, after
  <2>1. Cardinality(had \cup {n + 1}) = Cardinality(had) + 1
    BY <1>4, FS_AddElement
  <2>2. Cardinality(had) \in Nat
    BY <1>4, FS_CardinalityType
  <2> QED
    BY <1>5, <2>1, <2>2
<1>7. ElementCount(c) = ElementCount(b) + Elements(e)
  <2>1. ElementCount(b) = n + Cardinality(had)
    BY DEF ElementCount
  <2>2. ElementCount(c) = (n + 1) + Cardinality(after)
    BY <1>1 DEF ElementCount
  <2>3. Cardinality(had) \in Nat
    BY <1>4, FS_CardinalityType
  <2> HIDE DEF had, after, n, c
  <2> QED
    BY <1>1, <1>6, <2>1, <2>2, <2>3 DEF Elements
<1>8. EntriesBytes(c.entries) = EntriesBytes(es) \o EntryBytes(e)
  <2> DEFINE s == [k \in DOMAIN es |-> EntryBytes(es[k])]
             t == [k \in DOMAIN c.entries |-> EntryBytes(c.entries[k])]
  <2>1. s \in Seq(Seq(Bytes)) /\ Len(s) = n
    <3>1. \A k \in 1..n : es[k] \in LoadedEntries
      BY <1>1
    <3>2. \A k \in 1..n : EntryBytes(es[k]) \in Seq(Bytes)
      BY <3>1, EntryWritten
    <3> QED
      BY <1>1, <3>2
  <2>2. t = Append(s, EntryBytes(e))
    BY <1>1, <1>2, <2>1
  <2> HIDE DEF s, t
  <2>3. FlattenSeq(t) = FlattenSeq(s) \o EntryBytes(e)
    BY <1>3, <2>1, <2>2, FlattenAppend
  <2> QED
    BY <2>3 DEF EntriesBytes, s, t
<1>9. /\ EntriesBytes(es) \in Seq(Bytes) /\ ElementCount(b) \in Nat
      /\ Len(EntriesBytes(es)) = EntrySize * ElementCount(b)
  BY DEF LoadedBlocks
<1> HIDE DEF c, es
<1>10. /\ EntriesBytes(c.entries) \in Seq(Bytes) /\ ElementCount(c) \in Nat
       /\ Len(EntriesBytes(c.entries)) = EntrySize * ElementCount(c)
  <2>1. /\ EntriesBytes(es) \o EntryBytes(e) \in Seq(Bytes)
        /\ Len(EntriesBytes(es) \o EntryBytes(e)) = Len(EntriesBytes(es)) + Len(EntryBytes(e))
    BY <1>3, <1>9, ConcatProperties
  <2>2. Elements(e) \in Nat
    BY DEF Elements
  <2> QED
    BY <1>3, <1>7, <1>8, <1>9, <2>1, <2>2 DEF EntrySize
<1>11. c \in LoadedBlocks
  BY <1>1, <1>10 DEF LoadedBlocks
<1> QED
  BY <1>1, <1>7, <1>8, <1>11 DEF c, es

(* A block has no entries at first.                                        *)
LEMMA BlockBegun ==
  ASSUME NEW va \in U32, NEW size \in U32, NEW es \in SUBSET BlockErrors
  PROVE  /\ Block(va, size, es) \in LoadedBlocks /\ Block(va, size, es).va = va
         /\ ElementCount(Block(va, size, es)) = 0 /\ EntriesBytes(<<>>) = <<>>
<1> DEFINE b == Block(va, size, es)
<1>1. /\ b.entries = <<>> /\ b.va = va
      /\ b \in [va : U32, size : U32, errors : SUBSET BlockErrors, entries : Seq(LoadedEntries)]
  BY DEF Block
<1>2. EntriesBytes(<<>>) = <<>>
  <2>1. [k \in DOMAIN <<>> |-> EntryBytes(<<>>[k])] = <<>>
    OBVIOUS
  <2> QED
    BY <2>1, FlattenEmpty DEF EntriesBytes
<1> HIDE DEF b
<1>3. ElementCount(b) = 0
  <2> DEFINE with == {k \in DOMAIN b.entries : b.entries[k].param # None}
  <2>1. with = {} /\ Len(b.entries) = 0
    BY <1>1
  <2>2. ElementCount(b) = Len(b.entries) + Cardinality(with)
    BY DEF ElementCount
  <2>3. Cardinality({}) = 0
    BY FS_EmptySet
  <2> HIDE DEF with
  <2> QED
    BY <2>1, <2>2, <2>3
<1>4. /\ <<>> \in Seq(Bytes) /\ Len(<<>>) = 0
  OBVIOUS
<1> QED
  BY <1>1, <1>2, <1>3, <1>4 DEF LoadedBlocks, EntrySize, b

(* A block is written with its size, and padded.                           *)
Written8(b, align) == DescriptorSize + EntrySize * (ElementCount(b) + Padding(b, align))

LEMMA BlockWritten ==
  ASSUME NEW b \in LoadedBlocks, NEW align \in BOOLEAN
  PROVE  /\ BlockBytes(b, align) \in Seq(Int) /\ Written8(b, align) \in Nat
         /\ Len(BlockBytes(b, align)) = Written8(b, align)
         /\ Written8(b, align) \in U32 => BlockBytes(b, align) \in Seq(Bytes)
<1> DEFINE size == Written8(b, align)
           va == WordBytes(b.va)
           sz == WordBytes(size)
           es == EntriesBytes(b.entries)
           pad == IF Padding(b, align) = 1 THEN HalfBytes(0) ELSE <<>>
<1>1. /\ b.va \in U32 /\ b.va \in Nat /\ es \in Seq(Bytes)
      /\ ElementCount(b) \in Nat /\ Len(es) = EntrySize * ElementCount(b)
  BY ByteWidths DEF LoadedBlocks, U32
<1>2. Padding(b, align) \in {0, 1}
  BY DEF Padding
<1>3. size \in Nat
  BY <1>1, <1>2 DEF Written8, DescriptorSize, EntrySize
<1>4. pad \in Seq(Bytes) /\ Len(pad) = EntrySize * Padding(b, align)
  <2>1. 0 \in Halves /\ 0 \in Nat
    BY ByteWidths DEF Halves
  <2>2. HalfBytes(0) \in Seq(Bytes) /\ Len(HalfBytes(0)) = 2
    BY <2>1, HalfWritten
  <2>3. <<>> \in Seq(Bytes) /\ Len(<<>>) = 0
    OBVIOUS
  <2>4. CASE Padding(b, align) = 1
    BY <2>2, <2>4 DEF EntrySize
  <2>5. CASE Padding(b, align) = 0
    BY <2>3, <2>5 DEF EntrySize
  <2> QED
    BY <1>2, <2>4, <2>5
<1>5. Bytes \subseteq Int
  BY ByteWidths DEF Bytes
<1>6. BlockBytes(b, align) = ((va \o sz) \o es) \o pad
  BY DEF BlockBytes, Written8
<1> HIDE DEF size, es, pad
<1>7. /\ va \in Seq(Bytes) /\ va \in Seq(Int) /\ Len(va) = 4
      /\ sz \in Seq(Int) /\ Len(sz) = 4 /\ (size \in U32 => sz \in Seq(Bytes))
  BY <1>1, <1>3, WordWritten
<1> HIDE DEF va, sz
<1>8. \A S : va \in Seq(S) /\ sz \in Seq(S) /\ es \in Seq(S) /\ pad \in Seq(S) =>
        /\ ((va \o sz) \o es) \o pad \in Seq(S)
        /\ Len(((va \o sz) \o es) \o pad) = ((Len(va) + Len(sz)) + Len(es)) + Len(pad)
  <2> SUFFICES ASSUME NEW S, va \in Seq(S), sz \in Seq(S), es \in Seq(S), pad \in Seq(S)
               PROVE  /\ ((va \o sz) \o es) \o pad \in Seq(S)
                      /\ Len(((va \o sz) \o es) \o pad) = ((Len(va) + Len(sz)) + Len(es)) + Len(pad)
    OBVIOUS
  <2>1. va \o sz \in Seq(S) /\ Len(va \o sz) = Len(va) + Len(sz)
    BY ConcatProperties
  <2>2. /\ (va \o sz) \o es \in Seq(S)
        /\ Len((va \o sz) \o es) = (Len(va) + Len(sz)) + Len(es)
    BY <2>1, ConcatProperties
  <2> QED
    BY <2>2, ConcatProperties
<1>9. es \in Seq(Int) /\ pad \in Seq(Int)
  BY <1>1, <1>4, <1>5, <1>7, SeqWider
<1>10. /\ BlockBytes(b, align) \in Seq(Int)
       /\ Len(BlockBytes(b, align)) = ((Len(va) + Len(sz)) + Len(es)) + Len(pad)
  BY <1>6, <1>7, <1>8, <1>9
<1>11. Len(BlockBytes(b, align)) = size
  <2>1. size = 8 + 2 * (ElementCount(b) + Padding(b, align))
    BY DEF size, Written8, DescriptorSize, EntrySize
  <2>2. Len(es) = 2 * ElementCount(b) /\ Len(pad) = 2 * Padding(b, align)
    BY <1>1, <1>4 DEF EntrySize
  <2>3. Len(BlockBytes(b, align)) = ((4 + 4) + 2 * ElementCount(b)) + 2 * Padding(b, align)
    BY <1>7, <1>10, <2>2
  <2> DEFINE n == ElementCount(b)
             p == Padding(b, align)
  <2>4. n \in Nat /\ p \in Nat
    BY <1>1, <1>2
  <2> HIDE DEF n, p
  <2>5. ((4 + 4) + 2 * n) + 2 * p = 8 + 2 * (n + p)
    BY <2>4
  <2> QED
    BY <2>1, <2>3, <2>5 DEF n, p
<1>12. size \in U32 => BlockBytes(b, align) \in Seq(Bytes)
  BY <1>1, <1>4, <1>6, <1>7, <1>8
<1> QED
  BY <1>3, <1>10, <1>11, <1>12 DEF size

(* What is built of a list.                                                *)
LEMMA BuiltList ==
  ASSUME NEW blocks \in Seq(LoadedBlocks), NEW align \in BOOLEAN
  PROVE  /\ Built(blocks, align) \in Seq(Int)
         /\ \A b \in LoadedBlocks :
              Built(Append(blocks, b), align) = Built(blocks, align) \o BlockBytes(b, align)
         /\ Len(Built(blocks, align)) <= U32Max => Built(blocks, align) \in Seq(Bytes)
<1> DEFINE s == [i \in DOMAIN blocks |-> BlockBytes(blocks[i], align)]
           n == Len(blocks)
<1>1. n \in Nat /\ DOMAIN blocks = 1..n /\ \A i \in 1..n : blocks[i] \in LoadedBlocks
  OBVIOUS
<1>2. \A i \in 1..n : BlockBytes(blocks[i], align) \in Seq(Int)
  BY <1>1, BlockWritten
<1>3. s \in Seq(Seq(Int)) /\ Len(s) = n
  BY <1>1, <1>2
<1>4. Built(blocks, align) = FlattenSeq(s)
  BY DEF Built
<1>5. FlattenSeq(s) \in Seq(Int)
  <2>1. <<>> \in Seq(Int)
    OBVIOUS
  <2> HIDE DEF s
  <2> QED
    BY <1>3, <2>1, FlattenAppend
<1>6. ASSUME NEW b \in LoadedBlocks
      PROVE  Built(Append(blocks, b), align) = Built(blocks, align) \o BlockBytes(b, align)
  <2> DEFINE more == Append(blocks, b)
             t == [i \in DOMAIN more |-> BlockBytes(more[i], align)]
             x == BlockBytes(b, align)
  <2>1. DOMAIN more = 1..(n + 1) /\ more[n + 1] = b /\ \A i \in 1..n : more[i] = blocks[i]
    OBVIOUS
  <2>2. t = Append(s, x)
    <3> HIDE DEF more
    <3> QED
      BY <1>1, <1>3, <2>1
  <2>3. x \in Seq(Int)
    BY BlockWritten
  <2> HIDE DEF s, t, x
  <2>4. FlattenSeq(t) = FlattenSeq(s) \o x
    BY <1>3, <2>2, <2>3, FlattenAppend
  <2> QED
    BY <1>4, <2>4 DEF Built, t, x
<1>7. ASSUME Len(Built(blocks, align)) <= U32Max PROVE Built(blocks, align) \in Seq(Bytes)
  <2>1. ASSUME NEW i \in 1..n PROVE BlockBytes(blocks[i], align) \in Seq(Bytes)
    <3>1. blocks[i] \in LoadedBlocks /\ i \in DOMAIN s /\ s[i] = BlockBytes(blocks[i], align)
      BY <1>1
    <3>2. Len(s[i]) <= Len(FlattenSeq(s))
      <4> HIDE DEF s
      <4> QED
        BY <1>3, <3>1, FlattenLonger
    <3>3. /\ Written8(blocks[i], align) \in Nat
          /\ Len(BlockBytes(blocks[i], align)) = Written8(blocks[i], align)
      BY <3>1, BlockWritten
    <3>4. Len(FlattenSeq(s)) \in Nat /\ Len(FlattenSeq(s)) <= U32Max
      BY <1>4, <1>5, <1>7
    <3>5. Written8(blocks[i], align) \in U32
      <4> HIDE DEF s
      <4> QED
        BY <3>1, <3>2, <3>3, <3>4, ByteWidths DEF U32
    <3> QED
      BY <3>1, <3>5, BlockWritten
  <2>2. s \in Seq(Seq(Bytes)) /\ <<>> \in Seq(Bytes)
    BY <1>1, <2>1
  <2> HIDE DEF s
  <2>3. FlattenSeq(s) \in Seq(Bytes)
    BY <2>2, FlattenAppend
  <2> QED
    BY <1>4, <2>3
<1> QED
  BY <1>4, <1>5, <1>6, <1>7

(* Regions of a file that is not the one being loaded any more.            *)
Read(f, rva, n) ==
  [k \in 1..n |->
    LET i == (rva + k - 1) - f.start IN IF i < Len(f.bytes) THEN f.bytes[i + 1] ELSE 0]

LEMMA RegionIsRead == \A rva, n : Region(rva, n) = Read(file, rva, n)
  BY DEF Region, Byte, Read

LEMMA RegionGrows ==
  ASSUME NEW a \in Nat, NEW x \in Nat, a <= x, NEW n \in Nat
  PROVE  Region(a, x - a) \o Region(x, n) = Region(a, (x + n) - a)
<1> DEFINE m == x - a
<1>1. m \in Nat /\ a + m = x /\ m + n = (x + n) - a
  OBVIOUS
<1> HIDE DEF m
<1>2. Region(a, m) \o Region(a + m, n) = Region(a, m + n)
  <2>1. a \in Int /\ m \in Nat /\ n \in Nat
    BY <1>1
  <2> QED
    BY <2>1, RegionJoins
<1> QED
  BY <1>1, <1>2 DEF m

Tolerated == {"unaligned", "unsupported"}

CleanBlock(b) ==
  b.errors \subseteq Tolerated /\ \A k \in DOMAIN b.entries : b.entries[k].errors \subseteq Tolerated

LEMMA AllTolerated ==
  ASSUME NEW es, NEW l
  PROVE  (es \cup OuterErrors(l)) \cup InnerErrors(l) \subseteq Tolerated
         <=> es \subseteq Tolerated /\ \A i \in DOMAIN l : CleanBlock(l[i])
<1>1. OuterErrors(l) \subseteq Tolerated <=> \A i \in DOMAIN l : l[i].errors \subseteq Tolerated
  BY DEF OuterErrors
<1>2. \A i \in DOMAIN l : ErrorsOfEntries(l[i]) \subseteq Tolerated
        <=> \A k \in DOMAIN l[i].entries : l[i].entries[k].errors \subseteq Tolerated
  BY DEF ErrorsOfEntries
<1>3. InnerErrors(l) \subseteq Tolerated
        <=> \A i \in DOMAIN l : ErrorsOfEntries(l[i]) \subseteq Tolerated
  BY DEF InnerErrors
<1>4. (es \cup OuterErrors(l)) \cup InnerErrors(l) \subseteq Tolerated
        <=> es \subseteq Tolerated /\ OuterErrors(l) \subseteq Tolerated
              /\ InnerErrors(l) \subseteq Tolerated
  OBVIOUS
<1> QED
  BY <1>1, <1>2, <1>3, <1>4 DEF CleanBlock

LEMMA CleanIs ==
  /\ Clean <=> errors \subseteq Tolerated /\ \A i \in DOMAIN list : CleanBlock(list[i])
  /\ Clean' <=> errors' \subseteq Tolerated /\ \A i \in DOMAIN list' : CleanBlock(list'[i])
<1>1. /\ Clean <=> (errors \cup OuterErrors(list)) \cup InnerErrors(list) \subseteq Tolerated
      /\ Clean' <=> (errors' \cup OuterErrors(list')) \cup InnerErrors(list') \subseteq Tolerated
  BY DEF Clean, AllErrors, Tolerated
<1> QED
  BY <1>1, AllTolerated

Faithful(clean, f, p, at, n, l) ==
  clean =>
    /\ p = "block" => Built(l, FALSE) = Read(f, f.rva, at - f.rva)
    /\ p = "elements" =>
         Built(Front(l), FALSE) \o BytesSoFar(Last(l), n) = Read(f, f.rva, at - f.rva)
    /\ p = "returned" => Built(l, FALSE) = Read(f, f.rva, f.size)

LEMMA FaithfulIs ==
  /\ SoFarFaithful <=> Faithful(Clean, file, phase, cur, count, list)
  /\ SoFarFaithful' <=> Faithful(Clean', file', phase', cur', count', list')
  BY DEF SoFarFaithful, Faithful, Region, Byte, Read

(* A new block is the last one.                                            *)
LEMMA BlockAdded ==
  ASSUME LoadShape, NEW b \in LoadedBlocks, NEW after, NEW rva, NEW n,
         AddBlock(b, after, rva, n), after \in {"block", "elements", "returned"},
         rva \in Nat, file.rva <= rva, n \in Nat
  PROVE  /\ LoadShape' /\ file' = file /\ phase' = after /\ cur' = rva /\ count' = n
         /\ list' = Append(list, b) /\ Front(list') = list /\ Last(list') = b
         /\ Clean' => Clean /\ CleanBlock(b)
<1>1. /\ file' = file /\ phase' = after /\ cur' = rva /\ count' = n /\ errors' = errors
      /\ list' = Append(list, b)
  BY DEF AddBlock, Context
<1>2. /\ list \in Seq(LoadedBlocks) /\ file \in DirectoryFiles
      /\ list' \in Seq(LoadedBlocks) /\ Len(list') = Len(list) + 1 /\ list' # <<>>
      /\ list'[Len(list) + 1] = b /\ \A i \in 1..Len(list) : list'[i] = list[i]
  BY <1>1 DEF LoadShape
<1>3. Front(list') = list /\ Last(list') = b
  BY <1>1, <1>2 DEF Front, Last
<1>4. LoadShape'
  BY <1>1, <1>2 DEF LoadShape
<1>5. Clean' => Clean /\ CleanBlock(b)
  <2>1. /\ Len(list) \in Nat /\ DOMAIN list = 1..Len(list) /\ DOMAIN list' = 1..(Len(list) + 1)
    BY <1>2
  <2>2. Len(list) + 1 \in DOMAIN list' /\ DOMAIN list \subseteq DOMAIN list'
    BY <2>1
  <2> QED
    BY <1>1, <1>2, <2>1, <2>2, CleanIs
<1> QED
  BY <1>1, <1>3, <1>4, <1>5

(* A new entry is the last one of the last block.                          *)
LEMMA EntryAppended ==
  ASSUME LoadShape, list # <<>>, NEW half \in Halves, NEW param \in {None} \cup {<<h>> : h \in Halves},
         NEW es \in SUBSET EntryErrors, NEW after, NEW rva, NEW n,
         AddEntry(half, param, es, after, rva, n), after \in {"block", "elements", "returned"},
         rva \in Nat, file.rva <= rva, n \in Nat
  PROVE  LET e == [half |-> half, param |-> param, errors |-> es] IN
         /\ LoadShape' /\ file' = file /\ phase' = after /\ cur' = rva /\ count' = n
         /\ e \in LoadedEntries /\ Front(list) \in Seq(LoadedBlocks) /\ Last(list) \in LoadedBlocks
         /\ Front(list') = Front(list) /\ Last(list') = WithEntry(Last(list), e)
         /\ Clean' => Clean /\ es \subseteq Tolerated
<1> DEFINE e == [half |-> half, param |-> param, errors |-> es]
           front == Front(list)
           b == Last(list)
           c == WithEntry(b, e)
           m == Len(list)
<1>1. /\ file' = file /\ phase' = after /\ cur' = rva /\ count' = n /\ errors' = errors
      /\ list' = Append(front, c)
  BY DEF AddEntry, Context
<1>2. e \in LoadedEntries
  BY DEF LoadedEntries
<1>3. /\ file \in DirectoryFiles /\ list \in Seq(LoadedBlocks) /\ m \in Nat \ {0}
      /\ front \in Seq(LoadedBlocks) /\ b \in LoadedBlocks
      /\ Len(front) = m - 1 /\ b = list[m] /\ \A i \in 1..(m - 1) : front[i] = list[i]
  <2>1. file \in DirectoryFiles /\ list \in Seq(LoadedBlocks) /\ m \in Nat \ {0}
    BY DEF LoadShape
  <2>2. front = SubSeq(list, 1, m - 1) /\ b = list[m]
    BY DEF Front, Last
  <2>0. m = Len(list)
    OBVIOUS
  <2> HIDE DEF front, b, m
  <2>3. b \in LoadedBlocks
    <3>1. m \in 1..Len(list)
      BY <2>0, <2>1
    <3> QED
      BY <2>1, <2>2, <3>1
  <2>4. m - 1 \in 0..Len(list)
    BY <2>0, <2>1
  <2>5. front \in Seq(LoadedBlocks) /\ Len(front) = m - 1
    BY <2>1, <2>2, <2>4
  <2>6. \A i \in 1..(m - 1) : front[i] = list[i]
    BY <2>1, <2>2, <2>4
  <2> QED
    BY <2>1, <2>2, <2>3, <2>5, <2>6
<1>4. c \in LoadedBlocks
  BY <1>2, <1>3, EntryAdded
<1> HIDE DEF front, c
<1>5. /\ list' \in Seq(LoadedBlocks) /\ Len(list') = m /\ list' # <<>>
      /\ list'[m] = c /\ \A i \in 1..(m - 1) : list'[i] = front[i]
  BY <1>1, <1>3, <1>4
<1>6. Front(list') = front /\ Last(list') = c
  BY <1>1, <1>3, <1>4, <1>5 DEF Front, Last
<1>7. LoadShape'
  BY <1>1, <1>3, <1>5 DEF LoadShape
<1>8. /\ c.errors = b.errors
      /\ DOMAIN b.entries \subseteq DOMAIN c.entries
      /\ \A k \in DOMAIN b.entries : c.entries[k] = b.entries[k]
      /\ \E k \in DOMAIN c.entries : c.entries[k] = e
  <2>1. /\ b \in [va : U32, size : U32, errors : SUBSET BlockErrors, entries : Seq(LoadedEntries)]
        /\ b.entries \in Seq(LoadedEntries)
    BY <1>3 DEF LoadedBlocks
  <2>2. c.errors = b.errors /\ c.entries = Append(b.entries, e)
    BY <2>1 DEF WithEntry, c
  <2>3. Len(b.entries) + 1 \in DOMAIN c.entries /\ c.entries[Len(b.entries) + 1] = e
    BY <2>1, <2>2
  <2> HIDE DEF b, e
  <2> QED
    BY <2>1, <2>2, <2>3
<1>9. CleanBlock(c) => CleanBlock(b) /\ es \subseteq Tolerated
  <2> HIDE DEF b
  <2> QED
    BY <1>8 DEF CleanBlock
<1>10. Clean' => Clean /\ es \subseteq Tolerated
  <2> SUFFICES ASSUME Clean' PROVE Clean /\ es \subseteq Tolerated
    OBVIOUS
  <2>1. DOMAIN list = 1..m /\ DOMAIN list' = 1..m /\ m \in 1..m
    BY <1>3, <1>5
  <2>0. errors' \subseteq Tolerated /\ \A i \in 1..m : CleanBlock(list'[i])
    BY <2>1, CleanIs
  <2>2. errors' \subseteq Tolerated /\ CleanBlock(c) /\ \A i \in 1..(m - 1) : CleanBlock(list'[i])
    BY <1>3, <1>5, <2>0, <2>1
  <2>3. \A i \in 1..(m - 1) : CleanBlock(list[i])
    BY <1>3, <1>5, <2>2
  <2>4. \A i \in 1..m : i = m \/ i \in 1..(m - 1)
    BY <1>3
  <2>5. \A i \in 1..m : CleanBlock(list[i])
    BY <1>3, <1>9, <2>2, <2>3, <2>4
  <2> QED
    BY <1>1, <1>9, <2>1, <2>2, <2>5, CleanIs
<1> QED
  BY <1>1, <1>2, <1>3, <1>6, <1>7, <1>10 DEF front, c

LEMMA BuiltNothing == \A align : Built(<<>>, align) = <<>>
<1> SUFFICES ASSUME NEW align PROVE Built(<<>>, align) = <<>>
  OBVIOUS
<1>1. [i \in DOMAIN <<>> |-> BlockBytes(<<>>[i], align)] = <<>>
  OBVIOUS
<1> QED
  BY <1>1, FlattenEmpty DEF Built

(* A load begins with nothing.                                             *)
LEMMA BegunFaithful ==
  ASSUME NEW f \in DirectoryFiles, NEW clean \in BOOLEAN, NEW p,
         p = "block" \/ (p = "returned" /\ ~clean)
  PROVE  Faithful(clean, f, p, f.rva, 0, <<>>)
<1>1. f.rva - f.rva = 0
  BY DEF DirectoryFiles, U32
<1>2. Read(f, f.rva, 0) = <<>>
  BY DEF Read
<1> QED
  BY <1>1, <1>2, BuiltNothing DEF Faithful

LEMMA LoadInitially == Init => LoadInv
<1> SUFFICES ASSUME Init PROVE LoadInv
  OBVIOUS
<1>1. /\ file \in DirectoryFiles /\ cur = file.rva /\ count = 0 /\ list = <<>>
      /\ \/ phase = "block" /\ errors = {}
         \/ phase = "returned" /\ errors = {"directory_size"}
  BY RelocationAssumption DEF Init, Start
<1>2. LoadShape
  <2>1. cur \in Nat /\ file.rva <= cur
    BY <1>1 DEF DirectoryFiles, U32
  <2>2. <<>> \in Seq(LoadedBlocks)
    OBVIOUS
  <2> QED
    BY <1>1, <2>1, <2>2 DEF LoadShape
<1>3. phase = "returned" => ~Clean
  BY <1>1, CleanIs DEF Tolerated
<1>4. Faithful(Clean, file, phase, file.rva, 0, <<>>)
  <2>1. Clean \in BOOLEAN /\ file \in DirectoryFiles
    BY <1>1 DEF Clean
  <2>2. phase = "block" \/ (phase = "returned" /\ ~Clean)
    BY <1>1, <1>3
  <2> QED
    BY <2>1, <2>2, BegunFaithful
<1> QED
  BY <1>1, <1>2, <1>4, FaithfulIs DEF LoadInv

(* What is not clean says nothing.                                         *)
LEMMA BlockFaulty ==
  ASSUME LoadInv, NEW va \in U32, NEW size \in U32, NEW es \in SUBSET BlockErrors,
         NEW after, NEW rva, NEW n, AddBlock(Block(va, size, es), after, rva, n),
         after \in {"block", "elements", "returned"}, rva \in Nat, file.rva <= rva, n \in Nat,
         ~(es \subseteq Tolerated)
  PROVE  LoadInv'
<1> DEFINE b == Block(va, size, es)
<1>1. b \in LoadedBlocks /\ b.errors = es
  BY BlockBegun DEF Block
<1> HIDE DEF b
<1>2. LoadShape' /\ (Clean' => CleanBlock(b))
  BY <1>1, BlockAdded DEF LoadInv, b
<1>3. ~Clean'
  BY <1>1, <1>2 DEF CleanBlock
<1>4. SoFarFaithful'
  BY <1>3, FaithfulIs DEF Faithful
<1> QED
  BY <1>2, <1>4 DEF LoadInv

LEMMA EntryFaulty ==
  ASSUME LoadInv, list # <<>>, NEW half \in Halves, NEW param \in {None} \cup {<<h>> : h \in Halves},
         NEW es \in SUBSET EntryErrors, NEW after, NEW rva, NEW n,
         AddEntry(half, param, es, after, rva, n), after \in {"block", "elements", "returned"},
         rva \in Nat, file.rva <= rva, n \in Nat, ~(es \subseteq Tolerated)
  PROVE  LoadInv'
<1>1. LoadShape' /\ ~Clean'
  BY EntryAppended DEF LoadInv
<1>2. SoFarFaithful'
  BY <1>1, FaithfulIs DEF Faithful
<1> QED
  BY <1>1, <1>2 DEF LoadInv

(* The descriptor of a block.                                              *)
LEMMA DescriptorRead ==
  ASSUME LoadShape, Readable(cur, DescriptorSize)
  PROVE  /\ Word(cur) \in U32 /\ Word(cur + 4) \in U32
         /\ WordBytes(Word(cur)) \o WordBytes(Word(cur + 4)) = Region(cur, 8)
<1>1. file \in DirectoryFiles /\ cur \in Nat
  BY DEF LoadShape
<1>2. \A k \in Nat : k < 8 => Byte(cur + k) \in Bytes
  <2>1. 8 \in Nat /\ Readable(cur, 8)
    BY DEF DescriptorSize
  <2> QED
    BY <1>1, <2>1, BytesThere
<1>3. \A k \in Nat : k < 4 => Byte(cur + k) \in Bytes
  BY <1>2
<1>4. \A k \in Nat : k < 4 => Byte((cur + 4) + k) \in Bytes
  <2> SUFFICES ASSUME NEW k \in Nat, k < 4 PROVE Byte((cur + 4) + k) \in Bytes
    OBVIOUS
  <2>1. k + 4 \in Nat /\ k + 4 < 8 /\ (cur + 4) + k = cur + (k + 4)
    BY <1>1
  <2> QED
    BY <1>2, <2>1
<1>5. /\ Word(cur) \in U32 /\ WordBytes(Word(cur)) = Region(cur, 4)
  <2>1. cur \in Int
    BY <1>1
  <2> QED
    BY <1>3, <2>1, WordRead
<1>6. /\ Word(cur + 4) \in U32 /\ WordBytes(Word(cur + 4)) = Region(cur + 4, 4)
  <2> DEFINE x == cur + 4
  <2>1. x \in Int /\ \A k \in Nat : k < 4 => Byte(x + k) \in Bytes
    BY <1>1, <1>4
  <2> HIDE DEF x
  <2>2. Word(x) \in U32 /\ WordBytes(Word(x)) = Region(x, 4)
    BY <2>1, WordRead
  <2> QED
    BY <2>2 DEF x
<1>7. Region(cur, 4) \o Region(cur + 4, 4) = Region(cur, 8)
  <2>1. cur \in Int /\ 4 \in Nat /\ 4 + 4 = 8
    BY <1>1
  <2>2. Region(cur, 4) \o Region(cur + 4, 4) = Region(cur, 4 + 4)
    BY <2>1, RegionJoins
  <2> QED
    BY <2>1, <2>2
<1> QED
  BY <1>5, <1>6, <1>7

LEMMA EvenBlockInv ==
  ASSUME LoadInv, phase = "block", Readable(cur, DescriptorSize),
         BlockEven(Word(cur), Word(cur + 4))
  PROVE  LoadInv'
<1> DEFINE a == file.rva
           va == Word(cur)
           size == Word(cur + 4)
           b == Block(va, size, Misaligned)
           n == (size - DescriptorSize) \div EntrySize
<1>1. /\ file \in DirectoryFiles /\ cur \in Nat /\ a \in Nat /\ a <= cur
      /\ list \in Seq(LoadedBlocks)
  BY DEF LoadInv, LoadShape, DirectoryFiles, U32
<1>2. /\ va \in U32 /\ size \in U32 /\ WordBytes(va) \o WordBytes(size) = Region(cur, 8)
      /\ va \in Nat /\ size \in Nat
  BY DescriptorRead DEF LoadInv, U32
<1>3. AddBlock(b, "elements", cur + 8, n) /\ size >= 8 /\ size % 2 = 0
  BY DEF BlockEven, DescriptorSize
<1> HIDE DEF va, size
<1>4. n \in Nat /\ DescriptorSize + EntrySize * (0 + n) = size
  <2> DEFINE more == size - 8
  <2>1. more \in Nat /\ more % 2 = 0 /\ more = size - 8
    BY <1>2, <1>3
  <2> HIDE DEF more
  <2>2. /\ more \div 2 \in Nat /\ more = 2 * (more \div 2)
    BY <2>1
  <2>3. n = more \div 2
    BY <2>1 DEF DescriptorSize, EntrySize
  <2> HIDE DEF n
  <2>4. 8 + 2 * (0 + n) = size
    BY <1>2, <2>1, <2>2, <2>3
  <2> QED
    BY <2>2, <2>3, <2>4 DEF DescriptorSize, EntrySize
<1>5. /\ b \in LoadedBlocks /\ b.va = va /\ b.entries = <<>> /\ ElementCount(b) = 0
      /\ EntriesBytes(<<>>) = <<>>
  <2>1. Misaligned \in SUBSET BlockErrors
    BY DEF Misaligned, BlockErrors
  <2> QED
    BY <1>2, <2>1, BlockBegun DEF Block
<1> HIDE DEF b, n
<1>6. /\ LoadShape' /\ file' = file /\ phase' = "elements" /\ cur' = cur + 8 /\ count' = n
      /\ Front(list') = list /\ Last(list') = b /\ (Clean' => Clean)
  <2>1. cur + 8 \in Nat /\ file.rva <= cur + 8
    BY <1>1
  <2> QED
    BY <1>3, <1>4, <1>5, <2>1, BlockAdded DEF LoadInv
<1>7. BytesSoFar(b, n) = Region(cur, 8)
  <2>1. /\ WordBytes(va) \in Seq(Int) /\ WordBytes(size) \in Seq(Int)
    BY <1>2, WordWritten
  <2>2. WordBytes(va) \o WordBytes(size) \in Seq(Int)
    BY <2>1, ConcatProperties
  <2>3. (WordBytes(va) \o WordBytes(size)) \o <<>> = WordBytes(va) \o WordBytes(size)
    BY <2>2, ConcatEmptySeq
  <2> QED
    BY <1>2, <1>4, <1>5, <2>3 DEF BytesSoFar
<1>8. ASSUME Clean PROVE Built(list, FALSE) \o BytesSoFar(b, n) = Read(file, a, (cur + 8) - a)
  <2>1. Built(list, FALSE) = Region(a, cur - a)
    BY <1>8 DEF LoadInv, SoFarFaithful
  <2>2. Region(a, cur - a) \o Region(cur, 8) = Region(a, (cur + 8) - a)
    <3>1. 8 \in Nat
      OBVIOUS
    <3> QED
      BY <1>1, <3>1, RegionGrows
  <2> QED
    BY <1>7, <2>1, <2>2, RegionIsRead
<1>9. Faithful(Clean', file', phase', cur', count', list')
  BY <1>6, <1>8 DEF Faithful
<1> QED
  BY <1>6, <1>9, FaithfulIs DEF LoadInv

(* The bytes of a block so far grow by those of an entry.                  *)
LEMMA SoFarGrows ==
  ASSUME NEW b \in LoadedBlocks, NEW e \in LoadedEntries, NEW n \in Nat, NEW m \in Nat,
         n = m + Elements(e)
  PROVE  /\ BytesSoFar(b, n) \in Seq(Int) /\ EntryBytes(e) \in Seq(Int)
         /\ BytesSoFar(WithEntry(b, e), m) = BytesSoFar(b, n) \o EntryBytes(e)
<1> DEFINE c == WithEntry(b, e)
           size == DescriptorSize + EntrySize * (ElementCount(b) + n)
           header == WordBytes(b.va) \o WordBytes(size)
<1>1. /\ b.va \in Nat /\ ElementCount(b) \in Nat /\ EntriesBytes(b.entries) \in Seq(Bytes)
  BY DEF LoadedBlocks, U32
<1>2. Bytes \subseteq Int
  BY ByteWidths DEF Bytes
<1>3. EntriesBytes(b.entries) \in Seq(Int) /\ EntryBytes(e) \in Seq(Int)
  BY <1>1, <1>2, EntryWritten, SeqWider
<1>4. size \in Nat
  BY <1>1 DEF DescriptorSize, EntrySize
<1> HIDE DEF size
<1>5. header \in Seq(Int)
  <2>1. WordBytes(b.va) \in Seq(Int) /\ WordBytes(size) \in Seq(Int)
    BY <1>1, <1>4, WordWritten
  <2> QED
    BY <2>1, ConcatProperties
<1>6. DescriptorSize + EntrySize * (ElementCount(c) + m) = size
  <2>1. ElementCount(c) = ElementCount(b) + Elements(e) /\ Elements(e) \in Nat
    BY EntryAdded DEF Elements
  <2>2. ElementCount(c) + m = ElementCount(b) + n
    BY <1>1, <2>1
  <2> QED
    BY <2>2 DEF size
<1>7. c.va = b.va /\ EntriesBytes(c.entries) = EntriesBytes(b.entries) \o EntryBytes(e)
  BY EntryAdded
<1> HIDE DEF c, header
<1>8. BytesSoFar(c, m) = header \o (EntriesBytes(b.entries) \o EntryBytes(e))
  BY <1>6, <1>7 DEF BytesSoFar, header
<1>9. BytesSoFar(b, n) = header \o EntriesBytes(b.entries)
  BY DEF BytesSoFar, header, size
<1>10. header \o EntriesBytes(b.entries) \in Seq(Int)
  BY <1>3, <1>5, ConcatProperties
<1>11. (header \o EntriesBytes(b.entries)) \o EntryBytes(e)
         = header \o (EntriesBytes(b.entries) \o EntryBytes(e))
  <2> DEFINE es == EntriesBytes(b.entries)
             x == EntryBytes(e)
  <2>1. header \in Seq(Int) /\ es \in Seq(Int) /\ x \in Seq(Int)
    BY <1>3, <1>5
  <2> HIDE DEF es, x, header
  <2>3. (header \o es) \o x = header \o (es \o x)
    BY <2>1, Associative
  <2> QED
    BY <2>3 DEF es, x
<1> QED
  BY <1>3, <1>8, <1>9, <1>10, <1>11 DEF c

(* An entry that is read.                                                  *)
LEMMA EntryTaken ==
  ASSUME LoadInv, phase = "elements", NEW e \in LoadedEntries, NEW rva, NEW n \in Nat,
         AddEntry(e.half, e.param, e.errors, "elements", rva, n),
         rva = cur + 2 * Elements(e), count = n + Elements(e),
         EntryBytes(e) = Region(cur, 2 * Elements(e))
  PROVE  LoadInv'
<1> DEFINE a == file.rva
           k == 2 * Elements(e)
           b == Last(list)
           built == Built(Front(list), FALSE)
           before == BytesSoFar(b, count)
           x == EntryBytes(e)
<1>1. /\ cur \in Nat /\ a \in Nat /\ a <= cur /\ count \in Nat /\ list # <<>>
      /\ k \in Nat /\ rva = cur + k /\ rva \in Nat /\ a <= rva
  <2>1. cur \in Nat /\ a \in Nat /\ a <= cur /\ count \in Nat /\ list # <<>>
    BY DEF LoadInv, LoadShape, DirectoryFiles, U32
  <2> QED
    BY <2>1 DEF Elements
<1>2. /\ e.half \in Halves /\ e.param \in {None} \cup {<<h>> : h \in Halves}
      /\ e.errors \in SUBSET EntryErrors
      /\ e = [half |-> e.half, param |-> e.param, errors |-> e.errors]
  BY DEF LoadedEntries
<1> HIDE DEF a, k
<1>3. /\ LoadShape' /\ file' = file /\ phase' = "elements" /\ cur' = rva /\ count' = n
      /\ Front(list) \in Seq(LoadedBlocks) /\ b \in LoadedBlocks
      /\ Front(list') = Front(list) /\ Last(list') = WithEntry(b, e)
      /\ (Clean' => Clean)
  <2>1. file.rva <= rva
    BY <1>1 DEF a
  <2> QED
    BY <1>1, <1>2, <2>1, EntryAppended DEF LoadInv
<1> HIDE DEF b
<1>4. before \in Seq(Int) /\ x \in Seq(Int) /\ BytesSoFar(WithEntry(b, e), n) = before \o x
  <2>1. count \in Nat /\ b \in LoadedBlocks /\ count = n + Elements(e)
    BY <1>1, <1>3
  <2>2. /\ BytesSoFar(b, count) \in Seq(Int) /\ EntryBytes(e) \in Seq(Int)
        /\ BytesSoFar(WithEntry(b, e), n) = BytesSoFar(b, count) \o EntryBytes(e)
    BY <2>1, SoFarGrows
  <2> QED
    BY <2>2
<1>5. built \in Seq(Int)
  BY <1>3, BuiltList
<1> HIDE DEF built, before, x
<1>6. built \in Seq(Int) /\ before \in Seq(Int) /\ x \in Seq(Int)
  BY <1>4, <1>5
<1>7. built \o (before \o x) = (built \o before) \o x
  BY <1>6, Associative
<1>8. ASSUME Clean PROVE built \o BytesSoFar(WithEntry(b, e), n) = Read(file, a, rva - a)
  <2>1. built \o before = Region(a, cur - a)
    BY <1>8 DEF LoadInv, SoFarFaithful, built, before, a, b
  <2>2. Region(a, cur - a) \o Region(cur, k) = Region(a, (cur + k) - a)
    BY <1>1, RegionGrows
  <2>3. x = Region(cur, k)
    BY DEF x, k
  <2> QED
    BY <1>1, <1>4, <1>7, <2>1, <2>2, <2>3, RegionIsRead
<1>9. Faithful(Clean', file', phase', cur', count', list')
  BY <1>3, <1>8 DEF Faithful, built, a
<1> QED
  BY <1>3, <1>9, FaithfulIs DEF LoadInv

LEMMA EntryThere ==
  ASSUME LoadShape, NEW rva \in Nat, Readable(rva, EntrySize)
  PROVE  Half(rva) \in Halves /\ HalfBytes(Half(rva)) = Region(rva, 2)
<1>1. file \in DirectoryFiles /\ 2 \in Nat /\ 0 \in Nat /\ 1 \in Nat /\ rva + 0 = rva
  BY DEF LoadShape
<1>2. \A k \in Nat : k < 2 => Byte(rva + k) \in Bytes
  BY <1>1, BytesThere DEF EntrySize
<1>3. Byte(rva) \in Bytes /\ Byte(rva + 1) \in Bytes
  <2>1. Byte(rva + 0) \in Bytes /\ Byte(rva + 1) \in Bytes
    BY <1>1, <1>2
  <2> QED
    BY <1>1, <2>1
<1> QED
  BY <1>3, HalfRead

LEMMA TypeErrorsOf == \A half : TypeErrors(half) \in SUBSET EntryErrors
  BY DEF TypeErrors, EntryErrors

LEMMA EntryPlainInv ==
  ASSUME LoadInv, phase = "elements", count > 0, Readable(cur, EntrySize), EntryPlain(Half(cur))
  PROVE  LoadInv'
<1> DEFINE half == Half(cur)
           es == TypeErrors(half)
           e == [half |-> half, param |-> None, errors |-> es]
<1>1. cur \in Nat /\ count \in Nat /\ count - 1 \in Nat
  BY DEF LoadInv, LoadShape
<1>2. half \in Halves /\ HalfBytes(half) = Region(cur, 2) /\ es \in SUBSET EntryErrors
  BY <1>1, EntryThere, TypeErrorsOf DEF LoadInv
<1>3. AddEntry(half, None, es, "elements", cur + 2, count - 1)
  BY DEF EntryPlain, EntrySize
<1> HIDE DEF half, es
<1>4. e \in LoadedEntries /\ Elements(e) = 1
  BY <1>2 DEF LoadedEntries, Elements
<1>5. EntryBytes(e) = Region(cur, 2)
  <2>1. half \in Nat
    BY <1>2, ByteWidths DEF Halves
  <2>2. HalfBytes(half) \o <<>> = HalfBytes(half)
    BY <2>1, HalfWritten, ConcatEmptySeq
  <2> QED
    BY <1>2, <2>2 DEF EntryBytes
<1>6. AddEntry(e.half, e.param, e.errors, "elements", cur + 2, count - 1)
  BY <1>3
<1> HIDE DEF e
<1>7. cur + 2 = cur + 2 * Elements(e) /\ count = (count - 1) + Elements(e)
      /\ EntryBytes(e) = Region(cur, 2 * Elements(e))
  BY <1>1, <1>4, <1>5
<1> QED
  BY <1>1, <1>4, <1>6, <1>7, EntryTaken

LEMMA EntryAdjustedInv ==
  ASSUME LoadInv, phase = "elements", Readable(cur, EntrySize), EntryAdjusted(Half(cur))
  PROVE  LoadInv'
<1> DEFINE half == Half(cur)
           next == cur + 2
           param == Half(next)
           es == TypeErrors(half)
           e == [half |-> half, param |-> <<param>>, errors |-> es]
<1>1. /\ cur \in Nat /\ count \in Nat /\ count > 1 /\ count - 2 \in Nat
      /\ next \in Nat /\ next + 2 = cur + 4 /\ Readable(next, EntrySize)
  BY DEF LoadInv, LoadShape, EntryAdjusted, EntrySize
<1>2. /\ half \in Halves /\ HalfBytes(half) = Region(cur, 2)
      /\ param \in Halves /\ HalfBytes(param) = Region(next, 2)
      /\ es \in SUBSET EntryErrors
  <2> HIDE DEF next
  <2>1. param \in Halves /\ HalfBytes(param) = Region(next, 2)
    BY <1>1, EntryThere DEF LoadInv
  <2> QED
    BY <1>1, <2>1, EntryThere, TypeErrorsOf DEF LoadInv
<1>3. AddEntry(half, <<param>>, es, "elements", cur + 4, count - 2)
  BY <1>1 DEF EntryAdjusted, EntrySize
<1> HIDE DEF half, param, es
<1>4. e \in LoadedEntries /\ Elements(e) = 2
  BY <1>2 DEF LoadedEntries, Elements, None
<1>5. EntryBytes(e) = Region(cur, 4)
  <2>1. EntryBytes(e) = HalfBytes(half) \o HalfBytes(param)
    BY DEF EntryBytes, None
  <2>2. cur \in Int /\ 2 \in Nat /\ 2 + 2 = 4
    BY <1>1
  <2>3. Region(cur, 2) \o Region(cur + 2, 2) = Region(cur, 2 + 2)
    BY <2>2, RegionJoins
  <2>4. HalfBytes(half) = Region(cur, 2) /\ HalfBytes(param) = Region(cur + 2, 2)
    BY <1>2
  <2> QED
    BY <2>1, <2>2, <2>3, <2>4
<1>6. AddEntry(e.half, e.param, e.errors, "elements", cur + 4, count - 2)
  BY <1>3
<1> HIDE DEF e
<1>7. cur + 4 = cur + 2 * Elements(e) /\ count = (count - 2) + Elements(e)
      /\ EntryBytes(e) = Region(cur, 2 * Elements(e))
  BY <1>1, <1>4, <1>5
<1> QED
  BY <1>1, <1>4, <1>6, <1>7, EntryTaken

LEMMA EntryWithoutParamInv ==
  ASSUME LoadInv, phase = "elements", count > 0, Readable(cur, EntrySize),
         EntryWithoutParam(Half(cur))
  PROVE  LoadInv'
<1> DEFINE half == Half(cur)
           es == TypeErrors(half) \cup {"param"}
<1>1. /\ cur \in Nat /\ count \in Nat /\ count - 1 \in Nat /\ list # <<>>
      /\ cur + 2 \in Nat /\ file.rva <= cur + 2
  BY DEF LoadInv, LoadShape, DirectoryFiles, U32
<1>2. half \in Halves
  BY <1>1, EntryThere DEF LoadInv
<1>3. es \in SUBSET EntryErrors /\ ~(es \subseteq Tolerated) /\ None \in {None} \cup {<<h>> : h \in Halves}
  BY TypeErrorsOf DEF EntryErrors, Tolerated
<1>4. PICK after \in {"elements", "returned"} :
        AddEntry(half, None, es, after, cur + 2, count - 1)
  BY DEF EntryWithoutParam, EntrySize
<1>5. after \in {"block", "elements", "returned"}
  BY <1>4
<1> HIDE DEF half, es
<1> QED
  BY <1>1, <1>2, <1>3, <1>4, <1>5, EntryFaulty

LEMMA Thrown ==
  ASSUME LoadInv, Throw
  PROVE  LoadInv'
<1>1. LoadShape'
  BY DEF LoadInv, LoadShape, Throw, Context
<1>2. SoFarFaithful'
  BY FaithfulIs DEF Faithful, Throw
<1> QED
  BY <1>1, <1>2 DEF LoadInv

LEMMA EntryUnreadInv ==
  ASSUME LoadInv, phase = "elements", EntryUnread
  PROVE  LoadInv'
<1>1. CASE Throw
  BY <1>1, Thrown
<1>2. CASE AddEntry(0, None, {"entry"}, "returned", cur, count)
  <2>1. /\ cur \in Nat /\ file.rva <= cur /\ count \in Nat /\ list # <<>> /\ 0 \in Halves
        /\ {"entry"} \in SUBSET EntryErrors /\ ~({"entry"} \subseteq Tolerated)
        /\ None \in {None} \cup {<<h>> : h \in Halves}
    BY ByteWidths DEF LoadInv, LoadShape, Halves, EntryErrors, Tolerated
  <2> QED
    BY <1>2, <2>1, EntryFaulty
<1> QED
  BY <1>1, <1>2 DEF EntryUnread

LEMMA MisalignedErrors ==
  /\ Misaligned \in SUBSET BlockErrors
  /\ \A x \in {"entry", "block_size"} :
       /\ Misaligned \cup {x} \in SUBSET BlockErrors /\ {x} \in SUBSET BlockErrors
       /\ ~(Misaligned \cup {x} \subseteq Tolerated) /\ ~({x} \subseteq Tolerated)
  BY DEF Misaligned, BlockErrors, Tolerated

LEMMA BlockUnreadInv ==
  ASSUME LoadInv, BlockUnread
  PROVE  LoadInv'
<1>1. /\ cur \in Nat /\ file.rva <= cur /\ 0 \in U32 /\ 0 \in Nat
  BY ByteWidths DEF LoadInv, LoadShape, U32
<1>2. AddBlock(Block(0, 0, {"entry"}), "returned", cur, 0)
  BY DEF BlockUnread
<1> QED
  BY <1>1, <1>2, MisalignedErrors, BlockFaulty

LEMMA BlockOverflowsInv ==
  ASSUME LoadInv, NEW va \in U32, NEW size \in U32, BlockOverflows(va, size)
  PROVE  LoadInv'
<1>1. /\ cur \in Nat /\ file.rva <= cur /\ 0 \in Nat
  BY DEF LoadInv, LoadShape
<1>2. CASE AddBlock(Block(va, size, {"entry"}), "returned", cur, 0)
  BY <1>1, <1>2, MisalignedErrors, BlockFaulty
<1>3. CASE AddBlock(Block(va, size, Misaligned \cup {"entry"}), "returned", cur, 0)
  BY <1>1, <1>3, MisalignedErrors, BlockFaulty
<1> QED
  BY <1>2, <1>3 DEF BlockOverflows

LEMMA BlockTooSmallInv ==
  ASSUME LoadInv, NEW va \in U32, NEW size \in U32, BlockTooSmall(va, size)
  PROVE  LoadInv'
<1>1. /\ cur + 8 \in Nat /\ file.rva <= cur + 8 /\ 0 \in Nat
  BY DEF LoadInv, LoadShape, DirectoryFiles, U32
<1>2. AddBlock(Block(va, size, Misaligned \cup {"block_size"}), "block", cur + 8, 0)
  BY DEF BlockTooSmall, DescriptorSize
<1> QED
  BY <1>1, <1>2, MisalignedErrors, BlockFaulty

LEMMA BlockOddInv ==
  ASSUME LoadInv, NEW va \in U32, NEW size \in U32, BlockOdd(va, size)
  PROVE  LoadInv'
<1> DEFINE next == cur + DescriptorSize + (size - DescriptorSize)
<1>1. size >= DescriptorSize
  BY DEF BlockOdd
<1>2. /\ next \in Nat /\ file.rva <= next /\ 0 \in Nat
  BY <1>1 DEF LoadInv, LoadShape, DirectoryFiles, U32, DescriptorSize
<1>3. Throw \/ AddBlock(Block(va, size, Misaligned \cup {"block_size"}), "block", next, 0)
  BY DEF BlockOdd
<1> HIDE DEF next
<1>4. CASE AddBlock(Block(va, size, Misaligned \cup {"block_size"}), "block", next, 0)
  BY <1>2, <1>4, MisalignedErrors, BlockFaulty
<1> QED
  BY <1>3, <1>4, Thrown

LEMMA LoadBlockInv ==
  ASSUME LoadInv, LoadBlock
  PROVE  LoadInv'
<1> DEFINE va == Word(cur)
           size == Word(cur + 4)
<1>1. phase = "block"
  BY DEF LoadBlock
<1>2. CASE BlockUnread
  BY <1>2, BlockUnreadInv
<1>3. CASE /\ Readable(cur, DescriptorSize)
           /\ \/ BlockOverflows(va, size) \/ BlockTooSmall(va, size)
              \/ BlockOdd(va, size) \/ BlockEven(va, size)
  <2>1. va \in U32 /\ size \in U32
    BY <1>3, DescriptorRead DEF LoadInv
  <2> HIDE DEF va, size
  <2>2. CASE BlockEven(va, size)
    BY <1>1, <1>3, <2>2, EvenBlockInv DEF va, size
  <2> QED
    BY <1>3, <2>1, <2>2, BlockOverflowsInv, BlockTooSmallInv, BlockOddInv
<1> QED
  BY <1>2, <1>3 DEF LoadBlock

LEMMA LoadEntryInv ==
  ASSUME LoadInv, LoadEntry
  PROVE  LoadInv'
<1>1. phase = "elements" /\ count > 0
  BY DEF LoadEntry
<1>2. CASE EntryUnread
  BY <1>1, <1>2, EntryUnreadInv
<1>3. CASE /\ Readable(cur, EntrySize)
           /\ \/ EntryAdjusted(Half(cur)) \/ EntryWithoutParam(Half(cur)) \/ EntryPlain(Half(cur))
  BY <1>1, <1>3, EntryAdjustedInv, EntryWithoutParamInv, EntryPlainInv
<1> QED
  BY <1>2, <1>3 DEF LoadEntry

(* A block is whole when no entry of it is left.                           *)
LEMMA EndBlockInv ==
  ASSUME LoadInv, EndBlock
  PROVE  LoadInv'
<1> DEFINE front == Front(list)
           b == Last(list)
           so == BytesSoFar(b, 0)
<1>1. /\ phase = "elements" /\ count = 0 /\ phase' = "block" /\ file' = file
      /\ cur' = cur /\ count' = count /\ list' = list /\ errors' = errors
      /\ list \in Seq(LoadedBlocks) /\ list # <<>>
  BY DEF EndBlock, Context, LoadInv, LoadShape
<1>2. LoadShape'
  BY <1>1 DEF LoadInv, LoadShape
<1>3. front \in Seq(LoadedBlocks) /\ b \in LoadedBlocks /\ list = Append(front, b)
  <2> DEFINE m == Len(list)
  <2>1. m \in Nat \ {0} /\ m \in 1..m
    BY <1>1
  <2>2. front = SubSeq(list, 1, m - 1) /\ b = list[m]
    BY DEF Front, Last
  <2>3. b \in LoadedBlocks
    BY <1>1, <2>1, <2>2
  <2>4. m - 1 \in 0..Len(list)
    BY <2>1
  <2>5. SubSeq(list, 1, m - 1) \in Seq(LoadedBlocks)
    BY <1>1, <2>4
  <2>6. list = Append(SubSeq(list, 1, m - 1), list[m])
    BY <1>1, <2>1
  <2> QED
    BY <2>2, <2>3, <2>5, <2>6
<1> HIDE DEF front, b
<1>4. Built(list, FALSE) = Built(front, FALSE) \o BlockBytes(b, FALSE)
  BY <1>3, BuiltList
<1>5. so \in Seq(Int)
  <2> DEFINE size == DescriptorSize + EntrySize * (ElementCount(b) + 0)
             es == EntriesBytes(b.entries)
  <2>1. /\ b.va \in Nat /\ ElementCount(b) \in Nat /\ es \in Seq(Bytes)
    BY <1>3 DEF LoadedBlocks, U32
  <2>2. Bytes \subseteq Int
    BY ByteWidths DEF Bytes
  <2> HIDE DEF es
  <2>3. es \in Seq(Int)
    BY <2>1, <2>2, SeqWider
  <2>4. size \in Nat
    BY <2>1 DEF DescriptorSize, EntrySize
  <2> HIDE DEF size
  <2>5. WordBytes(b.va) \in Seq(Int) /\ WordBytes(size) \in Seq(Int)
    BY <2>1, <2>4, WordWritten
  <2>6. WordBytes(b.va) \o WordBytes(size) \in Seq(Int)
    BY <2>5, ConcatProperties
  <2>7. (WordBytes(b.va) \o WordBytes(size)) \o es \in Seq(Int)
    BY <2>3, <2>6, ConcatProperties
  <2> QED
    BY <2>7 DEF BytesSoFar, size, es
<1>6. BlockBytes(b, FALSE) = so
  <2>1. Padding(b, FALSE) = 0
    BY DEF Padding
  <2> DEFINE pad == IF Padding(b, FALSE) = 1 THEN HalfBytes(0) ELSE <<>>
  <2>2. pad = <<>>
    <3>1. Padding(b, FALSE) # 1
      BY DEF Padding
    <3> QED
      BY <3>1, Zenon
  <2>3. ElementCount(b) + Padding(b, FALSE) = ElementCount(b) + 0
    BY <2>1
  <2>4. BlockBytes(b, FALSE)
          = ((WordBytes(b.va)
                \o WordBytes(DescriptorSize
                               + EntrySize * (ElementCount(b) + Padding(b, FALSE))))
               \o EntriesBytes(b.entries)) \o pad
    BY DEF BlockBytes
  <2> HIDE DEF pad
  <2>5. BlockBytes(b, FALSE) = so \o <<>>
    BY <2>2, <2>3, <2>4, Zenon DEF BytesSoFar
  <2> HIDE DEF so
  <2> QED
    BY <1>5, <2>5, ConcatEmptySeq
<1>7. Clean' <=> Clean
  BY <1>1, CleanIs
<1>8. Clean => Built(list, FALSE) = Read(file, file.rva, cur - file.rva)
  <2>1. Clean => Built(front, FALSE) \o so = Region(file.rva, cur - file.rva)
    BY <1>1 DEF LoadInv, SoFarFaithful, front, b
  <2> QED
    BY <1>4, <1>6, <2>1, RegionIsRead
<1>9. Faithful(Clean', file', phase', cur', count', list')
  BY <1>1, <1>7, <1>8 DEF Faithful
<1> QED
  BY <1>2, <1>9, FaithfulIs DEF LoadInv

(* The directory is whole when load ends where it ends.                    *)
LEMMA FinishInv ==
  ASSUME LoadInv, Finish
  PROVE  LoadInv'
<1>1. /\ phase = "block" /\ phase' = "returned" /\ file' = file /\ cur' = cur
      /\ count' = count /\ list' = list /\ list \in Seq(LoadedBlocks)
      /\ errors' = IF cur # LastRva THEN errors \cup {"directory_size"} ELSE errors
  BY DEF Finish, Context, LoadInv, LoadShape
<1>2. LoadShape'
  BY <1>1 DEF LoadInv, LoadShape
<1>3. CASE cur # LastRva
  <2>1. ~Clean'
    BY <1>1, <1>3, CleanIs DEF Tolerated
  <2> QED
    BY <1>2, <2>1, FaithfulIs DEF LoadInv, Faithful
<1>4. CASE cur = LastRva
  <2>1. Clean' <=> Clean
    BY <1>1, <1>4, CleanIs
  <2>2. cur - file.rva = file.size
    BY <1>4 DEF LastRva, LoadInv, LoadShape, DirectoryFiles, U32
  <2>3. Clean => Built(list, FALSE) = Read(file, file.rva, file.size)
    BY <1>1, <2>2, RegionIsRead DEF LoadInv, SoFarFaithful
  <2>4. Faithful(Clean', file', phase', cur', count', list')
    BY <1>1, <2>1, <2>3 DEF Faithful
  <2> QED
    BY <1>2, <2>4, FaithfulIs DEF LoadInv
<1> QED
  BY <1>3, <1>4

(* What is built is a directory again, and load begins.                    *)
LEMMA RebuildInv ==
  ASSUME LoadInv, NEW align \in BOOLEAN, Rebuild(align)
  PROVE  LoadInv'
<1> DEFINE built == Built(list, align)
           f == [file EXCEPT !.start = 0, !.bytes = built, !.virt = 0, !.rva = 0,
                             !.size = Len(built)]
<1>1. file \in DirectoryFiles /\ list \in Seq(LoadedBlocks)
  BY DEF LoadInv, LoadShape
<1>2. /\ file' = f /\ cur' = f.rva /\ count' = 0 /\ list' = <<>>
      /\ phase' = IF f.rva + f.size > U32Max THEN "returned" ELSE "block"
      /\ errors' = IF f.rva + f.size > U32Max THEN {"directory_size"} ELSE {}
      /\ Len(built) < U32Max - 8
  BY DEF Rebuild, Start, DescriptorSize
<1>3. /\ built \in Seq(Int) /\ (Len(built) <= U32Max => built \in Seq(Bytes))
  BY <1>1, BuiltList
<1> HIDE DEF built
<1>4. built \in Seq(Bytes) /\ Len(built) \in U32 /\ 0 \in U32 /\ 0 \in Nat
  <2>1. U32Max \in Nat /\ Len(built) \in Nat
    BY <1>3, ByteWidths DEF U32Max
  <2>2. Len(built) <= U32Max
    BY <1>2, <2>1
  <2> QED
    BY <1>3, <2>1, <2>2 DEF U32
<1>5. f \in DirectoryFiles /\ f.rva = 0
  BY <1>1, <1>4 DEF DirectoryFiles
<1> HIDE DEF f
<1>6. LoadShape'
  <2>1. <<>> \in Seq(LoadedBlocks)
    OBVIOUS
  <2> QED
    BY <1>2, <1>4, <1>5, <2>1 DEF LoadShape
<1>7. Clean' \in BOOLEAN
  BY DEF Clean
<1>8. phase' = "block" \/ (phase' = "returned" /\ ~Clean')
  <2>1. CASE f.rva + f.size > U32Max
    BY <1>2, <2>1, CleanIs DEF Tolerated
  <2>2. CASE ~(f.rva + f.size > U32Max)
    BY <1>2, <2>2
  <2> QED
    BY <2>1, <2>2
<1>9. Faithful(Clean', f, phase', f.rva, 0, <<>>)
  BY <1>5, <1>7, <1>8, BegunFaithful
<1>10. Faithful(Clean', file', phase', cur', count', list')
  BY <1>2, <1>9
<1> QED
  BY <1>6, <1>10, FaithfulIs DEF LoadInv

LEMMA LoadUnmoved ==
  ASSUME LoadInv, UNCHANGED vars
  PROVE  LoadInv'
<1>1. /\ file' = file /\ phase' = phase /\ cur' = cur /\ count' = count /\ list' = list
      /\ errors' = errors
  BY DEF vars
<1>2. LoadShape'
  BY <1>1 DEF LoadInv, LoadShape
<1>3. Clean' <=> Clean
  BY <1>1, CleanIs
<1>4. Faithful(Clean, file, phase, cur, count, list)
  BY FaithfulIs DEF LoadInv
<1>5. Faithful(Clean', file', phase', cur', count', list')
  BY <1>1, <1>3, <1>4 DEF Faithful
<1> QED
  BY <1>2, <1>5, FaithfulIs DEF LoadInv

LEMMA LoadStep == LoadInv /\ [Next]_vars => LoadInv'
<1> SUFFICES ASSUME LoadInv, [Next]_vars PROVE LoadInv'
  OBVIOUS
<1>1. CASE LoadBlock
  BY <1>1, LoadBlockInv
<1>2. CASE LoadEntry
  BY <1>2, LoadEntryInv
<1>3. CASE EndBlock
  BY <1>3, EndBlockInv
<1>4. CASE Finish
  BY <1>4, FinishInv
<1>5. CASE \E align \in BOOLEAN : Rebuild(align)
  BY <1>5, RebuildInv
<1>6. CASE UNCHANGED vars
  BY <1>6, LoadUnmoved
<1> QED
  BY <1>1, <1>2, <1>3, <1>4, <1>5, <1>6 DEF Next, Load

(* Whatever directory is in a file, and whatever sizes its blocks say,     *)
(* what load returns of it without a structural error is the whole of it:  *)
(* built again without padding it is the same bytes.                       *)
THEOREM WhatIsCleanIsWhole == Spec => []CleanIsFaithful
<1>1. LoadInv => CleanIsFaithful
  BY DEF LoadInv, SoFarFaithful, CleanIsFaithful
<1> QED
  BY <1>1, LoadInitially, LoadStep, PTL DEF Spec

-----------------------------------------------------------------------------
(***************************************************************************)
(* Build and load.  What is built of a list is loaded as that list.        *)
(***************************************************************************)

(* A block begins as another one, or is the same.                          *)
Begins(b, c) ==
  /\ b.va = c.va /\ Len(b.entries) <= Len(c.entries)
  /\ \A k \in 1..Len(b.entries) :
       b.entries[k].half = c.entries[k].half /\ b.entries[k].param = c.entries[k].param

Alike(b, c) == Begins(b, c) /\ Len(b.entries) = Len(c.entries)

(* The first entries of a block, and where the first blocks end.           *)
Part(b, m) == [b EXCEPT !.entries = SubSeq(@, 1, m)]

EndOf(ps, n) == Len(Built(SubSeq(ps, 1, n), FALSE))

(* Parameters belong to entries that take one.                             *)
Adjusts(b) ==
  \A k \in DOMAIN b.entries : b.entries[k].param # None => TypeOf(b.entries[k].half) = HighAdj

Complete(b) ==
  \A k \in DOMAIN b.entries : TypeOf(b.entries[k].half) = HighAdj => b.entries[k].param # None

(* The directory is blocks ps as they are built.                           *)
Holds(ps, align, f) ==
  /\ f.start = 0 /\ f.rva = 0 /\ f.bytes = Built(ps, FALSE) /\ f.size = Len(f.bytes)
  /\ f.size < U32Max - DescriptorSize
  /\ align => \A i \in 1..Len(ps) : ElementCount(ps[i]) % 2 = 0

Accepted(b, align) ==
  /\ b.errors \subseteq (IF align THEN {} ELSE {"unaligned"})
  /\ \A k \in DOMAIN b.entries : b.entries[k].errors \subseteq {"unsupported"}

(* Of n blocks the last one has come as far as at, and left to be read.    *)
InBlock(ps, l, n, at, left) ==
  LET b == ps[n]
      read == Part(b, Len(l[n].entries))
  IN  /\ n # 0 /\ Begins(l[n], b)
      /\ at = EndOf(ps, n - 1) + DescriptorSize + EntrySize * ElementCount(read)
      /\ left = ElementCount(b) - ElementCount(read)

(* So far, load has found them.                                            *)
OnTrack(ps, align, p, at, left, l, es) ==
  LET n == Len(l) IN
  /\ es = {} /\ n <= Len(ps)
  /\ \A i \in 1..n : Accepted(l[i], align)
  /\ \/ p = "block" /\ at = EndOf(ps, n) /\ \A i \in 1..n : Alike(l[i], ps[i])
     \/ p = "elements" /\ InBlock(ps, l, n, at, left) /\ \A i \in 1..(n - 1) : Alike(l[i], ps[i])
     \/ p = "returned" /\ n = Len(ps) /\ \A i \in 1..n : Alike(l[i], ps[i])

FromPrevious ==
  LET ps == Padded(previous, aligned) IN
  /\ Holds(ps, aligned, file)
  /\ file.size = Len(Built(previous, aligned))
  /\ ParamsPresent(previous) => OnTrack(ps, aligned, phase, cur, count, list, errors)

RebuiltInv ==
  /\ previous \in Seq(LoadedBlocks) /\ aligned \in BOOLEAN
  /\ \A i \in DOMAIN previous : Adjusts(previous[i])
  /\ \A i \in DOMAIN list : Adjusts(list[i])
  /\ rebuilds > 0 => FromPrevious

-----------------------------------------------------------------------------
(* Where something stands in a sequence.                                   *)
Stands(s, at, x) ==
  at + Len(x) <= Len(s) /\ \A k \in 1..Len(x) : s[at + k] = x[k]

LEMMA StandsBetween ==
  ASSUME NEW S, NEW a \in Seq(S), NEW x \in Seq(S), NEW r \in Seq(S)
  PROVE  Stands((a \o x) \o r, Len(a), x)
<1> DEFINE s == a \o x
           t == s \o r
<1>1. /\ s \in Seq(S) /\ Len(s) = Len(a) + Len(x)
      /\ \A i \in 1..(Len(a) + Len(x)) : s[i] = IF i <= Len(a) THEN a[i] ELSE x[i - Len(a)]
  BY ConcatProperties
<1>a. s \in Seq(S)
  BY <1>1
<1> HIDE DEF s
<1>2. /\ Len(t) = Len(s) + Len(r)
      /\ \A i \in 1..(Len(s) + Len(r)) : t[i] = IF i <= Len(s) THEN s[i] ELSE r[i - Len(s)]
  BY <1>a, ConcatProperties
<1> HIDE DEF t
<1>3. ASSUME NEW k \in 1..Len(x) PROVE t[Len(a) + k] = x[k]
  <2>1. /\ Len(a) \in Nat /\ Len(x) \in Nat /\ Len(r) \in Nat
        /\ Len(a) + k \in 1..(Len(a) + Len(x)) /\ Len(a) + k \in 1..(Len(s) + Len(r))
        /\ Len(a) + k <= Len(s) /\ ~(Len(a) + k <= Len(a)) /\ (Len(a) + k) - Len(a) = k
    BY <1>1
  <2> QED
    BY <1>1, <1>2, <2>1
<1>4. Len(a) + Len(x) <= Len(t)
  BY <1>1, <1>2
<1> QED
  BY <1>3, <1>4 DEF Stands, s, t

LEMMA StandsFirst ==
  ASSUME NEW S, NEW x \in Seq(S), NEW r \in Seq(S)
  PROVE  Stands(x \o r, 0, x)
<1>1. <<>> \in Seq(S) /\ Len(<<>>) = 0
  OBVIOUS
<1>2. <<>> \o x = x
  BY ConcatEmptySeq
<1>3. Stands((<<>> \o x) \o r, Len(<<>>), x)
  BY <1>1, StandsBetween
<1> QED
  BY <1>1, <1>2, <1>3

LEMMA StandsLast ==
  ASSUME NEW S, NEW a \in Seq(S), NEW x \in Seq(S)
  PROVE  Stands(a \o x, Len(a), x)
<1>1. <<>> \in Seq(S)
  OBVIOUS
<1>2. a \o x \in Seq(S)
  BY ConcatProperties
<1>3. (a \o x) \o <<>> = a \o x
  BY <1>2, ConcatEmptySeq
<1>4. Stands((a \o x) \o <<>>, Len(a), x)
  BY <1>1, StandsBetween
<1> QED
  BY <1>3, <1>4

LEMMA StandsWithin ==
  ASSUME NEW s, Len(s) \in Nat, NEW y, Len(y) \in Nat, NEW x, Len(x) \in Nat,
         NEW at \in Nat, NEW off \in Nat, Stands(s, at, y), Stands(y, off, x)
  PROVE  Stands(s, at + off, x)
<1>1. (at + off) + Len(x) <= Len(s)
  BY DEF Stands
<1>2. ASSUME NEW k \in 1..Len(x) PROVE s[(at + off) + k] = x[k]
  <2>1. off + k \in 1..Len(y) /\ at + (off + k) = (at + off) + k
    BY DEF Stands
  <2>2. y[off + k] = x[k] /\ s[at + (off + k)] = y[off + k]
    BY <2>1 DEF Stands
  <2> QED
    BY <2>1, <2>2
<1> QED
  BY <1>1, <1>2 DEF Stands

(* What stands in the bytes of the directory can be read there.            *)
LEMMA ReadThere ==
  ASSUME file.start = 0, file.bytes \in Seq(Int), NEW at \in Nat, NEW x, Len(x) \in Nat,
         Stands(file.bytes, at, x), file.virt \in Nat
  PROVE  Readable(at, Len(x)) /\ \A k \in 0..(Len(x) - 1) : Byte(at + k) = x[k + 1]
<1>1. Len(file.bytes) \in Nat /\ at + Len(x) <= Len(file.bytes)
  BY DEF Stands
<1>2. Readable(at, Len(x))
  BY <1>1 DEF Readable
<1>3. ASSUME NEW k \in 0..(Len(x) - 1) PROVE Byte(at + k) = x[k + 1]
  <2>1. /\ k + 1 \in 1..Len(x) /\ (at + k) - file.start < Len(file.bytes)
        /\ ((at + k) - file.start) + 1 = at + (k + 1)
    BY <1>1
  <2> QED
    BY <2>1 DEF Byte, Stands
<1> QED
  BY <1>2, <1>3

LEMMA HalfThere ==
  ASSUME file.start = 0, file.bytes \in Seq(Int), file.virt \in Nat, NEW at \in Nat,
         NEW h \in Nat, Stands(file.bytes, at, HalfBytes(h))
  PROVE  Readable(at, EntrySize) /\ Half(at) = h
<1> DEFINE x == HalfBytes(h)
<1>1. Len(x) = 2 /\ x[1] = h % ByteRange /\ x[2] = h \div ByteRange
  BY DEF HalfBytes
<1> HIDE DEF x
<1>2. Readable(at, 2) /\ \A k \in 0..(2 - 1) : Byte(at + k) = x[k + 1]
  <2>1. Len(x) \in Nat /\ Stands(file.bytes, at, x)
    BY <1>1 DEF x
  <2>2. Readable(at, Len(x)) /\ \A k \in 0..(Len(x) - 1) : Byte(at + k) = x[k + 1]
    BY <2>1, ReadThere
  <2> QED
    BY <1>1, <2>2
<1>3. Byte(at) = h % ByteRange /\ Byte(at + 1) = h \div ByteRange
  <2>1. 0 \in 0..(2 - 1) /\ 1 \in 0..(2 - 1) /\ at + 0 = at /\ 0 + 1 = 1 /\ 1 + 1 = 2
    OBVIOUS
  <2>2. Byte(at + 0) = x[0 + 1] /\ Byte(at + 1) = x[1 + 1]
    BY <1>2, <2>1
  <2> QED
    BY <1>1, <2>1, <2>2
<1>4. h = ByteRange * (h \div ByteRange) + (h % ByteRange)
  BY ByteWidths, Division
<1>5. h % ByteRange \in Int /\ ByteRange * (h \div ByteRange) \in Int
  BY ByteWidths, Division
<1> QED
  BY <1>2, <1>3, <1>4, <1>5 DEF Half, EntrySize

LEMMA WordThere ==
  ASSUME file.start = 0, file.bytes \in Seq(Int), file.virt \in Nat, NEW at \in Nat,
         NEW w \in Nat, Stands(file.bytes, at, WordBytes(w))
  PROVE  Word(at) = w
<1> DEFINE l == w % HalfRange
           h == w \div HalfRange
           a == HalfBytes(l)
           b == HalfBytes(h)
<1>1. l \in Nat /\ h \in Nat /\ w = HalfRange * h + l
  <2>1. l \in Nat /\ h \in Nat
    BY ByteWidths
  <2>2. HalfRange \in Nat \ {0} /\ w \in Int
    BY ByteWidths
  <2>3. w = HalfRange * h + l
    BY <2>2, Division
  <2> QED
    BY <2>1, <2>3
<1>2. WordBytes(w) = a \o b
  BY DEF WordBytes
<1> HIDE DEF l, h
<1>3. a \in Seq(Int) /\ b \in Seq(Int) /\ Len(a) = 2 /\ Len(b) = 2
  BY <1>1, HalfWritten
<1> HIDE DEF a, b
<1>4. Stands(a \o b, 0, a) /\ Stands(a \o b, 2, b) /\ Len(a \o b) = 4
  <2>1. Len(a \o b) = Len(a) + Len(b)
    BY <1>3, ConcatProperties
  <2>2. Stands(a \o b, Len(a), b) /\ Stands(a \o b, 0, a)
    BY <1>3, StandsFirst, StandsLast
  <2> QED
    BY <1>3, <2>1, <2>2
<1>5. Stands(file.bytes, at + 0, a) /\ Stands(file.bytes, at + 2, b)
  <2>1. /\ Len(file.bytes) \in Nat /\ Len(a \o b) \in Nat /\ Len(a) \in Nat /\ Len(b) \in Nat
        /\ 0 \in Nat /\ 2 \in Nat /\ Stands(file.bytes, at, a \o b)
    BY <1>2, <1>3, <1>4
  <2> QED
    BY <1>4, <2>1, StandsWithin
<1>6. Half(at) = l
  <2>1. at + 0 = at
    OBVIOUS
  <2>2. Stands(file.bytes, at, HalfBytes(l))
    BY <1>5, <2>1 DEF a
  <2> QED
    BY <1>1, <2>2, HalfThere
<1>7. Half(at + 2) = h
  <2> DEFINE x == at + 2
  <2>1. x \in Nat /\ Stands(file.bytes, x, HalfBytes(h))
    BY <1>5 DEF b
  <2> HIDE DEF x
  <2>2. Half(x) = h
    BY <1>1, <2>1, HalfThere
  <2> QED
    BY <2>2 DEF x
<1> QED
  BY <1>1, <1>6, <1>7, ByteWidths DEF Word

-----------------------------------------------------------------------------
(* The first entries of a block, one more, and all of them.                *)
LEMMA OneEntryMore ==
  ASSUME NEW b \in LoadedBlocks, NEW m \in 0..Len(b.entries)
  PROVE  /\ Part(b, m).entries = SubSeq(b.entries, 1, m) /\ Part(b, m).va = b.va
         /\ m < Len(b.entries) => Part(b, m + 1) = WithEntry(Part(b, m), b.entries[m + 1])
         /\ m = Len(b.entries) => Part(b, m) = b
         /\ Part(b, 0) = [b EXCEPT !.entries = <<>>]
<1> DEFINE es == b.entries
<1>1. /\ b \in [va : U32, size : U32, errors : SUBSET BlockErrors, entries : Seq(LoadedEntries)]
      /\ es \in Seq(LoadedEntries)
  BY DEF LoadedBlocks
<1>2. Part(b, m) = [b EXCEPT !.entries = SubSeq(es, 1, m)]
  BY DEF Part
<1>3. Part(b, m).entries = SubSeq(es, 1, m) /\ Part(b, m).va = b.va
  BY <1>1, <1>2
<1>4. ASSUME m < Len(es) PROVE Part(b, m + 1) = WithEntry(Part(b, m), es[m + 1])
  <2>1. SubSeq(es, 1, m + 1) = Append(SubSeq(es, 1, m), es[m + 1])
    BY <1>1, <1>4
  <2>2. Part(b, m + 1) = [b EXCEPT !.entries = SubSeq(es, 1, m + 1)]
    BY DEF Part
  <2>3. WithEntry(Part(b, m), es[m + 1])
          = [Part(b, m) EXCEPT !.entries = Append(Part(b, m).entries, es[m + 1])]
    BY DEF WithEntry
  <2> HIDE DEF es
  <2> QED
    BY <1>1, <1>2, <1>3, <2>1, <2>2, <2>3
<1>5. ASSUME m = Len(es) PROVE Part(b, m) = b
  <2>1. SubSeq(es, 1, m) = es
    BY <1>1, <1>5
  <2> QED
    BY <1>1, <1>2, <2>1
<1>6. Part(b, 0) = [b EXCEPT !.entries = <<>>]
  <2>1. SubSeq(es, 1, 0) = <<>>
    BY <1>1
  <2> QED
    BY <2>1 DEF Part
<1> QED
  BY <1>3, <1>4, <1>5, <1>6

LEMMA PartLoaded ==
  ASSUME NEW b \in LoadedBlocks, NEW m \in 0..Len(b.entries)
  PROVE  Part(b, m) \in LoadedBlocks
<1> DEFINE n == Len(b.entries)
           T == {k \in 0..n : Part(b, k) \notin LoadedBlocks}
<1>1. /\ b \in [va : U32, size : U32, errors : SUBSET BlockErrors, entries : Seq(LoadedEntries)]
      /\ n \in Nat /\ b.entries \in Seq(LoadedEntries)
  BY DEF LoadedBlocks
<1>2. Part(b, 0) \in LoadedBlocks
  <2>1. Part(b, 0) = Block(b.va, b.size, b.errors)
    <3>1. Part(b, 0) = [b EXCEPT !.entries = <<>>]
      BY <1>1, OneEntryMore
    <3> QED
      BY <1>1, <3>1 DEF Block
  <2>2. b.va \in U32 /\ b.size \in U32 /\ b.errors \in SUBSET BlockErrors
    BY <1>1
  <2> QED
    BY <2>1, <2>2, BlockBegun
<1>3. SUFFICES ASSUME T # {} PROVE FALSE
  OBVIOUS
<1>4. PICK k \in T : \A j \in T : k <= j
  <2>1. T \in SUBSET Nat
    BY <1>1
  <2> HIDE DEF T
  <2> QED
    BY <1>3, <2>1, LeastNumber
<1>5. k \in 0..n /\ k # 0
  BY <1>2
<1>6. k - 1 \in 0..n /\ k - 1 < n /\ (k - 1) + 1 = k /\ k \in 1..n
  BY <1>1, <1>5
<1>7. Part(b, k - 1) \in LoadedBlocks
  BY <1>4, <1>6
<1>8. Part(b, k) = WithEntry(Part(b, k - 1), b.entries[k])
  BY <1>6, OneEntryMore
<1>9. b.entries[k] \in LoadedEntries
  BY <1>1, <1>6
<1> HIDE DEF n
<1>10. Part(b, k) \in LoadedBlocks
  BY <1>7, <1>8, <1>9, EntryAdded
<1> QED
  BY <1>4, <1>10

LEMMA NextEntry ==
  ASSUME NEW b \in LoadedBlocks, NEW m \in 0..Len(b.entries), m < Len(b.entries)
  PROVE  /\ b.entries[m + 1] \in LoadedEntries
         /\ Part(b, m) \in LoadedBlocks /\ ElementCount(Part(b, m)) \in Nat
         /\ ElementCount(Part(b, m + 1))
              = ElementCount(Part(b, m)) + Elements(b.entries[m + 1])
<1>1. b.entries \in Seq(LoadedEntries) /\ m + 1 \in 1..Len(b.entries)
  BY DEF LoadedBlocks
<1>2. b.entries[m + 1] \in LoadedEntries
  BY <1>1
<1>3. Part(b, m) \in LoadedBlocks
  BY PartLoaded
<1>4. Part(b, m + 1) = WithEntry(Part(b, m), b.entries[m + 1])
  BY OneEntryMore
<1> QED
  BY <1>2, <1>3, <1>4, EntryAdded DEF LoadedBlocks

(* An entry stands behind those before it, and all of them behind it.      *)
LEMMA EntryStands ==
  ASSUME NEW b \in LoadedBlocks, NEW m \in 0..Len(b.entries), m < Len(b.entries)
  PROVE  LET e == b.entries[m + 1] IN
         /\ Stands(EntriesBytes(b.entries), EntrySize * ElementCount(Part(b, m)), EntryBytes(e))
         /\ ElementCount(Part(b, m)) + Elements(e) <= ElementCount(b)
<1> DEFINE es == b.entries
           n == Len(es)
           e == es[m + 1]
           s == [k \in DOMAIN es |-> EntryBytes(es[k])]
           a == EntriesBytes(SubSeq(es, 1, m))
           x == EntryBytes(e)
<1>1. /\ es \in Seq(LoadedEntries) /\ n \in Nat /\ m + 1 \in 1..n /\ m \in 0..n
      /\ EntriesBytes(es) \in Seq(Bytes) /\ ElementCount(b) \in Nat
      /\ Len(EntriesBytes(es)) = EntrySize * ElementCount(b)
  BY DEF LoadedBlocks
<1>2. \A k \in 1..n : EntryBytes(es[k]) \in Seq(Bytes)
  <2>1. \A k \in 1..n : es[k] \in LoadedEntries
    BY <1>1
  <2> QED
    BY <2>1, EntryWritten
<1>3. s \in Seq(Seq(Bytes)) /\ Len(s) = n /\ s[m + 1] = x
  <2>1. DOMAIN es = 1..n
    BY <1>1
  <2> HIDE DEF es, n
  <2> QED
    BY <1>1, <1>2, <2>1
<1>4. /\ Part(b, m) \in LoadedBlocks /\ Part(b, m).entries = SubSeq(es, 1, m)
      /\ e \in LoadedEntries
  BY <1>1, NextEntry, OneEntryMore
<1>5. a \in Seq(Bytes) /\ Len(a) = EntrySize * ElementCount(Part(b, m)) /\ ElementCount(Part(b, m)) \in Nat
  BY <1>4 DEF LoadedBlocks
<1>6. x \in Seq(Bytes) /\ Len(x) = EntrySize * Elements(e)
  BY <1>4, EntryWritten
<1>7. FlattenSeq(SubSeq(s, 1, m)) = a
  <2>1. SubSeq(s, 1, m) = [k \in DOMAIN SubSeq(es, 1, m) |-> EntryBytes(SubSeq(es, 1, m)[k])]
    BY <1>1, <1>3
  <2> QED
    BY <2>1 DEF EntriesBytes
<1>8. FlattenSeq(s) = EntriesBytes(es)
  BY DEF EntriesBytes
<1>9. SubSeq(s, 1, m + 1) = Append(SubSeq(s, 1, m), s[m + 1]) /\ SubSeq(s, 1, m) \in Seq(Seq(Bytes))
  BY <1>1, <1>3
<1> HIDE DEF s, x, a
<1>10. FlattenSeq(SubSeq(s, 1, m + 1)) = a \o x
  BY <1>3, <1>6, <1>7, <1>9, FlattenAppend
<1>11. PICK r \in Seq(Bytes) : EntriesBytes(es) = (a \o x) \o r
  <2>1. m + 1 \in 0..Len(s)
    BY <1>1, <1>3
  <2> QED
    BY <1>3, <1>8, <1>10, <2>1, FlattenSplit
<1> HIDE DEF es, e
<1>12. Stands(EntriesBytes(es), Len(a), x)
  BY <1>5, <1>6, <1>11, StandsBetween
<1>13. ElementCount(Part(b, m)) + Elements(e) <= ElementCount(b)
  <2>1. Len(a) + Len(x) <= Len(EntriesBytes(es))
    BY <1>12 DEF Stands
  <2>2. Elements(e) \in Nat
    BY DEF Elements
  <2> DEFINE i == ElementCount(Part(b, m))
             j == Elements(e)
             t == ElementCount(b)
  <2>3. i \in Nat /\ j \in Nat /\ t \in Nat /\ 2 * i + 2 * j <= 2 * t
    BY <1>1, <1>5, <1>6, <2>1, <2>2 DEF EntrySize
  <2> HIDE DEF i, j, t
  <2>4. i + j <= t
    BY <2>3
  <2> QED
    BY <2>4 DEF i, j, t
<1> QED
  BY <1>5, <1>12, <1>13 DEF x, es, e

(* What a block is written as.                                             *)
LEMMA BlockStands ==
  ASSUME NEW b \in LoadedBlocks
  PROVE  LET size == DescriptorSize + EntrySize * ElementCount(b)
             s == BlockBytes(b, FALSE)
         IN  /\ size \in Nat /\ s \in Seq(Int) /\ Len(s) = size
             /\ Stands(s, 0, WordBytes(b.va)) /\ Stands(s, 4, WordBytes(size))
             /\ Stands(s, 8, EntriesBytes(b.entries))
<1> DEFINE size == DescriptorSize + EntrySize * ElementCount(b)
           s == BlockBytes(b, FALSE)
           v == WordBytes(b.va)
           z == WordBytes(size)
           es == EntriesBytes(b.entries)
<1>1. /\ b.va \in Nat /\ ElementCount(b) \in Nat /\ es \in Seq(Bytes) /\ Bytes \subseteq Int
      /\ Len(es) = EntrySize * ElementCount(b)
  BY ByteWidths DEF LoadedBlocks, U32, Bytes
<1>2. size \in Nat
  BY <1>1 DEF DescriptorSize, EntrySize
<1>3. Padding(b, FALSE) = 0 /\ Written8(b, FALSE) = size
  <2>1. Padding(b, FALSE) = 0
    BY DEF Padding
  <2>2. ElementCount(b) + Padding(b, FALSE) = ElementCount(b)
    <3> DEFINE c == ElementCount(b)
    <3>1. c \in Nat
      BY <1>1
    <3> HIDE DEF c
    <3>2. c + 0 = c
      BY <3>1
    <3> QED
      BY <2>1, <3>2 DEF c
  <2> QED
    BY <2>1, <2>2 DEF Written8
<1>4. s \in Seq(Int) /\ Len(s) = size
  BY <1>3, BlockWritten
<1> DEFINE pad == IF Padding(b, FALSE) = 1 THEN HalfBytes(0) ELSE <<>>
<1>5. s = ((v \o z) \o es) \o pad
  <2>1. WordBytes(DescriptorSize + EntrySize * (ElementCount(b) + Padding(b, FALSE))) = z
    BY <1>3 DEF Written8
  <2> QED
    BY <2>1 DEF BlockBytes
<1>6. pad = <<>>
  <2>1. Padding(b, FALSE) # 1
    BY DEF Padding
  <2> QED
    BY <2>1, Zenon
<1> HIDE DEF pad, size
<1>7. /\ v \in Seq(Int) /\ Len(v) = 4 /\ z \in Seq(Int) /\ Len(z) = 4 /\ es \in Seq(Int)
  BY <1>1, <1>2, WordWritten, SeqWider
<1> HIDE DEF v, z, es, s
<1>8. v \o z \in Seq(Int) /\ Len(v \o z) = 8 /\ (v \o z) \o es \in Seq(Int)
  <2>1. v \o z \in Seq(Int) /\ Len(v \o z) = Len(v) + Len(z)
    BY <1>7, ConcatProperties
  <2> QED
    BY <1>7, <2>1, ConcatProperties
<1>9. s = (v \o z) \o es
  BY <1>5, <1>6, <1>8, ConcatEmptySeq
<1>10. Stands(s, 8, es) /\ Stands(s, 0, v \o z)
  BY <1>7, <1>8, <1>9, StandsFirst, StandsLast
<1>11. Stands(v \o z, 0, v) /\ Stands(v \o z, 4, z)
  BY <1>7, StandsFirst, StandsLast
<1>12. Stands(s, 0 + 0, v) /\ Stands(s, 0 + 4, z)
  <2>1. /\ Len(s) \in Nat /\ Len(v \o z) \in Nat /\ Len(v) \in Nat /\ Len(z) \in Nat
        /\ 0 \in Nat /\ 4 \in Nat
    BY <1>4, <1>7, <1>8
  <2> QED
    BY <1>10, <1>11, <2>1, StandsWithin
<1>13. Stands(s, 0, v) /\ Stands(s, 4, z)
  <2>1. 0 + 0 = 0 /\ 0 + 4 = 4
    OBVIOUS
  <2> QED
    BY <1>12, <2>1
<1> QED
  BY <1>2, <1>4, <1>10, <1>13 DEF s, v, z, es, size

(* The blocks one behind the other.                                        *)
BlocksOf(ps) == [i \in DOMAIN ps |-> BlockBytes(ps[i], FALSE)]

LEMMA FirstBlocks ==
  ASSUME NEW ps \in Seq(LoadedBlocks), NEW n \in 0..Len(ps)
  PROVE  /\ BlocksOf(ps) \in Seq(Seq(Int)) /\ Len(BlocksOf(ps)) = Len(ps)
         /\ FlattenSeq(BlocksOf(ps)) = Built(ps, FALSE)
         /\ FlattenSeq(SubSeq(BlocksOf(ps), 1, n)) = Built(SubSeq(ps, 1, n), FALSE)
<1> DEFINE m == Len(ps)
           s == BlocksOf(ps)
           qs == SubSeq(ps, 1, n)
<1>1. m \in Nat /\ n \in 0..m /\ DOMAIN ps = 1..m /\ \A i \in 1..m : ps[i] \in LoadedBlocks
  OBVIOUS
<1>2. \A i \in 1..m : BlockBytes(ps[i], FALSE) \in Seq(Int)
  BY <1>1, BlockWritten
<1>3. qs \in Seq(LoadedBlocks) /\ Len(qs) = n /\ DOMAIN qs = 1..n /\ \A i \in 1..n : qs[i] = ps[i]
  OBVIOUS
<1> HIDE DEF m, qs
<1> DEFINE B(i) == BlockBytes(ps[i], FALSE)
<1>4. s = [i \in 1..m |-> B(i)] /\ \A i \in 1..m : B(i) \in Seq(Int)
  BY <1>1, <1>2 DEF BlocksOf
<1>a. \A i \in 1..n : B(i) = BlockBytes(qs[i], FALSE)
  BY <1>3
<1> HIDE DEF s, B
<1>5. s \in Seq(Seq(Int)) /\ Len(s) = m
  BY <1>1, <1>4
<1>6. SubSeq(s, 1, n) = [i \in DOMAIN qs |-> BlockBytes(qs[i], FALSE)]
  <2>1. SubSeq(s, 1, n) = [i \in 1..n |-> s[i]]
    BY <1>1, <1>5
  <2>a. \A i \in 1..n : s[i] = B(i)
    BY <1>1, <1>4
  <2>2. \A i \in 1..n : s[i] = BlockBytes(qs[i], FALSE)
    BY <1>a, <2>a, Zenon
  <2> QED
    BY <1>3, <2>1, <2>2
<1>7. FlattenSeq(s) = Built(ps, FALSE) /\ FlattenSeq(SubSeq(s, 1, n)) = Built(qs, FALSE)
  BY <1>6 DEF Built, BlocksOf, s
<1> QED
  BY <1>5, <1>7 DEF m, qs, s

LEMMA BlocksStand ==
  ASSUME NEW ps \in Seq(LoadedBlocks), NEW n \in 0..Len(ps)
  PROVE  /\ EndOf(ps, n) \in Nat /\ EndOf(ps, 0) = 0
         /\ EndOf(ps, Len(ps)) = Len(Built(ps, FALSE))
         /\ n < Len(ps) =>
              /\ Stands(Built(ps, FALSE), EndOf(ps, n), BlockBytes(ps[n + 1], FALSE))
              /\ EndOf(ps, n + 1)
                   = EndOf(ps, n) + DescriptorSize + EntrySize * ElementCount(ps[n + 1])
<1> DEFINE s == BlocksOf(ps)
           before == SubSeq(ps, 1, n)
           a == Built(before, FALSE)
<1>1. Len(ps) \in Nat /\ \A i \in 1..Len(ps) : ps[i] \in LoadedBlocks
  OBVIOUS
<1>2. s \in Seq(Seq(Int)) /\ Len(s) = Len(ps) /\ FlattenSeq(s) = Built(ps, FALSE)
  BY FirstBlocks
<1>3. before \in Seq(LoadedBlocks) /\ SubSeq(ps, 1, 0) = <<>> /\ SubSeq(ps, 1, Len(ps)) = ps
  OBVIOUS
<1>4. a \in Seq(Int) /\ Len(a) \in Nat /\ EndOf(ps, n) = Len(a)
  <2>1. a \in Seq(Int)
    BY <1>3, BuiltList
  <2>2. EndOf(ps, n) = Len(a)
    BY DEF EndOf
  <2> HIDE DEF a
  <2> QED
    BY <2>1, <2>2
<1>5. EndOf(ps, 0) = 0 /\ EndOf(ps, Len(ps)) = Len(Built(ps, FALSE))
  <2>1. Built(SubSeq(ps, 1, 0), FALSE) = <<>>
    BY <1>3, BuiltNothing
  <2> QED
    BY <1>3, <2>1 DEF EndOf
<1>6. ASSUME n < Len(ps)
      PROVE  /\ Stands(Built(ps, FALSE), EndOf(ps, n), BlockBytes(ps[n + 1], FALSE))
             /\ EndOf(ps, n + 1)
                  = EndOf(ps, n) + DescriptorSize + EntrySize * ElementCount(ps[n + 1])
  <2> DEFINE b == ps[n + 1]
             x == BlockBytes(b, FALSE)
             c == ElementCount(b)
  <2>1. n + 1 \in 1..Len(ps) /\ n + 1 \in 0..Len(ps) /\ b \in LoadedBlocks
    BY <1>1, <1>6
  <2>2. SubSeq(ps, 1, n + 1) = Append(before, b)
    BY <1>1, <1>6
  <2>3. Built(SubSeq(ps, 1, n + 1), FALSE) = a \o x
    BY <1>3, <2>1, <2>2, BuiltList
  <2>4. FlattenSeq(SubSeq(s, 1, n + 1)) = a \o x
    BY <2>1, <2>3, FirstBlocks
  <2>5. x \in Seq(Int) /\ Len(x) = DescriptorSize + EntrySize * c /\ c \in Nat
    BY <2>1, BlockStands DEF LoadedBlocks
  <2>6. EndOf(ps, n + 1) = Len(a \o x)
    BY <2>3 DEF EndOf
  <2> HIDE DEF s, x, a, b, c
  <2>7. PICK r \in Seq(Int) : Built(ps, FALSE) = (a \o x) \o r
    <3>1. n + 1 \in 0..Len(s)
      BY <1>2, <2>1
    <3> QED
      BY <1>2, <2>4, <3>1, FlattenSplit
  <2>8. Stands(Built(ps, FALSE), Len(a), x)
    BY <1>4, <2>5, <2>7, StandsBetween
  <2>9. Len(a \o x) = Len(a) + Len(x)
    BY <1>4, <2>5, ConcatProperties
  <2>10. Len(a) + Len(x) = Len(a) + DescriptorSize + EntrySize * c
    BY <1>4, <2>5 DEF DescriptorSize, EntrySize
  <2>11. EndOf(ps, n + 1) = EndOf(ps, n) + DescriptorSize + EntrySize * c
    BY <1>4, <2>6, <2>9, <2>10
  <2> QED
    BY <1>4, <2>8, <2>11 DEF b, c, x
<1> QED
  BY <1>4, <1>5, <1>6

-----------------------------------------------------------------------------
(* Padding is an entry more: what is built of a padded block, padded once  *)
(* more by no one, is the same.                                            *)
PaddedBlock(b, align) == IF Padding(b, align) = 1 THEN WithEntry(b, NoEntry) ELSE b

LEMMA PaddingWritten ==
  ASSUME NEW b \in LoadedBlocks, NEW align \in BOOLEAN
  PROVE  /\ PaddedBlock(b, align) \in LoadedBlocks
         /\ BlockBytes(PaddedBlock(b, align), FALSE) = BlockBytes(b, align)
         /\ align => ElementCount(PaddedBlock(b, align)) % 2 = 0
<1> DEFINE e == NoEntry
           c == WithEntry(b, e)
           n == ElementCount(b)
<1>1. e \in LoadedEntries /\ Elements(e) = 1 /\ EntryBytes(e) = HalfBytes(0)
  <2>1. 0 \in Halves /\ 0 \in Nat
    BY ByteWidths DEF Halves
  <2>2. HalfBytes(0) \in Seq(Int)
    BY <2>1, HalfWritten
  <2>3. HalfBytes(0) \o <<>> = HalfBytes(0)
    BY <2>2, ConcatEmptySeq
  <2> QED
    BY <2>1, <2>3 DEF NoEntry, LoadedEntries, Elements, EntryBytes, EntryErrors
<1>2. /\ c \in LoadedBlocks /\ c.va = b.va /\ ElementCount(c) = n + 1
      /\ EntriesBytes(c.entries) = EntriesBytes(b.entries) \o HalfBytes(0)
  BY <1>1, EntryAdded
<1>3. b.va \in Nat /\ n \in Nat /\ EntriesBytes(b.entries) \in Seq(Bytes) /\ Bytes \subseteq Int
  BY ByteWidths DEF LoadedBlocks, U32, Bytes
<1> HIDE DEF c, n, e
<1>4. CASE Padding(b, align) = 1
  <2>1. align /\ n % 2 = 1
    BY <1>4 DEF Padding, n
  <2>2. PaddedBlock(b, align) = c
    BY <1>4 DEF PaddedBlock, c, e
  <2>3. ElementCount(c) % 2 = 0
    BY <1>2, <1>3, <2>1
  <2> DEFINE w == WordBytes(b.va)
             z == WordBytes(DescriptorSize + EntrySize * (n + 1))
             es == EntriesBytes(b.entries)
             x == HalfBytes(0)
             pad == IF Padding(b, align) = 1 THEN HalfBytes(0) ELSE <<>>
             none == IF Padding(c, FALSE) = 1 THEN HalfBytes(0) ELSE <<>>
  <2>4. pad = x
    BY <1>4, Zenon
  <2>5. none = <<>>
    <3>1. Padding(c, FALSE) # 1
      BY DEF Padding
    <3> QED
      BY <3>1, Zenon
  <2>6. BlockBytes(b, align) = ((w \o z) \o es) \o pad
    BY <1>4 DEF BlockBytes, n
  <2>7. BlockBytes(c, FALSE) = ((w \o z) \o (es \o x)) \o none
    <3>1. ElementCount(c) + Padding(c, FALSE) = n + 1
      <4>1. Padding(c, FALSE) = 0
        BY DEF Padding
      <4>2. ElementCount(c) + 0 = n + 1
        BY <1>2, <1>3
      <4> QED
        BY <4>1, <4>2, Zenon
    <3>2. BlockBytes(c, FALSE)
            = ((WordBytes(c.va)
                  \o WordBytes(DescriptorSize
                                 + EntrySize * (ElementCount(c) + Padding(c, FALSE))))
                 \o EntriesBytes(c.entries)) \o none
      BY DEF BlockBytes
    <3> HIDE DEF none
    <3> QED
      BY <1>2, <3>1, <3>2, Zenon
  <2>8. w \in Seq(Int) /\ z \in Seq(Int) /\ es \in Seq(Int) /\ x \in Seq(Int)
    <3>1. DescriptorSize + EntrySize * (n + 1) \in Nat /\ 0 \in Nat
      BY <1>3 DEF DescriptorSize, EntrySize
    <3> QED
      BY <1>3, <3>1, WordWritten, HalfWritten, SeqWider
  <2> HIDE DEF w, z, es, x, pad, none
  <2>9. w \o z \in Seq(Int) /\ es \o x \in Seq(Int)
    BY <2>8, ConcatProperties
  <2>10. (w \o z) \o (es \o x) \in Seq(Int)
    BY <2>9, ConcatProperties
  <2>11. ((w \o z) \o (es \o x)) \o none = (w \o z) \o (es \o x)
    BY <2>5, <2>10, ConcatEmptySeq
  <2>12. (w \o z) \o (es \o x) = ((w \o z) \o es) \o x
    <3> DEFINE v == w \o z
    <3>1. v \in Seq(Int)
      BY <2>9
    <3> HIDE DEF v
    <3>2. es \in Seq(Int) /\ x \in Seq(Int)
      BY <2>8
    <3>3. (v \o es) \o x = v \o (es \o x)
      BY <3>1, <3>2, Associative
    <3> QED
      BY <3>3 DEF v
  <2> QED
    BY <1>2, <2>2, <2>3, <2>4, <2>6, <2>7, <2>11, <2>12
<1>5. CASE Padding(b, align) # 1
  <2>1. PaddedBlock(b, align) = b
    BY <1>5 DEF PaddedBlock
  <2>2. align => n % 2 = 0
    <3>1. align => n % 2 # 1
      BY <1>5 DEF Padding, n
    <3> QED
      BY <1>3, <3>1
  <2>3. BlockBytes(b, FALSE) = BlockBytes(b, align)
    <3>1. Padding(b, FALSE) = 0 /\ Padding(b, align) = 0
      BY <1>5 DEF Padding
    <3> QED
      BY <3>1 DEF BlockBytes
  <2> QED
    BY <2>1, <2>2, <2>3 DEF n
<1> QED
  BY <1>4, <1>5

LEMMA PaddedList ==
  ASSUME NEW blocks \in Seq(LoadedBlocks), NEW align \in BOOLEAN
  PROVE  LET ps == Padded(blocks, align) IN
         /\ ps \in Seq(LoadedBlocks) /\ Len(ps) = Len(blocks)
         /\ \A i \in 1..Len(blocks) : ps[i] = PaddedBlock(blocks[i], align)
         /\ Built(ps, FALSE) = Built(blocks, align)
<1> DEFINE n == Len(blocks)
           ps == Padded(blocks, align)
<1>1. n \in Nat /\ DOMAIN blocks = 1..n /\ \A i \in 1..n : blocks[i] \in LoadedBlocks
  OBVIOUS
<1>2. ps = [i \in 1..n |-> PaddedBlock(blocks[i], align)]
  <2>1. \A i \in 1..n : PaddedBlock(blocks[i], align)
          = IF Padding(blocks[i], align) = 1
            THEN [blocks[i] EXCEPT !.entries = Append(@, NoEntry)] ELSE blocks[i]
    BY DEF PaddedBlock, WithEntry
  <2> QED
    BY <1>1, <2>1 DEF Padded
<1>3. \A i \in 1..n : PaddedBlock(blocks[i], align) \in LoadedBlocks
  BY <1>1, PaddingWritten
<1> HIDE DEF n, ps
<1>4. ps \in Seq(LoadedBlocks) /\ Len(ps) = n /\ DOMAIN ps = 1..n
  BY <1>1, <1>2, <1>3
<1>5. \A i \in 1..n : ps[i] = PaddedBlock(blocks[i], align)
  BY <1>2
<1>6. \A i \in 1..n : BlockBytes(ps[i], FALSE) = BlockBytes(blocks[i], align)
  <2> SUFFICES ASSUME NEW i \in 1..n
               PROVE  BlockBytes(ps[i], FALSE) = BlockBytes(blocks[i], align)
    OBVIOUS
  <2>1. blocks[i] \in LoadedBlocks /\ ps[i] = PaddedBlock(blocks[i], align)
    BY <1>1, <1>5
  <2>2. BlockBytes(PaddedBlock(blocks[i], align), FALSE) = BlockBytes(blocks[i], align)
    BY <2>1, PaddingWritten
  <2> QED
    BY <2>1, <2>2, Zenon
<1>7. [i \in DOMAIN ps |-> BlockBytes(ps[i], FALSE)]
        = [i \in DOMAIN blocks |-> BlockBytes(blocks[i], align)]
  BY <1>1, <1>4, <1>6, Zenon
<1>8. Built(ps, FALSE) = Built(blocks, align)
  BY <1>7 DEF Built
<1> QED
  BY <1>4, <1>5, <1>8 DEF n, ps

(* get_built_size tells the size of what is built.                         *)
LEMMA SizeIsTold ==
  ASSUME NEW blocks \in Seq(LoadedBlocks), NEW align \in BOOLEAN
  PROVE  Len(Built(blocks, align)) = BuiltSize(blocks, align)
<1> DEFINE n == Len(blocks)
           W(i) == DescriptorSize + EntrySize * (ElementCount(blocks[i]) + Padding(blocks[i], align))
           L(i) == Len(Built(SubSeq(blocks, 1, i), align))
           g == CHOOSE g : g = [i \in 0..n |->
                  IF i = 0 THEN 0
                  ELSE g[i - 1] + DescriptorSize
                         + EntrySize * (ElementCount(blocks[i]) + Padding(blocks[i], align))]
           h == [i \in 0..n |-> L(i)]
<1>1. n \in Nat /\ \A i \in 1..n : blocks[i] \in LoadedBlocks
  OBVIOUS
<1>2. BuiltSize(blocks, align) = g[n]
  BY DEF BuiltSize
<1>3. L(0) = 0 /\ L(n) = Len(Built(blocks, align))
  <2>1. SubSeq(blocks, 1, 0) = <<>> /\ SubSeq(blocks, 1, n) = blocks
    OBVIOUS
  <2>2. Built(SubSeq(blocks, 1, 0), align) = <<>>
    BY <2>1, BuiltNothing
  <2> QED
    BY <2>1, <2>2
<1>4. ASSUME NEW i \in 1..n
      PROVE  L(i) = (L(i - 1) + DescriptorSize)
                      + EntrySize * (ElementCount(blocks[i]) + Padding(blocks[i], align))
  <2> DEFINE before == SubSeq(blocks, 1, i - 1)
             b == blocks[i]
             a == Built(before, align)
             x == BlockBytes(b, align)
  <2>1. before \in Seq(LoadedBlocks) /\ b \in LoadedBlocks
    BY <1>1
  <2>2. SubSeq(blocks, 1, i) = Append(before, b)
    BY <1>1
  <2>3. Built(SubSeq(blocks, 1, i), align) = a \o x
    BY <2>1, <2>2, BuiltList
  <2>4. /\ a \in Seq(Int) /\ x \in Seq(Int) /\ Written8(b, align) \in Nat
        /\ Len(x) = Written8(b, align)
    BY <2>1, BlockWritten, BuiltList
  <2>5. /\ L(i) = Len(a \o x) /\ L(i - 1) = Len(a)
    BY <2>3
  <2>6. ElementCount(b) \in Nat /\ Padding(b, align) \in Nat
    BY <2>1 DEF LoadedBlocks, Padding
  <2> DEFINE k == EntrySize * (ElementCount(b) + Padding(b, align))
  <2>7. k \in Nat /\ Written8(b, align) = DescriptorSize + k
    BY <2>6 DEF Written8, EntrySize
  <2> HIDE DEF a, x, b, k, L
  <2>a. a \in Seq(Int) /\ x \in Seq(Int)
    BY <2>4
  <2>b. Len(x) = DescriptorSize + k /\ k \in Nat
    BY <2>4, <2>7
  <2>8. Len(a \o x) = Len(a) + Len(x)
    BY <2>a, ConcatProperties
  <2>c. Len(a) \in Nat
    BY <2>a
  <2>9. L(i) = (L(i - 1) + DescriptorSize) + k
    BY <2>5, <2>8, <2>b, <2>c DEF DescriptorSize
  <2> QED
    BY <2>9 DEF k, b
<1>5. h = [i \in 0..n |->
             IF i = 0 THEN 0
             ELSE h[i - 1] + DescriptorSize
                    + EntrySize * (ElementCount(blocks[i]) + Padding(blocks[i], align))]
  <2>1. \A i \in 0..n : i # 0 => i \in 1..n /\ i - 1 \in 0..n
    BY <1>1
  <2> HIDE DEF L, n
  <2> QED
    BY <1>3, <1>4, <2>1
<1>6. g = [i \in 0..n |->
             IF i = 0 THEN 0
             ELSE g[i - 1] + DescriptorSize
                    + EntrySize * (ElementCount(blocks[i]) + Padding(blocks[i], align))]
  <2> HIDE DEF h
  <2> QED
    BY <1>5
<1> DEFINE T == {i \in 0..n : g[i] # L(i)}
<1> HIDE DEF g, h, L
<1>7. SUFFICES ASSUME T # {} PROVE FALSE
  <2>1. n \in 0..n
    BY <1>1
  <2>2. g[n] = L(n)
    BY <2>1
  <2> QED
    BY <1>2, <1>3, <2>2
<1>8. PICK i \in T : \A j \in T : i <= j
  <2>1. T \in SUBSET Nat
    BY <1>1
  <2> HIDE DEF T
  <2> QED
    BY <1>7, <2>1, LeastNumber
<1>9. i \in 1..n /\ i - 1 \in 0..n /\ i \in 0..n /\ i # 0
  <2>1. g[0] = 0
    <3>1. 0 \in 0..n
      BY <1>1
    <3> QED
      BY <1>6, <3>1
  <2>2. i # 0
    BY <1>3, <1>8, <2>1
  <2> QED
    BY <1>1, <1>8, <2>2
<1>10. g[i - 1] = L(i - 1)
  <2>1. ~(i <= i - 1)
    BY <1>9
  <2>2. i - 1 \notin T
    <3> HIDE DEF T
    <3> QED
      BY <1>8, <2>1
  <2> QED
    BY <1>9, <2>2
<1>11. g[i] = (g[i - 1] + DescriptorSize)
                + EntrySize * (ElementCount(blocks[i]) + Padding(blocks[i], align))
  <2> HIDE DEF T, n
  <2> QED
    BY <1>6, <1>9
<1>12. g[i] = L(i)
  <2> HIDE DEF T, n
  <2> QED
    BY <1>4, <1>9, <1>10, <1>11
<1> QED
  BY <1>8, <1>12

-----------------------------------------------------------------------------
(* Parameters belong to entries that take one, whatever is loaded.         *)
LEMMA BlockAdjusts ==
  ASSUME list \in Seq(LoadedBlocks), \A i \in DOMAIN list : Adjusts(list[i]),
         NEW va, NEW size, NEW es, NEW after, NEW rva, NEW n,
         AddBlock(Block(va, size, es), after, rva, n)
  PROVE  \A i \in DOMAIN list' : Adjusts(list'[i])
<1> DEFINE b == Block(va, size, es)
<1>1. list' = Append(list, b) /\ Len(list) \in Nat
  BY DEF AddBlock
<1>2. Adjusts(b)
  BY DEF Block, Adjusts
<1> HIDE DEF b
<1>3. /\ DOMAIN list' = 1..(Len(list) + 1) /\ DOMAIN list = 1..Len(list)
      /\ list'[Len(list) + 1] = b /\ \A i \in 1..Len(list) : list'[i] = list[i]
  BY <1>1
<1>4. \A i \in 1..(Len(list) + 1) : i = Len(list) + 1 \/ i \in 1..Len(list)
  BY <1>1
<1> QED
  BY <1>2, <1>3, <1>4

LEMMA EntryAdjusts ==
  ASSUME list \in Seq(LoadedBlocks), list # <<>>, \A i \in DOMAIN list : Adjusts(list[i]),
         NEW half, NEW param, NEW es, NEW after, NEW rva, NEW n,
         AddEntry(half, param, es, after, rva, n), param # None => TypeOf(half) = HighAdj
  PROVE  \A i \in DOMAIN list' : Adjusts(list'[i])
<1> DEFINE m == Len(list)
           e == [half |-> half, param |-> param, errors |-> es]
           b == list[m]
           c == WithEntry(b, e)
           front == Front(list)
<1>1. m \in Nat \ {0} /\ DOMAIN list = 1..m /\ m \in 1..m /\ b \in LoadedBlocks
  OBVIOUS
<1>2. list' = Append(front, c)
  BY DEF AddEntry, Last
<1>3. Len(front) = m - 1 /\ \A i \in 1..(m - 1) : front[i] = list[i]
  BY <1>1 DEF Front
<1>4. front \in Seq(LoadedBlocks)
  BY <1>1 DEF Front
<1>5. Adjusts(b)
  BY <1>1
<1>6. Adjusts(c)
  <2>1. /\ b.entries \in Seq(LoadedEntries) /\ c.entries = Append(b.entries, e)
    BY <1>1 DEF LoadedBlocks, WithEntry
  <2> DEFINE k == Len(b.entries)
             es0 == b.entries
             es1 == c.entries
  <2> HIDE DEF b, c
  <2>2. /\ k \in Nat /\ DOMAIN c.entries = 1..(k + 1) /\ DOMAIN b.entries = 1..k
        /\ c.entries[k + 1] = e /\ \A i \in 1..k : c.entries[i] = b.entries[i]
    <3>1. es0 \in Seq(LoadedEntries) /\ es1 = Append(es0, e) /\ k = Len(es0)
      BY <2>1
    <3> HIDE DEF es0, es1, k, e
    <3>2. /\ k \in Nat /\ DOMAIN es1 = 1..(k + 1) /\ DOMAIN es0 = 1..k
          /\ es1[k + 1] = e /\ \A i \in 1..k : es1[i] = es0[i]
      BY <3>1
    <3> QED
      BY <3>2 DEF es0, es1
  <2> HIDE DEF k
  <2>3. \A i \in 1..(k + 1) : i = k + 1 \/ i \in 1..k
    BY <2>2
  <2> QED
    BY <1>5, <2>2, <2>3 DEF Adjusts
<1> HIDE DEF m, b, c, front
<1>7. /\ DOMAIN list' = 1..m /\ list'[m] = c /\ \A i \in 1..(m - 1) : list'[i] = front[i]
  BY <1>1, <1>2, <1>3, <1>4
<1>8. \A i \in 1..m : i = m \/ i \in 1..(m - 1)
  BY <1>1
<1>9. \A i \in 1..(m - 1) : i \in 1..m
  BY <1>1
<1> QED
  BY <1>1, <1>3, <1>6, <1>7, <1>8, <1>9

LEMMA ListAdjusts ==
  ASSUME LoadInv, \A i \in DOMAIN list : Adjusts(list[i]), Load
  PROVE  \A i \in DOMAIN list' : Adjusts(list'[i])
<1>1. list \in Seq(LoadedBlocks) /\ (phase = "elements" => list # <<>>)
  BY DEF LoadInv, LoadShape
<1>2. CASE LoadBlock
  <2>1. CASE UNCHANGED list
    BY <2>1
  <2>2. CASE \E va, size, es, after, rva, n : AddBlock(Block(va, size, es), after, rva, n)
    BY <1>1, <2>2, BlockAdjusts
  <2> QED
    BY <1>2, <2>1, <2>2 DEF LoadBlock, BlockUnread, BlockOverflows, BlockTooSmall, BlockOdd,
                            BlockEven, Throw
<1>3. CASE LoadEntry
  <2>1. list # <<>>
    BY <1>1, <1>3 DEF LoadEntry
  <2>2. CASE EntryUnread
    BY <1>1, <2>1, <2>2, EntryAdjusts DEF EntryUnread, Throw
  <2>3. CASE EntryAdjusted(Half(cur))
    BY <1>1, <2>1, <2>3, EntryAdjusts DEF EntryAdjusted
  <2>4. CASE EntryWithoutParam(Half(cur))
    BY <1>1, <2>1, <2>4, EntryAdjusts DEF EntryWithoutParam
  <2>5. CASE EntryPlain(Half(cur))
    BY <1>1, <2>1, <2>5, EntryAdjusts DEF EntryPlain
  <2> QED
    BY <1>3, <2>2, <2>3, <2>4, <2>5 DEF LoadEntry
<1>4. CASE EndBlock
  BY <1>4 DEF EndBlock
<1>5. CASE Finish
  BY <1>5 DEF Finish
<1> QED
  BY <1>2, <1>3, <1>4, <1>5 DEF Load

-----------------------------------------------------------------------------
(* Where load is among the blocks ps that are in the directory.            *)
Tracked(ps) ==
  /\ ps \in Seq(LoadedBlocks) /\ aligned \in BOOLEAN
  /\ \A i \in 1..Len(ps) : Adjusts(ps[i]) /\ Complete(ps[i])
  /\ Holds(ps, aligned, file)
  /\ OnTrack(ps, aligned, phase, cur, count, list, errors)

TrackedNext(ps) == OnTrack(ps, aligned, phase', cur', count', list', errors')

LEMMA PartNothing ==
  ASSUME NEW b \in LoadedBlocks
  PROVE  ElementCount(Part(b, 0)) = 0
<1>1. /\ b \in [va : U32, size : U32, errors : SUBSET BlockErrors, entries : Seq(LoadedEntries)]
      /\ 0 \in 0..Len(b.entries)
  BY DEF LoadedBlocks
<1>2. Part(b, 0) = [b EXCEPT !.entries = <<>>]
  BY <1>1, OneEntryMore
<1>3. Part(b, 0) = Block(b.va, b.size, b.errors)
  BY <1>1, <1>2 DEF Block
<1>4. b.va \in U32 /\ b.size \in U32 /\ b.errors \in SUBSET BlockErrors
  BY <1>1
<1> QED
  BY <1>3, <1>4, BlockBegun

LEMMA EndsAligned ==
  ASSUME NEW ps \in Seq(LoadedBlocks), \A i \in 1..Len(ps) : ElementCount(ps[i]) % 2 = 0,
         NEW n \in 0..Len(ps)
  PROVE  EndOf(ps, n) % 4 = 0
<1> DEFINE T == {i \in 0..Len(ps) : EndOf(ps, i) % 4 # 0}
<1>1. SUFFICES ASSUME T # {} PROVE FALSE
  OBVIOUS
<1>2. PICK i \in T : \A j \in T : i <= j
  <2>1. T \in SUBSET Nat
    OBVIOUS
  <2> HIDE DEF T
  <2> QED
    BY <1>1, <2>1, LeastNumber
<1>3. i \in 0..Len(ps) /\ EndOf(ps, i) % 4 # 0 /\ i # 0
  <2>1. i \in 0..Len(ps) /\ EndOf(ps, i) % 4 # 0
    BY <1>2
  <2>2. EndOf(ps, 0) = 0
    BY <2>1, BlocksStand
  <2> QED
    BY <2>1, <2>2
<1>4. i - 1 \in 0..Len(ps) /\ i - 1 < Len(ps) /\ (i - 1) + 1 = i /\ i \in 1..Len(ps)
  BY <1>3
<1>5. EndOf(ps, i - 1) % 4 = 0
  <2>1. ~(i <= i - 1)
    BY <1>4
  <2>2. i - 1 \notin T
    <3> HIDE DEF T
    <3> QED
      BY <1>2, <2>1
  <2> QED
    BY <1>4, <2>2
<1> DEFINE a == EndOf(ps, i - 1)
           c == ElementCount(ps[i])
<1>6. a \in Nat /\ EndOf(ps, i) = a + DescriptorSize + EntrySize * c
  BY <1>4, BlocksStand
<1>7. c \in Nat /\ c % 2 = 0
  <2>1. ps[i] \in LoadedBlocks /\ ElementCount(ps[i]) % 2 = 0
    BY <1>4
  <2> QED
    BY <2>1 DEF LoadedBlocks
<1>8. a % 4 = 0
  BY <1>5
<1> HIDE DEF a, c
<1>9. (a + DescriptorSize + EntrySize * c) % 4 = 0
  BY <1>6, <1>7, <1>8 DEF DescriptorSize, EntrySize
<1> QED
  BY <1>3, <1>6, <1>9

(* What is left to be read of a directory is the next block.               *)
LEMMA DescriptorFound ==
  ASSUME LoadInv, NEW ps, Tracked(ps), phase = "block", cur < LastRva
  PROVE  LET n == Len(list)
             b == ps[n + 1]
             size == DescriptorSize + EntrySize * ElementCount(b)
         IN  /\ n \in Nat /\ n < Len(ps) /\ b \in LoadedBlocks
             /\ Readable(cur, DescriptorSize) /\ Word(cur) = b.va /\ Word(cur + 4) = size
             /\ cur + size <= file.size /\ ElementCount(b) \in Nat
             /\ Misaligned \subseteq (IF aligned THEN {} ELSE {"unaligned"})
<1> DEFINE n == Len(list)
           b == ps[n + 1]
           size == DescriptorSize + EntrySize * ElementCount(b)
           x == BlockBytes(b, FALSE)
           s == file.bytes
<1>1. /\ n \in Nat /\ ps \in Seq(LoadedBlocks) /\ Len(ps) \in Nat /\ n <= Len(ps) /\ n \in 0..Len(ps)
      /\ cur = EndOf(ps, n) /\ cur \in Nat
      /\ file.start = 0 /\ file.rva = 0 /\ s = Built(ps, FALSE) /\ file.size = Len(s)
  BY DEF Tracked, OnTrack, Holds, LoadInv, LoadShape
<1>2. s \in Seq(Int) /\ file.virt \in Nat /\ Len(s) \in Nat
  <2>1. s \in Seq(Int)
    BY <1>1, BuiltList
  <2>2. file.virt \in Nat
    BY DEF LoadInv, LoadShape, DirectoryFiles
  <2> HIDE DEF s
  <2> QED
    BY <2>1, <2>2
<1> HIDE DEF s
<1>3. n < Len(ps)
  <2>1. n = Len(ps) => cur = Len(s)
    BY <1>1, BlocksStand
  <2>2. LastRva = Len(s)
    <3>1. file.rva = 0 /\ file.size = Len(s) /\ Len(s) \in Nat
      BY <1>1, <1>2
    <3> QED
      BY <3>1 DEF LastRva
  <2>3. n # Len(ps)
    <3>1. cur \in Nat /\ Len(s) \in Nat /\ cur < Len(s)
      BY <1>1, <1>2, <2>2
    <3>2. cur # Len(s)
      BY <3>1
    <3> QED
      BY <2>1, <3>2
  <2>4. n \in Nat /\ Len(ps) \in Nat /\ n <= Len(ps)
    BY <1>1
  <2> HIDE DEF n
  <2> QED
    BY <2>3, <2>4
<1>4. b \in LoadedBlocks /\ Stands(s, cur, x)
  <2>1. n + 1 \in 1..Len(ps)
    BY <1>1, <1>3
  <2>2. b \in LoadedBlocks
    BY <1>1, <2>1
  <2>3. Stands(Built(ps, FALSE), EndOf(ps, n), x)
    BY <1>1, <1>3, BlocksStand
  <2> QED
    BY <1>1, <2>2, <2>3
<1>5. /\ size \in Nat /\ Len(x) = size /\ Stands(x, 0, WordBytes(b.va)) /\ Stands(x, 4, WordBytes(size))
      /\ b.va \in Nat /\ ElementCount(b) \in Nat
  <2> HIDE DEF b
  <2>1. b.va \in Nat /\ ElementCount(b) \in Nat
    BY <1>4 DEF LoadedBlocks, U32
  <2> QED
    BY <1>4, <2>1, BlockStands
<1> HIDE DEF n, b, x, size
<1>6. /\ Len(WordBytes(b.va)) = 4 /\ Len(WordBytes(size)) = 4
  BY <1>5, WordWritten
<1>7. Stands(s, cur + 0, WordBytes(b.va)) /\ Stands(s, cur + 4, WordBytes(size))
  <2>1. 0 \in Nat /\ 4 \in Nat /\ Len(x) \in Nat
    BY <1>5
  <2> QED
    BY <1>1, <1>2, <1>4, <1>5, <1>6, <2>1, StandsWithin
<1>8. Word(cur) = b.va
  <2>1. cur + 0 = cur
    BY <1>1
  <2>2. Stands(file.bytes, cur, WordBytes(b.va))
    BY <1>7, <2>1 DEF s
  <2> QED
    BY <1>1, <1>2, <1>5, <2>2, WordThere DEF s
<1>9. Word(cur + 4) = size
  <2> DEFINE at == cur + 4
  <2>1. at \in Nat /\ Stands(file.bytes, at, WordBytes(size))
    <3>1. Stands(s, cur + 4, WordBytes(size)) /\ cur \in Nat
      BY <1>1, <1>7
    <3> QED
      BY <3>1 DEF s
  <2> HIDE DEF at
  <2>2. Word(at) = size
    BY <1>1, <1>2, <1>5, <2>1, WordThere DEF s
  <2> QED
    BY <2>2 DEF at
<1>10. cur + size <= Len(s)
  BY <1>4, <1>5 DEF Stands
<1>11. Readable(cur, DescriptorSize)
  <2>1. size >= 8
    BY <1>5 DEF size, DescriptorSize, EntrySize
  <2>2. /\ cur \in Nat /\ Len(s) \in Nat /\ size \in Nat /\ cur + size <= Len(s)
        /\ file.start = 0 /\ file.virt \in Nat
    BY <1>1, <1>2, <1>5, <1>10
  <2>3. cur + 8 <= Len(file.bytes) /\ Len(file.bytes) \in Nat
    BY <2>1, <2>2 DEF s
  <2> QED
    BY <2>2, <2>3 DEF Readable, DescriptorSize
<1>12. Misaligned \subseteq (IF aligned THEN {} ELSE {"unaligned"})
  <2>1. CASE ~aligned
    BY <2>1 DEF Misaligned
  <2>2. CASE aligned
    <3>1. \A i \in 1..Len(ps) : ElementCount(ps[i]) % 2 = 0
      BY <2>2 DEF Tracked, Holds
    <3>2. cur % 4 = 0
      BY <1>1, <3>1, EndsAligned
    <3>3. AlignedUp(cur) = cur
      <4>1. cur \in Nat /\ cur % 4 = 0
        BY <1>1, <3>2
      <4>2. ((cur + 4 - 1) \div 4) * 4 = cur
        BY <4>1
      <4> QED
        BY <4>2 DEF AlignedUp, Alignment
    <3> QED
      BY <3>3 DEF Misaligned
  <2> QED
    BY <2>1, <2>2
<1> QED
  BY <1>1, <1>3, <1>4, <1>5, <1>8, <1>9, <1>10, <1>11, <1>12 DEF n, b, size

(* Load takes it as the next block.                                        *)
LEMMA BlockOnTrack ==
  ASSUME LoadInv, NEW ps, Tracked(ps), LoadBlock
  PROVE  TrackedNext(ps)
<1> DEFINE n == Len(list)
           c == ps[n + 1]
           k == ElementCount(c)
           size == DescriptorSize + EntrySize * k
           b == Block(c.va, size, Misaligned)
           allowed == IF aligned THEN {} ELSE {"unaligned"}
<1>1. phase = "block" /\ cur < LastRva
  BY DEF LoadBlock
<1>2. /\ n \in Nat /\ n < Len(ps) /\ c \in LoadedBlocks /\ k \in Nat
      /\ Readable(cur, DescriptorSize) /\ Word(cur) = c.va /\ Word(cur + 4) = size
      /\ cur + size <= file.size /\ Misaligned \subseteq allowed
  BY <1>1, DescriptorFound
<1>3. /\ ps \in Seq(LoadedBlocks) /\ list \in Seq(LoadedBlocks) /\ cur \in Nat /\ cur = EndOf(ps, n)
      /\ file.size < U32Max - DescriptorSize /\ errors = {}
      /\ \A i \in 1..n : Accepted(list[i], aligned) /\ Alike(list[i], ps[i])
      /\ file.size \in Nat /\ U32Max \in Nat
  <2>1. list \in Seq(LoadedBlocks) /\ cur \in Nat
    BY DEF LoadInv, LoadShape
  <2>2. U32Max \in Nat
    BY ByteWidths DEF U32Max
  <2>3. file.size \in Nat
    <3>1. file.size \in U32
      BY DEF LoadInv, LoadShape, DirectoryFiles
    <3> QED
      BY <2>2, <3>1 DEF U32
  <2>4. ps \in Seq(LoadedBlocks) /\ file.size < U32Max - DescriptorSize
        /\ OnTrack(ps, aligned, phase, cur, count, list, errors)
    BY DEF Tracked, Holds
  <2>5. cur = EndOf(ps, n) /\ errors = {} /\ \A i \in 1..n : Accepted(list[i], aligned)
    BY <1>1, <2>4 DEF OnTrack
  <2>6. \A i \in 1..n : Alike(list[i], ps[i])
    BY <1>1, <2>4 DEF OnTrack
  <2> QED
    BY <2>1, <2>2, <2>3, <2>4, <2>5, <2>6
<1>4. Part(c, 0) = [c EXCEPT !.entries = <<>>] /\ ElementCount(Part(c, 0)) = 0
  <2>1. 0 \in 0..Len(c.entries)
    BY <1>2 DEF LoadedBlocks
  <2> HIDE DEF c
  <2> QED
    BY <1>2, <2>1, OneEntryMore, PartNothing
<1>5. size \in Nat /\ size >= 8 /\ size % 2 = 0 /\ (size - DescriptorSize) \div EntrySize = k
  <2> HIDE DEF k
  <2> QED
    BY <1>2 DEF DescriptorSize, EntrySize
<1>6. c.entries = c.entries /\ Len(c.entries) \in Nat
  BY <1>2 DEF LoadedBlocks
<1> HIDE DEF n, c, k, size
<1>7. cur + 8 + 8 <= U32Max
  <2>1. /\ cur \in Nat /\ size \in Nat /\ file.size \in Nat /\ U32Max \in Nat
        /\ size >= 8 /\ cur + size <= file.size /\ file.size < U32Max - 8
    BY <1>2, <1>3, <1>5 DEF DescriptorSize
  <2> QED
    BY <2>1
<1>8. AlignedUp(cur) <= U32Max /\ cur + DescriptorSize <= U32Max
  BY <1>3, <1>7 DEF AlignedUp, Alignment, DescriptorSize
<1>9. BlockEven(c.va, size)
  <2>1. ~BlockUnread /\ ~BlockOverflows(c.va, size)
    <3>1. /\ cur \in Nat /\ U32Max \in Nat /\ cur + 8 <= U32Max
          /\ ((cur + 4 - 1) \div 4) * 4 <= U32Max
      BY <1>3, <1>8 DEF AlignedUp, Alignment, DescriptorSize
    <3>2. ~(((cur + 4 - 1) \div 4) * 4 > U32Max) /\ ~(cur + 8 > U32Max)
      BY <3>1
    <3>3. ~BlockOverflows(c.va, size)
      BY <3>2 DEF BlockOverflows, AlignedUp, Alignment, DescriptorSize
    <3>4. ~BlockUnread
      BY <1>2 DEF BlockUnread
    <3> QED
      BY <3>3, <3>4
  <2>2. ~BlockTooSmall(c.va, size) /\ ~BlockOdd(c.va, size)
    BY <1>5 DEF BlockTooSmall, BlockOdd, DescriptorSize
  <2> QED
    BY <1>2, <2>1, <2>2 DEF LoadBlock
<1>10. /\ list' = Append(list, b) /\ phase' = "elements" /\ cur' = cur + 8 /\ count' = k
       /\ errors' = {}
  BY <1>3, <1>5, <1>9 DEF BlockEven, AddBlock, DescriptorSize
<1>11. b.entries = <<>> /\ b.va = c.va /\ b.errors = Misaligned
  BY DEF Block
<1>12. /\ Accepted(b, aligned) /\ Begins(b, c)
  <2>1. Len(<<>>) = 0 /\ DOMAIN <<>> = {} /\ 1..0 = {}
    OBVIOUS
  <2> HIDE DEF b
  <2> QED
    BY <1>2, <1>6, <1>11, <2>1 DEF Accepted, Begins
<1> HIDE DEF b
<1>13. /\ Len(list') = n + 1 /\ list'[n + 1] = b /\ \A i \in 1..n : list'[i] = list[i]
  BY <1>3, <1>10 DEF n
<1>14. InBlock(ps, list', n + 1, cur', count')
  <2>1. (n + 1) - 1 = n /\ n + 1 # 0
    BY <1>2
  <2>2. Len(b.entries) = 0
    BY <1>11
  <2>3. /\ cur' = EndOf(ps, n) + DescriptorSize + EntrySize * 0 /\ count' = k - 0
    BY <1>2, <1>3, <1>10 DEF DescriptorSize, EntrySize
  <2> QED
    BY <1>4, <1>12, <1>13, <2>1, <2>2, <2>3 DEF InBlock, c, k
<1>15. \A i \in 1..(n + 1) : Accepted(list'[i], aligned)
  <2>1. \A i \in 1..(n + 1) : i = n + 1 \/ i \in 1..n
    BY <1>2
  <2> QED
    BY <1>3, <1>12, <1>13, <2>1
<1>16. \A i \in 1..((n + 1) - 1) : Alike(list'[i], ps[i])
  <2>1. (n + 1) - 1 = n
    BY <1>2
  <2> QED
    BY <1>3, <1>13, <2>1
<1>17. n + 1 <= Len(ps)
  BY <1>2, <1>3
<1> QED
  BY <1>10, <1>13, <1>14, <1>15, <1>16, <1>17 DEF TrackedNext, OnTrack

(* What is left to be read of a block is the next entry.                   *)
LEMMA EntryFound ==
  ASSUME LoadInv, NEW ps, Tracked(ps), phase = "elements", count > 0
  PROVE  LET n == Len(list)
             b == ps[n]
             m == Len(list[n].entries)
             e == b.entries[m + 1]
         IN  /\ n \in 1..Len(ps) /\ b \in LoadedBlocks /\ m \in 0..Len(b.entries)
             /\ m < Len(b.entries)
             /\ e \in LoadedEntries /\ Elements(e) <= count
             /\ (e.param # None <=> TypeOf(e.half) = HighAdj)
             /\ Readable(cur, EntrySize) /\ Half(cur) = e.half
             /\ cur + EntrySize * Elements(e) <= file.size
             /\ e.param # None =>
                  Readable(cur + EntrySize, EntrySize) /\ Half(cur + EntrySize) = e.param[1]
<1> DEFINE n == Len(list)
           b == ps[n]
           m == Len(list[n].entries)
           e == b.entries[m + 1]
           s == file.bytes
           i == ElementCount(Part(b, m))
           x == BlockBytes(b, FALSE)
           es == EntriesBytes(b.entries)
           y == EntryBytes(e)
<1>1. /\ n \in Nat /\ n # 0 /\ n <= Len(ps) /\ ps \in Seq(LoadedBlocks) /\ Len(ps) \in Nat
      /\ list \in Seq(LoadedBlocks) /\ InBlock(ps, list, n, cur, count)
      /\ file.start = 0 /\ file.rva = 0 /\ s = Built(ps, FALSE) /\ file.size = Len(s)
      /\ file.virt \in Nat
  BY DEF Tracked, OnTrack, Holds, LoadInv, LoadShape, DirectoryFiles, InBlock
<1>2. n \in 1..Len(ps) /\ n - 1 \in 0..Len(ps) /\ n - 1 < Len(ps) /\ (n - 1) + 1 = n
  <2> HIDE DEF n
  <2> QED
    BY <1>1
<1>3. b \in LoadedBlocks /\ list[n] \in LoadedBlocks /\ Adjusts(b) /\ Complete(b)
  <2>1. n \in 1..Len(list)
    BY <1>1
  <2> HIDE DEF n
  <2> QED
    BY <1>1, <1>2, <2>1 DEF Tracked
<1>4. s \in Seq(Int) /\ Len(s) \in Nat
  <2>1. s \in Seq(Int)
    BY <1>1, BuiltList
  <2> HIDE DEF s
  <2> QED
    BY <2>1
<1>5. /\ Begins(list[n], b) /\ count = ElementCount(b) - i
      /\ cur = EndOf(ps, n - 1) + DescriptorSize + EntrySize * i
  BY <1>1 DEF InBlock
<1>6. m \in 0..Len(b.entries) /\ b.entries \in Seq(LoadedEntries) /\ ElementCount(b) \in Nat
  <2>1. list[n].entries \in Seq(LoadedEntries)
    BY <1>3 DEF LoadedBlocks
  <2>2. b.entries \in Seq(LoadedEntries) /\ ElementCount(b) \in Nat
    BY <1>3 DEF LoadedBlocks
  <2>3. m \in Nat /\ Len(b.entries) \in Nat
    BY <2>1, <2>2
  <2>4. m <= Len(b.entries)
    BY <1>5 DEF Begins
  <2> HIDE DEF m, b
  <2> QED
    BY <2>2, <2>3, <2>4
<1> HIDE DEF s, n
<1>7. m < Len(b.entries)
  <2>1. m = Len(b.entries) => i = ElementCount(b)
    BY <1>3, <1>6, OneEntryMore
  <2>2. i # ElementCount(b)
    <3> HIDE DEF i, b
    <3> QED
      BY <1>5, <1>6
  <2> HIDE DEF m, b, i
  <2> QED
    BY <1>6, <2>1, <2>2
<1>8. /\ e \in LoadedEntries /\ i \in Nat /\ Stands(es, EntrySize * i, y) /\ i + Elements(e) <= ElementCount(b)
  BY <1>3, <1>6, <1>7, NextEntry, EntryStands
<1>9. e.param # None <=> TypeOf(e.half) = HighAdj
  <2>1. m + 1 \in DOMAIN b.entries
    <3> HIDE DEF m, b
    <3> QED
      BY <1>6, <1>7
  <2> QED
    BY <1>3, <2>1 DEF Adjusts, Complete
<1>10. Elements(e) \in {1, 2} /\ Elements(e) <= count
  <2>1. Elements(e) \in {1, 2}
    BY DEF Elements
  <2> HIDE DEF e, i, b
  <2> QED
    BY <1>5, <1>6, <1>8, <2>1
<1>11. /\ Stands(s, EndOf(ps, n - 1), x) /\ EndOf(ps, n - 1) \in Nat
       /\ Stands(x, 8, es) /\ Len(x) \in Nat /\ Len(es) \in Nat
       /\ Len(y) = EntrySize * Elements(e) /\ Len(y) \in Nat
  <2>1. EndOf(ps, n - 1) \in Nat /\ Stands(s, EndOf(ps, n - 1), x)
    <3>1. Stands(Built(ps, FALSE), EndOf(ps, n - 1), BlockBytes(ps[(n - 1) + 1], FALSE))
      BY <1>1, <1>2, BlocksStand
    <3>2. EndOf(ps, n - 1) \in Nat
      BY <1>1, <1>2, BlocksStand
    <3> QED
      BY <1>1, <1>2, <3>1, <3>2
  <2>2. x \in Seq(Int) /\ Stands(x, 8, es)
    BY <1>3, BlockStands
  <2>3. es \in Seq(Bytes)
    BY <1>3 DEF LoadedBlocks
  <2>4. y \in Seq(Bytes) /\ Len(y) = EntrySize * Elements(e)
    BY <1>8, EntryWritten
  <2> HIDE DEF x, es, y
  <2> QED
    BY <2>1, <2>2, <2>3, <2>4
<1> HIDE DEF b, m, e, i, x, es, y
<1>12. Stands(s, cur, y) /\ cur \in Nat
  <2>1. EntrySize * i \in Nat /\ 8 \in Nat
    BY <1>8 DEF EntrySize
  <2>2. Stands(x, 8 + EntrySize * i, y)
    BY <1>8, <1>11, <2>1, StandsWithin
  <2>3. 8 + EntrySize * i \in Nat
    BY <2>1
  <2>4. Stands(s, EndOf(ps, n - 1) + (8 + EntrySize * i), y)
    BY <1>4, <1>11, <2>2, <2>3, StandsWithin
  <2>5. EndOf(ps, n - 1) + (8 + EntrySize * i) = cur
    BY <1>5, <1>11, <2>1 DEF DescriptorSize
  <2>6. cur \in Nat
    BY DEF LoadInv, LoadShape
  <2> QED
    BY <2>4, <2>5, <2>6
<1>13. cur + EntrySize * Elements(e) <= Len(s)
  BY <1>11, <1>12 DEF Stands
<1> DEFINE h == HalfBytes(e.half)
           q == HalfBytes(e.param[1])
<1>14. e.half \in Nat /\ h \in Seq(Int) /\ Len(h) = 2
  <2>1. e.half \in Nat
    BY <1>8, ByteWidths DEF LoadedEntries, Halves
  <2> QED
    BY <2>1, HalfWritten
<1>15. Stands(y, 0, h)
  <2>1. CASE e.param = None
    <3>1. y = h \o <<>> /\ <<>> \in Seq(Int)
      BY <2>1 DEF EntryBytes, y
    <3> HIDE DEF h
    <3> QED
      BY <1>14, <3>1, StandsFirst
  <2>2. CASE e.param # None
    <3>1. e.param[1] \in Nat
      BY <1>8, <2>2, ByteWidths DEF LoadedEntries, Halves
    <3>2. q \in Seq(Int) /\ y = h \o q
      BY <2>2, <3>1, HalfWritten DEF EntryBytes, y
    <3> HIDE DEF h, q
    <3> QED
      BY <1>14, <3>2, StandsFirst
  <2> QED
    BY <2>1, <2>2
<1>16. Readable(cur, EntrySize) /\ Half(cur) = e.half
  <2>1. Len(h) \in Nat /\ 0 \in Nat /\ cur + 0 = cur
    BY <1>12, <1>14
  <2>2. Stands(s, cur + 0, h)
    <3> HIDE DEF h
    <3> QED
      BY <1>4, <1>11, <1>12, <1>15, <2>1, StandsWithin
  <2>3. Stands(file.bytes, cur, HalfBytes(e.half))
    BY <2>1, <2>2 DEF s
  <2>4. file.bytes \in Seq(Int)
    BY <1>4 DEF s
  <2> QED
    BY <1>1, <1>12, <1>14, <2>3, <2>4, HalfThere
<1>17. ASSUME e.param # None
       PROVE  Readable(cur + EntrySize, EntrySize) /\ Half(cur + EntrySize) = e.param[1]
  <2> DEFINE at == cur + EntrySize
  <2>1. e.param[1] \in Nat
    BY <1>8, <1>17, ByteWidths DEF LoadedEntries, Halves
  <2>2. q \in Seq(Int) /\ Len(q) = 2 /\ y = h \o q
    BY <1>17, <2>1, HalfWritten DEF EntryBytes, y
  <2>3. Stands(y, 2, q)
    <3> HIDE DEF h, q
    <3>1. Stands(h \o q, Len(h), q)
      BY <1>14, <2>2, StandsLast
    <3> QED
      BY <1>14, <2>2, <3>1
  <2>4. Len(q) \in Nat /\ 2 \in Nat /\ cur + 2 = at /\ at \in Nat
    BY <1>12, <2>2 DEF EntrySize
  <2>5. Stands(s, cur + 2, q)
    <3> HIDE DEF q
    <3> QED
      BY <1>4, <1>11, <1>12, <2>3, <2>4, StandsWithin
  <2>6. Stands(file.bytes, at, HalfBytes(e.param[1]))
    BY <2>4, <2>5 DEF s
  <2>7. file.bytes \in Seq(Int)
    BY <1>4 DEF s
  <2> HIDE DEF at
  <2>8. Readable(at, EntrySize) /\ Half(at) = e.param[1]
    BY <1>1, <2>1, <2>4, <2>6, <2>7, HalfThere
  <2> QED
    BY <2>8 DEF at
<1> QED
  BY <1>1, <1>2, <1>3, <1>6, <1>7, <1>8, <1>9, <1>10, <1>13, <1>16, <1>17 DEF b, m, e, n

(* An entry more is read, and load goes on behind it.                      *)
LEMMA EntryGoesOn ==
  ASSUME LoadInv, NEW ps, Tracked(ps), phase = "elements", count > 0, NEW e,
         e = ps[Len(list)].entries[Len(list[Len(list)].entries) + 1],
         NEW es, es \subseteq {"unsupported"},
         AddEntry(e.half, e.param, es, "elements", cur + EntrySize * Elements(e),
                  count - Elements(e))
  PROVE  TrackedNext(ps)
<1> DEFINE n == Len(list)
           b == ps[n]
           l == list[n]
           m == Len(l.entries)
           f == [half |-> e.half, param |-> e.param, errors |-> es]
           c == WithEntry(l, f)
           i == ElementCount(Part(b, m))
<1>1. /\ n \in 1..Len(ps) /\ b \in LoadedBlocks /\ m \in 0..Len(b.entries) /\ m < Len(b.entries)
      /\ e \in LoadedEntries /\ Elements(e) <= count
  BY EntryFound
<1>2. /\ list \in Seq(LoadedBlocks) /\ n \in Nat /\ n # 0 /\ n \in 1..Len(list) /\ cur \in Nat
      /\ count \in Nat /\ Len(ps) \in Nat /\ n <= Len(ps)
  <2>1. list \in Seq(LoadedBlocks) /\ cur \in Nat /\ count \in Nat
    BY DEF LoadInv, LoadShape
  <2>2. ps \in Seq(LoadedBlocks)
    BY DEF Tracked
  <2>3. n \in Nat /\ Len(ps) \in Nat
    BY <2>1, <2>2
  <2> HIDE DEF n
  <2>4. n # 0 /\ n <= Len(ps)
    BY <1>1, <2>3
  <2>5. n \in 1..Len(list)
    <3>1. n \in 1..n
      BY <2>3, <2>4
    <3> QED
      BY <3>1 DEF n
  <2> QED
    BY <2>1, <2>3, <2>4, <2>5
<1>3. /\ errors = {} /\ InBlock(ps, list, n, cur, count)
      /\ \A j \in 1..n : Accepted(list[j], aligned)
      /\ \A j \in 1..(n - 1) : Alike(list[j], ps[j])
  BY DEF Tracked, OnTrack
<1>4. /\ Begins(l, b) /\ cur = EndOf(ps, n - 1) + DescriptorSize + EntrySize * i
      /\ count = ElementCount(b) - i
  BY <1>3 DEF InBlock
<1>5. /\ i \in Nat /\ ElementCount(Part(b, m + 1)) = i + Elements(e) /\ ElementCount(b) \in Nat
  <2>1. ElementCount(b) \in Nat
    BY <1>1 DEF LoadedBlocks
  <2> HIDE DEF b, m
  <2> QED
    BY <1>1, <2>1, NextEntry DEF b, m
<1>6. l \in LoadedBlocks
  BY <1>2
<1>7. /\ list' = Append(Front(list), c) /\ phase' = "elements" /\ errors' = {}
      /\ cur' = cur + EntrySize * Elements(e) /\ count' = count - Elements(e)
  BY <1>3 DEF AddEntry, Last
<1>8. c.entries = Append(l.entries, f) /\ c.va = l.va /\ c.errors = l.errors
  BY <1>6 DEF WithEntry, LoadedBlocks
<1>9. /\ Len(c.entries) = m + 1 /\ DOMAIN c.entries = 1..(m + 1) /\ c.entries[m + 1] = f
      /\ \A k \in 1..m : c.entries[k] = l.entries[k]
      /\ m \in Nat /\ DOMAIN l.entries = 1..m
  <2>1. l.entries \in Seq(LoadedEntries)
    BY <1>6 DEF LoadedBlocks
  <2> HIDE DEF l, c, f
  <2> QED
    BY <1>8, <2>1
<1>b. \A k \in 1..(m + 1) : k = m + 1 \/ k \in 1..m
  <2>1. m \in Nat
    BY <1>9
  <2> HIDE DEF m
  <2> QED
    BY <2>1
<1>10. Accepted(c, aligned)
  <2>1. Accepted(l, aligned)
    BY <1>2, <1>3
  <2>2. f.errors = es
    OBVIOUS
  <2> HIDE DEF l, c, f, m
  <2> QED
    BY <1>8, <1>9, <1>b, <2>1, <2>2 DEF Accepted
<1>11. Begins(c, b)
  <2>1. f.half = e.half /\ f.param = e.param
    OBVIOUS
  <2>2. e = b.entries[m + 1] /\ m + 1 <= Len(b.entries)
    <3>1. e = b.entries[m + 1]
      OBVIOUS
    <3>2. m \in Nat
      BY <1>9
    <3> HIDE DEF b, m
    <3>3. Len(b.entries) \in Nat
      <4>1. b.entries \in Seq(LoadedEntries)
        BY <1>1 DEF LoadedBlocks
      <4> QED
        BY <4>1
    <3> QED
      BY <1>1, <3>1, <3>2, <3>3
  <2>4. \A k \in 1..Len(l.entries) :
          l.entries[k].half = b.entries[k].half /\ l.entries[k].param = b.entries[k].param
    BY <1>4 DEF Begins
  <2>5. c.va = b.va
    BY <1>4, <1>8 DEF Begins
  <2>6. \A k \in 1..m :
          l.entries[k].half = b.entries[k].half /\ l.entries[k].param = b.entries[k].param
    BY <2>4
  <2> HIDE DEF l, b, c, f, m
  <2> QED
    BY <1>9, <1>b, <2>1, <2>2, <2>5, <2>6 DEF Begins
<1> HIDE DEF c, f
<1>12. /\ Len(list') = n /\ list'[n] = c /\ \A j \in 1..(n - 1) : list'[j] = list[j]
  <2>1. Front(list) = SubSeq(list, 1, n - 1)
    BY DEF Front
  <2> DEFINE front == Front(list)
  <2>2. n = Len(list)
    OBVIOUS
  <2>4. /\ front \in Seq(LoadedBlocks) /\ Len(front) = n - 1
        /\ \A j \in 1..(n - 1) : front[j] = list[j]
    <3> HIDE DEF n
    <3>1. /\ SubSeq(list, 1, n - 1) \in Seq(LoadedBlocks) /\ Len(SubSeq(list, 1, n - 1)) = n - 1
          /\ \A j \in 1..(n - 1) : SubSeq(list, 1, n - 1)[j] = list[j]
      BY <1>2, <2>2
    <3> QED
      BY <2>1, <3>1
  <2>5. list' = Append(front, c)
    BY <1>7
  <2> HIDE DEF front, n
  <2>6. Len(Append(front, c)) = (n - 1) + 1 /\ Append(front, c)[(n - 1) + 1] = c
        /\ \A j \in 1..(n - 1) : Append(front, c)[j] = front[j]
    BY <2>4
  <2>7. (n - 1) + 1 = n
    BY <1>2
  <2> QED
    BY <2>4, <2>5, <2>6, <2>7
<1>13. InBlock(ps, list', n, cur', count')
  <2> DEFINE d == Elements(e)
             at == EndOf(ps, n - 1)
             z == ElementCount(b)
  <2>1. d \in Nat /\ i \in Nat /\ z \in Nat
    <3>1. d \in {1, 2}
      BY DEF Elements
    <3>2. i \in Nat /\ z \in Nat
      BY <1>5
    <3> HIDE DEF d, i, z
    <3> QED
      BY <3>1, <3>2
  <2>2. cur' = at + DescriptorSize + EntrySize * (i + d) /\ count' = z - (i + d)
    <3>1. at \in Nat
      <4>1. n - 1 \in 0..Len(ps) /\ ps \in Seq(LoadedBlocks)
        BY <1>2 DEF Tracked
      <4> QED
        BY <4>1, BlocksStand
    <3>2. cur' = (at + 8 + 2 * i) + 2 * d
      BY <1>4, <1>7 DEF DescriptorSize, EntrySize
    <3>3. count' = (z - i) - d
      BY <1>4, <1>7
    <3> HIDE DEF at, i, d, z
    <3>4. cur' = at + 8 + 2 * (i + d)
      BY <2>1, <3>1, <3>2
    <3>5. count' = z - (i + d)
      BY <2>1, <3>3
    <3> QED
      BY <3>4, <3>5 DEF DescriptorSize, EntrySize
  <2>3. ElementCount(Part(b, m + 1)) = i + d
    BY <1>5
  <2>4. Len(list'[n].entries) = m + 1
    BY <1>9, <1>12
  <2> HIDE DEF i, d, m
  <2> QED
    BY <1>2, <1>11, <1>12, <2>2, <2>3, <2>4 DEF InBlock
<1>14. \A j \in 1..n : Accepted(list'[j], aligned)
  <2>1. \A j \in 1..n : j = n \/ j \in 1..(n - 1)
    BY <1>2
  <2>2. \A j \in 1..(n - 1) : j \in 1..n
    BY <1>2
  <2> HIDE DEF n
  <2> QED
    BY <1>3, <1>10, <1>12, <2>1, <2>2
<1>15. \A j \in 1..(n - 1) : Alike(list'[j], ps[j])
  <2> HIDE DEF n
  <2> QED
    BY <1>3, <1>12
<1> QED
  BY <1>2, <1>7, <1>12, <1>13, <1>14, <1>15 DEF TrackedNext, OnTrack

(* Load takes it as the next entry.                                        *)
LEMMA EntryOnTrack ==
  ASSUME LoadInv, NEW ps, Tracked(ps), LoadEntry
  PROVE  TrackedNext(ps)
<1> DEFINE n == Len(list)
           m == Len(list[n].entries)
           e == ps[n].entries[m + 1]
           es == TypeErrors(e.half)
<1>1. phase = "elements" /\ count > 0
  BY DEF LoadEntry
<1>2. /\ e \in LoadedEntries /\ Elements(e) <= count
      /\ (e.param # None <=> TypeOf(e.half) = HighAdj)
      /\ Readable(cur, EntrySize) /\ Half(cur) = e.half
      /\ cur + EntrySize * Elements(e) <= file.size
      /\ e.param # None =>
           Readable(cur + EntrySize, EntrySize) /\ Half(cur + EntrySize) = e.param[1]
  BY <1>1, EntryFound
<1>a. e = ps[Len(list)].entries[Len(list[Len(list)].entries) + 1]
  OBVIOUS
<1> HIDE DEF e, m, n
<1>3. /\ cur \in Nat /\ count \in Nat /\ file.size \in Nat /\ U32Max \in Nat /\ LastRva = file.size
      /\ file.size < U32Max - DescriptorSize
  <2>1. cur \in Nat /\ count \in Nat /\ file.size \in U32
    BY DEF LoadInv, LoadShape, DirectoryFiles
  <2>2. U32Max \in Nat
    BY ByteWidths DEF U32Max
  <2>3. file.size \in Nat
    BY <2>1, <2>2 DEF U32
  <2>4. file.size < U32Max - DescriptorSize /\ file.rva = 0
    BY DEF Tracked, Holds
  <2> QED
    BY <2>1, <2>2, <2>3, <2>4 DEF LastRva
<1>4. /\ LastRva + EntrySize <= U32Max /\ cur + EntrySize <= LastRva /\ cur + EntrySize <= U32Max
      /\ (e.param # None => HasSpace(cur + EntrySize) /\ count > 1)
  <2>1. Elements(e) = IF e.param = None THEN 1 ELSE 2
    BY DEF Elements
  <2> QED
    BY <1>2, <1>3, <2>1 DEF EntrySize, DescriptorSize, HasSpace
<1>5. ~Ends /\ ~EntryUnread
  <2>1. ~Ends
    BY <1>3, <1>4 DEF Ends, EntrySize
  <2>2. ~(cur + EntrySize > U32Max)
    BY <1>3, <1>4 DEF EntrySize
  <2> QED
    BY <1>2, <2>1, <2>2 DEF EntryUnread
<1>6. EntryAdjusted(e.half) \/ EntryWithoutParam(e.half) \/ EntryPlain(e.half)
  BY <1>2, <1>5 DEF LoadEntry
<1>7. es \subseteq {"unsupported"}
  BY DEF TypeErrors
<1> HIDE DEF es
<1>8. CASE e.param = None
  <2>1. Elements(e) = 1
    BY <1>8 DEF Elements
  <2>2. TypeOf(e.half) # HighAdj
    BY <1>2, <1>8
  <2>3. AddEntry(e.half, None, es, "elements", cur + EntrySize, count - 1)
    BY <1>6, <2>2 DEF EntryAdjusted, EntryWithoutParam, EntryPlain, es
  <2>4. cur + EntrySize = cur + EntrySize * Elements(e)
    BY <1>3, <2>1 DEF EntrySize
  <2>5. AddEntry(e.half, e.param, es, "elements", cur + EntrySize * Elements(e),
                 count - Elements(e))
    BY <1>8, <2>1, <2>3, <2>4
  <2> QED
    BY <1>1, <1>7, <1>a, <2>5, EntryGoesOn
<1>9. CASE e.param # None
  <2>1. Elements(e) = 2
    BY <1>9 DEF Elements
  <2>2. TypeOf(e.half) = HighAdj
    BY <1>2, <1>9
  <2>3. EntryAdjusted(e.half)
    BY <1>2, <1>4, <1>6, <1>9, <2>2 DEF EntryWithoutParam, EntryPlain
  <2>4. e.param = <<e.param[1]>>
    <3>1. e.param \in {None} \cup {<<h>> : h \in Halves}
      BY <1>2 DEF LoadedEntries
    <3>2. PICK h : e.param = <<h>>
      BY <1>9, <3>1
    <3> QED
      BY <3>2
  <2>5. AddEntry(e.half, e.param, es, "elements", cur + EntrySize + EntrySize, count - 2)
    BY <1>2, <1>9, <2>3, <2>4 DEF EntryAdjusted, es
  <2>6. cur + EntrySize + EntrySize = cur + EntrySize * Elements(e)
    BY <1>3, <2>1 DEF EntrySize
  <2>7. AddEntry(e.half, e.param, es, "elements", cur + EntrySize * Elements(e),
                 count - Elements(e))
    BY <2>1, <2>5, <2>6
  <2> QED
    BY <1>1, <1>7, <1>a, <2>7, EntryGoesOn
<1> QED
  BY <1>8, <1>9

(* With nothing left to be read the block is whole.                        *)
LEMMA EndBlockOnTrack ==
  ASSUME LoadInv, NEW ps, Tracked(ps), EndBlock
  PROVE  TrackedNext(ps)
<1> DEFINE n == Len(list)
           b == ps[n]
           m == Len(list[n].entries)
           i == ElementCount(Part(b, m))
<1>1. /\ phase = "elements" /\ count = 0 /\ phase' = "block" /\ cur' = cur /\ count' = count
      /\ list' = list /\ errors' = errors
  BY DEF EndBlock
<1>2. /\ errors = {} /\ InBlock(ps, list, n, cur, count) /\ n <= Len(ps)
      /\ \A j \in 1..n : Accepted(list[j], aligned)
      /\ \A j \in 1..(n - 1) : Alike(list[j], ps[j])
      /\ ps \in Seq(LoadedBlocks) /\ list \in Seq(LoadedBlocks)
  BY <1>1 DEF Tracked, OnTrack, LoadInv, LoadShape
<1>3. /\ n \in Nat /\ n # 0 /\ Begins(list[n], b) /\ 0 = ElementCount(b) - i
      /\ cur = EndOf(ps, n - 1) + DescriptorSize + EntrySize * i
  BY <1>1, <1>2 DEF InBlock
<1>4. n \in 1..Len(ps) /\ n - 1 \in 0..Len(ps) /\ n - 1 < Len(ps) /\ (n - 1) + 1 = n
  <2>1. Len(ps) \in Nat
    BY <1>2
  <2> HIDE DEF n
  <2> QED
    BY <1>2, <1>3, <2>1
<1>5. b \in LoadedBlocks /\ list[n] \in LoadedBlocks
  <2>1. n \in 1..Len(list)
    BY <1>3
  <2> HIDE DEF n
  <2> QED
    BY <1>2, <1>4, <2>1
<1>6. Len(b.entries) \in Nat /\ m \in Nat /\ ElementCount(b) \in Nat
  <2>1. b.entries \in Seq(LoadedEntries) /\ ElementCount(b) \in Nat
    BY <1>5 DEF LoadedBlocks
  <2>2. list[n].entries \in Seq(LoadedEntries)
    BY <1>5 DEF LoadedBlocks
  <2> QED
    BY <2>1, <2>2
<1>7. m <= Len(b.entries)
  BY <1>3 DEF Begins
<1> HIDE DEF n, b, m, i
<1>8. m \in 0..Len(b.entries)
  BY <1>6, <1>7
<1>9. m = Len(b.entries)
  <2>1. SUFFICES ASSUME m < Len(b.entries) PROVE FALSE
    BY <1>6, <1>7
  <2> DEFINE d == Elements(b.entries[m + 1])
  <2>2. i + d <= ElementCount(b)
    BY <1>5, <1>8, <2>1, EntryStands DEF i
  <2>3. d \in {1, 2}
    BY DEF Elements
  <2>4. i \in Nat
    BY <1>5, <1>8, <2>1, NextEntry DEF i
  <2> HIDE DEF d
  <2> QED
    BY <1>3, <1>6, <2>2, <2>3, <2>4
<1>10. i = ElementCount(b)
  BY <1>5, <1>8, <1>9, OneEntryMore DEF i
<1>11. EndOf(ps, n) = EndOf(ps, n - 1) + DescriptorSize + EntrySize * ElementCount(ps[n])
  BY <1>2, <1>4, BlocksStand
<1>12. cur = EndOf(ps, n)
  BY <1>3, <1>10, <1>11 DEF b
<1>13. \A j \in 1..n : Alike(list[j], ps[j])
  <2>1. Alike(list[n], ps[n])
    BY <1>3, <1>9 DEF Alike, m, b
  <2>2. \A j \in 1..n : j = n \/ j \in 1..(n - 1)
    BY <1>3
  <2> QED
    BY <1>2, <2>1, <2>2
<1> QED
  BY <1>1, <1>2, <1>12, <1>13 DEF TrackedNext, OnTrack, n

(* The directory ends with the last block.                                 *)
LEMMA FinishOnTrack ==
  ASSUME LoadInv, NEW ps, Tracked(ps), Finish
  PROVE  TrackedNext(ps)
<1> DEFINE n == Len(list)
           s == Built(ps, FALSE)
<1>1. /\ phase = "block" /\ cur >= LastRva /\ phase' = "returned"
      /\ cur' = cur /\ count' = count /\ list' = list
  BY DEF Finish
<1>2. /\ errors = {} /\ n <= Len(ps) /\ cur = EndOf(ps, n)
      /\ \A j \in 1..n : Accepted(list[j], aligned)
      /\ \A j \in 1..n : Alike(list[j], ps[j])
      /\ ps \in Seq(LoadedBlocks) /\ list \in Seq(LoadedBlocks)
  BY <1>1 DEF Tracked, OnTrack, LoadInv, LoadShape
<1>3. n \in 0..Len(ps) /\ n \in Nat /\ Len(ps) \in Nat
  BY <1>2
<1>4. LastRva = Len(s) /\ Len(s) \in Nat /\ cur \in Nat
  <2>1. s \in Seq(Int)
    BY <1>2, BuiltList
  <2>2. file.rva = 0 /\ file.size = Len(s)
    BY DEF Tracked, Holds
  <2>3. Len(s) \in Nat
    <3> HIDE DEF s
    <3> QED
      BY <2>1
  <2>4. cur \in Nat
    BY DEF LoadInv, LoadShape
  <2> HIDE DEF s
  <2> QED
    BY <2>2, <2>3, <2>4 DEF LastRva
<1>5. n = Len(ps)
  <2>1. SUFFICES ASSUME n < Len(ps) PROVE FALSE
    <3> HIDE DEF n
    <3> QED
      BY <1>2, <1>3, <2>1
  <2> DEFINE b == ps[n + 1]
             x == BlockBytes(b, FALSE)
  <2>2. Stands(s, cur, x)
    BY <1>2, <1>3, <2>1, BlocksStand
  <2>3. b \in LoadedBlocks
    <3>1. n + 1 \in 1..Len(ps)
      <4> HIDE DEF n
      <4> QED
        BY <1>3, <2>1
    <3> QED
      BY <1>2, <3>1
  <2>4. Len(x) = DescriptorSize + EntrySize * ElementCount(b) /\ ElementCount(b) \in Nat
    <3>1. b.va \in Nat /\ ElementCount(b) \in Nat
      BY <2>3 DEF LoadedBlocks, U32
    <3> HIDE DEF b
    <3> QED
      BY <2>3, <3>1, BlockStands
  <2>5. cur + Len(x) <= Len(s)
    BY <2>2 DEF Stands
  <2> HIDE DEF x, s, b
  <2> QED
    BY <1>1, <1>4, <2>4, <2>5 DEF DescriptorSize, EntrySize
<1>6. cur = Len(s)
  BY <1>2, <1>3, <1>5, BlocksStand
<1>7. errors' = {}
  BY <1>2, <1>4, <1>6 DEF Finish
<1> QED
  BY <1>1, <1>2, <1>5, <1>7 DEF TrackedNext, OnTrack

LEMMA LoadOnTrack ==
  ASSUME LoadInv, NEW ps, Tracked(ps), Load
  PROVE  TrackedNext(ps)
<1>1. CASE LoadBlock
  BY <1>1, BlockOnTrack
<1>2. CASE LoadEntry
  BY <1>2, EntryOnTrack
<1>3. CASE EndBlock
  BY <1>3, EndBlockOnTrack
<1>4. CASE Finish
  BY <1>4, FinishOnTrack
<1> QED
  BY <1>1, <1>2, <1>3, <1>4 DEF Load

LEMMA LoadKeeps ==
  ASSUME Load
  PROVE  file' = file /\ previous' = previous /\ aligned' = aligned /\ rebuilds' = rebuilds
<1>1. UNCHANGED Context
  BY DEF Load, LoadBlock, BlockUnread, BlockOverflows, BlockTooSmall, BlockOdd, BlockEven,
         LoadEntry, EntryUnread, EntryAdjusted, EntryWithoutParam, EntryPlain, EndBlock, Finish,
         AddBlock, AddEntry, Throw, Context
<1> QED
  BY <1>1 DEF Context

(* Padding is an entry without a parameter, of a type that takes none.     *)
LEMMA PaddedComplete ==
  ASSUME NEW blocks \in Seq(LoadedBlocks), NEW align \in BOOLEAN, ParamsPresent(blocks),
         \A i \in DOMAIN blocks : Adjusts(blocks[i]),
         NEW i \in 1..Len(blocks)
  PROVE  Adjusts(Padded(blocks, align)[i]) /\ Complete(Padded(blocks, align)[i])
<1> DEFINE b == blocks[i]
           c == WithEntry(b, NoEntry)
           m == Len(b.entries)
<1>1. b \in LoadedBlocks /\ Adjusts(b) /\ Complete(b)
  <2>1. i \in DOMAIN blocks
    OBVIOUS
  <2> QED
    BY <2>1 DEF ParamsPresent, Complete
<1>2. Padded(blocks, align)[i] = PaddedBlock(b, align)
  BY PaddedList
<1>3. Adjusts(c) /\ Complete(c)
  <2>1. c.entries = Append(b.entries, NoEntry) /\ b.entries \in Seq(LoadedEntries)
    BY <1>1 DEF WithEntry, LoadedBlocks
  <2>2. TypeOf(NoEntry.half) # HighAdj /\ NoEntry.param = None
    <3>1. NoEntry.half = 0 /\ NoEntry.param = None
      BY DEF NoEntry
    <3>2. 0 \div TypeUnit = 0
      BY RelocationAssumption
    <3>3. HighAdj # 0
      BY RelocationAssumption
    <3> QED
      BY <3>1, <3>2, <3>3 DEF TypeOf
  <2>3. \A k \in DOMAIN c.entries :
          (k \in DOMAIN b.entries /\ c.entries[k] = b.entries[k]) \/ c.entries[k] = NoEntry
    <3> DEFINE es == b.entries
               e == NoEntry
    <3>1. es \in Seq(LoadedEntries)
      BY <2>1
    <3> HIDE DEF es, e
    <3>2. \A k \in DOMAIN Append(es, e) :
            (k \in DOMAIN es /\ Append(es, e)[k] = es[k]) \/ Append(es, e)[k] = e
      BY <3>1
    <3>3. c.entries = Append(es, e)
      BY <2>1 DEF es, e
    <3> HIDE DEF c
    <3> QED
      BY <3>2, <3>3 DEF es, e
  <2> HIDE DEF b, c
  <2> QED
    BY <1>1, <2>2, <2>3 DEF Adjusts, Complete
<1> HIDE DEF b, c
<1> QED
  BY <1>1, <1>2, <1>3 DEF PaddedBlock, c

LEMMA RebuiltInitially == Init => RebuiltInv
<1> SUFFICES ASSUME Init PROVE RebuiltInv
  OBVIOUS
<1>1. previous = <<>> /\ aligned = FALSE /\ rebuilds = 0 /\ list = <<>>
  BY DEF Init, Start
<1>2. <<>> \in Seq(LoadedBlocks) /\ DOMAIN <<>> = {}
  OBVIOUS
<1>3. /\ previous \in Seq(LoadedBlocks) /\ aligned \in BOOLEAN
      /\ DOMAIN previous = {} /\ DOMAIN list = {} /\ ~(rebuilds > 0)
  <2>1. previous \in Seq(LoadedBlocks) /\ aligned \in BOOLEAN
    BY <1>1, <1>2
  <2>2. DOMAIN previous = {} /\ DOMAIN list = {}
    BY <1>1, <1>2, Zenon
  <2>3. ~(rebuilds > 0)
    BY <1>1
  <2> QED
    BY <2>1, <2>2, <2>3
<1> QED
  BY <1>3 DEF RebuiltInv

(* The list is built: what is to be loaded is the padded list.             *)
LEMMA RebuiltBegins ==
  ASSUME LoadInv, RebuiltInv, NEW align \in BOOLEAN, Rebuild(align)
  PROVE  RebuiltInv'
<1> DEFINE built == Built(list, align)
           ps == Padded(list, align)
           f == [file EXCEPT !.start = 0, !.bytes = built, !.virt = 0, !.rva = 0,
                             !.size = Len(built)]
<1>1. file \in DirectoryFiles /\ list \in Seq(LoadedBlocks)
  BY DEF LoadInv, LoadShape
<1>2. /\ file' = f /\ cur' = f.rva /\ count' = 0 /\ list' = <<>>
      /\ phase' = IF f.rva + f.size > U32Max THEN "returned" ELSE "block"
      /\ errors' = IF f.rva + f.size > U32Max THEN {"directory_size"} ELSE {}
      /\ previous' = list /\ aligned' = align
      /\ Len(built) < U32Max - DescriptorSize
  BY DEF Rebuild, Start
<1>3. /\ f.start = 0 /\ f.rva = 0 /\ f.bytes = built /\ f.size = Len(built)
  BY <1>1 DEF DirectoryFiles
<1> HIDE DEF f
<1>4. /\ ps \in Seq(LoadedBlocks) /\ Len(ps) = Len(list)
      /\ \A i \in 1..Len(list) : ps[i] = PaddedBlock(list[i], align)
      /\ Built(ps, FALSE) = built
  BY <1>1, PaddedList
<1>5. Len(built) \in Nat /\ U32Max \in Nat
  <2>1. built \in Seq(Int)
    BY <1>1, BuiltList
  <2> HIDE DEF built
  <2> QED
    BY <2>1, ByteWidths DEF U32Max
<1>6. align => \A i \in 1..Len(ps) : ElementCount(ps[i]) % 2 = 0
  <2>1. \A i \in 1..Len(list) : list[i] \in LoadedBlocks
    BY <1>1
  <2> HIDE DEF ps
  <2> QED
    BY <1>4, <2>1, PaddingWritten
<1> HIDE DEF built, ps
<1>7. Holds(ps, align, file')
  BY <1>2, <1>3, <1>4, <1>6 DEF Holds
<1>8. phase' = "block" /\ errors' = {} /\ cur' = 0
  <2>1. ~(0 + Len(built) > U32Max)
    BY <1>2, <1>5 DEF DescriptorSize
  <2> QED
    BY <1>2, <1>3, <2>1
<1>9. OnTrack(ps, align, phase', cur', count', list', errors')
  <2>1. Len(list') = 0 /\ Len(ps) \in Nat /\ 1..0 = {}
    BY <1>2, <1>4
  <2>2. 0 \in 0..Len(ps)
    BY <2>1
  <2>3. EndOf(ps, 0) = 0
    BY <1>4, <2>2, BlocksStand
  <2> QED
    BY <1>8, <2>1, <2>2, <2>3 DEF OnTrack
<1>10. FromPrevious'
  BY <1>2, <1>3, <1>7, <1>9 DEF FromPrevious, ps, built
<1>11. \A i \in DOMAIN list : Adjusts(list[i])
  BY DEF RebuiltInv
<1>12. DOMAIN list' = {}
  BY <1>2
<1> QED
  BY <1>1, <1>2, <1>10, <1>11, <1>12 DEF RebuiltInv

LEMMA RebuiltLoad ==
  ASSUME LoadInv, RebuiltInv, Load
  PROVE  RebuiltInv'
<1> DEFINE ps == Padded(previous, aligned)
<1>1. /\ file' = file /\ previous' = previous /\ aligned' = aligned /\ rebuilds' = rebuilds
  BY LoadKeeps
<1>2. \A i \in DOMAIN list' : Adjusts(list'[i])
  BY ListAdjusts DEF RebuiltInv
<1>3. ASSUME rebuilds > 0, ParamsPresent(previous)
      PROVE  OnTrack(ps, aligned, phase', cur', count', list', errors')
  <2>1. /\ previous \in Seq(LoadedBlocks) /\ aligned \in BOOLEAN
        /\ \A i \in DOMAIN previous : Adjusts(previous[i])
        /\ Holds(ps, aligned, file) /\ OnTrack(ps, aligned, phase, cur, count, list, errors)
    BY <1>3 DEF RebuiltInv, FromPrevious
  <2>2. ps \in Seq(LoadedBlocks) /\ Len(ps) = Len(previous)
    BY <2>1, PaddedList
  <2>3. \A i \in 1..Len(previous) : Adjusts(ps[i]) /\ Complete(ps[i])
    BY <1>3, <2>1, PaddedComplete
  <2> HIDE DEF ps
  <2>4. Tracked(ps)
    BY <2>1, <2>2, <2>3 DEF Tracked
  <2> QED
    BY <2>4, LoadOnTrack DEF TrackedNext
<1>4. rebuilds > 0 => FromPrevious'
  BY <1>1, <1>3 DEF RebuiltInv, FromPrevious
<1> QED
  BY <1>1, <1>2, <1>4 DEF RebuiltInv

LEMMA RebuiltStep == LoadInv /\ RebuiltInv /\ [Next]_vars => RebuiltInv'
<1> SUFFICES ASSUME LoadInv, RebuiltInv, [Next]_vars PROVE RebuiltInv'
  OBVIOUS
<1>1. CASE Load
  BY <1>1, RebuiltLoad
<1>2. CASE \E align \in BOOLEAN : Rebuild(align)
  BY <1>2, RebuiltBegins
<1>3. CASE UNCHANGED vars
  BY <1>3 DEF vars, RebuiltInv, FromPrevious
<1> QED
  BY <1>1, <1>2, <1>3 DEF Next

LEMMA SameContents ==
  ASSUME NEW l \in Seq(LoadedBlocks), NEW ps \in Seq(LoadedBlocks), Len(l) = Len(ps),
         \A i \in 1..Len(l) : Alike(l[i], ps[i])
  PROVE  Contents(l) = Contents(ps)
<1> DEFINE E(e) == [half |-> e.half, param |-> e.param]
           es(b) == [k \in DOMAIN b.entries |-> E(b.entries[k])]
           C(b) == [va |-> b.va, entries |-> es(b)]
<1>1. /\ Contents(l) = [i \in DOMAIN l |-> C(l[i])]
      /\ Contents(ps) = [i \in DOMAIN ps |-> C(ps[i])]
  BY DEF Contents
<1>2. DOMAIN l = 1..Len(l) /\ DOMAIN ps = 1..Len(l)
  OBVIOUS
<1>3. ASSUME NEW i \in 1..Len(l) PROVE C(l[i]) = C(ps[i])
  <2> DEFINE a == l[i]
             b == ps[i]
  <2>1. a.va = b.va /\ Len(a.entries) = Len(b.entries)
    BY DEF Alike, Begins
  <2>2. \A k \in 1..Len(a.entries) :
          a.entries[k].half = b.entries[k].half /\ a.entries[k].param = b.entries[k].param
    BY DEF Alike, Begins
  <2>3. a.entries \in Seq(LoadedEntries) /\ b.entries \in Seq(LoadedEntries)
    <3>1. a \in LoadedBlocks /\ b \in LoadedBlocks
      BY <1>2
    <3> QED
      BY <3>1 DEF LoadedBlocks
  <2> HIDE DEF a, b
  <2>4. DOMAIN a.entries = 1..Len(a.entries) /\ DOMAIN b.entries = 1..Len(a.entries)
    BY <2>1, <2>3
  <2>5. \A k \in 1..Len(a.entries) : E(a.entries[k]) = E(b.entries[k])
    BY <2>2
  <2> HIDE DEF E
  <2>6. es(a) = es(b)
    BY <2>4, <2>5
  <2> HIDE DEF es
  <2>7. C(a) = C(b)
    BY <2>1, <2>6
  <2> HIDE DEF C
  <2> QED
    BY <2>7 DEF a, b
<1> HIDE DEF C
<1> QED
  BY <1>1, <1>2, <1>3

(* Whatever directory a list was loaded from, with whatever errors, the    *)
(* bytes relocations::build_new writes of it are loaded as the same list,  *)
(* with the padding as an entry more, to their very end and without a      *)
(* structural error; and there are as many as get_built_size told.  Only   *)
(* an entry without the parameter its type needs is left out of this.      *)
THEOREM RebuiltIsTheSame == Spec => []RebuiltLoads
<1>1. LoadInv /\ RebuiltInv => RebuiltLoads
  <2> SUFFICES ASSUME LoadInv, RebuiltInv, phase \in {"returned", "thrown"}, rebuilds > 0,
                      ParamsPresent(previous)
               PROVE  /\ phase = "returned"
                      /\ Contents(list) = Contents(Padded(previous, aligned))
                      /\ file.size = BuiltSize(previous, aligned)
                      /\ AllErrors \subseteq
                           {"unsupported"} \cup (IF aligned THEN {} ELSE {"unaligned"})
    BY DEF RebuiltLoads
  <2> DEFINE ps == Padded(previous, aligned)
  <2>1. /\ previous \in Seq(LoadedBlocks) /\ aligned \in BOOLEAN
        /\ file.size = Len(Built(previous, aligned))
        /\ OnTrack(ps, aligned, phase, cur, count, list, errors)
    BY DEF RebuiltInv, FromPrevious
  <2>2. ps \in Seq(LoadedBlocks) /\ list \in Seq(LoadedBlocks)
    BY <2>1, PaddedList DEF LoadInv, LoadShape
  <2> HIDE DEF ps
  <2>3. /\ phase = "returned" /\ errors = {} /\ Len(list) = Len(ps)
        /\ \A i \in 1..Len(list) : Alike(list[i], ps[i])
        /\ \A i \in 1..Len(list) : Accepted(list[i], aligned)
    BY <2>1 DEF OnTrack
  <2>4. Contents(list) = Contents(ps)
    BY <2>2, <2>3, SameContents
  <2>5. file.size = BuiltSize(previous, aligned)
    BY <2>1, SizeIsTold
  <2>6. AllErrors \subseteq {"unsupported"} \cup (IF aligned THEN {} ELSE {"unaligned"})
    <3>1. DOMAIN list = 1..Len(list)
      BY <2>2
    <3>2. OuterErrors(list) \subseteq (IF aligned THEN {} ELSE {"unaligned"})
      BY <2>3, <3>1 DEF OuterErrors, Accepted
    <3>3. InnerErrors(list) \subseteq {"unsupported"}
      BY <2>3, <3>1 DEF InnerErrors, ErrorsOfEntries, Accepted
    <3> QED
      BY <2>3, <3>2, <3>3 DEF AllErrors
  <2> QED
    BY <2>3, <2>4, <2>5, <2>6 DEF ps
<1> QED
  BY <1>1, LoadInitially, LoadStep, RebuiltInitially, RebuiltStep, PTL DEF Spec

=============================================================================
