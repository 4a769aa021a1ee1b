---------------------------- MODULE ArithProofs -----------------------------
(***************************************************************************)
(* Proofs about Arith and Metrics, for words of any width up to 64.  Words *)
(* are ordered by the highest bit in which they differ, and the number of  *)
(* a word counts the words below it; nothing here is an induction over     *)
(* bits.                                                                   *)
(***************************************************************************)
EXTENDS Arith, FiniteSetTheorems, FunctionTheorems, WellFoundedInduction, TLAPS

\* The bounds of the width, in the form the steps below use.
LEMMA Width1 == Width \in Nat /\ Width >= 1 /\ Width <= 64
BY ArithAssumption

\* A set of naturals that is not empty has a least element.
LEMMA LeastOf ==
  ASSUME NEW T, T \subseteq Nat, T # {}
  PROVE  \E n \in T : \A m \in T : n <= m
<1>1. ASSUME NEW R, IsWellFoundedOn(R, Nat), \A k, l \in Nat : k < l => <<k, l>> \in R
      PROVE  \E n \in T : \A m \in T : n <= m
  <2>1. IsWellFoundedOn(R, Nat)
    BY <1>1, Zenon
  <2>2. PICK n \in T : \A m \in T : ~(<<m, n>> \in R)
    BY <2>1, WFMin, Zenon
  <2>3. \A m \in T : ~(m < n)
    BY <1>1, <2>2, Zenon
  <2> QED
    BY <2>3
<1>2. IsWellFoundedOn(OpToRel(<, Nat), Nat)
  BY NatLessThanWellFounded, Zenon
<1>3. \A k, l \in Nat : k < l => <<k, l>> \in OpToRel(<, Nat)
  BY DEF OpToRel
<1> QED
  BY <1>1, <1>2, <1>3, Zenon

\* A set of bits that is not empty has a highest one.
LEMMA TopBit ==
  ASSUME NEW x \in SUBSET Bit, x # {}
  PROVE  \E i \in x : \A j \in x : j <= i
<1> DEFINE T == {n \in Nat : Width - 1 - n \in x}
<1>1. T \subseteq Nat /\ T # {}
  <2>1. PICK i \in x : TRUE
    OBVIOUS
  <2>2. Width - 1 - i \in T
    BY <2>1, Width1 DEF Bit
  <2> QED
    BY <2>2
<1> HIDE DEF T
<1>2. PICK n \in T : \A m \in T : n <= m
  BY <1>1, LeastOf, Zenon
<1>3. Width - 1 - n \in x
  BY DEF T
<1>4. \A j \in x : j <= Width - 1 - n
  <2> TAKE j \in x
  <2>1. Width - 1 - j \in T
    BY Width1 DEF T, Bit
  <2> QED
    BY <1>1, <1>2, <2>1, Width1 DEF Bit
<1> QED
  BY <1>3, <1>4
-----------------------------------------------------------------------------
(* The unsigned comparison is a linear order *)

\* No word is less than itself.
LEMMA LessIrreflexive == ASSUME NEW x PROVE ~Less(x, x)
BY Zenon DEF Less

\* The comparison is transitive: the higher of the two deciding bits decides.
LEMMA LessTransitive ==
  ASSUME NEW x \in SUBSET Bit, NEW y \in SUBSET Bit, NEW z \in SUBSET Bit,
         Less(x, y), Less(y, z)
  PROVE  Less(x, z)
<1>1. PICK i \in y \ x : \A j \in Bit : j > i => (j \in x <=> j \in y)
  BY Zenon DEF Less
<1>2. PICK k \in z \ y : \A j \in Bit : j > k => (j \in y <=> j \in z)
  BY Zenon DEF Less
<1>3. i \in Int /\ k \in Int /\ i \in Bit /\ k \in Bit
  BY Width1 DEF Bit
<1>4. CASE i > k
  <2>1. i \in z \ x
    BY <1>1, <1>2, <1>3, <1>4
  <2>2. \A j \in Bit : j > i => (j \in x <=> j \in z)
    BY <1>1, <1>2, <1>3, <1>4 DEF Bit
  <2> QED
    BY <2>1, <2>2, Zenon DEF Less
<1>5. CASE k > i
  <2>1. k \in z \ x
    BY <1>1, <1>2, <1>3, <1>5
  <2>2. \A j \in Bit : j > k => (j \in x <=> j \in z)
    BY <1>1, <1>2, <1>3, <1>5 DEF Bit
  <2> QED
    BY <2>1, <2>2, Zenon DEF Less
<1>6. i # k
  OBVIOUS
<1> QED
  BY <1>3, <1>4, <1>5, <1>6

\* Two words that differ are comparable: they have a highest bit in which they differ.
LEMMA LessTotal ==
  ASSUME NEW x \in SUBSET Bit, NEW y \in SUBSET Bit, x # y
  PROVE  Less(x, y) \/ Less(y, x)
<1> DEFINE d == (x \ y) \cup (y \ x)
<1>1. d \in SUBSET Bit /\ d # {}
  OBVIOUS
<1>2. PICK i \in d : \A j \in d : j <= i
  BY <1>1, TopBit, Zenon
<1>3. \A j \in Bit : j > i => (j \in x <=> j \in y)
  <2> SUFFICES ASSUME NEW j \in Bit, j > i PROVE j \notin d
    OBVIOUS
  <2> QED
    BY <1>2, Width1 DEF Bit
<1>4. i \in y \ x => Less(x, y)
  BY <1>3, Zenon DEF Less
<1>5. i \in x \ y => Less(y, x)
  BY <1>3, Zenon DEF Less
<1> QED
  BY <1>2, <1>4, <1>5
-----------------------------------------------------------------------------
(* The number a word stands for *)

\* There are finitely many words.
LEMMA FiniteWords == IsFiniteSet(SUBSET Bit)
<1>1. IsFiniteSet(Bit)
  BY Width1, FS_Interval DEF Bit
<1> QED
  BY <1>1, FS_SUBSET, Zenon

\* The number of a word is a natural number, because the words below it are finite.
LEMMA ValueType ==
  ASSUME NEW x \in SUBSET Bit
  PROVE  /\ Value[x] = Cardinality({y \in SUBSET Bit : Less(y, x)})
         /\ IsFiniteSet({y \in SUBSET Bit : Less(y, x)})
         /\ Value[x] \in Nat
<1>1. Value[x] = Cardinality({y \in SUBSET Bit : Less(y, x)})
  BY Zenon DEF Value
<1>2. {y \in SUBSET Bit : Less(y, x)} \in SUBSET (SUBSET Bit)
  BY Zenon
<1>3. IsFiniteSet({y \in SUBSET Bit : Less(y, x)})
  BY <1>2, FiniteWords, FS_Subset, Zenon
<1> QED
  BY <1>1, <1>3, FS_CardinalityType, Zenon

\* The comparison of words is the one of the numbers.
LEMMA ValueIncreases ==
  ASSUME NEW x \in SUBSET Bit, NEW y \in SUBSET Bit, Less(x, y)
  PROVE  Value[x] < Value[y]
<1> DEFINE X == {z \in SUBSET Bit : Less(z, x)}
           Y == {z \in SUBSET Bit : Less(z, y)}
<1>1. X \in SUBSET Y
  BY LessTransitive, Zenon
<1>2. x \in Y /\ x \notin X
  BY LessIrreflexive, Zenon
<1>3. /\ IsFiniteSet(Y) /\ Value[x] = Cardinality(X) /\ Value[y] = Cardinality(Y)
      /\ Value[x] \in Nat /\ Value[y] \in Nat
  BY ValueType, Zenon
<1> HIDE DEF X, Y
<1>4. Cardinality(X) <= Cardinality(Y) /\ (Cardinality(Y) = Cardinality(X) => Y = X)
  BY <1>1, <1>3, FS_Subset, Zenon
<1> QED
  BY <1>2, <1>3, <1>4
-----------------------------------------------------------------------------
(* The capacity *)

\* nabd_is_power_of_2 (internal.h:124) accepts words with one bit only.
LEMMA PowerOfTwo ==
  ASSUME NEW x \in SUBSET Bit
  PROVE  nabd_is_power_of_2(x) <=> x \in Powers
<1>1. ASSUME nabd_is_power_of_2(x) PROVE x \in Powers
  <2>1. PICK k \in x : TRUE
    BY <1>1, Zenon DEF nabd_is_power_of_2
  <2>2. \A i \in x : ~\E j \in x : j < i
    BY <1>1, Zenon DEF nabd_is_power_of_2, Dec
  <2>3. \A i \in x : i = k
    BY <2>1, <2>2, Width1 DEF Bit
  <2>4. x = {k} /\ k \in Bit
    BY <2>1, <2>3, Zenon
  <2> QED
    BY <2>4, Zenon DEF Powers
<1>2. ASSUME x \in Powers PROVE nabd_is_power_of_2(x)
  <2>1. PICK k \in Bit : x = {k}
    BY <1>2, Zenon DEF Powers
  <2>2. ~(k < k)
    BY <2>1, Width1 DEF Bit
  <2> QED
    BY <2>1, <2>2, Zenon DEF nabd_is_power_of_2, Dec
<1> QED
  BY <1>1, <1>2, Zenon

\* The bits that have a bit of x among the d bits from them upwards.
Reach(x, d) == {i \in Bit : \E j \in x : i <= j /\ j < i + d}

\* A shift by d, together with what was there, doubles the reach.
LEMMA Smears ==
  ASSUME NEW x \in SUBSET Bit, NEW d \in Nat
  PROVE  smear(Reach(x, d), d) = Reach(x, d + d)
<1>1. ASSUME NEW i \in Bit
      PROVE  i \in smear(Reach(x, d), d) <=> \E j \in x : i <= j /\ j < i + (d + d)
  <2>1. i \in smear(Reach(x, d), d)
          <=> \/ \E j \in x : i <= j /\ j < i + d
              \/ i + d \in Bit /\ \E j \in x : i + d <= j /\ j < (i + d) + d
    BY Zenon DEF smear, shiftR, Reach
  <2>2. \A j \in x : j \in Int /\ j < Width
    BY Width1 DEF Bit
  <2>3. i \in Nat
    BY Width1 DEF Bit
  <2> QED
    BY <2>1, <2>2, <2>3, Width1 DEF Bit
<1>2. smear(Reach(x, d), d) \subseteq Bit
  BY Zenon DEF smear, shiftR, Reach
<1> QED
  BY <1>1, <1>2, Zenon DEF Reach

\* The six shifts of nabd_next_power_of_2 (internal.h:127) fill a word of up to 64 bits
\* below its highest bit.
LEMMA Filled ==
  ASSUME NEW x \in SUBSET Bit
  PROVE  smear(smear(smear(smear(smear(smear(x, 1), 2), 4), 8), 16), 32)
           = {i \in Bit : \E j \in x : i <= j}
<1>1. Reach(x, 1) = x
  <2>1. \A i \in Bit : \A j \in x : (i <= j /\ j < i + 1) <=> i = j
    BY Width1 DEF Bit
  <2>2. \A i : i \in Reach(x, 1) <=> i \in x
    BY <2>1, Zenon DEF Reach
  <2> QED
    BY <2>2, Zenon
<1>2. /\ smear(Reach(x, 1), 1) = Reach(x, 2) /\ smear(Reach(x, 2), 2) = Reach(x, 4)
      /\ smear(Reach(x, 4), 4) = Reach(x, 8) /\ smear(Reach(x, 8), 8) = Reach(x, 16)
      /\ smear(Reach(x, 16), 16) = Reach(x, 32) /\ smear(Reach(x, 32), 32) = Reach(x, 64)
  <2>1. \A d \in Nat : smear(Reach(x, d), d) = Reach(x, d + d)
    BY Smears, Zenon
  <2> QED
    BY <2>1
<1>3. Reach(x, 64) = {i \in Bit : \E j \in x : i <= j}
  BY Width1 DEF Reach, Bit
<1> QED
  BY <1>1, <1>2, <1>3, Zenon

\* The decrement keeps the highest bit of a word that has another one.
LEMMA DecKeepsTop ==
  ASSUME NEW x \in SUBSET Bit, NEW t \in x, \A j \in x : j <= t, x # {t}
  PROVE  t \in Dec(x) /\ \A j \in Dec(x) : j <= t
<1>1. PICK l \in x : l # t
  BY Zenon
<1>2. l < t
  BY <1>1, Width1 DEF Bit
<1>3. t \in Dec(x)
  BY <1>2, Zenon DEF Dec
<1>4. ASSUME NEW j \in Dec(x), ~(j <= t) PROVE FALSE
  <2>1. j \in Bit /\ (j \in x <=> \E m \in x : m < j)
    BY Zenon DEF Dec
  <2>2. t < j
    BY <1>4, <2>1, Width1 DEF Bit
  <2>3. j \notin x
    BY <1>4, Zenon
  <2> QED
    BY <2>1, <2>2, <2>3, Zenon
<1> QED
  BY <1>3, <1>4, Zenon

\* Above the bits up to t, which are 1, the increment sets the next one, if there is
\* one, and clears the others.
LEMMA IncOfFull ==
  ASSUME NEW t \in Bit
  PROVE  Inc({i \in Bit : i <= t}) = {t + 1} \cap Bit
<1>1. ASSUME NEW i \in Bit PROVE i \in Inc({j \in Bit : j <= t}) <=> i = t + 1
  <2>1. i \in Inc({j \in Bit : j <= t})
          <=> (i <= t <=> \E j \in Bit : ~(j <= t) /\ j < i)
    BY Zenon DEF Inc
  <2>2. t \in Int /\ i \in Int /\ \A j \in Bit : j \in Int
    BY Width1 DEF Bit
  <2>3. CASE i <= t
    BY <2>1, <2>2, <2>3
  <2>4. CASE i = t + 1
    BY <2>1, <2>2, <2>4
  <2>5. CASE i > t + 1
    <3>1. t + 1 \in Bit /\ ~(t + 1 <= t) /\ t + 1 < i
      BY <2>5, Width1 DEF Bit
    <3> QED
      BY <2>1, <2>2, <2>5, <3>1
  <2> QED
    BY <2>2, <2>3, <2>4, <2>5
<1>2. Inc({i \in Bit : i <= t}) \subseteq Bit
  BY Zenon DEF Inc
<1> QED
  BY <1>1, <1>2, Zenon

\* What nabd_next_power_of_2 makes of a word that is no power of two.
LEMMA NextPower ==
  ASSUME NEW x \in SUBSET Bit, NEW t \in x, \A j \in x : j <= t, x # {t}
  PROVE  nabd_next_power_of_2(x) = {t + 1} \cap Bit
<1>1. t \in Dec(x) /\ \A j \in Dec(x) : j <= t
  BY DecKeepsTop, Zenon
<1>2. Dec(x) \in SUBSET Bit
  BY Zenon DEF Dec
<1>3. {i \in Bit : \E j \in Dec(x) : i <= j} = {i \in Bit : i <= t}
  <2>1. \A i \in Bit : \A j \in Dec(x) : i <= j => i <= t
    BY <1>1, <1>2, Width1 DEF Bit
  <2> QED
    BY <1>1, <2>1, Zenon
<1>4. Inc({i \in Bit : i <= t}) = {t + 1} \cap Bit
  BY IncOfFull, Zenon
<1> QED
  BY <1>2, <1>3, <1>4, Filled, Zenon DEF nabd_next_power_of_2

\* A word with a bit besides its highest one, t, is more than the word {t}.
LEMMA AboveTop ==
  ASSUME NEW x \in SUBSET Bit, NEW t \in x, \A j \in x : j <= t, x # {t}
  PROVE  Less({t}, x)
<1>1. x \ {t} \in SUBSET Bit /\ x \ {t} # {}
  BY Zenon
<1>2. PICK i \in x \ {t} : \A j \in x \ {t} : j <= i
  BY <1>1, TopBit, Zenon
<1>3. ASSUME NEW j \in Bit, j > i PROVE j \in {t} <=> j \in x
  <2>1. ~(j <= i)
    BY <1>3, Width1 DEF Bit
  <2> QED
    BY <1>2, <2>1, Zenon
<1> QED
  BY <1>2, <1>3, Zenon DEF Less

\* The capacity nabd_open uses: the one asked for, if it is a power of two, and
\* otherwise the power above the highest bit of it, which may be too much for a word.
LEMMA OpenCapacity ==
  ASSUME NEW x \in SUBSET Bit
  PROVE  \/ x = {} /\ open_capacity(x) \in Powers
         \/ x \in Powers /\ open_capacity(x) = x
         \/ \E t \in x : /\ \A j \in x : j <= t
                         /\ x # {t}
                         /\ open_capacity(x) = {t + 1} \cap Bit
<1>1. CASE x = {}
  <2>1. DefaultCapacity \in Powers /\ DefaultCapacity \in SUBSET Bit
    BY ArithAssumption, Zenon DEF Powers
  <2>2. nabd_is_power_of_2(DefaultCapacity)
    BY <2>1, PowerOfTwo, Zenon
  <2> QED
    BY <1>1, <2>1, <2>2, Zenon DEF open_capacity
<1>2. CASE x \in Powers
  <2>1. nabd_is_power_of_2(x) /\ x # {}
    BY <1>2, PowerOfTwo, Zenon DEF Powers
  <2> QED
    BY <1>2, <2>1, Zenon DEF open_capacity
<1>3. CASE x # {} /\ x \notin Powers
  <2>1. PICK t \in x : \A j \in x : j <= t
    BY <1>3, TopBit, Zenon
  <2>2. x # {t}
    BY <1>3, <2>1, Zenon DEF Powers
  <2>3. nabd_next_power_of_2(x) = {t + 1} \cap Bit
    BY <2>1, <2>2, NextPower, Zenon
  <2>4. ~nabd_is_power_of_2(x)
    BY <1>3, PowerOfTwo, Zenon
  <2>5. open_capacity(x) = {t + 1} \cap Bit
    BY <1>3, <2>3, <2>4, Zenon DEF open_capacity
  <2> QED
    BY <2>1, <2>2, <2>5, Zenon
<1> QED
  BY <1>1, <1>2, <1>3, Zenon

\* The capacity rounded up is the least power of two that is not below the word asked
\* for.
LEMMA Rounded ==
  ASSUME NEW x \in SUBSET Bit, x # {}, ~Less({Width - 1}, x)
  PROVE  LET c == open_capacity(x)
         IN /\ c \in Powers /\ ~Less(c, x)
            /\ \A p \in Powers : ~Less(p, x) => ~Less(p, c)
<1>1. CASE x \in Powers /\ open_capacity(x) = x
  BY <1>1, LessIrreflexive, Zenon
<1>2. ASSUME NEW t \in x, \A j \in x : j <= t, x # {t},
             open_capacity(x) = {t + 1} \cap Bit
      PROVE  LET c == open_capacity(x)
             IN /\ c \in Powers /\ ~Less(c, x)
                /\ \A p \in Powers : ~Less(p, x) => ~Less(p, c)
  <2>1. Less({t}, x)
    BY <1>2, AboveTop, Zenon
  <2>2. t # Width - 1
    BY <2>1
  <2>3. t \in Int /\ t + 1 \in Bit
    BY <2>2, Width1 DEF Bit
  <2>4. open_capacity(x) = {t + 1} /\ {t + 1} \in Powers
    BY <1>2, <2>3, Zenon DEF Powers
  <2>5. ASSUME Less({t + 1}, x) PROVE FALSE
    <3>1. PICK i \in x : \A j \in Bit : j > i => (j \in {t + 1} <=> j \in x)
      BY <2>5, Zenon DEF Less
    <3>2. t + 1 > i /\ ~(t + 1 <= t)
      BY <1>2, <2>3, Width1 DEF Bit
    <3> QED
      BY <1>2, <2>3, <3>1, <3>2, Zenon
  <2>6. ASSUME NEW k \in Bit, ~Less({k}, x), Less({k}, {t + 1}) PROVE FALSE
    <3>1. k # t + 1 /\ \A j \in Bit : j > t + 1 => (j \in {k} <=> j \in {t + 1})
      BY <2>6, Zenon DEF Less
    <3>2. ~(k > t + 1)
      BY <3>1, <2>3
    <3>3. k # t
      BY <2>1, <2>6, Zenon
    <3>4. k < t
      BY <2>3, <3>1, <3>2, <3>3, Width1 DEF Bit
    <3>5. ASSUME NEW j \in Bit, j > t PROVE j \notin {k} /\ j \notin x
      BY <1>2, <2>3, <3>4, <3>5, Width1 DEF Bit
    <3> QED
      BY <2>6, <3>3, <3>5, Zenon DEF Less
  <2> QED
    BY <2>4, <2>5, <2>6, Zenon DEF Powers
<1> QED
  BY <1>1, <1>2, OpenCapacity, Zenon
-----------------------------------------------------------------------------
(* The checksum *)

\* A rotation loses nothing.
LEMMA RotationKeeps ==
  ASSUME NEW x \in SUBSET Bit, NEW y \in SUBSET Bit,
         shiftL(x, Rotation) \cup shiftR(x, Width - Rotation)
           = shiftL(y, Rotation) \cup shiftR(y, Width - Rotation)
  PROVE  x = y
<1> DEFINE Rotate(z) == shiftL(z, Rotation) \cup shiftR(z, Width - Rotation)
<1>1. Rotation \in Nat /\ Rotation <= Width
  BY ArithAssumption, Width1
<1>2. ASSUME NEW b \in Bit
      PROVE  \E i \in Bit : \A z \in SUBSET Bit : b \in z <=> i \in Rotate(z)
  <2>1. CASE b + Rotation < Width
    <3>1. b + Rotation \in Bit
      BY <1>1, <2>1, Width1 DEF Bit
    <3>2. (b + Rotation) - Rotation = b /\ (b + Rotation) + (Width - Rotation) \notin Bit
      BY <1>1, Width1 DEF Bit
    <3>3. \A z \in SUBSET Bit : b \in z <=> b + Rotation \in Rotate(z)
      BY <3>1, <3>2, Zenon DEF shiftL, shiftR
    <3> QED
      BY <3>1, <3>3, Zenon
  <2>2. CASE ~(b + Rotation < Width)
    <3> DEFINE i == b + Rotation - Width
    <3>1. i \in Bit
      BY <1>1, <2>2, Width1 DEF Bit
    <3>2. i + (Width - Rotation) = b /\ i - Rotation \notin Bit
      BY <1>1, Width1 DEF Bit
    <3> HIDE DEF i
    <3>3. \A z \in SUBSET Bit : b \in z <=> i \in Rotate(z)
      BY <3>1, <3>2, Zenon DEF shiftL, shiftR
    <3> QED
      BY <3>1, <3>3, Zenon
  <2> QED
    BY <2>1, <2>2
<1>3. Rotate(x) = Rotate(y)
  OBVIOUS
<1> HIDE DEF Rotate
<1>4. \A b \in Bit : b \in x <=> b \in y
  BY <1>2, <1>3, Zenon
<1> QED
  BY <1>4, Zenon

\* The exclusive or of two words is a word.
LEMMA XorType ==
  ASSUME NEW x \in SUBSET Bit, NEW y \in SUBSET Bit
  PROVE  Xor(x, y) \in SUBSET Bit
BY Zenon DEF Xor

\* What is combined with the same word by an exclusive or stays different.
LEMMA XorKeeps ==
  ASSUME NEW x, NEW y, NEW z, Xor(x, z) = Xor(y, z) \/ Xor(z, x) = Xor(z, y)
  PROVE  x = y
<1>1. \A i : i \in x <=> i \in y
  BY Zenon DEF Xor
<1> QED
  BY <1>1

\* Two records that differ in one of the fields of compute_checksum (persistence.c:36)
\* have different checksums.
LEMMA ChecksumOfRecord ==
  ASSUME NEW m \in SUBSET Bit, NEW t \in SUBSET Bit, NEW g \in SUBSET Bit,
         NEW p \in SUBSET Bit, NEW t2 \in SUBSET Bit, NEW g2 \in SUBSET Bit,
         NEW p2 \in SUBSET Bit,
         LET sum  == Xor(Xor(Xor(m, t), g), p)
             sum2 == Xor(Xor(Xor(m, t2), g2), p2)
         IN shiftL(sum, Rotation) \cup shiftR(sum, Width - Rotation)
              = shiftL(sum2, Rotation) \cup shiftR(sum2, Width - Rotation)
  PROVE  /\ g = g2 /\ p = p2 => t = t2
         /\ t = t2 /\ p = p2 => g = g2
         /\ t = t2 /\ g = g2 => p = p2
<1> DEFINE a == Xor(m, t)  b == Xor(a, g)  c == Xor(b, p)
           a2 == Xor(m, t2)  b2 == Xor(a2, g2)  c2 == Xor(b2, p2)
<1>1. c \in SUBSET Bit /\ c2 \in SUBSET Bit
  <2>1. a \in SUBSET Bit /\ a2 \in SUBSET Bit
    BY XorType, Zenon
  <2>2. b \in SUBSET Bit /\ b2 \in SUBSET Bit
    BY <2>1, XorType, Zenon
  <2> QED
    BY <2>2, XorType, Zenon
<1>2. shiftL(c, Rotation) \cup shiftR(c, Width - Rotation)
        = shiftL(c2, Rotation) \cup shiftR(c2, Width - Rotation)
  OBVIOUS
<1>3. c = c2
  <2> HIDE DEF c, c2
  <2> QED
    BY <1>1, <1>2, RotationKeeps, Zenon
<1>4. \A x, y, z : Xor(x, z) = Xor(y, z) \/ Xor(z, x) = Xor(z, y) => x = y
  BY XorKeeps, Zenon
<1>5. (p = p2 => b = b2) /\ (b = b2 => p = p2)
  <2> HIDE DEF b, b2
  <2> QED
    BY <1>3, <1>4, Zenon
<1>6. b = b2 => (g = g2 => a = a2) /\ (a = a2 => g = g2)
  <2> HIDE DEF a, a2
  <2>1. b = Xor(a, g) /\ b2 = Xor(a2, g2)
    OBVIOUS
  <2> HIDE DEF b, b2
  <2>2. b = b2 /\ g = g2 => Xor(a, g) = Xor(a2, g)
    BY <2>1
  <2>3. b = b2 /\ a = a2 => Xor(a, g) = Xor(a, g2)
    BY <2>1
  <2> QED
    BY <1>4, <2>2, <2>3, Zenon
<1>7. (a = a2 => t = t2) /\ (t = t2 => a = a2) /\ (a = a2 /\ g = g2 => b = b2)
  <2>1. a = a2 => t = t2
    BY <1>4, Zenon
  <2> QED
    BY <2>1
<1> HIDE DEF a, b, c, a2, b2, c2
<1> QED
  BY <1>5, <1>6, <1>7, Zenon

\* A record as compute_checksum (persistence.c:36) reads it.
Records == [magic : SUBSET Bit, timestamp : SUBSET Bit, group_id : SUBSET Bit,
            tail : SUBSET Bit]

\* For every width, every rotation and every record, the checksum tells the record from
\* one that differs in one field.
THEOREM EveryFieldCounts ==
  ASSUME NEW k \in Records, NEW v \in SUBSET Bit
  PROVE  /\ v # k.magic => compute_checksum([k EXCEPT !.magic = v]) # compute_checksum(k)
         /\ v # k.timestamp => compute_checksum([k EXCEPT !.timestamp = v]) # compute_checksum(k)
         /\ v # k.group_id => compute_checksum([k EXCEPT !.group_id = v]) # compute_checksum(k)
         /\ v # k.tail => compute_checksum([k EXCEPT !.tail = v]) # compute_checksum(k)
<1> DEFINE Sum(t, g, p) == Xor(Xor(Xor(k.magic, t), g), p)
           Rotate(x) == shiftL(x, Rotation) \cup shiftR(x, Width - Rotation)
<1>1. /\ k.magic \in SUBSET Bit /\ k.timestamp \in SUBSET Bit
      /\ k.group_id \in SUBSET Bit /\ k.tail \in SUBSET Bit
  BY DEF Records
<1>2. compute_checksum(k) = Rotate(Sum(k.timestamp, k.group_id, k.tail))
  BY Zenon DEF compute_checksum
<1>3. compute_checksum([k EXCEPT !.timestamp = v]) = Rotate(Sum(v, k.group_id, k.tail))
  BY DEF compute_checksum, Records
<1>4. compute_checksum([k EXCEPT !.group_id = v]) = Rotate(Sum(k.timestamp, v, k.tail))
  BY DEF compute_checksum, Records
<1>5. compute_checksum([k EXCEPT !.tail = v]) = Rotate(Sum(k.timestamp, k.group_id, v))
  BY DEF compute_checksum, Records
<1>6. \A t, g, p, t2, g2, p2 \in SUBSET Bit : Rotate(Sum(t, g, p)) = Rotate(Sum(t2, g2, p2)) =>
        /\ g = g2 /\ p = p2 => t = t2
        /\ t = t2 /\ p = p2 => g = g2
        /\ t = t2 /\ g = g2 => p = p2
  BY <1>1, ChecksumOfRecord, Zenon
<1>7. v # k.magic => compute_checksum([k EXCEPT !.magic = v]) # compute_checksum(k)
  <2> DEFINE Swapped(m) == Xor(Xor(Xor(k.timestamp, m), k.group_id), k.tail)
  <2>1. \A m : Xor(m, k.timestamp) = Xor(k.timestamp, m)
    BY Zenon DEF Xor
  <2>2. compute_checksum(k) = Rotate(Swapped(k.magic))
    BY <2>1, Zenon DEF compute_checksum
  <2>3. compute_checksum([k EXCEPT !.magic = v])
          = Rotate(Xor(Xor(Xor(v, k.timestamp), k.group_id), k.tail))
    BY DEF compute_checksum, Records
  <2>4. compute_checksum([k EXCEPT !.magic = v]) = Rotate(Swapped(v))
    BY <2>1, <2>3, Zenon
  <2>5. \A m, g, p, m2, g2, p2 \in SUBSET Bit :
          Rotate(Xor(Xor(Xor(k.timestamp, m), g), p))
              = Rotate(Xor(Xor(Xor(k.timestamp, m2), g2), p2)) =>
            /\ g = g2 /\ p = p2 => m = m2
            /\ m = m2 /\ p = p2 => g = g2
            /\ m = m2 /\ g = g2 => p = p2
    BY <1>1, ChecksumOfRecord, Zenon
  <2>6. Rotate(Swapped(v)) = Rotate(Swapped(k.magic)) => v = k.magic
    <3> HIDE DEF Rotate
    <3> QED
      BY <1>1, <2>5
  <2> HIDE DEF Rotate, Swapped
  <2> QED
    BY <2>2, <2>4, <2>6, Zenon
<1> HIDE DEF Rotate, Sum
<1> QED
  BY <1>1, <1>2, <1>3, <1>4, <1>5, <1>6, <1>7
-----------------------------------------------------------------------------
(* The slots *)

\* The bits below bit k.
Below(k) == {i \in Bit : i < k}

\* The mask of a queue (nabd.c) has the bits below the one of the capacity.
LEMMA MaskOfPower ==
  ASSUME NEW k \in Bit
  PROVE  mask({k}) = Below(k)
<1>1. ASSUME NEW i \in Bit PROVE (i = k <=> k < i) <=> i < k
  BY Width1 DEF Bit
<1>2. \A i \in Bit : i \in Dec({k}) <=> (i = k <=> k < i)
  BY Zenon DEF Dec
<1>3. Dec({k}) \subseteq Bit
  BY Zenon DEF Dec
<1>4. \A i : i \in Dec({k}) <=> i \in Below(k)
  BY <1>1, <1>2, <1>3, Zenon DEF Below
<1> QED
  BY <1>4, Zenon DEF mask

\* The words less than a power of two are those with bits below it only.
LEMMA BelowPower ==
  ASSUME NEW k \in Bit
  PROVE  /\ {y \in SUBSET Bit : Less(y, {k})} = SUBSET Below(k)
         /\ IsFiniteSet(SUBSET Below(k)) /\ Value[{k}] = Cardinality(SUBSET Below(k))
<1>1. ASSUME NEW y \in SUBSET Bit, Less(y, {k}) PROVE y \subseteq Below(k)
  <2>1. k \notin y /\ \A j \in Bit : j > k => (j \in y <=> j = k)
    BY <1>1, Zenon DEF Less
  <2>2. ASSUME NEW j \in y PROVE j < k
    BY <2>1, Width1 DEF Bit
  <2> QED
    BY <2>2, Zenon DEF Below
<1>2. ASSUME NEW y \in SUBSET Below(k) PROVE y \in SUBSET Bit /\ Less(y, {k})
  <2>1. y \in SUBSET Bit /\ \A j \in y : j < k
    BY Zenon DEF Below
  <2>2. k \notin y
    BY <2>1, Width1 DEF Bit
  <2>3. \A j \in Bit : j > k => (j \in y <=> j \in {k})
    BY <2>1, Width1 DEF Bit
  <2> QED
    BY <2>1, <2>2, <2>3, Zenon DEF Less
<1>3. {y \in SUBSET Bit : Less(y, {k})} = SUBSET Below(k)
  BY <1>1, <1>2, Zenon
<1>4. {k} \in SUBSET Bit
  BY Zenon
<1> QED
  BY <1>3, <1>4, ValueType, Zenon

\* The number of the word with bit k alone is two to the k.
LEMMA PowerValue ==
  ASSUME NEW k \in Bit
  PROVE  Value[{k}] = 2 ^ k
<1>1. k \in Nat /\ Below(k) = 0 .. k - 1
  BY Width1 DEF Below, Bit
<1>2. IsFiniteSet(0 .. k - 1) /\ Cardinality(0 .. k - 1) = k
  <2>1. /\ IsFiniteSet(0 .. k - 1)
        /\ Cardinality(0 .. k - 1) = IF 0 > k - 1 THEN 0 ELSE k - 1 - 0 + 1
    BY <1>1, FS_Interval
  <2> QED
    BY <1>1, <2>1
<1>3. Cardinality(SUBSET (0 .. k - 1)) = 2 ^ k
  BY <1>2, FS_SUBSET, Zenon
<1> QED
  BY <1>1, <1>3, BelowPower, Zenon

\* A one-to-one correspondence keeps the number of elements.
LEMMA SameSize ==
  ASSUME NEW S, NEW T, NEW f \in [S -> T], IsFiniteSet(S),
         \A x, y \in S : f[x] = f[y] => x = y, \A t \in T : \E x \in S : f[x] = t
  PROVE  IsFiniteSet(T) /\ Cardinality(T) = Cardinality(S)
<1>1. f \in Bijection(S, T)
  BY Fun_IsBij, Zenon
<1>2. ExistsBijection(S, T)
  BY <1>1, Fun_ExistsBij, Zenon
<1> QED
  BY <1>2, FS_Bijection, Zenon

\* The number of a word is the sum of those of its upper and its lower part.
LEMMA ValueOfParts ==
  ASSUME NEW k \in Bit, NEW p \in SUBSET Bit
  PROVE  Value[p] = Value[p \ Below(k)] + Value[p \cap Below(k)]
<1> DEFINE h == p \ Below(k)
           l == p \cap Below(k)
           A == {y \in SUBSET Bit : Less(y, p)}
           B == {y \in SUBSET Bit : Less(y, h)}
           D == {z \in SUBSET Bit : Less(z, l)}
           C == {h \cup z : z \in D}
<1>1. \A i \in Bit : i \in Below(k) <=> i < k
  BY Zenon DEF Below
<1>2. \A i \in Bit \ Below(k) : \A j \in Bit : j > i => j \notin Below(k)
  BY <1>1, Width1 DEF Bit
<1>3. \A i \in Below(k) : \A j \in Bit \ Below(k) : j > i
  BY <1>1, Width1 DEF Bit, Below
<1>4. ASSUME NEW z \in D PROVE z \subseteq Below(k)
  <2>1. PICK i \in l \ z : \A j \in Bit : j > i => (j \in z <=> j \in l)
    BY <1>4, Zenon DEF Less
  <2> QED
    BY <1>3, <2>1, Zenon
<1>5. ASSUME NEW y \in A PROVE y \in B \cup C
  <2>1. PICK i \in p \ y : \A j \in Bit : j > i => (j \in y <=> j \in p)
    BY <1>5, Zenon DEF Less
  <2>2. CASE i \notin Below(k)
    <3>1. i \in h \ y /\ \A j \in Bit : j > i => (j \in y <=> j \in h)
      BY <1>2, <2>1, <2>2, Zenon
    <3> QED
      BY <3>1, Zenon DEF Less
  <2>3. CASE i \in Below(k)
    <3>1. y = h \cup (y \cap Below(k))
      BY <1>3, <2>1, <2>3, Zenon
    <3>2. i \in l \ (y \cap Below(k))
          /\ \A j \in Bit : j > i => (j \in y \cap Below(k) <=> j \in l)
      BY <2>1, <2>3, Zenon
    <3>3. y \cap Below(k) \in D
      BY <3>2, Zenon DEF Less
    <3> QED
      BY <3>1, <3>3
  <2> QED
    BY <2>2, <2>3, Zenon
<1>6. ASSUME NEW y \in B PROVE y \in A
  <2>1. PICK i \in h \ y : \A j \in Bit : j > i => (j \in y <=> j \in h)
    BY <1>6, Zenon DEF Less
  <2>2. i \in p \ y /\ \A j \in Bit : j > i => (j \in y <=> j \in p)
    BY <1>2, <2>1, Zenon
  <2> QED
    BY <2>2, Zenon DEF Less
<1>7. ASSUME NEW z \in D PROVE h \cup z \in A /\ h \cup z \notin B
  <2>1. PICK i \in l \ z : \A j \in Bit : j > i => (j \in z <=> j \in l)
    BY <1>7, Zenon DEF Less
  <2>2. i \in p \ (h \cup z) /\ \A j \in Bit : j > i => (j \in h \cup z <=> j \in p)
    BY <2>1, Zenon
  <2> QED
    BY <2>2, Zenon DEF Less
<1>8. /\ Value[p] = Cardinality(A) /\ Value[h] = Cardinality(B) /\ Value[l] = Cardinality(D)
      /\ IsFiniteSet(A) /\ IsFiniteSet(B) /\ IsFiniteSet(D)
  <2>1. h \in SUBSET Bit /\ l \in SUBSET Bit
    BY Zenon
  <2> QED
    BY <2>1, ValueType, Zenon
<1>9. IsFiniteSet(C) /\ Cardinality(C) = Cardinality(D)
  <2> DEFINE f == [z \in D |-> h \cup z]
  <2>1. f \in [D -> C] /\ \A t \in C : \E z \in D : f[z] = t
    BY Zenon
  <2>2. ASSUME NEW x \in D, NEW y \in D, f[x] = f[y] PROVE x = y
    <3>1. h \cup x = h \cup y /\ x \subseteq Below(k) /\ y \subseteq Below(k)
      BY <1>4, <2>2, Zenon
    <3>2. \A i : i \in h \cup x <=> i \in h \cup y
      BY <3>1
    <3>3. \A i : i \in x <=> i \in y
      BY <3>1, <3>2, Zenon
    <3> QED
      BY <3>3
  <2> HIDE DEF f, C, D
  <2> QED
    BY <1>8, <2>1, <2>2, SameSize, Zenon
<1>10. A = B \cup C /\ B \cap C = {}
  BY <1>5, <1>6, <1>7, Zenon
<1> HIDE DEF A, B, C, D, h, l
<1>11. Cardinality(A) = Cardinality(B) + Cardinality(C) - Cardinality({})
  BY <1>8, <1>9, <1>10, FS_Union
<1>12. Cardinality({}) = 0 /\ Cardinality(B) \in Nat /\ Cardinality(C) \in Nat
  BY <1>8, <1>9, FS_EmptySet, FS_CardinalityType, Zenon
<1>13. Value[p] = Value[h] + Value[l]
  BY <1>8, <1>9, <1>11, <1>12
<1> QED
  BY <1>13 DEF h, l

\* The number of a word without bits below a power of two is a multiple of it.
LEMMA ValueOfUpper ==
  ASSUME NEW k \in Bit, NEW h \in SUBSET (Bit \ Below(k))
  PROVE  \E n \in Nat : Value[h] = n * Value[{k}]
<1> DEFINE L == Below(k)
           B == {y \in SUBSET Bit : Less(y, h)}
           U == {u \in SUBSET (Bit \ L) : Less(u, h)}
           f == [w \in U \X SUBSET L |-> w[1] \cup w[2]]
<1>1. \A i \in h : i \in Bit /\ \A j \in Bit : j > i => j \notin L
  BY Width1 DEF Bit, Below
<1>2. ASSUME NEW y \in B PROVE y \ L \in U /\ y \cap L \in SUBSET L
  <2>1. PICK i \in h \ y : \A j \in Bit : j > i => (j \in y <=> j \in h)
    BY <1>2, Zenon DEF Less
  <2>2. i \in h \ (y \ L) /\ \A j \in Bit : j > i => (j \in y \ L <=> j \in h)
    BY <1>1, <2>1, Zenon
  <2>3. y \ L \in SUBSET (Bit \ L)
    BY Zenon
  <2> QED
    BY <2>2, <2>3, Zenon DEF Less
<1>3. ASSUME NEW u \in U, NEW z \in SUBSET L PROVE u \cup z \in B
  <2>1. PICK i \in h \ u : \A j \in Bit : j > i => (j \in u <=> j \in h)
    BY <1>3, Zenon DEF Less
  <2>2. i \in h \ (u \cup z) /\ \A j \in Bit : j > i => (j \in u \cup z <=> j \in h)
    BY <1>1, <2>1, Zenon
  <2>3. u \cup z \in SUBSET Bit
    BY Zenon DEF Below
  <2> QED
    BY <2>2, <2>3, Zenon DEF Less
<1>4. IsFiniteSet(U) /\ Cardinality(U) \in Nat
  <2>1. U \in SUBSET (SUBSET Bit)
    BY Zenon
  <2> QED
    BY <2>1, FiniteWords, FS_Subset, FS_CardinalityType, Zenon
<1>5. /\ IsFiniteSet(U \X SUBSET L)
      /\ Cardinality(U \X SUBSET L) = Cardinality(U) * Cardinality(SUBSET L)
  BY <1>4, BelowPower, FS_Product, Zenon
<1>6. \A w \in U \X SUBSET L : f[w] = w[1] \cup w[2] /\ w[1] \in U /\ w[2] \in SUBSET L
  BY Zenon
<1>7. f \in [U \X SUBSET L -> B]
  <2>1. \A w \in U \X SUBSET L : w[1] \cup w[2] \in B
    BY <1>3, <1>6, Zenon
  <2> HIDE DEF U, B
  <2> QED
    BY <2>1, Zenon
<1>8. ASSUME NEW y \in B PROVE \E w \in U \X SUBSET L : f[w] = y
  <2>1. <<y \ L, y \cap L>> \in U \X SUBSET L
    BY <1>2, Zenon
  <2>2. f[<<y \ L, y \cap L>>] = (y \ L) \cup (y \cap L)
    BY <2>1
  <2>3. (y \ L) \cup (y \cap L) = y
    BY Zenon
  <2> HIDE DEF f
  <2> QED
    BY <2>1, <2>2, <2>3, Zenon
<1>9. ASSUME NEW v \in U \X SUBSET L, NEW w \in U \X SUBSET L, f[v] = f[w] PROVE v = w
  <2>1. v[1] \cup v[2] = w[1] \cup w[2]
    BY <1>6, <1>9, Zenon
  <2>2. /\ v[1] \subseteq Bit \ L /\ w[1] \subseteq Bit \ L
        /\ v[2] \subseteq L /\ w[2] \subseteq L
    BY <1>6, Zenon
  <2>3. \A i : i \in v[1] \cup v[2] <=> i \in w[1] \cup w[2]
    BY <2>1
  <2>4. /\ \A i : i \in v[1] <=> i \in w[1]
        /\ \A i : i \in v[2] <=> i \in w[2]
    BY <2>2, <2>3, Zenon
  <2>5. v[1] = w[1] /\ v[2] = w[2]
    BY <2>4
  <2>6. v = <<v[1], v[2]>> /\ w = <<w[1], w[2]>>
    OBVIOUS
  <2> QED
    BY <2>5, <2>6
<1>10. Value[h] = Cardinality(B)
  BY ValueType, Zenon
<1> HIDE DEF U, B, f, L
<1>11. Cardinality(B) = Cardinality(U \X SUBSET L)
  <2> DEFINE P == U \X SUBSET L
  <2>1. IsFiniteSet(P) /\ f \in [P -> B]
    BY <1>5, <1>7
  <2>2. (\A v, w \in P : f[v] = f[w] => v = w) /\ \A y \in B : \E w \in P : f[w] = y
    BY <1>8, <1>9, Zenon
  <2> HIDE DEF P
  <2>3. Cardinality(B) = Cardinality(P)
    BY <2>1, <2>2, SameSize, Zenon
  <2> QED
    BY <2>3 DEF P
<1>12. Value[{k}] = Cardinality(SUBSET L)
  BY BelowPower, Zenon DEF L
<1> QED
  BY <1>4, <1>5, <1>10, <1>11, <1>12

\* What is left of a multiple of c and less than c more is the latter.
LEMMA Remainder ==
  ASSUME NEW n \in Nat, NEW c \in Nat, NEW b \in Nat, b < c
  PROVE  (n * c + b) % c = b
<1> DEFINE a == n * c
           v == a + b
<1>1. a \in Nat /\ c > 0
  OBVIOUS
<1>2. /\ v = (c * (v \div c)) + (v % c)
      /\ v \div c \in Int /\ v % c \in Nat /\ v % c < c
  <2> HIDE DEF a
  <2> QED
    BY <1>1
<1> DEFINE q == v \div c
           r == v % c
<1>3. q \in Int /\ r \in Nat /\ r < c /\ n * c + b = c * q + r
  BY <1>2
<1> HIDE DEF q, r
<1>4. c * (n - q) = r - b
  BY <1>3
<1>5. n - q = 0
  <2>1. CASE n - q >= 1
    <3>1. c * (n - q) >= c
      BY <1>1, <1>3, <2>1
    <3> QED
      BY <1>3, <1>4, <3>1
  <2>2. CASE n - q <= -1
    <3>1. c * (n - q) <= -c
      BY <1>1, <1>3, <2>2
    <3> QED
      BY <1>3, <1>4, <3>1
  <2> QED
    BY <1>3, <2>1, <2>2
<1>6. r = b
  BY <1>3, <1>4, <1>5
<1> QED
  BY <1>6 DEF r, v, a

\* The mask of a power of two takes the remainder: the slot that get_slot
\* (nabd.c:57) finds for a position is the one the remainder of the position by
\* the capacity counts to.
LEMMA MaskIsRemainder ==
  ASSUME NEW k \in Bit, NEW p \in SUBSET Bit
  PROVE  /\ Value[nabd_mod_pow2(p, mask({k}))] = Value[p] % Value[{k}]
         /\ Value[nabd_mod_pow2(p, mask({k}))] \in Nat
         /\ Value[{k}] \in Nat
         /\ Value[nabd_mod_pow2(p, mask({k}))] < Value[{k}]
<1> DEFINE h == p \ Below(k)
           l == p \cap Below(k)
<1>1. /\ h \in SUBSET Bit /\ h \in SUBSET (Bit \ Below(k))
      /\ l \in SUBSET Bit /\ l \in SUBSET Below(k) /\ {k} \in SUBSET Bit
  BY Zenon
<1>2. nabd_mod_pow2(p, mask({k})) = l
  BY MaskOfPower DEF nabd_mod_pow2
<1>3. Less(l, {k})
  BY <1>1, BelowPower, Zenon
<1>4. Value[l] \in Nat /\ Value[{k}] \in Nat /\ Value[l] < Value[{k}]
  BY <1>1, <1>3, ValueType, ValueIncreases, Zenon
<1>5. PICK n \in Nat : Value[h] = n * Value[{k}]
  BY <1>1, ValueOfUpper, Zenon
<1>6. Value[p] = n * Value[{k}] + Value[l]
  <2>1. Value[p] = Value[h] + Value[l]
    BY ValueOfParts, Zenon
  <2> QED
    BY <1>5, <2>1
<1>7. Value[p] % Value[{k}] = Value[l]
  BY <1>4, <1>6, Remainder, Zenon
<1> QED
  BY <1>2, <1>4, <1>7, Zenon

\* A slot with an index below the capacity ends within the slots.
LEMMA SlotFits ==
  ASSUME NEW b \in Nat, NEW c \in Nat, NEW s \in Nat, b < c
  PROVE  b * s + s <= c * s
<1>1. (c - (b + 1)) * s >= 0
  OBVIOUS
<1>2. (c - (b + 1)) * s = c * s - (b * s + s)
  OBVIOUS
<1> QED
  BY <1>1, <1>2

\* The slot size nabd_open uses is a natural number.
LEMMA SlotSizeType ==
  ASSUME NEW s \in SlotSizes
  PROVE  open_slot_size(s) \in Nat
BY ArithAssumption DEF open_slot_size

\* A capacity that nabd_open uses and that is not zero is a power of two.
LEMMA CapacityIsPower ==
  ASSUME NEW x \in SUBSET Bit, open_capacity(x) # {}
  PROVE  open_capacity(x) \in Powers
<1>1. ASSUME NEW t \in x, open_capacity(x) = {t + 1} \cap Bit
      PROVE  open_capacity(x) \in Powers
  <2>1. t + 1 \in Bit /\ open_capacity(x) = {t + 1}
    BY <1>1, Zenon
  <2> QED
    BY <2>1, Zenon DEF Powers
<1> QED
  BY <1>1, OpenCapacity, Zenon
-----------------------------------------------------------------------------
(* The theorems *)

\* For every width up to 64 bits, nabd_open (nabd.c:97) gives a queue the least power
\* of two that is not below the capacity asked for.
THEOREM RoundsUp == WordsSpec => []CapacityRounded
<1>1. CapacityRounded
  <2>1. Asked \in SUBSET Bit
    BY Zenon DEF Asked
  <2> HIDE DEF Asked
  <2> QED
    BY <2>1, Rounded, Zenon DEF CapacityRounded
<1> QED
  BY <1>1, PTL

\* For every width up to 64 bits, whatever the sizes asked for, get_slot
\* (nabd.c:57) finds the slot of every position inside the mapping of nabd_open
\* (nabd.c:112), and positions share a slot only if their difference is a multiple of
\* the capacity.
THEOREM SlotsFit == WordsSpec => []SlotsInMapping
<1>1. SlotsInMapping
  <2>1. Asked \in SUBSET Bit
    BY Zenon DEF Asked
  <2> DEFINE c == open_capacity(Asked)
  <2>2. ASSUME NEW asked \in SlotSizes, c # {},
               ControlSize + Value[c] * open_slot_size(asked) < Words, NEW p \in SUBSET Bit
        PROVE  LET s == open_slot_size(asked)
               IN /\ get_slot(p, c, s) = ControlSize + (Value[p] % Value[c]) * s
                  /\ get_slot(p, c, s) + s <= total_size(c, s)
    <3> DEFINE s == open_slot_size(asked)
               b == Value[nabd_mod_pow2(p, mask(c))]
               C == Value[c]
    <3>1. PICK k \in Bit : c = {k}
      <4>1. c \in Powers
        BY <2>1, <2>2, CapacityIsPower, Zenon
      <4> QED
        BY <4>1, Zenon DEF Powers
    <3> HIDE DEF c
    <3>2. b = Value[p] % C /\ b \in Nat /\ C \in Nat /\ b < C
      BY <3>1, MaskIsRemainder
    <3>3. s \in Nat /\ ControlSize \in Nat /\ Words \in Nat
      BY SlotSizeType, ArithAssumption, MetricsAssumption
    <3>4. get_slot(p, c, s) = ControlSize + b * s
      BY Zenon DEF get_slot
    <3>5. total_size(c, s) = (ControlSize + C * s) % Words
      BY Zenon DEF total_size
    <3>6. ControlSize + C * s < Words
      BY <2>2
    <3> HIDE DEF b, C, s
    <3>7. b * s + s <= C * s
      BY <3>2, <3>3, SlotFits
    <3>8. total_size(c, s) = ControlSize + C * s
      <4> DEFINE u == ControlSize + C * s
      <4>1. u \in Nat /\ u < Words
        BY <3>2, <3>3, <3>6
      <4> HIDE DEF u
      <4>2. u % Words = u
        BY <3>3, <4>1
      <4> QED
        BY <3>5, <4>2 DEF u
    <3>9. get_slot(p, c, s) + s <= total_size(c, s)
      <4> DEFINE d == b * s
                 e == C * s
      <4>1. d \in Nat /\ e \in Nat /\ d + s <= e
        BY <3>2, <3>3, <3>7
      <4>2. get_slot(p, c, s) = ControlSize + d /\ total_size(c, s) = ControlSize + e
        BY <3>4, <3>8
      <4> HIDE DEF d, e
      <4> QED
        BY <3>3, <4>1, <4>2
    <3>10. get_slot(p, c, s) = ControlSize + (Value[p] % C) * s
      BY <3>2, <3>4
    <3> QED
      BY <3>9, <3>10 DEF C, s
  <2> HIDE DEF c
  <2> QED
    BY <2>2 DEF SlotsInMapping, c
<1> QED
  BY <1>1, PTL

\* For every width and every rotation, the checksum of a checkpoint
\* (persistence.c:36) tells a record from one that differs in one field.
THEOREM ChecksumSound == WordsSpec => []ChecksumDetects
<1>1. ChecksumDetects
  <2> DEFINE k == [magic |-> CheckpointMagic, timestamp |-> Asked,
                   group_id |-> Asked \cap {0, 1}, tail |-> shiftR(Asked, 2)]
  <2>1. k \in Records
    <3>1. /\ CheckpointMagic \in SUBSET Bit /\ Asked \in SUBSET Bit
          /\ Asked \cap {0, 1} \in SUBSET Bit /\ shiftR(Asked, 2) \in SUBSET Bit
      BY ArithAssumption, Zenon DEF Asked, shiftR
    <3> QED
      BY <3>1 DEF Records
  <2> HIDE DEF k
  <2>2. \A v \in SUBSET Bit :
          /\ v # k.timestamp => compute_checksum([k EXCEPT !.timestamp = v]) # compute_checksum(k)
          /\ v # k.group_id => compute_checksum([k EXCEPT !.group_id = v]) # compute_checksum(k)
          /\ v # k.tail => compute_checksum([k EXCEPT !.tail = v]) # compute_checksum(k)
    BY <2>1, EveryFieldCounts, Zenon
  <2> QED
    BY <2>2, Zenon DEF ChecksumDetects, k
<1> QED
  BY <1>1, PTL
-----------------------------------------------------------------------------
(* The rates of Metrics *)

\* Unsigned arithmetic: a number less than one wrap away from the words is brought
\* back by adding or subtracting the number of words once.
LEMMA Wrapped ==
  ASSUME NEW x \in Int
  PROVE  /\ x \in 0 .. Words - 1 => x % Words = x
         /\ x \in Words .. 2 * Words - 1 => x % Words = x - Words
         /\ x \in -Words .. -1 => x % Words = x + Words
BY MetricsAssumption

\* The unsigned differences of the two counters add up to the moves made, as a word.
LEMMA MovesCounted ==
  ASSUME NEW n \in Word, NEW used \in 0 .. Moves, NEW pushes \in 0 .. Moves,
         NEW pops \in 0 .. Moves
  PROVE  ((((n + pushes) % Words) - n)
           + (((n - used + pops) % Words) - ((n - used) % Words))) % Words
         = (pushes + pops) % Words
<1> DEFINE h == (n + pushes) % Words
           t == (n - used) % Words
           u == (n - used + pops) % Words
<1>1. h = n + pushes \/ h = n + pushes - Words
  BY Wrapped, MetricsAssumption DEF Word
<1>2. t = n - used \/ t = n - used + Words
  BY Wrapped, MetricsAssumption DEF Word
<1>3. u \in {n - used + pops, n - used + pops - Words, n - used + pops + Words}
  BY Wrapped, MetricsAssumption DEF Word
<1>4. h \in Word /\ t \in Word /\ u \in Word
  BY MetricsAssumption DEF Word
<1> HIDE DEF h, t, u
<1>5. (h - n) + (u - t) - (pushes + pops) \in {0, -Words, Words, -2 * Words}
  BY <1>1, <1>2, <1>3, <1>4, MetricsAssumption DEF Word
<1> DEFINE d == (h - n) + (u - t)
<1>6. d \in Int /\ d - (pushes + pops) \in {0, -Words, Words, -2 * Words}
  BY <1>4, <1>5, MetricsAssumption DEF Word
<1>7. d \in -2 * Words .. 2 * Words
  BY <1>4, MetricsAssumption DEF Word
<1> HIDE DEF d
<1>8. d % Words = (pushes + pops) % Words
  BY <1>6, <1>7, Wrapped, MetricsAssumption
<1> QED
  BY <1>8 DEF d, h, t, u

\* The counter that enumerates the inputs is a word.
LEMMA InputIsWord == WordsSpec => [](input \in Word)
<1>1. WordsInit => input \in Word
  BY MetricsAssumption DEF WordsInit, Word
<1>2. input \in Word /\ [WordsNext]_input => (input \in Word)'
  BY MetricsAssumption DEF WordsNext, Word
<1> QED
  BY <1>1, <1>2, PTL DEF WordsSpec

\* What nabd_calc_throughput (metrics.c) returns for the moves between two snapshots.
LEMMA RateOf ==
  ASSUME NEW now \in Nat, NEW time \in 1 .. Moves, NEW n \in Word,
         NEW used \in 0 .. Moves, NEW pushes \in 0 .. Moves, NEW pops \in 0 .. Moves
  PROVE  Rate(now, time, n, used, pushes, pops)
         = ((((pushes + pops) % Words) * Second) % Words) \div time
<1> DEFINE head_1 == (n + pushes) % Words
           tail_0 == (n - used) % Words
           tail_1 == (n - used + pops) % Words
<1>1. ((head_1 - n) + (tail_1 - tail_0)) % Words = (pushes + pops) % Words
  BY MovesCounted
<1>2. Rate(now, time, n, used, pushes, pops)
      = nabd_calc_throughput(nabd_take_snapshot(now, n, tail_0),
                             nabd_take_snapshot(now + time, head_1, tail_1))
  BY Zenon DEF Rate, Before, After
<1> HIDE DEF head_1, tail_0, tail_1
<1>3. ((now + time) - now) % Words = time /\ time # 0
  <2>1. (now + time) - now = time /\ time \in 1 .. Words - 1
    BY MetricsAssumption
  <2> QED
    BY <2>1, MetricsAssumption
<1> QED
  BY <1>1, <1>2, <1>3, Zenon DEF nabd_calc_throughput, nabd_take_snapshot

\* The rate that nabd_calc_throughput (metrics.c) returns does not depend on where the
\* counters are, across a wrap too, and is that of the messages pushed or popped if only
\* one side moved, for words of any size.
THEOREM RatesRight == WordsSpec => []RateAcrossWrap
<1>1. ASSUME input \in Word PROVE RateAcrossWrap
  <2>1. input \div 2 \in Nat /\ 0 \in Nat /\ 0 .. Moves \subseteq Word
    BY <1>1, MetricsAssumption DEF Word
  <2>2. ASSUME NEW used \in 0 .. Moves, NEW pushes \in 0 .. Moves,
               NEW pops \in 0 .. Moves, NEW time \in 1 .. Moves
        PROVE  /\ Rate(input \div 2, time, input, used, pushes, pops)
                    = ((((pushes + pops) % Words) * Second) % Words) \div time
               /\ Rate(0, time, used, used, pushes, pops)
                    = ((((pushes + pops) % Words) * Second) % Words) \div time
    <3>1. used \in Word
      BY <2>1, Zenon
    <3>2. \A now \in Nat, n \in Word :
            Rate(now, time, n, used, pushes, pops)
              = ((((pushes + pops) % Words) * Second) % Words) \div time
      BY RateOf
    <3> QED
      BY <1>1, <2>1, <3>1, <3>2, Zenon
  <2>3. ASSUME NEW pushes \in 0 .. Moves, NEW pops \in 0 .. Moves,
               (pushes + pops) * Second < Words
        PROVE  ((((pushes + pops) % Words) * Second) % Words) = (pushes + pops) * Second
    <3> DEFINE moves == pushes + pops
               all   == moves * Second
    <3>1. moves \in Nat /\ all \in Nat /\ all < Words /\ moves <= all
      BY <2>3, MetricsAssumption
    <3> HIDE DEF moves, all
    <3>2. moves % Words = moves /\ all % Words = all
      BY <3>1, MetricsAssumption
    <3> QED
      BY <3>2 DEF moves, all
  <2> SUFFICES ASSUME NEW used \in 0 .. Moves, NEW pushes \in 0 .. Moves,
                      NEW pops \in 0 .. Moves, NEW time \in 1 .. Moves
               PROVE  /\ Rate(input \div 2, time, input, used, pushes, pops)
                           = Rate(0, time, used, used, pushes, pops)
                      /\ (pushes = 0 \/ pops = 0) /\ (pushes + pops) * Second < Words =>
                           Rate(input \div 2, time, input, used, pushes, pops)
                             = ((pushes + pops) * Second) \div time
    BY Zenon DEF RateAcrossWrap
  <2>4. /\ Rate(input \div 2, time, input, used, pushes, pops)
             = ((((pushes + pops) % Words) * Second) % Words) \div time
        /\ Rate(0, time, used, used, pushes, pops)
             = ((((pushes + pops) % Words) * Second) % Words) \div time
    BY <2>2, Zenon
  <2> QED
    BY <2>3, <2>4, Zenon
<1> QED
  BY <1>1, InputIsWord, PTL
=============================================================================
