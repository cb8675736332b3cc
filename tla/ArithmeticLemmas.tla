-------------------------- MODULE ArithmeticLemmas --------------------------
(***************************************************************************)
(* Arithmetic that the proofs share: of ring buffers, where the slot of    *)
(* the i-th entry in a ring of N slots is i % N, and of division, as TLA+  *)
(* and as C define it.                                                     *)
(***************************************************************************)
EXTENDS CInt, TLAPS

\* A slot is one of the ring's (the mask of an index).
LEMMA SlotInRing ==
    ASSUME NEW N \in Nat \ {0}, NEW i \in Int
    PROVE  i % N \in 0 .. N - 1
OBVIOUS

\* An index is a number of rounds and a slot.
LEMMA Rounds ==
    ASSUME NEW N \in Nat \ {0}, NEW i \in Int
    PROVE  \E q \in Int : i = N * q + (i % N)
<1>1. i \div N \in Int /\ i = N * (i \div N) + (i % N)
  OBVIOUS
<1> QED
  BY <1>1

\* No multiple of N lies strictly between 0 and N.
LEMMA NoMultipleBetween ==
    ASSUME NEW N \in Nat \ {0}, NEW q \in Int, 0 < N * q, N * q < N
    PROVE  FALSE
<1>1. q >= 1 => N * q >= N
  OBVIOUS
<1>2. q <= 0 => N * q <= 0
  OBVIOUS
<1> QED
  BY <1>1, <1>2

\* Entries less than N apart have slots of their own.
LEMMA SlotsDistinct ==
    ASSUME NEW N \in Nat \ {0}, NEW i \in Int, NEW j \in Int, i < j, j - i < N
    PROVE  i % N # j % N
<1> SUFFICES ASSUME i % N = j % N PROVE FALSE
  OBVIOUS
<1>1. PICK p \in Int : i = N * p + (i % N)
  BY Rounds
<1>2. PICK q \in Int : j = N * q + (j % N)
  BY Rounds
<1>3. i % N \in Int
  OBVIOUS
<1>4. j - i = N * (q - p)
  BY <1>1, <1>2, <1>3
<1> QED
  BY <1>4, NoMultipleBetween

\* A round later the slot is the same.
LEMMA SlotPeriod ==
    ASSUME NEW N \in Nat \ {0}, NEW i \in Int
    PROVE  (i - N) % N = i % N
<1> DEFINE a == i % N
           b == (i - N) % N
<1>1. PICK p \in Int : i = N * p + a
  BY Rounds
<1>2. PICK q \in Int : i - N = N * q + b
  <2>1. i - N \in Int
    OBVIOUS
  <2> QED
    BY <2>1, Rounds
<1>3. a \in 0 .. N - 1 /\ b \in 0 .. N - 1
  BY SlotInRing
<1> HIDE DEF a, b
<1>4. a - b = N * (q - p + 1) /\ b - a = N * (p - q - 1)
  BY <1>1, <1>2, <1>3
<1>5. ~ (a - b > 0) /\ ~ (b - a > 0)
  <2>1. q - p + 1 \in Int /\ p - q - 1 \in Int /\ a - b < N /\ b - a < N
    BY <1>3
  <2> QED
    BY <1>4, <2>1, NoMultipleBetween
<1> QED
  BY <1>3, <1>5 DEF a, b

----------------------------------------------------------------------------
\* Division with remainder.
LEMMA DivBounds ==
    ASSUME NEW a \in Int, NEW b \in Nat \ {0}
    PROVE  a \div b \in Int /\ (a \div b) * b <= a /\ a < (a \div b) * b + b
<1>1. a \div b \in Int /\ a = b * (a \div b) + (a % b) /\ a % b \in 0 .. b - 1
  OBVIOUS
<1> QED
  BY <1>1

\* C's division: towards zero.
LEMMA QuotientBounds ==
    ASSUME NEW a \in Int, NEW b \in Nat \ {0}
    PROVE  /\ Quotient(a, b) \in Int
           /\ a >= 0 => Quotient(a, b) * b <= a /\ a < Quotient(a, b) * b + b /\ Quotient(a, b) >= 0
           /\ a < 0  => Quotient(a, b) * b >= a /\ a > Quotient(a, b) * b - b
<1>1. CASE a >= 0
  <2> DEFINE q == a \div b
  <2>1. q \in Int /\ q * b <= a /\ a < q * b + b
    BY DivBounds
  <2>2. Quotient(a, b) = q
    BY <1>1 DEF Quotient
  <2> HIDE DEF q
  <2>3. q >= 0
    <3>1. q <= -1 => q * b <= 0 - b
      BY <2>1
    <3> QED
      BY <1>1, <2>1, <3>1
  <2> QED
    BY <1>1, <2>1, <2>2, <2>3
<1>2. CASE a < 0
  <2> DEFINE q == (0 - a) \div b
  <2>1. q \in Int /\ q * b <= 0 - a /\ 0 - a < q * b + b
    BY DivBounds
  <2>2. Quotient(a, b) = 0 - q
    BY <1>2 DEF Quotient
  <2> HIDE DEF q
  <2>3. (0 - q) * b = 0 - q * b
    BY <2>1
  <2> QED
    BY <1>2, <2>1, <2>2, <2>3
<1> QED
  BY <1>1, <1>2

\* Products and order.
LEMMA MulMono ==
    ASSUME NEW x \in Int, NEW y \in Int, NEW z \in Nat, x <= y
    PROVE  x * z <= y * z
OBVIOUS

LEMMA MulCancel ==
    ASSUME NEW x \in Int, NEW y \in Int, NEW z \in Nat \ {0}, x * z < y * z
    PROVE  x < y
<1>1. y <= x => y * z <= x * z
  BY MulMono
<1>2. x * z \in Int /\ y * z \in Int
  OBVIOUS
<1> QED
  BY <1>1, <1>2

\* How far a quotient is from a number that its numerator is a multiple of.
LEMMA DivAtLeast ==
    ASSUME NEW a \in Int, NEW b \in Nat \ {0}, NEW k \in Int, k * b <= a
    PROVE  a \div b >= k
<1> DEFINE q == a \div b
<1>1. q \in Int /\ a < q * b + b
  BY DivBounds
<1> HIDE DEF q
<1>2. k * b < (q + 1) * b
  BY <1>1
<1>3. k < q + 1
  BY <1>1, <1>2, MulCancel
<1> QED
  BY <1>1, <1>3 DEF q

LEMMA DivAtMost ==
    ASSUME NEW a \in Int, NEW b \in Nat \ {0}, NEW k \in Int, a < (k + 1) * b
    PROVE  a \div b <= k
<1> DEFINE q == a \div b
<1>1. q \in Int /\ q * b <= a
  BY DivBounds
<1> HIDE DEF q
<1>2. q * b < (k + 1) * b
  BY <1>1
<1>3. q < k + 1
  BY <1>1, <1>2, MulCancel
<1> QED
  BY <1>1, <1>3 DEF q

=============================================================================
