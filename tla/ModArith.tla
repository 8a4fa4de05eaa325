------------------------------ MODULE ModArith ------------------------------
(***************************************************************************)
(* Arithmetic of unsigned counters that wrap around, and of rings indexed  *)
(* by them; least naturals; sequences.                                     *)
(***************************************************************************)
EXTENDS Integers, Sequences, WellFoundedInduction, TLAPS

LEMMA ModSmall ==
  ASSUME NEW m \in Nat, NEW a \in Nat, a < m
  PROVE  a % m = a
OBVIOUS

LEMMA ModRange ==
  ASSUME NEW m \in Nat, m > 0, NEW a \in Int
  PROVE  a % m \in 0 .. m - 1
OBVIOUS

\* One turn too far, or one too few.
LEMMA ModTurn ==
  ASSUME NEW m \in Nat, NEW a \in Int
  PROVE  /\ m <= a /\ a < 2 * m => a % m = a - m
         /\ a < 0 /\ -m <= a => a % m = a + m
OBVIOUS

LEMMA ModDiv ==
  ASSUME NEW m \in Nat, m > 0, NEW a \in Int
  PROVE  a \div m \in Int /\ a = m * (a \div m) + (a % m)
OBVIOUS

\* Quotient and remainder are unique.
LEMMA ModUnique ==
  ASSUME NEW m \in Nat, m > 0, NEW q \in Int, NEW b \in 0 .. m - 1
  PROVE  (m * q + b) % m = b
<1>. DEFINE a == m * q + b  d == a \div m  c == a % m
<1>1. a \in Int /\ d \in Int /\ c \in 0 .. m - 1 /\ a = m * d + c
  BY ModDiv, ModRange
<1>. HIDE DEF d, c
<1>2. m * (d - q) = b - c
  BY <1>1
<1>3. b - c < m /\ -m < b - c
  BY <1>1
<1>4. d - q \in Int
  BY <1>1
<1>5. \A x \in Int : x >= 1 => m * x >= m
  OBVIOUS
<1>6. \A x \in Int : x <= -1 => m * x <= -m
  OBVIOUS
<1>7. d - q = 0
  BY <1>1, <1>2, <1>3, <1>4, <1>5, <1>6
<1>8. b = c
  BY <1>1, <1>2, <1>7
<1>. QED BY <1>8 DEF c

\* Whole turns do not matter.
LEMMA ModTurns ==
  ASSUME NEW m \in Nat, m > 0, NEW a \in Int, NEW q \in Int
  PROVE  (a + m * q) % m = a % m
<1>. DEFINE d == a \div m  c == a % m
<1>1. d \in Int /\ c \in 0 .. m - 1 /\ a = m * d + c
  BY ModDiv, ModRange
<1>. HIDE DEF d, c
<1>2. a + m * q = m * (d + q) + c /\ d + q \in Int
  BY <1>1
<1>3. (m * (d + q) + c) % m = c
  BY <1>1, <1>2, ModUnique
<1>. QED BY <1>2, <1>3 DEF c

\* A counter that wraps around at a multiple of the size of a ring, plus some.
LEMMA ModShift ==
  ASSUME NEW m \in Nat, m > 0, NEW u \in Nat, u > 0, u % m = 0, NEW a \in Int, NEW y \in Int
  PROVE  ((a % u) + y) % m = (a + y) % m
<1>. DEFINE d == a \div u  c == a % u  t == u \div m
<1>1. d \in Int /\ c \in Int /\ a = u * d + c
  BY ModDiv, ModRange
<1>2. t \in Int /\ u = m * t
  BY ModDiv
<1>. HIDE DEF d, c, t
<1>3. a + y = (c + y) + m * (t * d) /\ t * d \in Int
  BY <1>1, <1>2
<1>4. c + y \in Int
  BY <1>1
<1>5. ((c + y) + m * (t * d)) % m = (c + y) % m
  BY <1>3, <1>4, ModTurns
<1>. QED BY <1>3, <1>5 DEF c

LEMMA ModMod ==
  ASSUME NEW m \in Nat, m > 0, NEW u \in Nat, u > 0, u % m = 0, NEW a \in Int
  PROVE  (a % u) % m = a % m
<1>1. PICK y \in Int : y = 0
  OBVIOUS
<1>2. ((a % u) + y) % m = (a + y) % m
  BY ModShift
<1>3. (a % u) + y = a % u /\ a + y = a
  BY <1>1, ModRange
<1>. QED BY <1>2, <1>3

\* Two numbers less than a turn apart are in different slots.
LEMMA ModDiffer ==
  ASSUME NEW m \in Nat, m > 0, NEW a \in Int, NEW b \in Int, a < b, b < a + m
  PROVE  a % m # b % m
<1>. DEFINE d == a \div m  c == a % m  f == b \div m  g == b % m
<1>1. d \in Int /\ c \in 0 .. m - 1 /\ a = m * d + c
  BY ModDiv, ModRange
<1>2. f \in Int /\ g \in 0 .. m - 1 /\ b = m * f + g
  BY ModDiv, ModRange
<1>. SUFFICES ASSUME c = g PROVE FALSE
  OBVIOUS
<1>. HIDE DEF d, c, f, g
<1>3. m * (f - d) = b - a /\ f - d \in Int
  BY <1>1, <1>2
<1>4. \A x \in Int : x >= 1 => m * x >= m
  OBVIOUS
<1>5. \A x \in Int : x <= 0 => m * x <= 0
  OBVIOUS
<1>. QED BY <1>3, <1>4, <1>5

\* The distance from one counter to another.
LEMMA DistIs ==
  ASSUME NEW u \in Nat, u > 0, NEW a \in 0 .. u - 1, NEW b \in 0 .. u - 1
  PROVE  /\ (b - a) % u = IF a <= b THEN b - a ELSE b - a + u
         /\ (b - a) % u \in 0 .. u - 1
         /\ (b - a) % u = 0 <=> a = b
         /\ b = (a + ((b - a) % u)) % u
<1>1. (b - a) % u = IF a <= b THEN b - a ELSE b - a + u
  BY ModSmall, ModTurn
<1>2. CASE a <= b
  BY <1>1, <1>2, ModSmall
<1>3. CASE b < a
  <2>1. a + ((b - a) % u) = b + u
    BY <1>1, <1>3
  <2>. QED BY <1>1, <1>3, <2>1, ModTurn
<1>. QED BY <1>1, <1>2, <1>3

\* The distance between two counters when the second one goes on by k, less
\* than a turn in all.
LEMMA DistUp ==
  ASSUME NEW u \in Nat, u > 0, NEW a \in 0 .. u - 1, NEW b \in 0 .. u - 1, NEW k \in Nat,
         ((b - a) % u) + k < u
  PROVE  (((b + k) % u) - a) % u = ((b - a) % u) + k
<1>1. (b - a) % u = IF a <= b THEN b - a ELSE b - a + u
  BY ModSmall, ModTurn
<1>2. k < u
  BY <1>1
<1>3. (b + k) % u = IF b + k < u THEN b + k ELSE b + k - u
  BY <1>2, ModSmall, ModTurn
<1>4. CASE b + k < u
  BY <1>1, <1>3, <1>4, ModSmall, ModTurn
<1>5. CASE b + k >= u
  BY <1>1, <1>3, <1>5, ModSmall, ModTurn
<1>. QED BY <1>4, <1>5

\* The distance when the first one catches up by k.
LEMMA DistDown ==
  ASSUME NEW u \in Nat, u > 0, NEW a \in 0 .. u - 1, NEW b \in 0 .. u - 1, NEW k \in Nat,
         k <= (b - a) % u
  PROVE  (b - ((a + k) % u)) % u = ((b - a) % u) - k
<1>1. (b - a) % u = IF a <= b THEN b - a ELSE b - a + u
  BY ModSmall, ModTurn
<1>2. k < u
  BY <1>1
<1>3. (a + k) % u = IF a + k < u THEN a + k ELSE a + k - u
  BY <1>2, ModSmall, ModTurn
<1>4. CASE a + k < u
  BY <1>1, <1>3, <1>4, ModSmall, ModTurn
<1>5. CASE a + k >= u
  BY <1>1, <1>3, <1>5, ModSmall, ModTurn
<1>. QED BY <1>4, <1>5

\* The distance when the second one goes back by k.
LEMMA DistBack ==
  ASSUME NEW u \in Nat, u > 0, NEW a \in 0 .. u - 1, NEW b \in 0 .. u - 1, NEW k \in Nat,
         k <= (b - a) % u
  PROVE  (((b + -k) % u) - a) % u = ((b - a) % u) - k
<1>1. (b - a) % u = IF a <= b THEN b - a ELSE b - a + u
  BY ModSmall, ModTurn
<1>2. k < u
  BY <1>1
<1>3. (b + -k) % u = IF b >= k THEN b - k ELSE b - k + u
  BY <1>2, ModSmall, ModTurn
<1>4. CASE b >= k
  BY <1>1, <1>3, <1>4, ModSmall, ModTurn
<1>5. CASE b < k
  BY <1>1, <1>3, <1>5, ModSmall, ModTurn
<1>. QED BY <1>4, <1>5

\* The distances over a third counter in between.
LEMMA DistSum ==
  ASSUME NEW u \in Nat, u > 0,
         NEW a \in 0 .. u - 1, NEW b \in 0 .. u - 1, NEW c \in 0 .. u - 1,
         ((b - a) % u) + ((c - b) % u) < u
  PROVE  (c - a) % u = ((b - a) % u) + ((c - b) % u)
BY DistIs

\* A set of naturals that is not empty has a least element.
LEMMA LeastNatural ==
  ASSUME NEW S, S \subseteq Nat, S # {}
  PROVE  \E x \in S : \A y \in S : x <= y
<1>1. PICK x \in S : \A y \in S : ~(<<y, x>> \in OpToRel(<, Nat))
  BY NatLessThanWellFounded, WFMin, Zenon
<1>2. \A y \in S : ~(y < x)
  BY <1>1 DEF OpToRel
<1>. QED BY <1>2

\* Two sequences of the same elements are equal.
LEMMA SameSeq ==
  ASSUME NEW S, NEW s \in Seq(S), NEW t \in Seq(S),
         Len(s) = Len(t), \A i \in 1 .. Len(s) : s[i] = t[i]
  PROVE  s = t
OBVIOUS

\* What two sequences joined are.
LEMMA Concatenated ==
  ASSUME NEW S, NEW s \in Seq(S), NEW t \in Seq(S)
  PROVE  /\ s \o t \in Seq(S)
         /\ Len(s \o t) = Len(s) + Len(t)
         /\ \A i \in 1 .. Len(s) + Len(t) : (s \o t)[i] = IF i <= Len(s) THEN s[i] ELSE t[i - Len(s)]
<1>1. /\ s \o t \in Seq(S)
      /\ Len(s \o t) = Len(s) + Len(t)
  OBVIOUS
<1>2. \A i \in 1 .. Len(s) + Len(t) : (s \o t)[i] = IF i <= Len(s) THEN s[i] ELSE t[i - Len(s)]
  OBVIOUS
<1>. QED BY <1>1, <1>2
=============================================================================
