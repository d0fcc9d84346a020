----------------------------- MODULE ModuloFacts -----------------------------
(***************************************************************************)
(* Arithmetic modulo a constant that is not known, as 16-bit identifiers and *)
(* sequence numbers need it.  The SMT solver knows quotient and remainder    *)
(* but not that a multiple of m between -m and m is 0.                       *)
(***************************************************************************)
EXTENDS Integers, TLAPS

\* Division with remainder.
LEMMA DivMod ==
  ASSUME NEW a \in Nat, NEW m \in Nat \ {0}
  PROVE  /\ a \div m \in Int
         /\ a % m \in 0 .. m - 1
         /\ a = m * (a \div m) + (a % m)
BY SMTT(30)

\* The only multiple of m strictly between -m and m is 0.
LEMMA SmallMultiple ==
  ASSUME NEW m \in Nat \ {0}, NEW d \in Int, -m < m * d, m * d < m
  PROVE  d = 0
<1>1. CASE d >= 1
  <2>1. m * d >= m
    BY <1>1, SMTT(30)
  <2>2. QED
    BY <2>1
<1>2. CASE d <= -1
  <2>1. m * d <= -m
    BY <1>2, SMTT(30)
  <2>2. QED
    BY <2>1
<1>3. QED
  BY <1>1, <1>2

\* Quotient and remainder are unique.
LEMMA DivModUnique ==
  ASSUME NEW m \in Nat \ {0},
         NEW q1 \in Int, NEW r1 \in 0 .. m - 1,
         NEW q2 \in Int, NEW r2 \in 0 .. m - 1,
         m * q1 + r1 = m * q2 + r2
  PROVE  q1 = q2 /\ r1 = r2
<1> DEFINE d == q1 - q2
<1>1. m * d = m * q1 - m * q2 /\ m * q1 \in Int /\ m * q2 \in Int
  BY SMTT(30)
<1>2. m * d = r2 - r1
  BY <1>1
<1>3. d = 0
  BY <1>2, SmallMultiple
<1>4. QED
  BY <1>2, <1>3

\* Two numbers less than m apart differ modulo m.
LEMMA NearbyNumbersDiffer ==
  ASSUME NEW a \in Nat, NEW b \in Nat, NEW m \in Nat \ {0},
         a % m = b % m, a < b + m, b < a + m
  PROVE  a = b
<1> DEFINE qa == a \div m
           qb == b \div m
           d  == qb - qa
<1>1. qa \in Int /\ qb \in Int /\ a = m * qa + (a % m) /\ b = m * qb + (b % m)
  BY DivMod
<1>2. a % m \in Int /\ b % m \in Int
  BY DivMod
<1> HIDE DEF qa, qb
<1>3. m * d = m * qb - m * qa /\ m * qa \in Int /\ m * qb \in Int
  BY <1>1, SMTT(30)
<1>4. m * d = b - a
  BY <1>1, <1>2, <1>3
<1>5. d = 0
  BY <1>1, <1>4, SmallMultiple
<1>6. QED
  BY <1>4, <1>5

\* A number below m is its own remainder.
LEMMA SmallMod ==
  ASSUME NEW m \in Nat \ {0}, NEW a \in 0 .. m - 1
  PROVE  a % m = a
<1> DEFINE r == a % m
           q == a \div m
<1>1. r \in 0 .. m - 1 /\ q \in Int /\ a = m * q + r
  BY DivMod
<1> HIDE DEF q, r
<1>2. m * q + r = m * 0 + a
  BY <1>1
<1>3. r = a
  BY <1>1, <1>2, DivModUnique
<1>4. QED
  BY <1>3 DEF r

\* Truncating before the increment loses nothing.
LEMMA SuccessorMod ==
  ASSUME NEW a \in Nat, NEW m \in Nat \ {0}
  PROVE  ((a % m) + 1) % m = (a + 1) % m
<1> DEFINE r == a % m
           q == a \div m
           s == (a + 1) % m
           p == (a + 1) \div m
<1>1. r \in 0 .. m - 1 /\ q \in Int /\ a = m * q + r
  BY DivMod
<1>2. s \in 0 .. m - 1 /\ p \in Int /\ a + 1 = m * p + s
  BY DivMod
<1> HIDE DEF q, p, s
<1>3. CASE r + 1 < m
  <2> HIDE DEF r
  <2>1. r + 1 \in 0 .. m - 1
    BY <1>1, <1>3
  <2>2. (r + 1) % m = r + 1
    BY <2>1, SmallMod
  <2>3. m * q + (r + 1) = m * p + s
    BY <1>1, <1>2
  <2>4. r + 1 = s
    BY <1>1, <1>2, <2>1, <2>3, DivModUnique
  <2>5. QED
    BY <2>2, <2>4 DEF s, r
<1>4. CASE r + 1 = m
  <2>1. (r + 1) % m = 0
    BY <1>1, <1>4, SMT
  <2> HIDE DEF r
  <2> DEFINE k == q + 1
  <2>2. k \in Int /\ 0 \in 0 .. m - 1
    BY <1>1
  <2>3. m * k = m * q + m
    BY <1>1, SMTT(30)
  <2> HIDE DEF k
  <2>4. s = 0
    <3>1. m * k + 0 = m * p + s
      BY <1>1, <1>2, <1>4, <2>2, <2>3
    <3>2. QED
      BY <1>2, <2>2, <3>1, DivModUnique
  <2>5. QED
    BY <2>1, <2>4 DEF s, r
<1>5. QED
  BY <1>1, <1>3, <1>4

\* Truncating twice is truncating once.
LEMMA ModMod ==
  ASSUME NEW a \in Nat, NEW m \in Nat \ {0}
  PROVE  (a % m) % m = a % m
BY SMTT(30)
=============================================================================
