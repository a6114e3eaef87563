---------------------------- MODULE PowersProofs ----------------------------
(***************************************************************************)
(* Facts about powers of two, and about dividing by them, for KeyProofs    *)
(* and ConfigurationProofs.                                                *)
(***************************************************************************)
EXTENDS Powers, WellFoundedInduction, TLAPS

(* A nonempty set of numbers has a least one: induction, for the provers.  *)
LEMMA LeastNat ==
    ASSUME NEW S \in SUBSET Nat, S # {}
    PROVE  \E m \in S : \A x \in S : m <= x
<1>1. PICK m \in S : \A y \in S : ~(<<y, m>> \in OpToRel(<, Nat))
  BY NatLessThanWellFounded, WFMin
<1>2. ASSUME NEW x \in S PROVE m <= x
  <2>1. m \in Nat /\ x \in Nat /\ ~(x < m)
    BY <1>1 DEF OpToRel
  <2> QED
    BY <2>1
<1> QED
  BY <1>2

(* A set that has 0 and, with each number, the next has them all.          *)
LEMMA Induction ==
    ASSUME NEW S \in SUBSET Nat, 0 \in S, \A n \in S : n + 1 \in S
    PROVE  S = Nat
<1> SUFFICES ASSUME S # Nat PROVE FALSE
  OBVIOUS
<1>1. PICK T : T = Nat \ S
  OBVIOUS
<1>2. T \in SUBSET Nat /\ T # {}
  BY <1>1
<1>3. PICK m \in T : \A x \in T : m <= x
  BY ONLY <1>2, LeastNat
<1>4. m \in Nat /\ m # 0 /\ m \notin S
  BY <1>1, <1>3
<1>5. m - 1 \in Nat /\ ~(m <= m - 1)
  BY <1>4
<1>6. m - 1 \in S
  BY <1>1, <1>3, <1>5
<1>7. (m - 1) + 1 = m
  BY <1>4
<1> QED
  BY <1>4, <1>6, <1>7

(* f has the first n + 1 powers of two.                                    *)
Doubles(f, n) ==
    f[0] = 1 /\ \A k \in Nat : k < n => f[k + 1] = 2 * f[k]

(* Such functions agree where both say something.                          *)
LEMMA DoublesAgree ==
    ASSUME NEW n \in Nat, NEW f, NEW g, Doubles(f, n), Doubles(g, n)
    PROVE  \A k \in Nat : k <= n => f[k] = g[k]
<1>1. PICK S : S = {k \in Nat : k <= n => f[k] = g[k]}
  OBVIOUS
<1>2. S \in SUBSET Nat /\ 0 \in S
  BY <1>1 DEF Doubles
<1>3. ASSUME NEW k \in S PROVE k + 1 \in S
  <2>1. k \in Nat /\ (k <= n => f[k] = g[k])
    BY <1>1
  <2>2. ASSUME k + 1 <= n PROVE f[k + 1] = g[k + 1]
    <3>1. k < n /\ k <= n
      BY <2>1, <2>2
    <3> QED
      BY <2>1, <3>1 DEF Doubles
  <2> QED
    BY <1>1, <2>1, <2>2
<1>4. S = Nat
  BY ONLY <1>2, <1>3, Induction
<1> QED
  BY <1>1, <1>4

(* There are as many powers of two as one likes.                           *)
LEMMA DoublesExist ==
    \A n \in Nat : \E f : Doubles(f, n)
<1>1. PICK S : S = {n \in Nat : \E f : Doubles(f, n)}
  OBVIOUS
<1>2. 0 \in S
  <2>1. Doubles([k \in Nat |-> 1], 0)
    BY DEF Doubles
  <2> QED
    BY <1>1, <2>1
<1>3. ASSUME NEW n \in S PROVE n + 1 \in S
  <2>1. PICK f : n \in Nat /\ Doubles(f, n)
    BY <1>1
  <2>2. PICK g : g = [k \in Nat |-> IF k = n + 1 THEN 2 * f[n] ELSE f[k]]
    OBVIOUS
  <2>3. g[0] = 1
    BY <2>1, <2>2 DEF Doubles
  <2>4. ASSUME NEW k \in Nat, k < n + 1 PROVE g[k + 1] = 2 * g[k]
    <3>1. k # n + 1 /\ k + 1 \in Nat /\ (k = n \/ k < n)
      BY <2>1, <2>4
    <3>2. g[k] = f[k]
      BY <2>2, <3>1
    <3>3. CASE k = n
      BY <2>2, <3>1, <3>2, <3>3
    <3>4. CASE k < n
      <4>1. k + 1 # n + 1 /\ f[k + 1] = 2 * f[k]
        BY <2>1, <3>4 DEF Doubles
      <4> QED
        BY <2>2, <3>1, <3>2, <4>1
    <3> QED
      BY <3>1, <3>3, <3>4
  <2>5. Doubles(g, n + 1) /\ n + 1 \in Nat
    BY <2>1, <2>3, <2>4 DEF Doubles
  <2> QED
    BY <1>1, <2>5
<1>4. S \in SUBSET Nat
  BY <1>1
<1>5. S = Nat
  BY ONLY <1>2, <1>3, <1>4, Induction
<1> QED
  BY <1>1, <1>5

(* The recursion that defines Pow2 has a solution.                         *)
LEMMA Pow2Recursion ==
    Pow2 = [n \in Nat |-> IF n = 0 THEN 1 ELSE 2 * Pow2[n - 1]]
<1>1. PICK F : F = [n \in Nat |-> CHOOSE f : Doubles(f, n)]
  OBVIOUS
<1>2. \A n \in Nat : Doubles(F[n], n)
  BY <1>1, DoublesExist
<1>3. PICK G : G = [n \in Nat |-> F[n][n]]
  OBVIOUS
<1>4. ASSUME NEW n \in Nat PROVE G[n + 1] = 2 * G[n]
  <2>1. n + 1 \in Nat /\ n < n + 1 /\ n <= n
    OBVIOUS
  <2>2. Doubles(F[n + 1], n + 1) /\ Doubles(F[n], n)
    BY <1>2, <2>1
  <2>3. Doubles(F[n + 1], n)
    <3>1. \A k \in Nat : k < n => k < n + 1
      OBVIOUS
    <3> QED
      BY <2>2, <3>1 DEF Doubles
  <2>4. F[n + 1][n] = F[n][n]
    BY <2>1, <2>2, <2>3, DoublesAgree
  <2>5. F[n + 1][n + 1] = 2 * F[n + 1][n]
    BY <2>1, <2>2 DEF Doubles
  <2> QED
    BY <1>3, <2>1, <2>4, <2>5
<1>5. G[0] = 1
  BY <1>2, <1>3 DEF Doubles
<1>6. ASSUME NEW n \in Nat PROVE G[n] = IF n = 0 THEN 1 ELSE 2 * G[n - 1]
  <2>1. CASE n = 0
    BY <1>5, <2>1
  <2>2. CASE n # 0
    <3>1. n - 1 \in Nat /\ (n - 1) + 1 = n
      BY <2>2
    <3> QED
      BY <1>4, <2>2, <3>1
  <2> QED
    BY <2>1, <2>2
<1>7. G = [n \in Nat |-> IF n = 0 THEN 1 ELSE 2 * G[n - 1]]
  <2>1. PICK H : H = [n \in Nat |-> IF n = 0 THEN 1 ELSE 2 * G[n - 1]]
    OBVIOUS
  <2>2. \A n \in Nat : G[n] = H[n]
    BY <1>6, <2>1
  <2>3. G = H
    BY <1>3, <2>1, <2>2
  <2> QED
    BY <2>1, <2>3
<1> QED
  BY <1>7 DEF Pow2

(* Powers of two, one by one.                                              *)
LEMMA Pow2Is ==
    /\ Pow2[0] = 1
    /\ \A n \in Nat : Pow2[n + 1] = 2 * Pow2[n]
    /\ \A n \in Nat : Pow2[n] \in Nat \ {0}
<1>1. Pow2[0] = 1
  BY Pow2Recursion
<1>2. ASSUME NEW n \in Nat PROVE Pow2[n + 1] = 2 * Pow2[n]
  <2>1. n + 1 \in Nat /\ n + 1 # 0 /\ (n + 1) - 1 = n
    OBVIOUS
  <2>2. Pow2[n + 1] = 2 * Pow2[(n + 1) - 1]
    BY <2>1, Pow2Recursion
  <2> QED
    BY <2>1, <2>2
<1>3. PICK S : S = {n \in Nat : Pow2[n] \in Nat \ {0}}
  OBVIOUS
<1>4. S \in SUBSET Nat /\ 0 \in S
  BY <1>1, <1>3
<1>5. ASSUME NEW n \in S PROVE n + 1 \in S
  <2>1. n \in Nat /\ Pow2[n] \in Nat \ {0}
    BY <1>3
  <2>2. Pow2[n + 1] \in Nat \ {0}
    BY <1>2, <2>1
  <2> QED
    BY <1>3, <2>1, <2>2
<1>6. S = Nat
  BY ONLY <1>4, <1>5, Induction
<1> QED
  BY <1>1, <1>2, <1>3, <1>6

(* Fields side by side hold the product of what each holds.                *)
LEMMA Pow2Sum ==
    ASSUME NEW a \in Nat, NEW b \in Nat
    PROVE  Pow2[a + b] = Pow2[a] * Pow2[b]
<1>1. PICK S : S = {n \in Nat : Pow2[a + n] = Pow2[a] * Pow2[n]}
  OBVIOUS
<1>2. S \in SUBSET Nat /\ 0 \in S
  <2>1. a + 0 = a /\ Pow2[a] \in Nat /\ Pow2[0] = 1
    BY Pow2Is
  <2> QED
    BY <1>1, <2>1
<1>3. ASSUME NEW n \in S PROVE n + 1 \in S
  <2>1. n \in Nat /\ Pow2[a + n] = Pow2[a] * Pow2[n]
    BY <1>1
  <2>2. a + n \in Nat /\ (a + n) + 1 = a + (n + 1)
    BY <2>1
  <2>3. Pow2[a + (n + 1)] = 2 * Pow2[a + n] /\ Pow2[n + 1] = 2 * Pow2[n]
    BY <2>1, <2>2, Pow2Is
  <2>4. PICK x \in Nat, y \in Nat : x = Pow2[a] /\ y = Pow2[n]
    BY <2>1, Pow2Is
  <2>5. 2 * (x * y) = x * (2 * y)
    OBVIOUS
  <2>6. Pow2[a + (n + 1)] = Pow2[a] * Pow2[n + 1]
    BY <2>1, <2>3, <2>4, <2>5
  <2> QED
    BY <1>1, <2>1, <2>6
<1>4. S = Nat
  BY ONLY <1>2, <1>3, Induction
<1> QED
  BY <1>1, <1>4

(* A remainder is in range; a number in range is its own remainder.        *)
LEMMA Remainder ==
    ASSUME NEW p \in Nat \ {0}, NEW x \in Nat
    PROVE  /\ (x % p) \in 0 .. p - 1 /\ (x % p) \in Nat
           /\ x \in 0 .. p - 1 => (x % p) = x
OBVIOUS

(* Dividing q * p + r by p.                                                *)
LEMMA Divided ==
    ASSUME NEW p \in Nat \ {0}, NEW q \in Nat, NEW r \in Nat, r < p
    PROVE  (q * p + r) \div p = q /\ (q * p + r) % p = r
<1>1. PICK x \in Nat : x = q * p + r
  OBVIOUS
<1>2. PICK d \in Int, m \in Int : d = x \div p /\ m = x % p
  BY <1>1
<1>3. x = d * p + m /\ 0 <= m /\ m < p
  BY <1>1, <1>2
<1>4. ASSUME d < q PROVE FALSE
  <2>1. PICK k \in Nat : q = d + 1 + k
    <3>1. q - d - 1 \in Nat /\ q = d + 1 + (q - d - 1)
      BY <1>2, <1>4
    <3> QED
      BY <3>1
  <2>2. q * p = d * p + p + k * p /\ k * p \in Nat
    BY <1>2, <2>1
  <2> QED
    BY <1>1, <1>2, <1>3, <2>2
<1>5. ASSUME q < d PROVE FALSE
  <2>1. PICK k \in Nat : d = q + 1 + k
    <3>1. d - q - 1 \in Nat /\ d = q + 1 + (d - q - 1)
      BY <1>2, <1>5
    <3> QED
      BY <3>1
  <2>2. d * p = q * p + p + k * p /\ k * p \in Nat
    BY <1>2, <2>1
  <2> QED
    BY <1>1, <1>2, <1>3, <2>2
<1>6. d = q
  BY <1>2, <1>4, <1>5
<1>7. m = r
  BY <1>1, <1>2, <1>3, <1>6
<1> QED
  BY <1>1, <1>2, <1>6, <1>7

(* A larger exponent, a larger power.                                      *)
LEMMA Pow2Grows ==
    ASSUME NEW a \in Nat, NEW b \in Nat, a < b
    PROVE  Pow2[a] < Pow2[b]
<1>1. PICK k \in Nat : b = a + (k + 1)
  <2>1. b - a - 1 \in Nat /\ b = a + ((b - a - 1) + 1)
    OBVIOUS
  <2> QED
    BY <2>1
<1>2. Pow2[b] = Pow2[a] * Pow2[k + 1] /\ Pow2[k + 1] = 2 * Pow2[k]
  BY <1>1, Pow2Sum, Pow2Is
<1>3. PICK x \in Nat \ {0}, y \in Nat \ {0} : x = Pow2[a] /\ y = Pow2[k]
  BY <1>1, Pow2Is
<1>4. PICK z \in Nat : z = x * (y - 1)
  <2>1. y - 1 \in Nat
    BY <1>3
  <2>2. x * (y - 1) \in Nat
    BY <1>3, <2>1
  <2> QED
    BY <2>2
<1>5. x * (2 * y) = 2 * z + 2 * x
  <2>1. x * (2 * y) = 2 * (x * (y - 1)) + 2 * x
    BY <1>3
  <2> QED
    BY <1>4, <2>1
<1> QED
  BY <1>2, <1>3, <1>4, <1>5

(* Powers of two are ordered as their exponents are.                       *)
LEMMA Pow2Orders ==
    ASSUME NEW a \in Nat, NEW b \in Nat
    PROVE  Pow2[a] <= Pow2[b] <=> a <= b
<1>1. Pow2[a] \in Nat /\ Pow2[b] \in Nat
  BY Pow2Is
<1>2. CASE a < b
  BY <1>1, <1>2, Pow2Grows
<1>3. CASE a = b
  BY <1>1, <1>3
<1>4. CASE b < a
  <2>1. Pow2[b] < Pow2[a]
    BY <1>4, Pow2Grows
  <2> QED
    BY <1>1, <1>4, <2>1
<1> QED
  BY <1>2, <1>3, <1>4
=============================================================================
