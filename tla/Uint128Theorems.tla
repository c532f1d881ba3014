---------------------------- MODULE Uint128Theorems ----------------------------
(***************************************************************************)
(* What the operators of Uint128 compute, for any width and in every        *)
(* calculation mode: comparison, addition, subtraction, negation and        *)
(* multiplication modulo 2^Bits, shifts as division and multiplication by   *)
(* powers of two, the scan for the leading bit, an iteration of the division*)
(* loop, the division by one limb, and where the carry functions are right. *)
(* They rest on the laws of Pow2, which the provers' arithmetic does not    *)
(* know: that the recursive equation has a solution, that powers double,    *)
(* add and grow, and that every positive number lies between two of them.   *)
(***************************************************************************)
EXTENDS Uint128, TLAPS, WellFoundedInduction

\* Every set of naturals that is not empty has a least member: the induction of
\* this module is a search for the least counterexample.
LEMMA Least ==
  ASSUME NEW S \in SUBSET Nat, S # {}
  PROVE  \E m \in S : \A k \in S : m =< k
<1> DEFINE R == OpToRel(<, Nat)
<1>1. IsWellFoundedOn(R, Nat)
  BY NatLessThanWellFounded
<1>2. \A k, m \in Nat : k < m => <<k, m>> \in R
  BY DEF OpToRel
<1> HIDE DEF R
<1>3. \E m \in S : \A k \in S : ~ (<<k, m>> \in R)
  BY <1>1, WFMin
<1>4. \E m \in S : \A k \in S : ~ (k < m)
  BY <1>2, <1>3
<1>5. \A k, m \in Nat : ~ (k < m) => m =< k
  OBVIOUS
<1> QED BY <1>4, <1>5

\* g is the sequence of values that starts at v and takes step[n] at place n.
Follows(g, S, v, step) ==
  g \in [Nat -> S] /\ g[0] = v /\ \A n \in Nat : g[n + 1] = step[n][g[n]]

\* Recursion over the naturals: there is such a sequence, within S.
LEMMA Recursion ==
  \A S : \A v \in S : \A step \in [Nat -> [S -> S]] : \E g : Follows(g, S, v, step)
<1> SUFFICES ASSUME NEW S, NEW v \in S, NEW step \in [Nat -> [S -> S]]
             PROVE  \E g : Follows(g, S, v, step)
  OBVIOUS
<1> DEFINE Upto(f, n) == /\ f \in [0..n -> S] /\ f[0] = v
                         /\ \A k \in 0..(n - 1) : f[k + 1] = step[k][f[k]]
<1>1. \A n \in Nat : \E f : Upto(f, n)
  <2> DEFINE D == {n \in Nat : ~ \E f : Upto(f, n)}
  <2>1. SUFFICES ASSUME D # {} PROVE FALSE OBVIOUS
  <2>2. D \in SUBSET Nat OBVIOUS
  <2> HIDE DEF Upto
  <2>3. PICK m \in D : \A k \in D : m =< k
    <3> HIDE DEF D
    <3> QED BY <2>1, <2>2, Least
  <2>4. m \in Nat /\ ~ \E f : Upto(f, m) OBVIOUS
  <2>5. CASE m = 0
    <3> DEFINE z == [k \in 0..0 |-> v]
    <3>1. z \in [0..0 -> S] /\ z[0] = v OBVIOUS
    <3>2. Upto(z, 0) BY <3>1 DEF Upto
    <3> QED BY <3>2, <2>4, <2>5
  <2>6. CASE m # 0
    <3>1. m - 1 \in Nat /\ m - 1 \notin D
      <4> HIDE DEF D
      <4> QED BY <2>2, <2>3, <2>4, <2>6
    <3>2. PICK f : Upto(f, m - 1) BY <3>1
    <3>3. /\ f \in [0..(m - 1) -> S] /\ f[0] = v
          /\ \A k \in 0..((m - 1) - 1) : f[k + 1] = step[k][f[k]]
      BY <3>2 DEF Upto
    <3> DEFINE w == step[m - 1][f[m - 1]]
               g == [k \in 0..m |-> IF k = m THEN w ELSE f[k]]
    <3>4. w \in S
      <4>1. f[m - 1] \in S BY <3>1, <3>3
      <4>2. step[m - 1] \in [S -> S] BY <3>1
      <4> QED BY <4>1, <4>2
    <3>5. g \in [0..m -> S]
      <4> HIDE DEF w
      <4> QED BY <2>4, <3>1, <3>3, <3>4
    <3>6. g[0] = v BY <2>4, <2>6, <3>3
    <3>7. \A k \in 0..(m - 1) : g[k + 1] = step[k][g[k]]
      <4> TAKE k \in 0..(m - 1)
      <4>1. k \in 0..m /\ k + 1 \in 0..m /\ k # m BY <2>4
      <4>2. g[k] = f[k] BY <4>1
      <4>3. CASE k + 1 = m
        <5>1. g[k + 1] = w /\ k = m - 1 BY <2>4, <4>1, <4>3
        <5> QED BY <5>1, <4>2
      <4>4. CASE k + 1 # m
        <5>1. g[k + 1] = f[k + 1] BY <4>1, <4>4
        <5>2. k \in 0..((m - 1) - 1) BY <2>4, <4>4
        <5> QED BY <5>1, <5>2, <4>2, <3>3
      <4> QED BY <4>3, <4>4
    <3>8. Upto(g, m)
      <4> HIDE DEF g
      <4> QED BY <3>5, <3>6, <3>7 DEF Upto
    <3> QED BY <3>8, <2>4
  <2> QED BY <2>5, <2>6
<1>2. ASSUME NEW n1 \in Nat, NEW n2 \in Nat, NEW f, NEW g,
             Upto(f, n1), Upto(g, n2), n1 =< n2
      PROVE  f[n1] = g[n1]
  <2>0. /\ f \in [0..n1 -> S] /\ f[0] = v /\ g \in [0..n2 -> S] /\ g[0] = v
        /\ \A k \in 0..(n1 - 1) : f[k + 1] = step[k][f[k]]
        /\ \A k \in 0..(n2 - 1) : g[k + 1] = step[k][g[k]]
    BY <1>2
  <2> HIDE DEF Upto
  <2> DEFINE D == {k \in 0..n1 : f[k] # g[k]}
  <2>1. SUFFICES ASSUME D # {} PROVE FALSE BY n1 \in 0..n1
  <2>2. PICK m \in D : \A k \in D : m =< k
    <3>1. D \in SUBSET Nat OBVIOUS
    <3> HIDE DEF D
    <3> QED BY <2>1, <3>1, Least
  <2>3. m \in 0..n1 /\ f[m] # g[m] OBVIOUS
  <2>4. m # 0 BY <2>0, <2>3
  <2>5. m - 1 \in 0..n1 /\ m - 1 \notin D
    <3>1. m - 1 \in 0..n1 /\ ~ (m =< m - 1) BY <2>3, <2>4
    <3> HIDE DEF D
    <3> QED BY <3>1, <2>2
  <2>6. f[m - 1] = g[m - 1] BY <2>5
  <2>7. m - 1 \in 0..(n1 - 1) /\ m - 1 \in 0..(n2 - 1) /\ (m - 1) + 1 = m
    BY <1>2, <2>3, <2>4
  <2> QED BY <2>0, <2>3, <2>6, <2>7
<1> DEFINE F(n) == CHOOSE f : Upto(f, n)
           h == [n \in Nat |-> F(n)[n]]
<1>3. \A n \in Nat : Upto(F(n), n)
  <2> HIDE DEF Upto
  <2> QED BY <1>1
<1>4. \A n \in Nat : /\ F(n) \in [0..n -> S] /\ F(n)[0] = v
                     /\ \A k \in 0..(n - 1) : F(n)[k + 1] = step[k][F(n)[k]]
  <2> HIDE DEF F
  <2> QED BY <1>3
<1>5. \A n1, n2 \in Nat : n1 =< n2 => F(n1)[n1] = F(n2)[n1]
  <2> HIDE DEF F, Upto
  <2> QED BY <1>2, <1>3
<1>6. h \in [Nat -> S]
  <2> HIDE DEF F
  <2> QED BY <1>4
<1>7. h[0] = v
  <2> HIDE DEF F
  <2> QED BY <1>4
<1>8. \A n \in Nat : h[n + 1] = step[n][h[n]]
  <2> HIDE DEF F
  <2> TAKE n \in Nat
  <2>1. h[n + 1] = F(n + 1)[n + 1] /\ h[n] = F(n)[n] OBVIOUS
  <2>2. F(n + 1)[n + 1] = step[n][F(n + 1)[n]]
    <3>1. n + 1 \in Nat /\ n \in 0..((n + 1) - 1) OBVIOUS
    <3> QED BY <3>1, <1>4
  <2>3. F(n)[n] = F(n + 1)[n]
    <3>1. n + 1 \in Nat /\ n =< n + 1 OBVIOUS
    <3> QED BY <3>1, <1>5
  <2> QED BY <2>1, <2>2, <2>3
<1> HIDE DEF h
<1> QED BY <1>6, <1>7, <1>8 DEF Follows

\* Induction up to a number: a set that has 0 and is closed under successors.
LEMMA UpTo ==
  \A S : \A n \in Nat :
    0 \in S /\ (\A k \in 0..(n - 1) : k \in S => k + 1 \in S) => \A k \in 0..n : k \in S
<1> SUFFICES ASSUME NEW S, NEW n \in Nat, 0 \in S,
                    \A k \in 0..(n - 1) : k \in S => k + 1 \in S
             PROVE  \A k \in 0..n : k \in S
  OBVIOUS
<1> DEFINE D == {k \in 0..n : k \notin S}
<1>1. SUFFICES ASSUME D # {} PROVE FALSE OBVIOUS
<1>2. D \in SUBSET Nat OBVIOUS
<1>3. PICK m \in D : \A k \in D : m =< k
  <2> HIDE DEF D
  <2> QED BY <1>1, <1>2, Least
<1>4. m \in 0..n /\ m \notin S OBVIOUS
<1>5. m # 0 BY <1>4
<1>6. m - 1 \in 0..n /\ m - 1 \notin D
  <2>1. m - 1 \in 0..n /\ ~ (m =< m - 1) BY <1>4, <1>5
  <2> HIDE DEF D
  <2> QED BY <2>1, <1>3
<1>7. m - 1 \in S /\ m - 1 \in 0..(n - 1) /\ (m - 1) + 1 = m BY <1>4, <1>5, <1>6
<1> QED BY <1>4, <1>7

\* The same up to n, as the recursive functions of the model are defined.
LEMMA FiniteRecursion ==
  \A S : \A v \in S : \A n \in Nat : \A step \in [1..n -> [S -> S]] :
    \E g \in [0..n -> S] : g[0] = v /\ \A k \in 1..n : g[k] = step[k][g[k - 1]]
<1> SUFFICES ASSUME NEW S, NEW v \in S, NEW n \in Nat, NEW step \in [1..n -> [S -> S]]
             PROVE  \E g \in [0..n -> S] :
                      g[0] = v /\ \A k \in 1..n : g[k] = step[k][g[k - 1]]
  OBVIOUS
<1> DEFINE id == [s \in S |-> s]
           all == [k \in Nat |-> IF k + 1 \in 1..n THEN step[k + 1] ELSE id]
<1>1. all \in [Nat -> [S -> S]]
  <2>1. id \in [S -> S] OBVIOUS
  <2> HIDE DEF id
  <2> QED BY <2>1
<1>2. \A k \in 1..n : k - 1 \in Nat /\ (k - 1) + 1 = k /\ all[k - 1] = step[k] OBVIOUS
<1> HIDE DEF all, id
<1>3. PICK g : Follows(g, S, v, all) BY <1>1, Recursion
<1>4. /\ g \in [Nat -> S] /\ g[0] = v
      /\ \A k \in Nat : g[k + 1] = all[k][g[k]]
  BY <1>3 DEF Follows
<1> DEFINE h == [k \in 0..n |-> g[k]]
<1>5. h \in [0..n -> S] /\ h[0] = v BY <1>4
<1>6. \A k \in 1..n : h[k] = step[k][h[k - 1]]
  <2> TAKE k \in 1..n
  <2>1. k \in 0..n /\ k - 1 \in 0..n OBVIOUS
  <2>2. h[k] = g[k] /\ h[k - 1] = g[k - 1] BY <2>1
  <2>3. g[(k - 1) + 1] = all[k - 1][g[k - 1]] BY <1>2, <1>4
  <2> HIDE DEF h
  <2> QED BY <2>2, <2>3, <1>2
<1> HIDE DEF h
<1> QED BY <1>5, <1>6

\* The equation that defines Pow2 has a solution, and Pow2 is it.
LEMMA PowEquation == Pow2 = [n \in Nat |-> IF n = 0 THEN 1 ELSE 2 * Pow2[n - 1]]
<1> DEFINE step == [k \in Nat |-> [s \in Nat |-> 2 * s]]
           Eq(h) == h = [n \in Nat |-> IF n = 0 THEN 1 ELSE 2 * h[n - 1]]
<1>1. step \in [Nat -> [Nat -> Nat]] /\ \A k, s \in Nat : step[k][s] = 2 * s OBVIOUS
<1> HIDE DEF step
<1>2. PICK g : Follows(g, Nat, 1, step) BY <1>1, Recursion
<1>3. g \in [Nat -> Nat] /\ g[0] = 1 /\ \A k \in Nat : g[k + 1] = 2 * g[k]
  <2>1. g \in [Nat -> Nat] /\ g[0] = 1 /\ \A k \in Nat : g[k + 1] = step[k][g[k]]
    BY <1>2 DEF Follows
  <2> QED BY <1>1, <2>1
<1>4. Eq(g)
  <2>1. \A n \in Nat : g[n] = IF n = 0 THEN 1 ELSE 2 * g[n - 1]
    <3> TAKE n \in Nat
    <3>1. n # 0 => n - 1 \in Nat /\ (n - 1) + 1 = n OBVIOUS
    <3> QED BY <3>1, <1>3
  <2>2. g = [n \in Nat |-> g[n]] BY <1>3
  <2> QED BY <2>1, <2>2
<1>5. Pow2 = CHOOSE h : Eq(h) BY DEF Pow2
<1> HIDE DEF Eq
<1>6. Eq(Pow2) BY <1>4, <1>5
<1> QED BY <1>6 DEF Eq

\* The two equations of Pow2.
LEMMA PowSteps == Pow2[0] = 1 /\ \A n \in Nat : Pow2[n + 1] = 2 * Pow2[n]
<1>1. \A n \in Nat : Pow2[n] = IF n = 0 THEN 1 ELSE 2 * Pow2[n - 1]
  <2> DEFINE P == Pow2
  <2>1. P = [n \in Nat |-> IF n = 0 THEN 1 ELSE 2 * P[n - 1]]
    BY PowEquation
  <2> HIDE DEF P
  <2>2. \A n \in Nat : P[n] = IF n = 0 THEN 1 ELSE 2 * P[n - 1]
    BY <2>1
  <2> QED BY <2>2 DEF P
<1>2. Pow2[0] = 1 BY <1>1
<1>3. \A n \in Nat : Pow2[n + 1] = 2 * Pow2[n]
  <2> TAKE n \in Nat
  <2>1. n + 1 \in Nat /\ n + 1 # 0 /\ (n + 1) - 1 = n OBVIOUS
  <2> QED BY <1>1, <2>1
<1> QED BY <1>2, <1>3

\* A power of two is a positive natural.
LEMMA PowPositive == \A n \in Nat : Pow2[n] \in Nat \ {0}
<1> DEFINE S == {n \in Nat : Pow2[n] \notin Nat \ {0}}
<1>1. SUFFICES ASSUME S # {} PROVE FALSE OBVIOUS
<1>2. PICK m \in S : \A k \in S : m =< k
  <2>1. S \in SUBSET Nat OBVIOUS
  <2> HIDE DEF S
  <2> QED BY <1>1, <2>1, Least
<1>3. m \in Nat /\ m # 0
  BY PowSteps
<1>4. m - 1 \in Nat /\ m - 1 \notin S
  <2>1. m - 1 \in Nat /\ ~ (m =< m - 1) BY <1>3
  <2> HIDE DEF S
  <2> QED BY <1>2, <2>1
<1>5. Pow2[m - 1] \in Nat \ {0}
  BY <1>4
<1>6. Pow2[m] = 2 * Pow2[m - 1]
  BY <1>3, <1>4, PowSteps
<1> QED BY <1>5, <1>6

\* Exponents add: a shift by a + b is a shift by a and one by b.
LEMMA PowSum == \A a, b \in Nat : Pow2[a + b] = Pow2[a] * Pow2[b]
<1> TAKE a \in Nat
<1> DEFINE S == {n \in Nat : Pow2[a + n] # Pow2[a] * Pow2[n]}
<1>1. SUFFICES ASSUME S # {} PROVE FALSE OBVIOUS
<1>2. PICK m \in S : \A k \in S : m =< k
  <2>1. S \in SUBSET Nat OBVIOUS
  <2> HIDE DEF S
  <2> QED BY <1>1, <2>1, Least
<1>3. m \in Nat /\ m # 0
  <2>1. a + 0 = a OBVIOUS
  <2>2. Pow2[a] * 1 = Pow2[a] BY PowPositive
  <2> QED BY PowSteps, <2>1, <2>2
<1>4. m - 1 \in Nat /\ m - 1 \notin S
  <2>1. m - 1 \in Nat /\ ~ (m =< m - 1) BY <1>3
  <2> HIDE DEF S
  <2> QED BY <1>2, <2>1
<1>5. Pow2[a + (m - 1)] = Pow2[a] * Pow2[m - 1]
  BY <1>4
<1>6. Pow2[m] = 2 * Pow2[m - 1]
  BY <1>3, <1>4, PowSteps
<1>7. Pow2[a + m] = 2 * Pow2[a + (m - 1)]
  <2>1. a + (m - 1) \in Nat /\ (a + (m - 1)) + 1 = a + m BY <1>3, <1>4
  <2> QED BY <2>1, PowSteps
<1>8. Pow2[a] \in Nat /\ Pow2[m - 1] \in Nat
  BY PowPositive, <1>4
<1>9. Pow2[a + m] = Pow2[a] * Pow2[m]
  <2>1. \A x, y \in Nat : 2 * (x * y) = x * (2 * y) OBVIOUS
  <2> QED BY <1>5, <1>6, <1>7, <1>8, <2>1
<1> QED BY <1>9

\* Powers grow with their exponent.
LEMMA PowMonotone == \A a, b \in Nat : a =< b => Pow2[a] =< Pow2[b]
<1> SUFFICES ASSUME NEW a \in Nat, NEW b \in Nat, a =< b
             PROVE  Pow2[a] =< Pow2[b]
  OBVIOUS
<1>1. b - a \in Nat /\ a + (b - a) = b OBVIOUS
<1>2. Pow2[b] = Pow2[a] * Pow2[b - a] BY <1>1, PowSum
<1>3. \A x, y \in Nat \ {0} : x =< x * y OBVIOUS
<1> QED BY <1>1, <1>2, <1>3, PowPositive

\* A positive number below 2^n has a leading bit.
LEMMA PowBetween ==
  ASSUME NEW n \in Nat, NEW v \in Nat, v # 0, v < Pow2[n]
  PROVE  \E p \in 0..(n - 1) : Pow2[p] =< v /\ v < Pow2[p + 1]
<1> DEFINE S == {k \in Nat : v < Pow2[k]}
<1>1. PICK m \in S : \A k \in S : m =< k
  <2>1. S \in SUBSET Nat /\ n \in S OBVIOUS
  <2> HIDE DEF S
  <2> QED BY <2>1, Least
<1>2. m \in Nat /\ m # 0 /\ v < Pow2[m]
  BY PowSteps
<1>3. m - 1 \in Nat /\ m - 1 \notin S /\ m =< n
  <2>1. m - 1 \in Nat /\ ~ (m =< m - 1) BY <1>2
  <2>2. n \in S OBVIOUS
  <2> HIDE DEF S
  <2> QED BY <1>1, <2>1, <2>2
<1>4. Pow2[m - 1] =< v
  BY <1>3, PowPositive
<1>5. m - 1 \in 0..(n - 1) /\ (m - 1) + 1 = m
  BY <1>2, <1>3
<1> QED BY <1>2, <1>4, <1>5

-----------------------------------------------------------------------------
(* Numbers, limbs and powers *)

\* The quotient and the remainder are determined by the division equation.
LEMMA DivisionUnique ==
  ASSUME NEW q \in Nat, NEW r \in Nat, NEW b \in Nat \ {0}, r < b
  PROVE  (q * b + r) \div b = q /\ (q * b + r) % b = r
OBVIOUS

\* A number below the divisor is its own remainder.
LEMMA BelowDivisor ==
  ASSUME NEW r \in Nat, NEW b \in Nat \ {0}, r < b
  PROVE  r \div b = 0 /\ r % b = r
OBVIOUS

\* The division equation.
LEMMA DivisionParts ==
  ASSUME NEW n \in Nat, NEW b \in Nat \ {0}
  PROVE  /\ n \div b \in Nat /\ n % b \in Nat /\ n % b < b
         /\ n = (n \div b) * b + (n % b)
OBVIOUS

\* A sum grows by its next term.
LEMMA TotalSteps ==
  \A f : \A n \in Nat : (\A k \in 1..n : f[k] \in Nat) =>
    /\ Total(f, 0) = 0
    /\ \A k \in 0..n : Total(f, k) \in Nat
    /\ \A k \in 0..(n - 1) : Total(f, k + 1) = Total(f, k) + f[k + 1]
<1> SUFFICES ASSUME NEW n \in Nat, NEW f, \A k \in 1..n : f[k] \in Nat
             PROVE  /\ Total(f, 0) = 0
                    /\ \A k \in 0..n : Total(f, k) \in Nat
                    /\ \A k \in 0..(n - 1) : Total(f, k + 1) = Total(f, k) + f[k + 1]
  OBVIOUS
<1> DEFINE step == [k \in Nat |-> [s \in Nat |-> s + (IF k + 1 \in 1..n THEN f[k + 1] ELSE 0)]]
<1>1. step \in [Nat -> [Nat -> Nat]] OBVIOUS
<1>2. \A k \in 0..(n - 1), s \in Nat : step[k][s] = s + f[k + 1] OBVIOUS
<1> HIDE DEF step
<1>3. PICK g : Follows(g, Nat, 0, step) BY <1>1, Recursion
<1>4. /\ g \in [Nat -> Nat] /\ g[0] = 0
      /\ \A k \in 0..(n - 1) : g[k + 1] = g[k] + f[k + 1]
  <2>1. g \in [Nat -> Nat] /\ g[0] = 0 /\ \A k \in Nat : g[k + 1] = step[k][g[k]]
    BY <1>3 DEF Follows
  <2>2. \A k \in 0..(n - 1) : k \in Nat /\ g[k] \in Nat BY <2>1
  <2> QED BY <1>2, <2>1, <2>2
<1> DEFINE Eq(h, k) == h = [j \in 0..k |-> IF j = 0 THEN 0 ELSE h[j - 1] + f[j]]
<1>5. ASSUME NEW k \in 0..n
      PROVE  Total(f, k) = g[k]
  <2> DEFINE h == [j \in 0..k |-> g[j]]
             u == CHOOSE u : Eq(u, k)
  <2>1. Eq(h, k)
    <3>1. ASSUME NEW j \in 0..k, j # 0
          PROVE  j - 1 \in 0..(n - 1) /\ j - 1 \in 0..k /\ g[j] = g[j - 1] + f[j]
      <4>1. j - 1 \in 0..(n - 1) /\ j - 1 \in 0..k /\ (j - 1) + 1 = j BY <3>1
      <4>2. g[(j - 1) + 1] = g[j - 1] + f[(j - 1) + 1] BY <4>1, <1>4
      <4> QED BY <4>1, <4>2
    <3>2. \A j \in 0..k : h[j] = IF j = 0 THEN 0 ELSE h[j - 1] + f[j]
      BY <3>1, <1>4
    <3> HIDE DEF h
    <3>3. h = [j \in 0..k |-> h[j]] BY DEF h
    <3> QED BY <3>2, <3>3
  <2>2. Eq(u, k)
    <3> HIDE DEF Eq, h
    <3> QED BY <2>1
  <2>3. \A j \in 0..k : u[j] = IF j = 0 THEN 0 ELSE u[j - 1] + f[j]
    <3> HIDE DEF u
    <3> QED BY <2>2
  <2> DEFINE S == {j \in 0..k : u[j] = g[j]}
  <2>4. 0 \in S
    <3> HIDE DEF u
    <3> QED BY <2>3, <1>4
  <2>5. \A j \in 0..(k - 1) : j \in S => j + 1 \in S
    <3> HIDE DEF u
    <3> TAKE j \in 0..(k - 1)
    <3>1. j \in 0..(n - 1) /\ j + 1 \in 0..k /\ j + 1 # 0 /\ (j + 1) - 1 = j OBVIOUS
    <3>2. u[j + 1] = u[j] + f[j + 1] BY <3>1, <2>3
    <3> QED BY <3>1, <3>2, <1>4
  <2>6. \A j \in 0..k : j \in S
    <3>1. k \in Nat OBVIOUS
    <3> HIDE DEF S
    <3> QED BY <3>1, <2>4, <2>5, UpTo
  <2>7. k \in S BY <2>6
  <2>8. Total(f, k) = u[k] BY DEF Total
  <2> QED BY <2>7, <2>8
<1>6. \A k \in 0..(n - 1) : k \in 0..n /\ k + 1 \in 0..n OBVIOUS
<1>7. 0 \in 0..n OBVIOUS
<1> QED BY <1>4, <1>5, <1>6, <1>7

\* Functions that agree have the same sum.
LEMMA TotalsAgree ==
  \A f, g : \A n \in Nat : (\A k \in 1..n : f[k] \in Nat /\ f[k] = g[k]) =>
    Total(f, n) = Total(g, n)
<1> SUFFICES ASSUME NEW n \in Nat, NEW f, NEW g, \A k \in 1..n : f[k] \in Nat /\ f[k] = g[k]
             PROVE  Total(f, n) = Total(g, n)
  OBVIOUS
<1>1. /\ Total(f, 0) = 0 /\ \A k \in 0..(n - 1) : Total(f, k + 1) = Total(f, k) + f[k + 1]
  BY TotalSteps
<1>2. /\ Total(g, 0) = 0 /\ \A k \in 0..(n - 1) : Total(g, k + 1) = Total(g, k) + g[k + 1]
  BY TotalSteps
<1> DEFINE S == {k \in 0..n : Total(f, k) = Total(g, k)}
<1>3. 0 \in S BY <1>1, <1>2
<1>4. \A k \in 0..(n - 1) : k \in S => k + 1 \in S
  <2> TAKE k \in 0..(n - 1)
  <2>1. k + 1 \in 1..n /\ k + 1 \in 0..n OBVIOUS
  <2> QED BY <2>1, <1>1, <1>2
<1>5. n \in S
  <2> HIDE DEF S
  <2>1. n \in 0..n OBVIOUS
  <2> QED BY <2>1, <1>3, <1>4, UpTo
<1> QED BY <1>5

\* A power is the next factor times the one before.
LEMMA PowerSteps ==
  \A b \in Nat :
    /\ Power(b, 0) = 1
    /\ \A n \in Nat : Power(b, n) \in Nat /\ Power(b, n + 1) = b * Power(b, n)
<1> SUFFICES ASSUME NEW b \in Nat
             PROVE  /\ Power(b, 0) = 1
                    /\ \A n \in Nat : Power(b, n) \in Nat /\ Power(b, n + 1) = b * Power(b, n)
  OBVIOUS
<1> DEFINE step == [k \in Nat |-> [s \in Nat |-> b * s]]
<1>1. step \in [Nat -> [Nat -> Nat]]
  <2>1. \A s \in Nat : b * s \in Nat OBVIOUS
  <2> QED BY <2>1
<1>2. \A k, s \in Nat : step[k][s] = b * s OBVIOUS
<1> HIDE DEF step
<1>3. PICK g : Follows(g, Nat, 1, step) BY <1>1, Recursion
<1>4. g \in [Nat -> Nat] /\ g[0] = 1 /\ \A k \in Nat : g[k + 1] = b * g[k]
  <2>1. g \in [Nat -> Nat] /\ g[0] = 1 /\ \A k \in Nat : g[k + 1] = step[k][g[k]]
    BY <1>3 DEF Follows
  <2> QED BY <2>1, <1>2
<1> DEFINE Eq(h, n) == h = [k \in 0..n |-> IF k = 0 THEN 1 ELSE b * h[k - 1]]
<1>5. ASSUME NEW n \in Nat
      PROVE  Power(b, n) = g[n]
  <2> DEFINE h == [k \in 0..n |-> g[k]]
             u == CHOOSE u : Eq(u, n)
  <2>1. Eq(h, n)
    <3>1. ASSUME NEW k \in 0..n, k # 0
          PROVE  h[k] = b * h[k - 1]
      <4>1. k - 1 \in Nat /\ k - 1 \in 0..n /\ (k - 1) + 1 = k BY <3>1
      <4>2. g[(k - 1) + 1] = b * g[k - 1] BY <4>1, <1>4
      <4> QED BY <4>1, <4>2
    <3>2. \A k \in 0..n : h[k] = IF k = 0 THEN 1 ELSE b * h[k - 1] BY <3>1, <1>4
    <3>3. h = [k \in 0..n |-> h[k]] OBVIOUS
    <3> HIDE DEF h
    <3> QED BY <3>2, <3>3
  <2>2. Eq(u, n)
    <3> HIDE DEF Eq, h
    <3> QED BY <2>1
  <2>3. \A k \in 0..n : u[k] = IF k = 0 THEN 1 ELSE b * u[k - 1]
    <3> HIDE DEF u
    <3> QED BY <2>2
  <2> DEFINE S == {k \in 0..n : u[k] = g[k]}
  <2>4. 0 \in S
    <3> HIDE DEF u
    <3> QED BY <2>3, <1>4
  <2>5. \A k \in 0..(n - 1) : k \in S => k + 1 \in S
    <3> HIDE DEF u
    <3> TAKE k \in 0..(n - 1)
    <3>1. k \in Nat /\ k + 1 \in 0..n /\ k + 1 # 0 /\ (k + 1) - 1 = k OBVIOUS
    <3>2. u[k + 1] = b * u[k] BY <3>1, <2>3
    <3> QED BY <3>1, <3>2, <1>4
  <2>6. n \in S
    <3>1. n \in 0..n OBVIOUS
    <3> HIDE DEF S
    <3> QED BY <3>1, <2>4, <2>5, UpTo
  <2>7. Power(b, n) = u[n] BY DEF Power
  <2> QED BY <2>6, <2>7
<1>6. \A n \in Nat : n + 1 \in Nat OBVIOUS
<1>7. 0 \in Nat OBVIOUS
<1> QED BY <1>4, <1>5, <1>6, <1>7

\* Powers of a positive number are positive and multiply when exponents add ...
LEMMA PowerSum ==
  \A b \in Nat \ {0} :
    /\ \A n \in Nat : Power(b, n) \in Nat \ {0}
    /\ \A m, n \in Nat : Power(b, m + n) = Power(b, m) * Power(b, n)
<1> TAKE b \in Nat \ {0}
<1>1. \A n \in Nat : Power(b, n) \in Nat \ {0}
  <2> TAKE n \in Nat
  <2> DEFINE S == {k \in Nat : Power(b, k) \in Nat \ {0}}
  <2>1. 0 \in S BY PowerSteps
  <2>2. \A k \in 0..(n - 1) : k \in S => k + 1 \in S
    <3>1. \A i, j \in Nat \ {0} : i * j \in Nat \ {0} OBVIOUS
    <3> QED BY <3>1, PowerSteps
  <2>3. n \in 0..n OBVIOUS
  <2>4. n \in S
    <3> HIDE DEF S
    <3> QED BY <2>1, <2>2, <2>3, UpTo
  <2> QED BY <2>4
<1>2. ASSUME NEW m \in Nat, NEW n \in Nat
      PROVE  Power(b, m + n) = Power(b, m) * Power(b, n)
  <2> DEFINE S == {k \in Nat : Power(b, m + k) = Power(b, m) * Power(b, k)}
  <2>1. 0 \in S
    <3>1. m + 0 = m /\ Power(b, m) \in Nat BY PowerSteps
    <3>2. Power(b, m) * 1 = Power(b, m) BY <3>1
    <3> QED BY <3>1, <3>2, PowerSteps
  <2>2. \A k \in 0..(n - 1) : k \in S => k + 1 \in S
    <3> TAKE k \in 0..(n - 1)
    <3> HAVE k \in S
    <3> DEFINE P == Power(b, m)  Q == Power(b, k)
    <3>1. k \in Nat /\ m + k \in Nat /\ m + (k + 1) = (m + k) + 1 OBVIOUS
    <3>2. Power(b, (m + k) + 1) = b * Power(b, m + k) /\ Power(b, k + 1) = b * Q
      BY <3>1, PowerSteps
    <3>3. P \in Nat /\ Q \in Nat BY <3>1, PowerSteps
    <3>4. Power(b, m + k) = P * Q OBVIOUS
    <3> HIDE DEF P, Q
    <3>5. b * (P * Q) = P * (b * Q) BY <3>3
    <3>6. Power(b, m + (k + 1)) = P * Power(b, k + 1) BY <3>1, <3>2, <3>4, <3>5
    <3> QED BY <3>1, <3>6 DEF P
  <2>3. n \in 0..n OBVIOUS
  <2>4. n \in S
    <3> HIDE DEF S
    <3> QED BY <2>1, <2>2, <2>3, UpTo
  <2> QED BY <2>4
<1> QED BY <1>1, <1>2

\* ... those of at least 2 exceed their exponents' powers of two, and those of an
\* exponent that is not smaller are not smaller.
LEMMA PowerGrows ==
  /\ \A b, n \in Nat : b >= 2 => Power(b, n) >= Pow2[n]
  /\ \A b \in Nat \ {0} : \A m, n \in Nat : m =< n => Power(b, m) =< Power(b, n)
  /\ \A n \in Nat : Power(2, n) = Pow2[n]
<1>1. ASSUME NEW b \in Nat, NEW n \in Nat, b >= 2
      PROVE  Power(b, n) >= Pow2[n] /\ (b = 2 => Power(b, n) = Pow2[n])
  <2> DEFINE S == {k \in Nat : Power(b, k) >= Pow2[k] /\ (b = 2 => Power(b, k) = Pow2[k])}
  <2>1. 0 \in S BY PowerSteps, PowSteps
  <2>2. \A k \in 0..(n - 1) : k \in S => k + 1 \in S
    <3> TAKE k \in 0..(n - 1)
    <3> HAVE k \in S
    <3> DEFINE P == Power(b, k)  Q == Pow2[k]
    <3>1. k \in Nat /\ P \in Nat /\ Q \in Nat BY PowerSteps, PowPositive
    <3>2. Power(b, k + 1) = b * P /\ Pow2[k + 1] = 2 * Q BY <3>1, PowerSteps, PowSteps
    <3>3. P >= Q /\ (b = 2 => P = Q) OBVIOUS
    <3> HIDE DEF P, Q
    <3>4. \A i, j, m \in Nat : i =< j => i * m =< j * m OBVIOUS
    <3>5. 2 * P =< b * P BY <1>1, <3>1, <3>4
    <3>6. b * P \in Nat BY <3>1
    <3> QED BY <3>1, <3>2, <3>3, <3>5, <3>6
  <2>3. n \in 0..n OBVIOUS
  <2>4. n \in S
    <3> HIDE DEF S
    <3> QED BY <2>1, <2>2, <2>3, UpTo
  <2> QED BY <2>4
<1>2. ASSUME NEW b \in Nat \ {0}, NEW m \in Nat, NEW n \in Nat, m =< n
      PROVE  Power(b, m) =< Power(b, n)
  <2>1. n - m \in Nat /\ m + (n - m) = n BY <1>2
  <2>2. Power(b, m + (n - m)) = Power(b, m) * Power(b, n - m) BY <2>1, PowerSum
  <2>3. Power(b, m) \in Nat \ {0} /\ Power(b, n - m) \in Nat \ {0} BY <2>1, PowerSum
  <2>4. \A x, y \in Nat \ {0} : x =< x * y OBVIOUS
  <2> QED BY <2>1, <2>2, <2>3, <2>4
<1> QED BY <1>1, <1>2

\* A number added above the top leaves the bits of one below it.
LEMMA BitsBelow ==
  ASSUME NEW L \in Nat, NEW n \in Nat, NEW m \in Nat, NEW k \in 0..(L - 1)
  PROVE  ((m * Pow2[L] + n) \div Pow2[k]) % 2 = (n \div Pow2[k]) % 2
<1> DEFINE P == Pow2[k]  Q == Pow2[(L - k) - 1]
<1>1. P \in Nat \ {0} /\ Q \in Nat \ {0} /\ Pow2[L] = P * (2 * Q)
  <2>1. k \in Nat /\ (L - k) - 1 \in Nat /\ L - k \in Nat /\ k + (L - k) = L
        /\ ((L - k) - 1) + 1 = L - k
    OBVIOUS
  <2>2. Pow2[L - k] = 2 * Pow2[(L - k) - 1] BY <2>1, PowSteps
  <2>3. Pow2[k + (L - k)] = Pow2[k] * Pow2[L - k] BY <2>1, PowSum, Zenon
  <2> QED BY <2>1, <2>2, <2>3, PowPositive
<1> HIDE DEF P, Q
<1> DEFINE q == n \div P  r == n % P
<1>2. q \in Nat /\ r \in Nat /\ r < P /\ n = q * P + r BY <1>1, DivisionParts
<1> HIDE DEF q, r
<1> DEFINE w == m * Q
<1>3. w \in Nat BY <1>1
<1>4. m * Pow2[L] + n = (2 * w + q) * P + r
  <2>1. m * (P * (2 * Q)) = (2 * w) * P BY <1>1
  <2>2. (2 * w) * P + q * P = (2 * w + q) * P
    <3> HIDE DEF w
    <3> QED BY <1>1, <1>2, <1>3
  <2>3. (2 * w) * P \in Nat /\ q * P \in Nat
    <3> HIDE DEF w
    <3> QED BY <1>1, <1>2, <1>3
  <2> HIDE DEF w
  <2> QED BY <1>1, <1>2, <2>1, <2>2, <2>3
<1> HIDE DEF w
<1>5. (m * Pow2[L] + n) \div P = 2 * w + q
  <2>1. 2 * w + q \in Nat BY <1>2, <1>3
  <2>2. ((2 * w + q) * P + r) \div P = 2 * w + q BY <2>1, <1>1, <1>2, DivisionUnique
  <2> QED BY <2>2, <1>4
<1>6. (2 * w + q) % 2 = q % 2 BY <1>2, <1>3
<1> QED BY <1>5, <1>6 DEF P, q

\* The top bit of a number of L + 1 bits, and what is above the low part.
LEMMA BitsAbove ==
  ASSUME NEW L \in Nat, NEW n \in Nat, NEW m \in Nat, n < Pow2[L]
  PROVE  (m * Pow2[L] + n) \div Pow2[L] = m
<1>1. Pow2[L] \in Nat \ {0} BY PowPositive
<1> QED BY <1>1, DivisionUnique

\* The number that is made of bits: it is below the power of their count, and they
\* are its bits.
LEMMA DigitsTotal ==
  \A f \in [Nat -> {0, 1}] : \A g : \A M \in Nat :
    (\A k \in 1..M : g[k] = f[k - 1] * Pow2[k - 1]) =>
      /\ Total(g, M) \in 0..(Pow2[M] - 1)
      /\ \A k \in 0..(M - 1) : Bit(Total(g, M), k) = f[k]
<1> SUFFICES ASSUME NEW f \in [Nat -> {0, 1}], NEW g, NEW M \in Nat,
                    \A k \in 1..M : g[k] = f[k - 1] * Pow2[k - 1]
             PROVE  /\ Total(g, M) \in 0..(Pow2[M] - 1)
                    /\ \A k \in 0..(M - 1) : Bit(Total(g, M), k) = f[k]
  OBVIOUS
<1> DEFINE Has(n, L) == /\ n \in 0..(Pow2[L] - 1)
                        /\ \A k \in 0..(L - 1) : Bit(n, k) = f[k]
           S == {L \in 0..M : Has(Total(g, L), L)}
<1>1. /\ Total(g, 0) = 0
      /\ \A L \in 0..(M - 1) : Total(g, L + 1) = Total(g, L) + f[L] * Pow2[L]
  <2>1. \A k \in 1..M : g[k] \in Nat
    <3>1. \A b \in {0, 1} : \A n \in Nat : b * n \in Nat OBVIOUS
    <3>2. \A k \in 1..M : k - 1 \in Nat /\ f[k - 1] \in {0, 1} /\ Pow2[k - 1] \in Nat
      BY PowPositive
    <3> QED BY <3>1, <3>2
  <2>2. /\ Total(g, 0) = 0
        /\ \A L \in 0..(M - 1) : Total(g, L + 1) = Total(g, L) + g[L + 1]
    BY <2>1, TotalSteps
  <2>3. \A L \in 0..(M - 1) : L + 1 \in 1..M /\ (L + 1) - 1 = L OBVIOUS
  <2> QED BY <2>2, <2>3
<1>2. 0 \in S BY <1>1, PowSteps
<1>3. ASSUME NEW L \in 0..(M - 1), L \in S
      PROVE  L + 1 \in S
  <2> DEFINE n == Total(g, L)  b == f[L]
  <2>1. L \in Nat /\ L + 1 \in 0..M /\ b \in {0, 1} /\ b \in Nat OBVIOUS
  <2>2. n \in Nat /\ n < Pow2[L] /\ \A k \in 0..(L - 1) : Bit(n, k) = f[k]
    <3>1. Pow2[L] \in Nat BY <2>1, PowPositive
    <3> QED BY <1>3, <3>1
  <2>3. Total(g, L + 1) = b * Pow2[L] + n
    <3>1. Pow2[L] \in Nat BY <2>1, PowPositive
    <3>2. Total(g, L + 1) = n + b * Pow2[L] BY <1>1
    <3>3. b * Pow2[L] \in Nat
      <4> HIDE DEF b
      <4> QED BY <2>1, <3>1
    <3> HIDE DEF n, b
    <3> QED BY <3>2, <3>3, <2>2
  <2> DEFINE w == b * Pow2[L] + n
  <2> HIDE DEF n
  <2>4. w \in 0..(Pow2[L + 1] - 1)
    <3>1. Pow2[L + 1] = 2 * Pow2[L] /\ Pow2[L] \in Nat BY <2>1, PowSteps, PowPositive
    <3> HIDE DEF b
    <3>2. b = 0 \/ b = 1 BY <2>1
    <3>3. CASE b = 0
      <4>1. w = n BY <3>1, <3>3, <2>2
      <4> QED BY <4>1, <3>1, <2>2
    <3>4. CASE b = 1
      <4>1. w = Pow2[L] + n BY <3>1, <3>4, <2>2
      <4> QED BY <4>1, <3>1, <2>2
    <3> QED BY <3>2, <3>3, <3>4
  <2>5. ASSUME NEW k \in 0..L
        PROVE  Bit(w, k) = f[k]
    <3>1. CASE k = L
      <4>1. w \div Pow2[L] = b
        <5> HIDE DEF b
        <5> QED BY <2>1, <2>2, BitsAbove
      <4>2. b % 2 = b
        <5> HIDE DEF b
        <5> QED BY <2>1
      <4> HIDE DEF w
      <4> QED BY <3>1, <4>1, <4>2 DEF Bit
    <3>2. CASE k # L
      <4>1. k \in 0..(L - 1) BY <3>2
      <4>2. (w \div Pow2[k]) % 2 = (n \div Pow2[k]) % 2
        <5> HIDE DEF b
        <5> QED BY <2>1, <2>2, <4>1, BitsBelow
      <4> HIDE DEF w
      <4> QED BY <4>1, <4>2, <2>2 DEF Bit
    <3> QED BY <3>1, <3>2
  <2>6. Has(w, L + 1)
    <3>1. (L + 1) - 1 = L BY <2>1
    <3> HIDE DEF w
    <3> QED BY <2>4, <2>5, <3>1
  <2> HIDE DEF Has, w
  <2>7. Has(Total(g, L + 1), L + 1) BY <2>3, <2>6 DEF w
  <2> QED BY <2>1, <2>7
<1>4. M \in S
  <2> HIDE DEF S
  <2>1. \A L \in 0..(M - 1) : L \in S => L + 1 \in S BY <1>3
  <2>2. M \in 0..M OBVIOUS
  <2> QED BY <1>2, <2>1, <2>2, UpTo
<1> QED BY <1>4

\* A bit is 0 or 1.
LEMMA BitIs ==
  ASSUME NEW n \in Nat, NEW k \in Nat
  PROVE  Bit(n, k) \in {0, 1}
<1>1. Pow2[k] \in Nat \ {0} BY PowPositive
<1>2. n \div Pow2[k] \in Nat BY <1>1, DivisionParts
<1>3. \A m \in Nat : m % 2 = 0 \/ m % 2 = 1 OBVIOUS
<1> QED BY <1>2, <1>3 DEF Bit

\* The remainder of a division by 2^(k + 1) has one bit more than that by 2^k.
LEMMA NextBit ==
  ASSUME NEW a \in Nat, NEW k \in Nat
  PROVE  a % Pow2[k + 1] = (a % Pow2[k]) + Bit(a, k) * Pow2[k]
<1> DEFINE P == Pow2[k]  q == a \div P  r == a % P  h == q \div 2  b == q % 2
<1>1. P \in Nat \ {0} /\ Pow2[k + 1] = 2 * P BY PowPositive, PowSteps
<1> HIDE DEF P
<1>2. q \in Nat /\ r \in Nat /\ r < P /\ a = q * P + r BY <1>1, DivisionParts
<1>3. Bit(a, k) = b BY DEF Bit, P
<1> HIDE DEF q, r
<1>4. h \in Nat /\ b \in {0, 1} /\ q = 2 * h + b BY <1>2
<1> HIDE DEF h, b
<1>5. a = h * (2 * P) + (b * P + r)
  <2>1. (2 * h + b) * P = h * (2 * P) + b * P BY <1>1, <1>4
  <2>2. h * (2 * P) \in Nat /\ b * P \in Nat BY <1>1, <1>4
  <2> QED BY <1>2, <1>4, <2>1, <2>2
<1>6. b * P + r \in Nat /\ b * P + r < 2 * P
  <2>1. b = 0 \/ b = 1 BY <1>4
  <2>2. 0 * P = 0 /\ 1 * P = P BY <1>1
  <2> QED BY <1>1, <1>2, <2>1, <2>2
<1>7. 2 * P \in Nat \ {0} BY <1>1
<1>8. (h * (2 * P) + (b * P + r)) % (2 * P) = b * P + r
  <2> DEFINE x == b * P + r  y == 2 * P
  <2> HIDE DEF x, y
  <2>1. x \in Nat /\ x < y /\ y \in Nat \ {0} BY <1>6, <1>7 DEF x, y
  <2>2. (h * y + x) % y = x BY <2>1, <1>4, DivisionUnique
  <2> QED BY <2>2 DEF x, y
<1>9. b * P \in Nat BY <1>1, <1>4
<1> QED BY <1>1, <1>2, <1>3, <1>5, <1>8, <1>9 DEF r, P

\* Sums of terms that are at most, or exactly, the sums of two others.
LEMMA TotalsAdd ==
  \A f, g, h : \A n \in Nat :
    (\A k \in 1..n : f[k] \in Nat /\ g[k] \in Nat /\ h[k] \in Nat /\ f[k] =< g[k] + h[k]) =>
      /\ Total(f, n) =< Total(g, n) + Total(h, n)
      /\ (\A k \in 1..n : f[k] = g[k] + h[k]) => Total(f, n) = Total(g, n) + Total(h, n)
<1> SUFFICES ASSUME NEW f, NEW g, NEW h, NEW n \in Nat,
                    \A k \in 1..n : f[k] \in Nat /\ g[k] \in Nat /\ h[k] \in Nat
                                    /\ f[k] =< g[k] + h[k]
             PROVE  /\ Total(f, n) =< Total(g, n) + Total(h, n)
                    /\ (\A k \in 1..n : f[k] = g[k] + h[k]) =>
                         Total(f, n) = Total(g, n) + Total(h, n)
  OBVIOUS
<1> DEFINE Exact == \A k \in 1..n : f[k] = g[k] + h[k]
           S == {k \in 0..n : /\ Total(f, k) =< Total(g, k) + Total(h, k)
                              /\ Exact => Total(f, k) = Total(g, k) + Total(h, k)}
<1>1. /\ Total(f, 0) = 0 /\ \A k \in 0..n : Total(f, k) \in Nat
      /\ \A k \in 0..(n - 1) : Total(f, k + 1) = Total(f, k) + f[k + 1]
  BY TotalSteps
<1>2. /\ Total(g, 0) = 0 /\ \A k \in 0..n : Total(g, k) \in Nat
      /\ \A k \in 0..(n - 1) : Total(g, k + 1) = Total(g, k) + g[k + 1]
  BY TotalSteps
<1>3. /\ Total(h, 0) = 0 /\ \A k \in 0..n : Total(h, k) \in Nat
      /\ \A k \in 0..(n - 1) : Total(h, k + 1) = Total(h, k) + h[k + 1]
  BY TotalSteps
<1>4. 0 \in S BY <1>1, <1>2, <1>3
<1>5. \A k \in 0..(n - 1) : k \in S => k + 1 \in S
  <2> TAKE k \in 0..(n - 1)
  <2>1. k + 1 \in 1..n /\ k + 1 \in 0..n /\ k \in 0..n OBVIOUS
  <2>2. /\ Total(f, k + 1) = Total(f, k) + f[k + 1]
        /\ Total(g, k + 1) = Total(g, k) + g[k + 1]
        /\ Total(h, k + 1) = Total(h, k) + h[k + 1]
        /\ Total(f, k) \in Nat /\ Total(g, k) \in Nat /\ Total(h, k) \in Nat
    BY <1>1, <1>2, <1>3, <2>1
  <2>3. f[k + 1] \in Nat /\ g[k + 1] \in Nat /\ h[k + 1] \in Nat
        /\ f[k + 1] =< g[k + 1] + h[k + 1] /\ (Exact => f[k + 1] = g[k + 1] + h[k + 1])
    BY <2>1
  <2> QED BY <2>1, <2>2, <2>3
<1>6. n \in S
  <2> HIDE DEF S
  <2>1. n \in 0..n OBVIOUS
  <2> QED BY <2>1, <1>4, <1>5, UpTo
<1> QED BY <1>6

\* The bits of a number of n bits add up to it.
LEMMA BitsAddUp ==
  \A a, n \in Nat : \A g : (\A k \in 1..n : g[k] = Bit(a, k - 1) * Pow2[k - 1]) =>
    /\ \A k \in 1..n : g[k] \in Nat
    /\ Total(g, n) = a % Pow2[n]
<1> SUFFICES ASSUME NEW a \in Nat, NEW n \in Nat, NEW g,
                    \A k \in 1..n : g[k] = Bit(a, k - 1) * Pow2[k - 1]
             PROVE  (\A k \in 1..n : g[k] \in Nat) /\ Total(g, n) = a % Pow2[n]
  OBVIOUS
<1>1. \A k \in 1..n : g[k] \in Nat
  <2>1. \A b \in {0, 1} : \A m \in Nat : b * m \in Nat OBVIOUS
  <2>2. \A k \in 1..n : k - 1 \in Nat OBVIOUS
  <2> QED BY <2>1, <2>2, BitIs, PowPositive
<1>2. /\ Total(g, 0) = 0
      /\ \A k \in 0..(n - 1) : Total(g, k + 1) = Total(g, k) + g[k + 1]
  BY <1>1, TotalSteps
<1> DEFINE S == {k \in 0..n : Total(g, k) = a % Pow2[k]}
<1>3. 0 \in S
  <2>1. a % 1 = 0 OBVIOUS
  <2> QED BY <2>1, <1>2, PowSteps
<1>4. \A k \in 0..(n - 1) : k \in S => k + 1 \in S
  <2> TAKE k \in 0..(n - 1)
  <2>1. k \in Nat /\ k + 1 \in 1..n /\ k + 1 \in 0..n /\ (k + 1) - 1 = k OBVIOUS
  <2>2. g[k + 1] = Bit(a, k) * Pow2[k] BY <2>1
  <2>3. a % Pow2[k + 1] = (a % Pow2[k]) + Bit(a, k) * Pow2[k] BY <2>1, NextBit
  <2>4. Total(g, k + 1) = Total(g, k) + g[k + 1] BY <1>2
  <2> QED BY <2>1, <2>2, <2>3, <2>4
<1>5. n \in S
  <2> HIDE DEF S
  <2>1. n \in 0..n OBVIOUS
  <2> QED BY <2>1, <1>3, <1>4, UpTo
<1> QED BY <1>1, <1>5

\* The widths of the halves, the limbs and the whole.
LEMMA Widths ==
  /\ HalfBits \in Nat \ {0} /\ LimbBits \in Nat /\ LimbBits >= 2
  /\ Bits \in Nat /\ Bits = LimbBits + LimbBits
  /\ Base \in Nat /\ Base >= 4 /\ Base = 2 * Pow2[LimbBits - 1]
  /\ Base * Base = Pow2[Bits]
<1>1. HalfBits \in Nat \ {0} BY WidthAssumption
<1>2. LimbBits \in Nat /\ LimbBits >= 2 /\ Bits \in Nat /\ Bits = LimbBits + LimbBits
  BY <1>1 DEF LimbBits, Bits
<1>3. Base \in Nat BY <1>2, PowPositive DEF Base
<1>4. Base * Base = Pow2[Bits] BY <1>2, PowSum DEF Base
<1>5. Pow2[2] = 4
  BY PowSteps
<1>6. Base >= 4
  BY <1>2, <1>5, PowMonotone, PowPositive DEF Base
<1>7. Base = 2 * Pow2[LimbBits - 1]
  <2>1. LimbBits - 1 \in Nat /\ (LimbBits - 1) + 1 = LimbBits BY <1>2
  <2> QED BY <2>1, PowSteps DEF Base
<1> QED BY <1>1, <1>2, <1>3, <1>4, <1>6, <1>7

\* The limbs of a uint128 and its number.
LEMMA LimbsOf ==
  ASSUME NEW u \in U128
  PROVE  /\ u.high \in Nat /\ u.high < Base /\ u.low \in Nat /\ u.low < Base
         /\ Val(u) = u.high * Base + u.low
         /\ Val(u) \in Nat /\ Val(u) < Base * Base
<1>1. u.high \in Nat /\ u.high < Base /\ u.low \in Nat /\ u.low < Base
  BY Widths DEF U128, Limb
<1>2. \A h, l, b \in Nat : h < b /\ l < b => h * b + l \in Nat /\ h * b + l < b * b
  <2> TAKE h, l, b \in Nat
  <2> HAVE h < b /\ l < b
  <2>1. h * b =< (b - 1) * b /\ h * b \in Nat OBVIOUS
  <2>2. (b - 1) * b = b * b - b OBVIOUS
  <2> QED BY <2>1, <2>2
<1> QED BY <1>1, <1>2, Widths DEF Val

\* make_uint128 builds the number of its limbs.
LEMMA MakeLimbs ==
  ASSUME NEW h \in Nat, NEW l \in Nat, h < Base, l < Base
  PROVE  /\ make_uint128(h, l) \in U128
         /\ make_uint128(h, l).high = h /\ make_uint128(h, l).low = l
         /\ Val(make_uint128(h, l)) = h * Base + l
BY Widths DEF make_uint128, U128, Limb, Val

\* The constants of the code.
LEMMA ZeroAndOne == Zero \in U128 /\ One \in U128 /\ Val(Zero) = 0 /\ Val(One) = 1
<1>1. 0 * Base + 0 = 0 /\ 0 * Base + 1 = 1 /\ 0 < Base /\ 1 < Base BY Widths
<1> QED BY <1>1, MakeLimbs, Widths DEF Zero, One

\* A wrapped number is a limb.
LEMMA WrapIn == \A n \in Int : Wrap(n) \in Nat /\ Wrap(n) < Base
BY Widths DEF Wrap

\* The bits of the and of limbs ...
LEMMA AndOfLimbs ==
  ASSUME NEW a \in Nat, NEW b \in Nat
  PROVE  /\ And(a, b) \in Limb
         /\ \A k \in 0..(LimbBits - 1) :
              Bit(And(a, b), k) = Bit(a, k) * Bit(b, k)
<1> DEFINE f == [k \in Nat |-> Bit(a, k) * Bit(b, k)]
           g == [k \in 1..LimbBits |-> Bit(a, k - 1) * Bit(b, k - 1) * Pow2[k - 1]]
<1>1. f \in [Nat -> {0, 1}]
  <2>1. \A x, y \in {0, 1} : x * y \in {0, 1} OBVIOUS
  <2> QED BY <2>1, BitIs
<1>2. LimbBits \in Nat /\ Limb = 0..(Pow2[LimbBits] - 1) BY Widths DEF Limb, Base
<1>3. \A k \in 1..LimbBits : g[k] = f[k - 1] * Pow2[k - 1]
  <2>1. \A k \in 1..LimbBits : k - 1 \in Nat BY <1>2
  <2> QED BY <2>1
<1>4. \A k \in 0..(LimbBits - 1) : f[k] = Bit(a, k) * Bit(b, k) BY <1>2
<1>5. And(a, b) = Total(g, LimbBits) BY DEF And, LimbBitwise
<1> HIDE DEF f, g
<1>6. /\ Total(g, LimbBits) \in 0..(Pow2[LimbBits] - 1)
      /\ \A k \in 0..(LimbBits - 1) : Bit(Total(g, LimbBits), k) = f[k]
  BY <1>1, <1>2, <1>3, DigitsTotal
<1> QED BY <1>2, <1>4, <1>5, <1>6

\* ... of their or ...
LEMMA OrOfLimbs ==
  ASSUME NEW a \in Nat, NEW b \in Nat
  PROVE  /\ Or(a, b) \in Limb
         /\ \A k \in 0..(LimbBits - 1) :
              Bit(Or(a, b), k) = MaxOf(Bit(a, k), Bit(b, k))
<1> DEFINE f == [k \in Nat |-> MaxOf(Bit(a, k), Bit(b, k))]
           g == [k \in 1..LimbBits |-> MaxOf(Bit(a, k - 1), Bit(b, k - 1)) * Pow2[k - 1]]
<1>1. f \in [Nat -> {0, 1}]
  <2>1. \A x, y \in {0, 1} : MaxOf(x, y) \in {0, 1} BY DEF MaxOf
  <2> QED BY <2>1, BitIs
<1>2. LimbBits \in Nat /\ Limb = 0..(Pow2[LimbBits] - 1) BY Widths DEF Limb, Base
<1>3. \A k \in 1..LimbBits : g[k] = f[k - 1] * Pow2[k - 1]
  <2>1. \A k \in 1..LimbBits : k - 1 \in Nat BY <1>2
  <2> QED BY <2>1
<1>4. \A k \in 0..(LimbBits - 1) : f[k] = MaxOf(Bit(a, k), Bit(b, k)) BY <1>2
<1>5. Or(a, b) = Total(g, LimbBits) BY DEF Or, LimbBitwise
<1> HIDE DEF f, g
<1>6. /\ Total(g, LimbBits) \in 0..(Pow2[LimbBits] - 1)
      /\ \A k \in 0..(LimbBits - 1) : Bit(Total(g, LimbBits), k) = f[k]
  BY <1>1, <1>2, <1>3, DigitsTotal
<1> QED BY <1>2, <1>4, <1>5, <1>6

\* ... and of their exclusive or.
LEMMA ExclusiveOrOfLimbs ==
  ASSUME NEW a \in Nat, NEW b \in Nat
  PROVE  /\ ExclusiveOr(a, b) \in Limb
         /\ \A k \in 0..(LimbBits - 1) :
              Bit(ExclusiveOr(a, b), k) = (Bit(a, k) + Bit(b, k)) % 2
<1> DEFINE f == [k \in Nat |-> (Bit(a, k) + Bit(b, k)) % 2]
           g == [k \in 1..LimbBits |-> ((Bit(a, k - 1) + Bit(b, k - 1)) % 2) * Pow2[k - 1]]
<1>1. f \in [Nat -> {0, 1}]
  <2>1. \A x, y \in {0, 1} : (x + y) % 2 \in {0, 1} OBVIOUS
  <2> QED BY <2>1, BitIs
<1>2. LimbBits \in Nat /\ Limb = 0..(Pow2[LimbBits] - 1) BY Widths DEF Limb, Base
<1>3. \A k \in 1..LimbBits : g[k] = f[k - 1] * Pow2[k - 1]
  <2>1. \A k \in 1..LimbBits : k - 1 \in Nat BY <1>2
  <2> QED BY <2>1
<1>4. \A k \in 0..(LimbBits - 1) : f[k] = (Bit(a, k) + Bit(b, k)) % 2 BY <1>2
<1>5. ExclusiveOr(a, b) = Total(g, LimbBits) BY DEF ExclusiveOr, LimbBitwise
<1> HIDE DEF f, g
<1>6. /\ Total(g, LimbBits) \in 0..(Pow2[LimbBits] - 1)
      /\ \A k \in 0..(LimbBits - 1) : Bit(Total(g, LimbBits), k) = f[k]
  BY <1>1, <1>2, <1>3, DigitsTotal
<1> QED BY <1>2, <1>4, <1>5, <1>6

\* An or sets no more than the sum of the limbs, and is the sum if the bits of one are
\* all below those of the other.
LEMMA OrAdds ==
  ASSUME NEW a \in Limb, NEW b \in Limb
  PROVE  /\ Or(a, b) =< a + b
         /\ \A m \in 0..LimbBits : \A q \in Nat :
              a < Pow2[m] /\ b = q * Pow2[m] => Or(a, b) = a + b
<1> DEFINE f == [k \in 1..LimbBits |-> MaxOf(Bit(a, k - 1), Bit(b, k - 1)) * Pow2[k - 1]]
           g == [k \in 1..LimbBits |-> Bit(a, k - 1) * Pow2[k - 1]]
           h == [k \in 1..LimbBits |-> Bit(b, k - 1) * Pow2[k - 1]]
<1>1. LimbBits \in Nat /\ a \in Nat /\ b \in Nat /\ a < Pow2[LimbBits] /\ b < Pow2[LimbBits]
      /\ Pow2[LimbBits] \in Nat \ {0}
  BY Widths, PowPositive DEF Limb, Base
<1>2. Total(g, LimbBits) = a /\ Total(h, LimbBits) = b
  <2>1. (\A k \in 1..LimbBits : g[k] = Bit(a, k - 1) * Pow2[k - 1])
        /\ (\A k \in 1..LimbBits : h[k] = Bit(b, k - 1) * Pow2[k - 1])
    OBVIOUS
  <2> HIDE DEF g, h
  <2>2. Total(g, LimbBits) = a % Pow2[LimbBits] BY <2>1, <1>1, BitsAddUp
  <2>3. Total(h, LimbBits) = b % Pow2[LimbBits] BY <2>1, <1>1, BitsAddUp
  <2>4. a % Pow2[LimbBits] = a /\ b % Pow2[LimbBits] = b BY <1>1, BelowDivisor
  <2> QED BY <2>2, <2>3, <2>4
<1>3. \A k \in 1..LimbBits :
        /\ f[k] \in Nat /\ g[k] \in Nat /\ h[k] \in Nat /\ f[k] =< g[k] + h[k]
        /\ Bit(a, k - 1) = 0 \/ Bit(b, k - 1) = 0 => f[k] = g[k] + h[k]
  <2> TAKE k \in 1..LimbBits
  <2> DEFINE x == Bit(a, k - 1)  y == Bit(b, k - 1)  P == Pow2[k - 1]
  <2>1. k - 1 \in Nat BY <1>1
  <2>2. x \in {0, 1} /\ y \in {0, 1} /\ P \in Nat BY <2>1, <1>1, BitIs, PowPositive
  <2>3. f[k] = MaxOf(x, y) * P /\ g[k] = x * P /\ h[k] = y * P OBVIOUS
  <2> HIDE DEF x, y, P, f, g, h
  <2>4. 0 * P = 0 /\ 1 * P = P BY <2>2
  <2>5. /\ MaxOf(0, 0) = 0 /\ MaxOf(0, 1) = 1 /\ MaxOf(1, 0) = 1 /\ MaxOf(1, 1) = 1
    BY DEF MaxOf
  <2>6. /\ f[k] \in Nat /\ g[k] \in Nat /\ h[k] \in Nat /\ f[k] =< g[k] + h[k]
        /\ x = 0 \/ y = 0 => f[k] = g[k] + h[k]
    BY <2>2, <2>3, <2>4, <2>5
  <2> QED BY <2>6 DEF x, y
<1>4. Or(a, b) = Total(f, LimbBits) BY DEF Or, LimbBitwise
<1>5. ASSUME NEW m \in 0..LimbBits, NEW q \in Nat, a < Pow2[m], b = q * Pow2[m]
      PROVE  \A k \in 1..LimbBits : f[k] = g[k] + h[k]
  <2> TAKE k \in 1..LimbBits
  <2>1. k - 1 \in Nat /\ m \in Nat BY <1>1
  <2>2. CASE k - 1 < m
    <3>1. k - 1 \in 0..(m - 1) BY <2>1, <2>2
    <3>2. ((q * Pow2[m] + 0) \div Pow2[k - 1]) % 2 = (0 \div Pow2[k - 1]) % 2
      BY <2>1, <3>1, BitsBelow
    <3>3. q * Pow2[m] + 0 = b BY <1>1, <1>5
    <3>4. 0 \div Pow2[k - 1] = 0
      <4>1. Pow2[k - 1] \in Nat \ {0} BY <2>1, PowPositive
      <4> QED BY <4>1, BelowDivisor
    <3>5. Bit(b, k - 1) = 0 BY <3>2, <3>3, <3>4 DEF Bit
    <3> HIDE DEF f, g, h
    <3> QED BY <3>5, <1>3
  <2>3. CASE k - 1 >= m
    <3>1. Pow2[m] =< Pow2[k - 1] /\ Pow2[k - 1] \in Nat \ {0} /\ Pow2[m] \in Nat
      BY <2>1, <2>3, PowMonotone, PowPositive
    <3>2. a < Pow2[k - 1] BY <3>1, <1>1, <1>5
    <3>3. a \div Pow2[k - 1] = 0 BY <3>1, <3>2, <1>1, BelowDivisor
    <3>4. Bit(a, k - 1) = 0 BY <3>3 DEF Bit
    <3> HIDE DEF f, g, h
    <3> QED BY <3>4, <1>3
  <2> QED BY <2>1, <2>2, <2>3
<1> HIDE DEF f, g, h
<1>6. /\ Total(f, LimbBits) =< Total(g, LimbBits) + Total(h, LimbBits)
      /\ (\A k \in 1..LimbBits : f[k] = g[k] + h[k]) =>
           Total(f, LimbBits) = Total(g, LimbBits) + Total(h, LimbBits)
  BY <1>1, <1>3, TotalsAdd
<1> QED BY <1>2, <1>4, <1>5, <1>6

\* The comparison operators compare the numbers (uint128.inl:1068-1100).
THEOREM ComparisonsCompare ==
  ASSUME NEW a \in U128, NEW b \in U128
  PROVE  /\ Less(a, b) <=> Val(a) < Val(b)
         /\ Greater(a, b) <=> Val(a) > Val(b)
         /\ Equal(a, b) <=> Val(a) = Val(b)
         /\ GreaterOrEqual(a, b) <=> Val(a) >= Val(b)
<1>1. \A h1, l1, h2, l2, B \in Nat :
        l1 < B /\ l2 < B /\ h1 < h2 => h1 * B + l1 < h2 * B + l2
  <2> TAKE h1, l1, h2, l2, B \in Nat
  <2> HAVE l1 < B /\ l2 < B /\ h1 < h2
  <2>1. (h1 + 1) * B =< h2 * B OBVIOUS
  <2>2. (h1 + 1) * B = h1 * B + B OBVIOUS
  <2>3. h1 * B \in Nat /\ h2 * B \in Nat OBVIOUS
  <2> QED BY <2>1, <2>2, <2>3
<1>2. /\ a.high < b.high => Val(a) < Val(b)
      /\ b.high < a.high => Val(b) < Val(a)
  BY <1>1, LimbsOf, Widths
<1>3. a.high = b.high => (/\ a.low < b.low <=> Val(a) < Val(b)
                          /\ a.low > b.low <=> Val(a) > Val(b)
                          /\ a.low = b.low <=> Val(a) = Val(b))
  <2>1. a.high * Base \in Nat BY LimbsOf, Widths
  <2> QED BY <2>1, LimbsOf
<1>4. a.high < b.high \/ b.high < a.high \/ a.high = b.high BY LimbsOf
<1> QED BY <1>2, <1>3, <1>4, LimbsOf DEF Less, Greater, Equal, GreaterOrEqual

\* "+" gives the sum, or the sum less 2^Bits: the carry of the low limbs reaches
\* the high ones on both paths (uint128.inl:1305-1345).
THEOREM PlusAdds ==
  ASSUME NEW a \in U128, NEW b \in U128
  PROVE  /\ Plus(a, b) \in U128
         /\ Val(Plus(a, b)) = Val(a) + Val(b)
              \/ Val(Plus(a, b)) = Val(a) + Val(b) - Base * Base
<1> USE DEF Wrap
<1>0. /\ a.high \in Nat /\ a.low \in Nat /\ b.high \in Nat /\ b.low \in Nat
      /\ a.high < Base /\ a.low < Base /\ b.high < Base /\ b.low < Base
  BY LimbsOf
<1> DEFINE l == IF a.low + b.low < Base THEN a.low + b.low ELSE (a.low + b.low) - Base
           c == IF a.low + b.low < Base THEN 0 ELSE 1
           s == a.high + b.high + c
           h == IF s < Base THEN s ELSE s - Base
<1>1. l \in Nat /\ l < Base /\ h \in Nat /\ h < Base
  BY <1>0, Widths
<1>2. \A n \in Nat : n < Base + Base => Wrap(n) = IF n < Base THEN n ELSE n - Base
  BY Widths
<1>3. \A n \in Nat : n < Base + Base => n \div Base = IF n < Base THEN 0 ELSE 1
  BY Widths
<1>4. Plus(a, b) = make_uint128(h, l)
  <2>1. CASE Intrinsics(CalculationMode)
    <3>1. 0 + a.low + b.low = a.low + b.low BY <1>0
    <3>2. s < Base + Base /\ a.low + b.low < Base + Base /\ s \in Nat /\ a.low + b.low \in Nat
      BY <1>0, Widths
    <3>3. a.low + b.low + 0 = a.low + b.low BY <1>0
    <3> QED BY <2>1, <3>2, <3>3, <1>2, <1>3, <1>0 DEF Plus, ADDCARRY64
  <2>2. CASE ~ Intrinsics(CalculationMode)
    <3>1. Wrap(a.low + b.low) = l
      <4>1. a.low + b.low \in Nat /\ a.low + b.low < Base + Base BY <1>0, Widths
      <4> HIDE DEF Wrap
      <4> QED BY <4>1, <1>2
    <3>2. l < a.low <=> c = 1 BY <1>0, Widths
    <3>3. c = 1 => Wrap(Wrap(a.high + b.high) + 1) = h
      <4>1. a.high + b.high < Base => Wrap(a.high + b.high) = a.high + b.high
        BY <1>0, <1>2, Widths
      <4>2. ~ (a.high + b.high < Base) => Wrap(a.high + b.high) = a.high + b.high - Base
        BY <1>0, <1>2, Widths
      <4> HIDE DEF Wrap
      <4>3. a.high + b.high < Base => Wrap(a.high + b.high + 1) = IF a.high + b.high + 1 < Base
                                        THEN a.high + b.high + 1 ELSE a.high + b.high + 1 - Base
        BY <1>0, <1>2, Widths
      <4>4. ~ (a.high + b.high < Base) =>
               Wrap((a.high + b.high - Base) + 1) = (a.high + b.high - Base) + 1
        BY <1>0, <1>2, Widths
      <4>5. a.high + b.high \in Nat BY <1>0
      <4> QED BY <4>1, <4>2, <4>3, <4>4, <4>5, <1>0, Widths
    <3>4. c = 0 => Wrap(a.high + b.high) = h
      <4>1. a.high + b.high \in Nat /\ a.high + b.high < Base + Base BY <1>0, Widths
      <4> HIDE DEF Wrap
      <4> QED BY <4>1, <1>2, <1>0, Widths
    <3>5. c = 0 \/ c = 1 OBVIOUS
    <3> HIDE DEF l, c, h, Wrap
    <3> QED BY <2>2, <3>1, <3>2, <3>3, <3>4, <3>5 DEF Plus
  <2> QED BY <2>1, <2>2
<1>5. Plus(a, b) \in U128 /\ Val(Plus(a, b)) = h * Base + l
  BY <1>1, <1>4, MakeLimbs
<1>6. h * Base + l = Val(a) + Val(b) \/ h * Base + l = Val(a) + Val(b) - Base * Base
  <2>1. /\ (a.high + b.high) * Base = a.high * Base + b.high * Base
        /\ (a.high + b.high + 1) * Base = a.high * Base + b.high * Base + Base
        /\ (a.high + b.high - Base) * Base = a.high * Base + b.high * Base - Base * Base
        /\ (a.high + b.high + 1 - Base) * Base = a.high * Base + b.high * Base + Base - Base * Base
    BY <1>0, Widths
  <2>2. a.high * Base \in Nat /\ b.high * Base \in Nat /\ Base * Base \in Nat
    BY <1>0, Widths
  <2>3. Val(a) = a.high * Base + a.low /\ Val(b) = b.high * Base + b.low BY LimbsOf
  <2>4. \/ h = a.high + b.high /\ l = a.low + b.low
        \/ h = a.high + b.high - Base /\ l = a.low + b.low
        \/ h = a.high + b.high + 1 /\ l = a.low + b.low - Base
        \/ h = a.high + b.high + 1 - Base /\ l = a.low + b.low - Base
    BY <1>0, Widths
  <2> HIDE DEF h, l
  <2>5. Base \in Nat BY Widths
  <2> QED BY <2>1, <2>2, <2>3, <2>4, <2>5, <1>0
<1> QED BY <1>5, <1>6

\* A number that differs from x by a multiple of m has the residue x.
LEMMA Residue ==
  ASSUME NEW x \in Nat, NEW y \in Int, NEW m \in Nat \ {0}, NEW k \in Int,
         x < m, y = k * m + x
  PROVE  y % m = x
<1>1. (k * m + x) % m = x
  OBVIOUS
<1> QED BY <1>1

\* "+" is addition modulo 2^Bits.
THEOREM PlusWraps ==
  ASSUME NEW a \in U128, NEW b \in U128
  PROVE  Val(Plus(a, b)) = (Val(a) + Val(b)) % (Base * Base)
<1> DEFINE M == Base * Base
<1>1. Val(Plus(a, b)) \in Nat /\ Val(Plus(a, b)) < M /\ Val(a) \in Nat /\ Val(b) \in Nat
  BY PlusAdds, LimbsOf
<1>2. M \in Nat \ {0} BY Widths
<1>3. Val(a) + Val(b) = 0 * M + Val(Plus(a, b)) \/ Val(a) + Val(b) = 1 * M + Val(Plus(a, b))
  BY PlusAdds, <1>1, <1>2
<1> HIDE DEF M
<1>4. (Val(a) + Val(b)) % M = Val(Plus(a, b))
  <2>1. Val(a) + Val(b) \in Int BY <1>1
  <2>2. 0 \in Int /\ 1 \in Int OBVIOUS
  <2>3. CASE Val(a) + Val(b) = 0 * M + Val(Plus(a, b))
    BY <1>1, <1>2, <2>1, <2>2, <2>3, Residue, Zenon
  <2>4. CASE Val(a) + Val(b) = 1 * M + Val(Plus(a, b))
    BY <1>1, <1>2, <2>1, <2>2, <2>4, Residue, Zenon
  <2> QED BY <1>3, <2>3, <2>4
<1> QED BY <1>4 DEF M

\* "-" gives the difference, or the difference plus 2^Bits: the borrow of the low
\* limbs reaches the high ones on both paths (uint128.inl:1347-1385).
THEOREM MinusSubtracts ==
  ASSUME NEW a \in U128, NEW b \in U128
  PROVE  /\ Minus(a, b) \in U128
         /\ Val(Minus(a, b)) = Val(a) - Val(b)
              \/ Val(Minus(a, b)) = Val(a) - Val(b) + Base * Base
<1>0. /\ a.high \in Nat /\ a.low \in Nat /\ b.high \in Nat /\ b.low \in Nat
      /\ a.high < Base /\ a.low < Base /\ b.high < Base /\ b.low < Base
      /\ Base \in Nat /\ Base >= 4
  BY LimbsOf, Widths
<1> DEFINE c == IF a.low < b.low THEN 1 ELSE 0
           l == IF a.low < b.low THEN (a.low - b.low) + Base ELSE a.low - b.low
           s == a.high - b.high - c
           h == IF s < 0 THEN s + Base ELSE s
<1>1. l \in Nat /\ l < Base /\ h \in Nat /\ h < Base
  BY <1>0
<1>2. \A n \in Int : n < Base /\ n >= - Base => Wrap(n) = IF n < 0 THEN n + Base ELSE n
  BY <1>0 DEF Wrap
<1>3. Minus(a, b) = make_uint128(h, l)
  <2>1. Wrap(a.low - b.low) = l /\ Wrap(a.low - b.low - 0) = l BY <1>0, <1>2
  <2>2. s >= - Base /\ s < Base /\ s \in Int BY <1>0
  <2>3. Wrap(s) = h BY <2>2, <1>2
  <2>4. CASE Intrinsics(CalculationMode)
    <3>1. SUBBORROW_64(0, a.low, b.low).borrow = c BY <1>0 DEF SUBBORROW_64
    <3>2. SUBBORROW_64(0, a.low, b.low).difference = l BY <2>1 DEF SUBBORROW_64
    <3>3. SUBBORROW_64(c, a.high, b.high).difference = h BY <2>3 DEF SUBBORROW_64
    <3> HIDE DEF c, l, h
    <3> QED BY <2>4, <3>1, <3>2, <3>3 DEF Minus
  <2>5. CASE ~ Intrinsics(CalculationMode)
    <3>1. Wrap(a.high - b.high) = IF a.high - b.high < 0 THEN a.high - b.high + Base
                                  ELSE a.high - b.high
      BY <1>0, <1>2
    <3>2. c = 1 => Wrap(Wrap(a.high - b.high) - 1) = h
      <4>1. CASE a.high - b.high < 0
        BY <4>1, <3>1, <1>0, <1>2
      <4>2. CASE ~ (a.high - b.high < 0)
        BY <4>2, <3>1, <1>0, <1>2
      <4> QED BY <4>1, <4>2
    <3>3. c = 0 => Wrap(a.high - b.high) = h
      BY <3>1, <1>0
    <3>4. a.low < b.low <=> c = 1 OBVIOUS
    <3>5. c = 0 \/ c = 1 OBVIOUS
    <3> HIDE DEF c, h, l
    <3> QED BY <2>1, <2>5, <3>2, <3>3, <3>4, <3>5 DEF Minus
  <2> QED BY <2>4, <2>5
<1>4. Minus(a, b) \in U128 /\ Val(Minus(a, b)) = h * Base + l
  BY <1>1, <1>3, MakeLimbs
<1>5. h * Base + l = Val(a) - Val(b) \/ h * Base + l = Val(a) - Val(b) + Base * Base
  <2>1. /\ (a.high - b.high) * Base = a.high * Base - b.high * Base
        /\ (a.high - b.high - 1) * Base = a.high * Base - b.high * Base - Base
        /\ (a.high - b.high + Base) * Base = a.high * Base - b.high * Base + Base * Base
        /\ (a.high - b.high - 1 + Base) * Base = a.high * Base - b.high * Base - Base + Base * Base
    BY <1>0
  <2>2. a.high * Base \in Nat /\ b.high * Base \in Nat /\ Base * Base \in Nat
    BY <1>0
  <2>3. Val(a) = a.high * Base + a.low /\ Val(b) = b.high * Base + b.low BY LimbsOf
  <2>4. \/ h = a.high - b.high /\ l = a.low - b.low
        \/ h = a.high - b.high + Base /\ l = a.low - b.low
        \/ h = a.high - b.high - 1 /\ l = a.low - b.low + Base
        \/ h = a.high - b.high - 1 + Base /\ l = a.low - b.low + Base
    BY <1>0
  <2> HIDE DEF h, l
  <2> QED BY <2>1, <2>2, <2>3, <2>4, <1>0
<1> QED BY <1>4, <1>5

\* Without a borrow "-" is exact.
COROLLARY MinusExact ==
  ASSUME NEW a \in U128, NEW b \in U128, Val(b) =< Val(a)
  PROVE  Minus(a, b) \in U128 /\ Val(Minus(a, b)) = Val(a) - Val(b)
<1>1. Val(a) \in Nat /\ Val(b) \in Nat /\ Base * Base \in Nat BY LimbsOf, Widths
<1>2. Minus(a, b) \in U128 /\ Val(Minus(a, b)) < Base * Base
  BY MinusSubtracts, LimbsOf
<1> QED BY <1>1, <1>2, MinusSubtracts

\* A pair of limbs divided by P, where P * Q = B: the quotient's limbs.
RightParts(P, Q, B, h, l) ==
  /\ (h * B + l) \div P = (h \div P) * B + ((h % P) * Q + (l \div P))
  /\ (h * Q) % B = (h % P) * Q
  /\ (h % P) * Q + (l \div P) \in Nat /\ (h % P) * Q + (l \div P) < B
  /\ h \div P \in Nat /\ h \div P < B

\* The limbs of a number divided by a power of two below the limb.
LEMMA RightShiftNumbers ==
  ASSUME NEW P \in Nat \ {0}, NEW Q \in Nat \ {0}, NEW B \in Nat \ {0},
         P * Q = B,
         NEW h \in Nat, NEW l \in Nat, h < B, l < B
  PROVE  RightParts(P, Q, B, h, l)
<1> DEFINE q == h \div P  r == h % P  q2 == l \div P  r2 == l % P
<1>1. q \in Nat /\ r \in Nat /\ r < P /\ h = q * P + r
  BY DivisionParts
<1>2. q2 \in Nat /\ r2 \in Nat /\ r2 < P /\ l = q2 * P + r2
  BY DivisionParts
<1> HIDE DEF q, r, q2, r2
<1>3. q2 < Q
  <2>1. SUFFICES ASSUME q2 >= Q PROVE FALSE BY <1>2
  <2>2. q2 * P >= Q * P BY <2>1, <1>2
  <2>3. Q * P = B OBVIOUS
  <2>4. q2 * P \in Nat BY <1>2
  <2> QED BY <2>2, <2>3, <2>4, <1>2
<1>4. r * Q =< (P - 1) * Q /\ (P - 1) * Q = B - Q /\ r * Q \in Nat
  BY <1>1
<1>5. r * Q + q2 \in Nat /\ r * Q + q2 < B
  BY <1>2, <1>3, <1>4
<1>6. (h * Q) % B = r * Q
  <2>1. h * Q = q * B + r * Q
    <3>1. (q * P + r) * Q = q * (P * Q) + r * Q BY <1>1
    <3> QED BY <3>1, <1>1
  <2>2. r * Q < B
    <3> DEFINE rq == r * Q
    <3>1. rq \in Nat /\ rq + q2 < B /\ q2 \in Nat BY <1>2, <1>4, <1>5
    <3> HIDE DEF rq
    <3>2. rq < B BY <3>1
    <3> QED BY <3>2 DEF rq
  <2>3. B # 0 OBVIOUS
  <2> QED BY <1>1, <1>4, <2>1, <2>2, <2>3, DivisionUnique
<1>7. (h * B + l) \div P = q * B + (r * Q + q2)
  <2>1. h * B = q * P * B + r * (P * Q)
    <3>1. (q * P + r) * B = q * P * B + r * B BY <1>1
    <3> QED BY <3>1, <1>1
  <2>2. (q * B + (r * Q + q2)) * P = q * P * B + r * (P * Q) + q2 * P
    BY <1>1, <1>2
  <2>3. h * B + l = (q * B + (r * Q + q2)) * P + r2
    <3>1. q * P * B \in Nat /\ r * (P * Q) \in Nat /\ q2 * P \in Nat BY <1>1, <1>2
    <3> QED BY <2>1, <2>2, <3>1, <1>2
  <2>4. q * B + (r * Q + q2) \in Nat BY <1>1, <1>5
  <2>5. r2 \in Nat BY <1>2
  <2>6. r2 < P BY <1>2
  <2>7. ((q * B + (r * Q + q2)) * P + r2) \div P = q * B + (r * Q + q2)
    BY <2>4, <2>5, <2>6, DivisionUnique, Zenon
  <2> QED BY <2>3, <2>7, Zenon
<1>8. q < B
  <2>1. q =< q * P /\ q * P \in Nat BY <1>1
  <2> QED BY <2>1, <1>1
<1> QED BY <1>1, <1>5, <1>6, <1>7, <1>8 DEF q, r, q2, RightParts

\* A power of two below the limb divides it.
LEMMA SplitPower ==
  ASSUME NEW n \in 0..LimbBits
  PROVE  /\ Pow2[n] \in Nat \ {0} /\ Pow2[LimbBits - n] \in Nat \ {0}
         /\ Pow2[n] * Pow2[LimbBits - n] = Base
<1>1. n \in Nat /\ LimbBits - n \in Nat /\ n + (LimbBits - n) = LimbBits BY Widths
<1> QED BY <1>1, PowPositive, PowSum DEF Base

\* A power of two from the limb on is a multiple of it.
LEMMA HighPower ==
  ASSUME NEW n \in Nat, n >= LimbBits
  PROVE  /\ Pow2[n - LimbBits] \in Nat \ {0}
         /\ Pow2[n] = Base * Pow2[n - LimbBits]
<1>1. LimbBits \in Nat /\ n - LimbBits \in Nat /\ LimbBits + (n - LimbBits) = n
  BY Widths
<1> QED BY <1>1, PowPositive, PowSum DEF Base

\* The or of two numbers is at most their sum, and is their sum if the bits of one are all
\* below those of the other (uint128.inl:1157-1161).
THEOREM BitOrAdds ==
  ASSUME NEW a \in U128, NEW b \in U128
  PROVE  /\ BitOr(a, b) \in U128
         /\ Val(BitOr(a, b)) =< Val(a) + Val(b)
         /\ \A m \in 0..Bits : \A q \in Nat :
              Val(a) < Pow2[m] /\ Val(b) = q * Pow2[m] => Val(BitOr(a, b)) = Val(a) + Val(b)
<1> DEFINE h == Or(a.high, b.high)  l == Or(a.low, b.low)
<1>1. /\ a.high \in Limb /\ a.low \in Limb /\ b.high \in Limb /\ b.low \in Limb
      /\ LimbBits \in Nat /\ Base \in Nat \ {0} /\ Bits = LimbBits + LimbBits
  BY Widths DEF U128
<1>2. /\ a.high \in Nat /\ a.low \in Nat /\ a.low < Base
      /\ b.high \in Nat /\ b.low \in Nat /\ b.low < Base
      /\ Val(a) = a.high * Base + a.low /\ Val(b) = b.high * Base + b.low
      /\ Val(a) \in Nat /\ Val(b) \in Nat
  BY LimbsOf
<1>3. h \in Nat /\ h < Base /\ l \in Nat /\ l < Base
  <2>1. h \in Limb /\ l \in Limb BY <1>2, OrOfLimbs
  <2> HIDE DEF h, l
  <2> QED BY <2>1, <1>1 DEF Limb
<1>4. h =< a.high + b.high /\ l =< a.low + b.low BY <1>1, OrAdds
<1>5. BitOr(a, b) \in U128 /\ Val(BitOr(a, b)) = h * Base + l
  <2>1. BitOr(a, b) = make_uint128(h, l) BY DEF BitOr
  <2> HIDE DEF h, l
  <2> QED BY <1>3, <2>1, MakeLimbs
<1>6. Val(BitOr(a, b)) =< Val(a) + Val(b)
  <2> DEFINE ah == a.high  bh == b.high
  <2> HIDE DEF h, l, ah, bh
  <2>1. \A i, j, m \in Nat : i =< j => i * m =< j * m OBVIOUS
  <2>2. h * Base =< (ah + bh) * Base BY <2>1, <1>1, <1>2, <1>3, <1>4 DEF ah, bh
  <2>3. (ah + bh) * Base = ah * Base + bh * Base /\ ah * Base \in Nat /\ bh * Base \in Nat
        /\ h * Base \in Nat
    BY <1>1, <1>2, <1>3 DEF ah, bh
  <2> QED BY <2>2, <2>3, <1>2, <1>3, <1>4, <1>5 DEF ah, bh
<1>7. ASSUME NEW m \in 0..Bits, NEW q \in Nat, Val(a) < Pow2[m], Val(b) = q * Pow2[m]
      PROVE  h = a.high + b.high /\ l = a.low + b.low
  <2>1. m \in Nat BY <1>1
  <2>2. CASE m =< LimbBits
    <3> DEFINE P == Pow2[m]  Q == Pow2[LimbBits - m]
    <3>1. P \in Nat \ {0} /\ Q \in Nat \ {0} /\ P * Q = Base
      <4>1. m \in 0..LimbBits BY <2>1, <2>2
      <4> QED BY <4>1, SplitPower
    <3> HIDE DEF P, Q
    <3>2. P =< Base
      <4>1. \A x, y \in Nat \ {0} : x =< x * y OBVIOUS
      <4> QED BY <4>1, <3>1
    <3>3. a.high = 0 /\ a.low < P
      <4>1. \A i, j, w \in Nat : w # 0 /\ i * w + j < w => i = 0
        <5> TAKE i, j, w \in Nat
        <5> HAVE w # 0 /\ i * w + j < w
        <5>1. i # 0 => i * w >= w OBVIOUS
        <5> QED BY <5>1
      <4>2. a.high * Base + a.low < Base BY <1>2, <1>7, <3>1, <3>2 DEF P
      <4>3. a.high = 0 BY <4>1, <4>2, <1>1, <1>2
      <4>4. 0 * Base + a.low = a.low BY <1>1, <1>2
      <4> QED BY <4>3, <4>4, <1>2, <1>7 DEF P
    <3>4. \E w \in Nat : b.low = w * P
      <4> DEFINE x == b.high * Q  bl == b.low  bh == b.high
      <4>1. x \in Nat /\ bl \in Nat /\ bh \in Nat BY <1>2, <3>1
      <4>2. q * P = x * P + bl
        <5>1. bh * (P * Q) = (bh * Q) * P BY <4>1, <3>1
        <5> QED BY <5>1, <3>1, <1>2, <1>7 DEF P
      <4> HIDE DEF x, bl, bh
      <4>3. x =< q
        <5>1. \A i, j, w \in Nat : j # 0 /\ w > i => w * j > i * j
          <6> TAKE i, j, w \in Nat
          <6> HAVE j # 0 /\ w > i
          <6>1. (i + 1) * j =< w * j /\ (i + 1) * j = i * j + j OBVIOUS
          <6>2. i * j \in Nat /\ w * j \in Nat OBVIOUS
          <6> QED BY <6>1, <6>2
        <5>2. x > q => x * P > q * P BY <5>1, <4>1, <3>1
        <5>3. x * P \in Nat /\ q * P \in Nat BY <4>1, <3>1
        <5> QED BY <5>2, <5>3, <4>1, <4>2
      <4>4. q - x \in Nat BY <4>1, <4>3
      <4>5. (q - x) * P = q * P - x * P /\ q * P \in Nat /\ x * P \in Nat BY <4>1, <3>1
      <4>6. bl = (q - x) * P BY <4>1, <4>2, <4>5
      <4> QED BY <4>4, <4>6 DEF bl
    <3>5. m \in 0..LimbBits BY <2>1, <2>2
    <3>6. l = a.low + b.low BY <3>3, <3>4, <3>5, <1>1, OrAdds DEF P
    <3>7. h = a.high + b.high
      <4>1. 0 \in 0..LimbBits /\ Pow2[0] = 1 BY <1>1, PowSteps
      <4>2. a.high < Pow2[0] BY <3>3, <4>1
      <4>3. b.high = b.high * Pow2[0] BY <1>2, <4>1
      <4> QED BY <4>1, <4>2, <4>3, <1>1, <1>2, OrAdds
    <3> QED BY <3>6, <3>7
  <2>3. CASE m > LimbBits
    <3> DEFINE P == Pow2[m - LimbBits]
    <3>1. P \in Nat \ {0} /\ Pow2[m] = Base * P BY <2>1, <2>3, <1>1, HighPower
    <3>2. m - LimbBits \in 0..LimbBits BY <1>1, <2>3
    <3> HIDE DEF P
    <3>3. a.high < P
      <4> DEFINE ah == a.high  al == a.low
      <4>1. ah * Base + al < P * Base BY <3>1, <1>1, <1>2, <1>7
      <4>2. ah \in Nat /\ al \in Nat BY <1>2
      <4> HIDE DEF ah, al
      <4>3. \A i, j, w \in Nat : i >= j => i * w >= j * w OBVIOUS
      <4>4. ah >= P => ah * Base >= P * Base BY <4>2, <4>3, <3>1, <1>1
      <4>5. ah * Base \in Nat /\ P * Base \in Nat BY <4>2, <3>1, <1>1
      <4>6. ah < P BY <4>1, <4>2, <4>4, <4>5, <3>1
      <4> QED BY <4>6 DEF ah
    <3>4. b.low = 0 /\ b.high = q * P
      <4>1. b.high * Base + b.low = (q * P) * Base + 0
        <5>1. q * (Base * P) = (q * P) * Base /\ (q * P) * Base \in Nat BY <3>1, <1>1
        <5> QED BY <5>1, <3>1, <1>2, <1>7
      <4> DEFINE w == q * P  x == b.high  y == b.low
      <4>2. w \in Nat /\ x \in Nat /\ y \in Nat /\ y < Base /\ x * Base + y = w * Base + 0
        BY <3>1, <1>2, <4>1
      <4> HIDE DEF w, x, y
      <4>3. (x * Base + y) \div Base = x /\ (x * Base + y) % Base = y
        BY <4>2, <1>1, DivisionUnique
      <4>4. (w * Base + 0) \div Base = w /\ (w * Base + 0) % Base = 0
        BY <4>2, <1>1, DivisionUnique
      <4>5. x = w /\ y = 0 BY <4>2, <4>3, <4>4
      <4> QED BY <4>5 DEF w, x, y
    <3>5. h = a.high + b.high BY <3>2, <3>3, <3>4, <1>1, OrAdds DEF P
    <3>6. l = a.low + b.low
      <4>1. LimbBits \in 0..LimbBits /\ a.low < Pow2[LimbBits] BY <1>1, <1>2 DEF Base
      <4>2. b.low = 0 * Pow2[LimbBits]
        <5>1. Pow2[LimbBits] \in Nat BY <1>1, PowPositive
        <5> QED BY <5>1, <3>4
      <4> QED BY <4>1, <4>2, <1>1, OrAdds
    <3> QED BY <3>5, <3>6
  <2> QED BY <1>1, <2>1, <2>2, <2>3
<1>8. ASSUME NEW m \in 0..Bits, NEW q \in Nat, Val(a) < Pow2[m], Val(b) = q * Pow2[m]
      PROVE  Val(BitOr(a, b)) = Val(a) + Val(b)
  <2>1. h = a.high + b.high /\ l = a.low + b.low BY <1>7, <1>8
  <2> DEFINE ah == a.high  bh == b.high
  <2>2. (ah + bh) * Base = ah * Base + bh * Base /\ ah * Base \in Nat /\ bh * Base \in Nat
    BY <1>1, <1>2
  <2> HIDE DEF h, l
  <2> QED BY <2>1, <2>2, <1>2, <1>5
<1> QED BY <1>5, <1>6, <1>8

\* RightShiftNumbers for the limbs of a uint128.
LEMMA RightShiftLimbs ==
  ASSUME NEW u \in U128, NEW P \in Nat \ {0}, NEW Q \in Nat \ {0}, P * Q = Base
  PROVE  /\ Val(u) \div P = (u.high \div P) * Base + ((u.high % P) * Q + (u.low \div P))
         /\ (u.high * Q) % Base = (u.high % P) * Q
         /\ (u.high % P) * Q + (u.low \div P) \in Nat
         /\ (u.high % P) * Q + (u.low \div P) < Base
         /\ u.high \div P \in Nat /\ u.high \div P < Base
<1>1. u.high \in Nat BY LimbsOf
<1>2. u.high < Base BY LimbsOf
<1>3. u.low \in Nat BY LimbsOf
<1>4. u.low < Base BY LimbsOf
<1>5. Base \in Nat \ {0} BY Widths
<1>6. Val(u) = u.high * Base + u.low BY LimbsOf
<1>7. RightParts(P, Q, Base, u.high, u.low)
  BY <1>1, <1>2, <1>3, <1>4, <1>5, RightShiftNumbers
<1> QED BY <1>6, <1>7, Zenon DEF RightParts

\* ">>" divides by the power of two, for every amount below the width and on every
\* path: the bits that leave the high limb arrive in the low one
\* (uint128.inl:1168-1225).
THEOREM ShiftRightDivides ==
  ASSUME NEW u \in U128, NEW n \in 0..(Bits - 1)
  PROVE  /\ ShiftRight(u, n) \in U128
         /\ Val(ShiftRight(u, n)) = Val(u) \div Pow2[n]
<1>0. /\ u.high \in Nat /\ u.high < Base /\ u.low \in Nat /\ u.low < Base
      /\ Val(u) = u.high * Base + u.low
      /\ n \in Nat /\ LimbBits \in Nat /\ Base \in Nat \ {0}
  BY LimbsOf, Widths
<1>1. CASE n >= LimbBits
  <2> DEFINE P == Pow2[n - LimbBits]  q == u.high \div P  r == u.high % P
  <2>1. P \in Nat \ {0} /\ Pow2[n] = Base * P BY <1>0, <1>1, HighPower
  <2>2. ShiftRight(u, n) = make_uint128(0, q)
    <3>1. ~ (n < LimbBits) /\ ~ (n \in 1..(LimbBits - 1)) /\ n # 0
      BY <1>0, <1>1, Widths
    <3>2. CASE Intrinsics(CalculationMode)
      BY <1>1, <3>2, Zenon DEF ShiftRight, rshift_msvc_x64, LimbShiftRight
    <3>3. CASE ~ Intrinsics(CalculationMode)
      BY <1>1, <3>1, <3>3, Zenon DEF ShiftRight, LimbShiftRight
    <3> QED BY <3>2, <3>3
  <2> HIDE DEF P
  <2>3. q \in Nat /\ r \in Nat /\ r < P /\ u.high = q * P + r
    BY <1>0, <2>1, DivisionParts, Zenon
  <2> HIDE DEF q, r
  <2>4. q < Base
    <3>1. q =< q * P /\ q * P \in Nat BY <2>1, <2>3
    <3> QED BY <3>1, <2>3, <1>0
  <2>5. Val(u) = q * (Base * P) + (r * Base + u.low)
    <3>1. (q * P + r) * Base = q * (Base * P) + r * Base BY <1>0, <2>1, <2>3
    <3>2. q * (Base * P) \in Nat /\ r * Base \in Nat BY <1>0, <2>1, <2>3
    <3> QED BY <3>1, <3>2, <1>0, <2>3
  <2>6. r * Base + u.low \in Nat /\ r * Base + u.low < Base * P
    <3>1. r * Base =< (P - 1) * Base BY <1>0, <2>1, <2>3
    <3>2. (P - 1) * Base = Base * P - Base /\ r * Base \in Nat /\ Base * P \in Nat
      BY <1>0, <2>1, <2>3
    <3> QED BY <3>1, <3>2, <1>0
  <2>7. Base * P \in Nat \ {0} BY <1>0, <2>1
  <2>8. Val(u) \div (Base * P) = q
    BY <2>3, <2>5, <2>6, <2>7, DivisionUnique
  <2>9. make_uint128(0, q) \in U128 /\ Val(make_uint128(0, q)) = 0 * Base + q
    BY <2>3, <2>4, <1>0, MakeLimbs
  <2>10. 0 * Base + q = q BY <2>3, <1>0
  <2> QED BY <2>1, <2>2, <2>8, <2>9, <2>10
<1>2. CASE n < LimbBits
  <2> DEFINE P == Pow2[n]  Q == Pow2[LimbBits - n]
             hi == u.high \div P  lo == (u.high % P) * Q + (u.low \div P)
  <2>1. P \in Nat \ {0} /\ Q \in Nat \ {0} /\ P * Q = Base
    BY <1>0, <1>2, SplitPower
  <2>2. ShiftRight(u, n) = make_uint128(hi, lo)
    <3>1. CASE Intrinsics(CalculationMode)
      <4>1. ShiftRight(u, n) = make_uint128(hi, Wrap((u.high * Base + u.low) \div P))
        BY <1>0, <1>2, <3>1 DEF ShiftRight, rshift_msvc_x64, RSHIFT128, LimbShiftRight
      <4> HIDE DEF P, Q
      <4>2. Wrap((u.high * Base + u.low) \div P) = lo
        <5>1. /\ Val(u) \div P = hi * Base + lo
              /\ lo \in Nat /\ lo < Base /\ hi \in Nat
          BY <2>1, RightShiftLimbs, Zenon
        <5> HIDE DEF hi, lo
        <5>2. (hi * Base + lo) % Base = lo BY <5>1, <1>0, DivisionUnique
        <5> QED BY <5>1, <5>2, <1>0, Zenon DEF Wrap
      <4> QED BY <4>1, <4>2
    <3>2. CASE ~ Intrinsics(CalculationMode) /\ n # 0
      <4>1. ShiftRight(u, n)
              = make_uint128(hi, (u.low \div P) + ((u.high * Q) % Base))
        BY <1>0, <1>2, <3>2 DEF ShiftRight, LimbShiftRight, LimbShiftLeft, Wrap
      <4> HIDE DEF P, Q
      <4>2. (u.high * Q) % Base = (u.high % P) * Q
        BY <2>1, RightShiftLimbs, Zenon
      <4>3. (u.high % P) * Q \in Nat /\ u.low \div P \in Nat
        <5>1. u.high % P \in Nat /\ u.low \div P \in Nat
          BY <1>0, <2>1, DivisionParts, Zenon
        <5> QED BY <5>1, <2>1
      <4> QED BY <4>1, <4>2, <4>3
    <3>3. CASE ~ Intrinsics(CalculationMode) /\ n = 0
      <4>1. ShiftRight(u, n) = u BY <1>0, <1>2, <3>3, Widths DEF ShiftRight
      <4>2. P = 1 BY <3>3, PowSteps
      <4>3. hi = u.high /\ u.high % P = 0 /\ u.low \div P = u.low BY <4>2, <1>0
      <4>4. lo = u.low BY <4>3, <2>1, <1>0
      <4>5. u = make_uint128(u.high, u.low) BY DEF U128, make_uint128
      <4> QED BY <4>1, <4>3, <4>4, <4>5
    <3> QED BY <3>1, <3>2, <3>3
  <2> HIDE DEF P, Q
  <2>3. /\ Val(u) \div P = hi * Base + lo /\ lo \in Nat /\ lo < Base
        /\ hi \in Nat /\ hi < Base
    BY <2>1, RightShiftLimbs, Zenon
  <2> HIDE DEF hi, lo
  <2> QED BY <2>2, <2>3, MakeLimbs DEF P
<1> QED BY <1>0, <1>1, <1>2

\* A pair of limbs multiplied by P, where P * Q = B: the product's limbs.
LeftParts(P, Q, B, h, l) ==
  /\ (l * P) % B = (l % Q) * P
  /\ (h * P) % B = (h % Q) * P
  /\ (l % Q) * P \in Nat /\ (l % Q) * P < B
  /\ (h % Q) * P + (l \div Q) \in Nat /\ (h % Q) * P + (l \div Q) < B
  /\ ((h * B + l) * P) \div B = (h \div Q) * B + ((h % Q) * P + (l \div Q))
  /\ (h * B + l) * P = (h \div Q) * (B * B) + (((h % Q) * P + (l \div Q)) * B + (l % Q) * P)
  /\ h \div Q \in Nat

\* The limbs of a number multiplied by a power of two below the limb.
LEMMA LeftShiftNumbers ==
  ASSUME NEW P \in Nat \ {0}, NEW Q \in Nat \ {0}, NEW B \in Nat \ {0},
         P * Q = B,
         NEW h \in Nat, NEW l \in Nat, h < B, l < B
  PROVE  LeftParts(P, Q, B, h, l)
<1> DEFINE q == l \div Q  r == l % Q  q3 == h \div Q  r3 == h % Q
<1>1. q \in Nat /\ r \in Nat /\ r < Q /\ l = q * Q + r
  BY DivisionParts
<1>2. q3 \in Nat /\ r3 \in Nat /\ r3 < Q /\ h = q3 * Q + r3
  BY DivisionParts
<1> HIDE DEF q, r, q3, r3
<1>3. q < P
  <2>1. SUFFICES ASSUME q >= P PROVE FALSE BY <1>1
  <2>2. q * Q >= P * Q BY <2>1, <1>1
  <2>3. q * Q \in Nat BY <1>1
  <2> QED BY <2>2, <2>3, <1>1
<1>4. (Q - 1) * P = B - P OBVIOUS
<1>5. r * P \in Nat /\ r * P =< (Q - 1) * P BY <1>1
<1>6. r3 * P \in Nat /\ r3 * P =< (Q - 1) * P BY <1>2
<1>7. r * P < B BY <1>4, <1>5
<1>8. r3 * P + q \in Nat /\ r3 * P + q < B BY <1>1, <1>3, <1>4, <1>6
<1>9. r3 * P < B BY <1>4, <1>6
<1>10. l * P = q * B + r * P
  <2>1. (q * Q + r) * P = q * (P * Q) + r * P BY <1>1
  <2> QED BY <2>1, <1>1
<1>11. h * P = q3 * B + r3 * P
  <2>1. (q3 * Q + r3) * P = q3 * (P * Q) + r3 * P BY <1>2
  <2> QED BY <2>1, <1>2
<1>12. (l * P) % B = r * P
  <2>1. (q * B + r * P) % B = r * P
    <3> DEFINE x == r * P
    <3>1. x \in Nat /\ x < B /\ q \in Nat BY <1>1, <1>5, <1>7
    <3> HIDE DEF x
    <3>2. (q * B + x) % B = x BY <3>1, DivisionUnique
    <3> QED BY <3>2 DEF x
  <2> QED BY <2>1, <1>10, Zenon
<1>13. (h * P) % B = r3 * P
  <2>1. (q3 * B + r3 * P) % B = r3 * P
    <3> DEFINE x == r3 * P
    <3>1. x \in Nat /\ x < B /\ q3 \in Nat BY <1>2, <1>6, <1>9
    <3> HIDE DEF x
    <3>2. (q3 * B + x) % B = x BY <3>1, DivisionUnique
    <3> QED BY <3>2 DEF x
  <2> QED BY <2>1, <1>11, Zenon
<1>14. (h * B + l) * P = (q3 * B + (r3 * P + q)) * B + r * P
  <2>1. (h * B + l) * P = (h * P) * B + l * P OBVIOUS
  <2>2. h * P \in Nat /\ l * P \in Nat /\ q * B \in Nat BY <1>1
  <2>3. (q3 * B + r3 * P) * B + q * B = (q3 * B + (r3 * P + q)) * B
    BY <1>1, <1>2, <1>6
  <2>4. (h * P) * B = (q3 * B + r3 * P) * B BY <1>11
  <2>5. (h * P) * B \in Nat BY <2>2
  <2> QED BY <2>1, <2>3, <2>4, <2>5, <1>10, <1>5, <1>1
<1>15. ((h * B + l) * P) \div B = q3 * B + (r3 * P + q)
  <2> DEFINE x == q3 * B + (r3 * P + q)  y == r * P
  <2>1. x \in Nat /\ y \in Nat /\ y < B BY <1>2, <1>5, <1>7, <1>8
  <2>2. (h * B + l) * P = x * B + y BY <1>14
  <2> HIDE DEF x, y
  <2>3. (x * B + y) \div B = x BY <2>1, DivisionUnique
  <2> QED BY <2>2, <2>3, Zenon DEF x
<1>16. (h * B + l) * P = q3 * (B * B) + ((r3 * P + q) * B + r * P)
  <2>1. (q3 * B + (r3 * P + q)) * B = q3 * (B * B) + (r3 * P + q) * B
    BY <1>2, <1>8
  <2>2. q3 * (B * B) \in Nat /\ (r3 * P + q) * B \in Nat BY <1>2, <1>8
  <2> QED BY <2>1, <2>2, <1>14, <1>5
<1> QED
  BY <1>2, <1>5, <1>7, <1>8, <1>12, <1>13, <1>15, <1>16 DEF q, r, q3, r3, LeftParts

\* "<<" multiplies by the power of two modulo 2^Bits, for every amount below the
\* width and on every path (uint128.inl:1226-1278).
THEOREM ShiftLeftMultiplies ==
  ASSUME NEW u \in U128, NEW n \in 0..(Bits - 1)
  PROVE  /\ ShiftLeft(u, n) \in U128
         /\ Val(ShiftLeft(u, n)) = (Val(u) * Pow2[n]) % (Base * Base)
<1>0. /\ u.high \in Nat /\ u.high < Base /\ u.low \in Nat /\ u.low < Base
      /\ Val(u) = u.high * Base + u.low
      /\ n \in Nat /\ LimbBits \in Nat /\ Base \in Nat \ {0}
  BY LimbsOf, Widths
<1> DEFINE M == Base * Base
<1>M. M \in Nat \ {0} BY <1>0
<1>1. CASE n >= LimbBits
  <2> DEFINE P == Pow2[n - LimbBits]  q == (u.low * P) \div Base  r == (u.low * P) % Base
  <2>1. P \in Nat \ {0} /\ Pow2[n] = Base * P BY <1>0, <1>1, HighPower
  <2>2. ShiftLeft(u, n) = make_uint128(r, 0)
    <3>1. ~ (n < LimbBits) /\ ~ (n \in 1..(LimbBits - 1)) /\ n # 0
      BY <1>0, <1>1, Widths
    <3>2. CASE Intrinsics(CalculationMode)
      BY <1>1, <3>2, Zenon DEF ShiftLeft, lshift_msvc_x64, LimbShiftLeft, Wrap
    <3>3. CASE ~ Intrinsics(CalculationMode)
      BY <1>1, <3>1, <3>3, Zenon DEF ShiftLeft, LimbShiftLeft, Wrap
    <3> QED BY <3>2, <3>3
  <2> HIDE DEF P
  <2>3. u.low * P \in Nat BY <1>0, <2>1
  <2>4. q \in Nat /\ r \in Nat /\ r < Base /\ u.low * P = q * Base + r
    BY <1>0, <2>3, DivisionParts, Zenon
  <2> HIDE DEF q, r
  <2>5. make_uint128(r, 0) \in U128 /\ Val(make_uint128(r, 0)) = r * Base
    <3>1. r * Base + 0 = r * Base /\ 0 < Base BY <1>0, <2>4
    <3> QED BY <3>1, <1>0, <2>4, MakeLimbs
  <2>6. Val(u) * Pow2[n] = (u.high * P + q) * M + r * Base
    <3>1. (u.high * Base + u.low) * (Base * P) = u.high * P * (Base * Base) + (u.low * P) * Base
      BY <1>0, <2>1
    <3>2. (u.low * P) * Base = q * (Base * Base) + r * Base
      <4>1. (q * Base + r) * Base = q * (Base * Base) + r * Base BY <1>0, <2>4
      <4> QED BY <4>1, <2>4
    <3>3. (u.high * P + q) * (Base * Base) = u.high * P * (Base * Base) + q * (Base * Base)
      BY <1>0, <2>1, <2>4
    <3>4. /\ u.high * P * (Base * Base) \in Nat /\ q * (Base * Base) \in Nat
          /\ r * Base \in Nat
      BY <1>0, <2>1, <2>4
    <3>5. Val(u) * Pow2[n] = (u.high * Base + u.low) * (Base * P)
      BY <1>0, <2>1, Zenon
    <3> QED BY <3>1, <3>2, <3>3, <3>4, <3>5
  <2>7. u.high * P + q \in Nat BY <1>0, <2>1, <2>4
  <2>8. r * Base \in Nat /\ r * Base < M
    <3>1. r * Base =< (Base - 1) * Base BY <1>0, <2>4
    <3>2. (Base - 1) * Base = M - Base /\ r * Base \in Nat BY <1>0, <2>4
    <3> QED BY <3>1, <3>2, <1>0, <1>M
  <2> DEFINE y == u.high * P + q  x == r * Base
  <2> HIDE DEF M, y, x
  <2>9. (y * M + x) % M = x
    BY <2>7, <2>8, <1>M, DivisionUnique DEF x, y
  <2> QED BY <2>2, <2>5, <2>6, <2>9, Zenon DEF x, y, M
<1>2. CASE n < LimbBits
  <2> DEFINE P == Pow2[n]  Q == Pow2[LimbBits - n]
             hi == (u.high % Q) * P + (u.low \div Q)  lo == (u.low % Q) * P
  <2>1. P \in Nat \ {0} /\ Q \in Nat \ {0} /\ P * Q = Base
    BY <1>0, <1>2, SplitPower
  <2>2. LeftParts(P, Q, Base, u.high, u.low)
    <3> HIDE DEF P, Q
    <3> QED BY <1>0, <2>1, LeftShiftNumbers
  <2>3. ShiftLeft(u, n) = make_uint128(hi, lo)
    <3>1. CASE Intrinsics(CalculationMode)
      <4>1. ShiftLeft(u, n) = make_uint128(Wrap(((u.high * Base + u.low) * P) \div Base),
                                           (u.low * P) % Base)
        BY <1>0, <1>2, <3>1 DEF ShiftLeft, lshift_msvc_x64, LSHIFT128, LimbShiftLeft, Wrap
      <4> HIDE DEF P, Q
      <4>2. Wrap(((u.high * Base + u.low) * P) \div Base) = hi
        <5> DEFINE z == u.high \div Q
        <5>1. ((u.high * Base + u.low) * P) \div Base = z * Base + hi
          BY <2>2, Zenon DEF LeftParts
        <5>2. hi \in Nat /\ hi < Base /\ z \in Nat
          BY <2>2, Zenon DEF LeftParts
        <5> HIDE DEF hi, z
        <5>3. (z * Base + hi) % Base = hi BY <5>2, <1>0, DivisionUnique
        <5> QED BY <5>1, <5>3, Zenon DEF Wrap
      <4>3. (u.low * P) % Base = lo BY <2>2, Zenon DEF LeftParts
      <4> QED BY <4>1, <4>2, <4>3, Zenon
    <3>2. CASE ~ Intrinsics(CalculationMode) /\ n # 0
      <4>1. ShiftLeft(u, n)
              = make_uint128(((u.high * P) % Base) + (u.low \div Q), (u.low * P) % Base)
        BY <1>0, <1>2, <3>2 DEF ShiftLeft, LimbShiftRight, LimbShiftLeft, Wrap
      <4> HIDE DEF P, Q
      <4> QED BY <2>2, <4>1, Zenon DEF LeftParts
    <3>3. CASE ~ Intrinsics(CalculationMode) /\ n = 0
      <4>1. ShiftLeft(u, n) = u BY <1>0, <1>2, <3>3, Widths DEF ShiftLeft
      <4>2. P = 1 BY <3>3, PowSteps
      <4>3. Q = Base BY <3>3, <1>0 DEF Base
      <4>4. u.high % Base = u.high /\ u.low % Base = u.low /\ u.low \div Base = 0
        BY <1>0, BelowDivisor, Zenon
      <4> HIDE DEF P, Q
      <4>5. hi = u.high /\ lo = u.low BY <4>2, <4>3, <4>4, <1>0
      <4>6. u = make_uint128(u.high, u.low) BY DEF U128, make_uint128
      <4> QED BY <4>1, <4>5, <4>6
    <3> QED BY <3>1, <3>2, <3>3
  <2>4. /\ hi \in Nat /\ hi < Base /\ lo \in Nat /\ lo < Base
        /\ u.high \div Q \in Nat
        /\ (u.high * Base + u.low) * P = (u.high \div Q) * M + (hi * Base + lo)
    BY <2>2, Zenon DEF LeftParts
  <2> DEFINE z == u.high \div Q  y == hi * Base + lo
  <2>5. make_uint128(hi, lo) \in U128 /\ Val(make_uint128(hi, lo)) = y
    <3> HIDE DEF hi, lo
    <3> QED BY <2>4, MakeLimbs
  <2>6. y \in Nat /\ y < M
    BY <2>5, LimbsOf
  <2> HIDE DEF y, z, M, hi, lo, P, Q
  <2>7. (z * M + y) % M = y
    BY <2>4, <2>6, <1>M, DivisionUnique DEF z
  <2> QED BY <1>0, <2>3, <2>4, <2>5, <2>7, Zenon DEF z, y, P, M
<1> QED BY <1>0, <1>1, <1>2

\* A shift that loses no bit multiplies exactly.
COROLLARY ShiftLeftExact ==
  ASSUME NEW u \in U128, NEW n \in 0..(Bits - 1), Val(u) * Pow2[n] < Base * Base
  PROVE  ShiftLeft(u, n) \in U128 /\ Val(ShiftLeft(u, n)) = Val(u) * Pow2[n]
<1>1. Val(u) \in Nat /\ Pow2[n] \in Nat /\ Base * Base \in Nat \ {0}
  BY LimbsOf, PowPositive, Widths
<1> DEFINE x == Val(u) * Pow2[n]  M == Base * Base
<1>2. x \in Nat BY <1>1
<1>3. x % M = x
  <2>1. M \in Nat \ {0} /\ x < M BY <1>1
  <2> HIDE DEF x, M
  <2> QED BY <1>2, <2>1
<1> QED BY <1>3, ShiftLeftMultiplies

\* Setting the low bit of an even number adds one.
LEMMA SetLowBitOfEven ==
  ASSUME NEW u \in U128, Val(u) % 2 = 0
  PROVE  SetLowBit(u) \in U128 /\ Val(SetLowBit(u)) = Val(u) + 1
<1>1. /\ u.high \in Nat /\ u.high < Base /\ u.low \in Nat /\ u.low < Base
      /\ Val(u) = u.high * Base + u.low
  BY LimbsOf
<1> DEFINE E == Pow2[LimbBits - 1]
<1>2. E \in Nat /\ Base = 2 * E /\ Base \in Nat
  <2>1. LimbBits - 1 \in Nat BY Widths
  <2> QED BY <2>1, PowPositive, Widths
<1> HIDE DEF E
<1>3. u.low % 2 = 0
  <2> DEFINE k == u.high * E
  <2>1. u.high * (2 * E) = 2 * k /\ k \in Nat BY <1>1, <1>2
  <2>2. Val(u) = 2 * k + u.low BY <1>1, <1>2, <2>1
  <2> HIDE DEF k
  <2>3. (2 * k + u.low) % 2 = u.low % 2 BY <1>1, <2>1
  <2> QED BY <2>2, <2>3
<1>4. u.low + 1 < Base
  <2>1. u.low # 2 * E - 1 BY <1>2, <1>3
  <2> QED BY <2>1, <1>1, <1>2
<1>5. SetLowBit(u) = make_uint128(u.high, u.low + 1)
  <2>1. (u.low + 1) - (u.low % 2) = u.low + 1 BY <1>1, <1>3
  <2> QED BY <2>1 DEF SetLowBit
<1>6. u.high * Base \in Nat BY <1>1, <1>2
<1> QED BY <1>1, <1>4, <1>5, <1>6, MakeLimbs

\* Both ways of scanning a limb find its leading bit.
LEMMA FlsOfLimb ==
  ASSUME NEW n \in Nat, n # 0, n < Base
  PROVE  /\ fls_int_part(n) \in 0..(LimbBits - 1)
         /\ Pow2[fls_int_part(n)] =< n /\ n < Pow2[fls_int_part(n) + 1]
<1>1. PICK p \in 0..(LimbBits - 1) : Pow2[p] =< n /\ n < Pow2[p + 1]
  BY Widths, PowBetween DEF Base
<1>2. CASE Intrinsics(CalculationMode)
  BY <1>1, <1>2 DEF fls_int_part, BITSCAN_REV_64
<1>3. CASE ~ Intrinsics(CalculationMode)
  <2> DEFINE z == countl_zero(n)
  <2>1. /\ LimbBits - 1 - p \in 0..(LimbBits - 1)
        /\ LimbBits - 1 - (LimbBits - 1 - p) = p /\ LimbBits - (LimbBits - 1 - p) = p + 1
    BY Widths
  <2>2. /\ z \in 0..(LimbBits - 1)
        /\ Pow2[LimbBits - 1 - z] =< n /\ n < Pow2[LimbBits - z]
    BY <1>1, <2>1 DEF countl_zero
  <2> HIDE DEF z
  <2>3. LimbBits - 1 - z \in 0..(LimbBits - 1) /\ (LimbBits - 1 - z) + 1 = LimbBits - z
    BY <2>2, Widths
  <2> QED BY <1>3, <2>2, <2>3 DEF fls_int_part, z
<1> QED BY <1>2, <1>3

\* fls finds the leading bit of every number that is not zero (uint128.inl:971-985).
THEOREM FlsFindsLeadingBit ==
  ASSUME NEW u \in U128, Val(u) # 0
  PROVE  /\ fls(u) \in 0..(Bits - 1)
         /\ Pow2[fls(u)] =< Val(u) /\ Val(u) < Pow2[fls(u) + 1]
<1>1. /\ u.high \in Nat /\ u.high < Base /\ u.low \in Nat /\ u.low < Base
      /\ Val(u) = u.high * Base + u.low
      /\ LimbBits \in Nat /\ Bits = LimbBits + LimbBits /\ Base \in Nat \ {0}
  BY LimbsOf, Widths
<1>2. CASE u.high # 0
  <2> DEFINE p == fls_int_part(u.high)
  <2>1. p \in 0..(LimbBits - 1) /\ Pow2[p] =< u.high /\ u.high < Pow2[p + 1]
    BY <1>1, <1>2, FlsOfLimb
  <2>2. fls(u) = p + LimbBits BY <1>2 DEF fls
  <2> HIDE DEF p
  <2>3. p \in Nat /\ Pow2[p] \in Nat /\ Pow2[p + 1] \in Nat
    BY <2>1, <1>1, PowPositive
  <2>4. Pow2[p + LimbBits] = Pow2[p] * Base /\ Pow2[(p + LimbBits) + 1] = Pow2[p + 1] * Base
    <3>1. (p + LimbBits) + 1 = (p + 1) + LimbBits /\ p + 1 \in Nat BY <2>3, <1>1
    <3> QED BY <3>1, <2>3, <1>1, PowSum DEF Base
  <2>5. Pow2[p] * Base =< Val(u)
    <3>1. \A x, y, b, l \in Nat : x =< y => x * b =< y * b + l
      <4> TAKE x, y, b, l \in Nat
      <4> HAVE x =< y
      <4>1. x * b =< y * b /\ x * b \in Nat /\ y * b \in Nat OBVIOUS
      <4> QED BY <4>1
    <3> QED BY <3>1, <1>1, <2>1, <2>3
  <2>6. Val(u) < Pow2[p + 1] * Base
    <3>1. \A x, y, b, l \in Nat : x < y /\ l < b => x * b + l < y * b
      <4> TAKE x, y, b, l \in Nat
      <4> HAVE x < y /\ l < b
      <4>1. (x + 1) * b =< y * b /\ (x + 1) * b = x * b + b OBVIOUS
      <4>2. x * b \in Nat /\ y * b \in Nat OBVIOUS
      <4> QED BY <4>1, <4>2
    <3> QED BY <3>1, <1>1, <2>1, <2>3
  <2> QED BY <1>1, <2>1, <2>2, <2>4, <2>5, <2>6
<1>3. CASE u.high = 0
  <2>1. Val(u) = u.low
    <3>1. 0 * Base = 0 BY <1>1
    <3> QED BY <3>1, <1>1, <1>3
  <2>2. fls(u) = fls_int_part(u.low) BY <1>3 DEF fls
  <2> QED BY <2>1, <2>2, <1>1, FlsOfLimb
<1> QED BY <1>2, <1>3

LoopStates == [dividend : U128, quotient : U128, denominator : U128]

\* One iteration on numbers: the quotient doubles, takes the new bit exactly when
\* the denominator is subtracted, and the denominator halves.
LEMMA LoopBodyStep ==
  ASSUME NEW s \in LoopStates, 2 * Val(s.quotient) < Base * Base
  PROVE  /\ LoopBody(s) \in LoopStates
         /\ Val(s.dividend) >= Val(s.denominator) =>
              /\ Val(LoopBody(s).dividend) = Val(s.dividend) - Val(s.denominator)
              /\ Val(LoopBody(s).quotient) = 2 * Val(s.quotient) + 1
         /\ Val(s.dividend) < Val(s.denominator) =>
              /\ LoopBody(s).dividend = s.dividend
              /\ Val(LoopBody(s).quotient) = 2 * Val(s.quotient)
         /\ Val(LoopBody(s).denominator) = Val(s.denominator) \div 2
<1>1. s.dividend \in U128 /\ s.quotient \in U128 /\ s.denominator \in U128
  BY DEF LoopStates
<1>2. Pow2[1] = 2 /\ 1 \in 0..(Bits - 1)
  <2>1. 0 + 1 = 1 /\ 2 * 1 = 2 OBVIOUS
  <2> QED BY <2>1, PowSteps, Widths
<1> DEFINE doubled == ShiftLeft(s.quotient, 1)
<1>3. doubled \in U128 /\ Val(doubled) = 2 * Val(s.quotient)
  <2>1. Val(s.quotient) \in Nat BY <1>1, LimbsOf
  <2>2. Val(s.quotient) * Pow2[1] = 2 * Val(s.quotient) BY <1>2, <2>1
  <2> QED BY <1>1, <1>2, <2>2, ShiftLeftExact
<1>4. SetLowBit(doubled) \in U128 /\ Val(SetLowBit(doubled)) = 2 * Val(s.quotient) + 1
  <2>1. Val(s.quotient) \in Nat BY <1>1, LimbsOf
  <2>2. Val(doubled) % 2 = 0 BY <1>3, <2>1
  <2> HIDE DEF doubled
  <2> QED BY <1>3, <2>2, SetLowBitOfEven
<1>5. /\ ShiftRight(s.denominator, 1) \in U128
      /\ Val(ShiftRight(s.denominator, 1)) = Val(s.denominator) \div 2
  BY <1>1, <1>2, ShiftRightDivides
<1>6. GreaterOrEqual(s.dividend, s.denominator) <=> Val(s.dividend) >= Val(s.denominator)
  BY <1>1, ComparisonsCompare
<1>7. GreaterOrEqual(s.dividend, s.denominator) =>
        /\ Minus(s.dividend, s.denominator) \in U128
        /\ Val(Minus(s.dividend, s.denominator)) = Val(s.dividend) - Val(s.denominator)
  <2>1. Val(s.dividend) \in Nat /\ Val(s.denominator) \in Nat BY <1>1, LimbsOf
  <2> QED BY <1>1, <1>6, <2>1, MinusExact
<1> DEFINE t == GreaterOrEqual(s.dividend, s.denominator)
<1>8. LoopBody(s) = [dividend    |-> IF t THEN Minus(s.dividend, s.denominator) ELSE s.dividend,
                     quotient    |-> IF t THEN SetLowBit(doubled) ELSE doubled,
                     denominator |-> ShiftRight(s.denominator, 1)]
  BY DEF LoopBody
<1>9. Val(s.dividend) \in Nat /\ Val(s.denominator) \in Nat BY <1>1, LimbsOf
<1> HIDE DEF doubled, t
<1>10. t <=> Val(s.dividend) >= Val(s.denominator) BY <1>6 DEF t
<1>11. CASE t
  BY <1>11, <1>1, <1>4, <1>5, <1>7, <1>8, <1>9, <1>10 DEF t, LoopStates
<1>12. CASE ~ t
  BY <1>12, <1>1, <1>3, <1>5, <1>8, <1>9, <1>10 DEF LoopStates
<1> QED BY <1>11, <1>12

\* The division by one limb is exact: the first division leaves a remainder that
\* makes the second quotient fit in a limb, which the division instruction demands
\* (uint128.inl:2770-2789).
THEOREM ShortDivisionDivides ==
  ASSUME NEW u \in U128, NEW d \in Nat \ {0}, d < Base
  PROVE  LET r == DivideByLimb(u, d)
         IN  /\ r.quotient \in U128 /\ r.remainder \in U128
             /\ Val(r.quotient) = Val(u) \div d /\ Val(r.remainder) = Val(u) % d
<1>1. /\ u.high \in Nat /\ u.high < Base /\ u.low \in Nat /\ u.low < Base
      /\ Val(u) = u.high * Base + u.low /\ Base \in Nat \ {0}
  BY LimbsOf, Widths
<1> DEFINE q1 == u.high \div d  r1 == u.high % d
           n2 == r1 * Base + u.low  q2 == n2 \div d  r2 == n2 % d
<1>2. q1 \in Nat /\ r1 \in Nat /\ r1 < d /\ u.high = q1 * d + r1
  BY <1>1, DivisionParts, Zenon
<1>3. DivideByLimb(u, d) = DivResult(make_uint128(q1, q2), make_uint128(0, r2))
  <2>1. CASE u.high < d
    <3>1. q1 = 0 /\ r1 = u.high
      <4>1. 0 * d + u.high = u.high BY <1>1
      <4>2. 0 \in Nat OBVIOUS
      <4>3. (0 * d + u.high) \div d = 0 /\ (0 * d + u.high) % d = u.high
        BY <1>1, <2>1, <4>2, DivisionUnique
      <4> QED BY <4>1, <4>3
    <3> HIDE DEF q1, r1
    <3> QED BY <2>1, <3>1 DEF DivideByLimb, DivResult, UDIV128
  <2>2. CASE ~ (u.high < d)
    BY <2>2 DEF DivideByLimb, DivResult, UDIV128
  <2> QED BY <2>1, <2>2
<1> HIDE DEF q1, r1
<1>4. n2 \in Nat
  <2>1. r1 * Base \in Nat BY <1>1, <1>2
  <2> QED BY <2>1, <1>1
<1>5. q2 \in Nat /\ r2 \in Nat /\ r2 < d /\ n2 = q2 * d + r2
  <2> HIDE DEF n2
  <2> QED BY <1>4, DivisionParts, Zenon
<1>6. n2 < d * Base
  <2>1. r1 * Base =< (d - 1) * Base BY <1>1, <1>2
  <2>2. (d - 1) * Base = d * Base - Base /\ r1 * Base \in Nat /\ d * Base \in Nat
    BY <1>1, <1>2
  <2> QED BY <2>1, <2>2, <1>1
<1> HIDE DEF n2, q2, r2
<1>7. q2 < Base
  <2>1. SUFFICES ASSUME q2 >= Base PROVE FALSE BY <1>1, <1>5
  <2>2. q2 * d >= Base * d BY <2>1, <1>1, <1>5
  <2> DEFINE x == q2 * d  y == d * Base
  <2>3. x \in Nat /\ y \in Nat /\ x >= y
    <3>1. Base * d = d * Base BY <1>1
    <3> QED BY <2>2, <3>1, <1>1, <1>5
  <2>4. n2 = x + r2 /\ n2 < y BY <1>5, <1>6
  <2> HIDE DEF x, y
  <2> QED BY <2>3, <2>4, <1>5
<1>8. q1 < Base
  <2>1. q1 =< q1 * d /\ q1 * d \in Nat BY <1>2
  <2> QED BY <2>1, <1>1, <1>2
<1>9. Val(u) = (q1 * Base + q2) * d + r2
  <2>1. (q1 * d + r1) * Base = (q1 * Base) * d + r1 * Base BY <1>1, <1>2
  <2>2. (q1 * Base + q2) * d = (q1 * Base) * d + q2 * d BY <1>1, <1>2, <1>5
  <2>3. u.high * Base = (q1 * d + r1) * Base BY <1>2
  <2>4. /\ (q1 * Base) * d \in Nat /\ r1 * Base \in Nat /\ q2 * d \in Nat
    BY <1>1, <1>2, <1>5
  <2>5. n2 = r1 * Base + u.low BY DEF n2
  <2> QED BY <2>1, <2>2, <2>3, <2>4, <2>5, <1>1, <1>5
<1>10. /\ make_uint128(q1, q2) \in U128 /\ Val(make_uint128(q1, q2)) = q1 * Base + q2
  BY <1>2, <1>5, <1>7, <1>8, MakeLimbs
<1>11. make_uint128(0, r2) \in U128 /\ Val(make_uint128(0, r2)) = r2
  <2>1. 0 * Base + r2 = r2 /\ r2 < Base /\ 0 < Base BY <1>1, <1>5
  <2> QED BY <2>1, <1>5, MakeLimbs
<1>12. q1 * Base + q2 \in Nat BY <1>10, LimbsOf
<1> DEFINE q == q1 * Base + q2
<1>13. Val(u) \div d = q /\ Val(u) % d = r2
  <2>1. q \in Nat /\ Val(u) = q * d + r2 BY <1>9, <1>12
  <2> HIDE DEF q
  <2>2. (q * d + r2) \div d = q /\ (q * d + r2) % d = r2
    BY <2>1, <1>5, DivisionUnique
  <2> QED BY <2>1, <2>2, Zenon
<1> QED BY <1>3, <1>10, <1>11, <1>13 DEF DivResult

\* The residue of a sum with a multiple of the modulus, in the form "-" and "*" need.
LEMMA ResidueOf ==
  ASSUME NEW u \in U128, NEW y \in Int, NEW k \in Int, y = k * (Base * Base) + Val(u)
  PROVE  Val(u) = y % (Base * Base)
<1>1. Val(u) \in Nat /\ Val(u) < Base * Base BY LimbsOf
<1>2. Base * Base \in Nat \ {0} BY Widths
<1> DEFINE M == Base * Base  x == Val(u)
<1>3. x \in Nat /\ x < M /\ M \in Nat \ {0} /\ y = k * M + x BY <1>1, <1>2
<1> HIDE DEF M, x
<1>4. y % M = x BY <1>3, Residue
<1> QED BY <1>4 DEF M, x

\* The complement of the digits, and the number it stands for.
LEMMA DigitComplement ==
  ASSUME NEW h \in Nat, NEW l \in Nat, NEW B \in Nat, h < B, l < B
  PROVE  /\ (B - 1 - h) * B + (B - 1 - l) = B * B - 1 - (h * B + l)
         /\ (B - h) * B = B * B - h * B
         /\ h * B \in Nat /\ B * B \in Nat /\ h # 0 => h * B >= B
<1>1. (B - 1 - h) * B = B * B - B - h * B OBVIOUS
<1>2. (B - h) * B = B * B - h * B OBVIOUS
<1>3. h * B \in Nat /\ B * B \in Nat /\ (h # 0 => h * B >= B) OBVIOUS
<1> QED BY <1>1, <1>2, <1>3

\* Unary "-" is negation modulo 2^Bits: the carry of the complemented low limb
\* reaches the high one on both paths.
THEOREM NegateNegates ==
  ASSUME NEW u \in U128
  PROVE  /\ Negate(u) \in U128
         /\ Val(Negate(u)) = IF Val(u) = 0 THEN 0 ELSE Base * Base - Val(u)
<1>0. /\ u.high \in Nat /\ u.high < Base /\ u.low \in Nat /\ u.low < Base
      /\ Val(u) = u.high * Base + u.low /\ Base \in Nat /\ Base >= 4
  BY LimbsOf, Widths
<1> DEFINE h == Base - 1 - u.high  l == Base - 1 - u.low  M == Base * Base
<1>1. h \in Nat /\ h < Base /\ l \in Nat /\ l < Base BY <1>0
<1>2. h * Base + l = M - 1 - Val(u)
  <2>1. u.high \in Nat BY <1>0
  <2>2. u.low \in Nat BY <1>0
  <2>3. Base \in Nat /\ u.high < Base /\ u.low < Base BY <1>0
  <2>4. h * Base + l = M - 1 - (u.high * Base + u.low)
    BY <2>1, <2>2, <2>3, DigitComplement
  <2> QED BY <2>4, <1>0, Zenon
<1>3. Val(u) \in Nat /\ Val(u) < M /\ M \in Nat BY LimbsOf, Widths
<1>4. CASE Intrinsics(CalculationMode)
  <2>1. Negate(u) = Plus(Complement(u), One) BY <1>4 DEF Negate
  <2>2. Complement(u) \in U128 /\ Val(Complement(u)) = M - 1 - Val(u)
    <3>1. Complement(u) = make_uint128(h, l) BY DEF Complement, LimbNot
    <3> HIDE DEF h, l, M
    <3> QED BY <3>1, <1>1, <1>2, MakeLimbs
  <2> DEFINE v == Val(Plus(Complement(u), One))
  <2>3. /\ Plus(Complement(u), One) \in U128
        /\ v = Val(Complement(u)) + Val(One) \/ v = Val(Complement(u)) + Val(One) - M
    BY <2>2, ZeroAndOne, PlusAdds
  <2>4. v \in Nat /\ v < M
    BY <2>3, LimbsOf
  <2> HIDE DEF v, M
  <2>5. v = M - Val(u) \/ v = 0 - Val(u)
    BY <2>2, <2>3, ZeroAndOne, <1>3
  <2>6. v = IF Val(u) = 0 THEN 0 ELSE M - Val(u) BY <2>4, <2>5, <1>3
  <2> QED BY <2>1, <2>3, <2>6 DEF v, M
<1>5. CASE ~ Intrinsics(CalculationMode)
  <2> HIDE DEF M
  <2> DEFINE nl == IF u.low = 0 THEN 0 ELSE Base - u.low
             up == IF u.high = 0 THEN 0 ELSE Base - u.high
             nh == IF u.low = 0 THEN up ELSE h
  <2>1. Wrap(l + 1) = nl /\ Wrap(h + 1) = up
    <3>1. \A n \in Nat : n =< Base => Wrap(n) = IF n = Base THEN 0 ELSE n
      BY <1>0 DEF Wrap
    <3>2. l + 1 = Base - u.low /\ h + 1 = Base - u.high BY <1>0
    <3>3. Base - u.low \in Nat /\ Base - u.high \in Nat BY <1>0
    <3>4. Wrap(Base - u.low) = nl BY <3>1, <3>3, <1>0
    <3>5. Wrap(Base - u.high) = up BY <3>1, <3>3, <1>0
    <3> QED BY <3>2, <3>4, <3>5
  <2>2. nl = 0 <=> u.low = 0 BY <1>0
  <2>3. Negate(u) = make_uint128(nh, nl)
    <3>1. Negate(u) = make_uint128(IF Wrap(l + 1) = 0 THEN Wrap(h + 1) ELSE h, Wrap(l + 1))
      BY <1>5 DEF Negate, LimbNot
    <3> HIDE DEF nl, up, h, l
    <3> QED BY <3>1, <2>1, <2>2
  <2>4. nh \in Nat /\ nh < Base /\ nl \in Nat /\ nl < Base BY <1>0
  <2>5. nh * Base + nl = IF Val(u) = 0 THEN 0 ELSE M - Val(u)
    <3>1. CASE u.low # 0
      <4>1. nh = h BY <3>1
      <4>0. nl = l + 1
        <5>1. u.low \in Nat /\ Base \in Nat BY <1>0
        <5> QED BY <5>1, <3>1
      <4>2. Val(u) # 0 BY <3>1, <1>0, DigitComplement
      <4>3. h * Base \in Nat BY <1>0, <1>1
      <4> HIDE DEF nh, nl, h, l
      <4> QED BY <4>0, <4>1, <4>2, <4>3, <1>1, <1>2, <1>3
    <3>2. CASE u.low = 0 /\ u.high = 0
      <4>1. nh = 0 /\ nl = 0 /\ Val(u) = 0 BY <3>2, <1>0
      <4> HIDE DEF nh, nl
      <4> QED BY <4>1, <1>0
    <3>3. CASE u.low = 0 /\ u.high # 0
      <4>1. nh = Base - u.high /\ nl = 0 BY <3>3, <1>0
      <4>2. (Base - u.high) * Base = M - u.high * Base /\ u.high * Base >= Base
            /\ u.high * Base \in Nat
        BY <3>3, <1>0, DigitComplement DEF M
      <4> HIDE DEF nh, nl
      <4> QED BY <4>1, <4>2, <3>3, <1>0, <1>3
    <3> QED BY <3>1, <3>2, <3>3
  <2> HIDE DEF nh, nl
  <2>6. make_uint128(nh, nl) \in U128 /\ Val(make_uint128(nh, nl)) = nh * Base + nl
    BY <2>4, MakeLimbs
  <2> QED BY <2>3, <2>5, <2>6 DEF M
<1> QED BY <1>4, <1>5

\* The product of two numbers of two digits: the high digits' own product is a
\* multiple of B * B.
LEMMA ProductOfPairs ==
  ASSUME NEW ah \in Nat, NEW al \in Nat, NEW bh \in Nat, NEW bl \in Nat, NEW B \in Nat
  PROVE  (ah * B + al) * (bh * B + bl)
           = (ah * bh) * (B * B) + (al * bh + ah * bl) * B + al * bl
<1>1. (ah * B + al) * (bh * B + bl)
        = (ah * B) * (bh * B) + (ah * B) * bl + al * (bh * B) + al * bl
  OBVIOUS
<1>2. (ah * B) * (bh * B) = (ah * bh) * (B * B) OBVIOUS
<1>3. (ah * B) * bl + al * (bh * B) = (al * bh + ah * bl) * B OBVIOUS
<1>4. /\ (ah * bh) * (B * B) \in Nat /\ (ah * B) * bl \in Nat /\ al * (bh * B) \in Nat
      /\ al * bl \in Nat
  OBVIOUS
<1> QED BY <1>1, <1>2, <1>3, <1>4

\* A product of two digits below H is below H * H.
LEMMA ProductBelow ==
  ASSUME NEW a \in Nat, NEW b \in Nat, NEW H \in Nat \ {0}, a < H, b < H
  PROVE  a * b \in Nat /\ a * b < H * H /\ (a * b) * H < (H * H) * H
<1>1. a * b =< (H - 1) * b /\ (H - 1) * b =< (H - 1) * H /\ (H - 1) * H = H * H - H
  OBVIOUS
<1>2. a * b \in Nat /\ H * H \in Nat /\ (H - 1) * b \in Nat OBVIOUS
<1>3. a * b < H * H BY <1>1, <1>2
<1>4. \A x, y \in Nat : x < y => x * H < y * H OBVIOUS
<1> QED BY <1>2, <1>3, <1>4

\* The half limb.
LEMMA HalfWidths ==
  /\ HalfBase \in Nat \ {0} /\ HalfBase * HalfBase = Base
  /\ HalfBase = Pow2[HalfBits] /\ HalfBits \in 0..(Bits - 1)
<1>1. HalfBits \in Nat BY Widths
<1>2. LimbBits = HalfBits + HalfBits BY <1>1 DEF LimbBits
<1>3. Pow2[HalfBits] \in Nat \ {0} BY <1>1, PowPositive
<1>4. Pow2[HalfBits + HalfBits] = Pow2[HalfBits] * Pow2[HalfBits] BY <1>1, PowSum
<1> QED BY <1>1, <1>2, <1>3, <1>4, Widths DEF HalfBase, Base

\* The product of two half limbs, as "*" moves it to the middle of the number.
LEMMA CrossProduct ==
  ASSUME NEW x \in Nat, NEW y \in Nat, x < HalfBase, y < HalfBase
  PROVE  /\ Wrap(x * y) = x * y /\ x * y \in Nat /\ x * y < Base
         /\ ShiftLeft(make_uint128(0, Wrap(x * y)), HalfBits) \in U128
         /\ Val(ShiftLeft(make_uint128(0, Wrap(x * y)), HalfBits)) = (x * y) * HalfBase
<1> DEFINE p == x * y
<1>1. p \in Nat /\ p < HalfBase * HalfBase /\ p * HalfBase < (HalfBase * HalfBase) * HalfBase
  BY HalfWidths, ProductBelow
<1>2. HalfBase \in Nat \ {0} /\ HalfBase * HalfBase = Base /\ Base \in Nat \ {0}
  BY HalfWidths, Widths
<1> HIDE DEF p
<1>3. p < Base /\ p * HalfBase < Base * HalfBase BY <1>1, <1>2
<1>4. Wrap(p) = p BY <1>1, <1>2, <1>3, BelowDivisor DEF Wrap
<1>5. Base * HalfBase =< Base * Base
  <2>1. \A H, B \in Nat \ {0} : H * H = B => B * H =< B * B
    <3> TAKE H, B \in Nat \ {0}
    <3>1. H =< H * H OBVIOUS
    <3>2. H =< B => B * H =< B * B OBVIOUS
    <3> QED BY <3>1, <3>2
  <2> QED BY <1>2, <2>1
<1>6. p * HalfBase < Base * Base
  <2>1. p * HalfBase \in Nat /\ Base * HalfBase \in Nat /\ Base * Base \in Nat BY <1>1, <1>2
  <2> QED BY <2>1, <1>3, <1>5
<1> DEFINE w == make_uint128(0, p)
<1>7. w \in U128 /\ Val(w) = p
  <2>1. 0 * Base + p = p BY <1>1, <1>2
  <2>2. 0 \in Nat /\ 0 < Base BY <1>2
  <2> QED BY <2>1, <2>2, <1>1, <1>3, MakeLimbs
<1> HIDE DEF w
<1>8. ShiftLeft(w, HalfBits) \in U128 /\ Val(ShiftLeft(w, HalfBits)) = p * HalfBase
  <2>1. HalfBits \in 0..(Bits - 1) /\ HalfBase = Pow2[HalfBits] BY HalfWidths
  <2>2. Val(w) * Pow2[HalfBits] < Base * Base BY <1>6, <1>7, <2>1
  <2> QED BY <1>7, <2>1, <2>2, ShiftLeftExact
<1> QED BY <1>1, <1>3, <1>4, <1>8 DEF p, w

\* "*" is multiplication modulo 2^Bits: the portable path adds the four products of
\* half limbs, the others the product of the low limbs (uint128.inl:1386-1434).
THEOREM TimesMultiplies ==
  ASSUME NEW a \in U128, NEW b \in U128
  PROVE  /\ Times(a, b) \in U128
         /\ Val(Times(a, b)) = (Val(a) * Val(b)) % (Base * Base)
<1> DEFINE ah == a.high  al == a.low  bh == b.high  bl == b.low  B == Base  M == B * B
<1>0. /\ ah \in Nat /\ ah < B /\ al \in Nat /\ al < B
      /\ bh \in Nat /\ bh < B /\ bl \in Nat /\ bl < B
      /\ Val(a) = ah * B + al /\ Val(b) = bh * B + bl /\ B \in Nat \ {0}
  BY LimbsOf, Widths
<1> HIDE DEF ah, al, bh, bl, B
<1>1. Val(a) * Val(b) = (ah * bh) * M + (al * bh + ah * bl) * B + al * bl
  BY <1>0, ProductOfPairs
<1>2. /\ ah * bh \in Nat /\ al * bh \in Nat /\ ah * bl \in Nat /\ al * bl \in Nat
      /\ M \in Nat \ {0} /\ Val(a) * Val(b) \in Int
  <2>1. Val(a) \in Nat /\ Val(b) \in Nat BY LimbsOf
  <2> QED BY <1>0, <2>1
<1>3. SUFFICES /\ Times(a, b) \in U128
               /\ \E n \in Int : Val(a) * Val(b) = n * M + Val(Times(a, b))
  <2>1. Base * Base = M BY DEF B
  <2> HIDE DEF M
  <2> QED BY <2>1, <1>2, <1>3, ResidueOf
<1>4. CASE Intrinsics(CalculationMode)
  <2> DEFINE ph == (al * bl) \div B  pl == (al * bl) % B
  <2>1. ph \in Nat /\ pl \in Nat /\ pl < B /\ al * bl = ph * B + pl
    BY <1>0, <1>2, DivisionParts
  <2> HIDE DEF ph, pl
  <2> DEFINE s == al * bh + ah * bl + ph  hi == s % B  k == s \div B
  <2>2. s \in Nat BY <1>2, <2>1
  <2>3. k \in Nat /\ hi \in Nat /\ hi < B /\ s = k * B + hi
    BY <1>0, <2>2, DivisionParts
  <2>4. Times(a, b) = make_uint128(hi, pl)
    BY <1>4 DEF Times, UMUL128, make_uint128, Wrap, ph, pl, ah, al, bh, bl, B
  <2>5. Times(a, b) \in U128 /\ Val(Times(a, b)) = hi * B + pl
    <3> HIDE DEF hi, k, s
    <3> QED BY <2>1, <2>3, <2>4, MakeLimbs DEF B
  <2>6. Val(a) * Val(b) = (ah * bh + k) * M + (hi * B + pl)
    <3> DEFINE T == al * bh + ah * bl
    <3>1. T \in Nat /\ s = T + ph BY <1>2, <2>1
    <3> HIDE DEF T, s, hi, k
    <3>2. (T + ph) * B = T * B + ph * B BY <3>1, <2>1, <1>0
    <3>3. (k * B + hi) * B = k * M + hi * B BY <2>3, <1>0
    <3>4. (ah * bh + k) * M = (ah * bh) * M + k * M BY <1>2, <2>3
    <3>5. Val(a) * Val(b) = (ah * bh) * M + T * B + (ph * B + pl)
      BY <1>1, <2>1 DEF T
    <3>6. /\ (ah * bh) * M \in Nat /\ T * B \in Nat /\ ph * B \in Nat /\ k * M \in Nat
          /\ hi * B \in Nat
      BY <1>0, <1>2, <2>1, <2>3, <3>1
    <3>7. T * B + ph * B = k * M + hi * B BY <3>1, <3>2, <3>3, <2>3
    <3> HIDE DEF M
    <3> QED BY <3>4, <3>5, <3>6, <3>7, <2>1
  <2>7. ah * bh + k \in Int BY <1>2, <2>3
  <2> HIDE DEF hi, k, s, M
  <2> QED BY <2>5, <2>6, <2>7
<1>5. CASE ~ Intrinsics(CalculationMode)
  <2> DEFINE H == HalfBase
             a32 == al \div H  a00 == al % H  b32 == bl \div H  b00 == bl % H
  <2>0. H \in Nat \ {0} /\ H * H = B BY HalfWidths DEF B
  <2> HIDE DEF H
  <2>1. /\ a32 \in Nat /\ a00 \in Nat /\ a00 < H /\ al = a32 * H + a00
        /\ b32 \in Nat /\ b00 \in Nat /\ b00 < H /\ bl = b32 * H + b00
    BY <1>0, <2>0, DivisionParts
  <2> HIDE DEF a32, a00, b32, b00
  <2>2. a32 < H /\ b32 < H
    <3>1. \A q, r, n, h \in Nat : n = q * h + r /\ n < h * h => q < h
      <4> SUFFICES ASSUME NEW q \in Nat, NEW r \in Nat, NEW n \in Nat, NEW h \in Nat,
                          n = q * h + r, n < h * h, q >= h
                   PROVE  FALSE
        OBVIOUS
      <4>1. q * h >= h * h /\ q * h \in Nat /\ h * h \in Nat OBVIOUS
      <4> QED BY <4>1
    <3> QED BY <3>1, <2>0, <2>1, <1>0
  <2> DEFINE X == (a32 * b00) * H  Y == (a00 * b32) * H  Z == a00 * b00  W == a32 * b32
             S == ah * bl + al * bh + W  hi == S % B  k == S \div B
             sx == ShiftLeft(make_uint128(0, Wrap(a32 * b00)), HalfBits)
             sy == ShiftLeft(make_uint128(0, Wrap(a00 * b32)), HalfBits)
             outer == make_uint128(hi, Wrap(a00 * b00))
             cross == Plus(outer, sx)
  <2>3. sx \in U128 /\ Val(sx) = X BY <2>1, <2>2, CrossProduct DEF H
  <2>4. sy \in U128 /\ Val(sy) = Y BY <2>1, <2>2, CrossProduct DEF H
  <2>5. Wrap(a00 * b00) = Z /\ Z \in Nat /\ Z < B
    BY <2>1, <2>2, CrossProduct DEF H, B
  <2>6. W \in Nat /\ X \in Nat /\ Y \in Nat BY <2>0, <2>1
  <2>7. Times(a, b) = Plus(cross, sy)
    BY <1>5 DEF Times, TimesHalves, Wrap, H, a32, a00, b32, b00, ah, al, bh, bl, B
  <2>8. S \in Nat BY <1>2, <2>6
  <2>9. k \in Nat /\ hi \in Nat /\ hi < B /\ S = k * B + hi
    BY <1>0, <2>8, DivisionParts
  <2>10. al * bl = W * B + (a00 * b32 + a32 * b00) * H + Z
    <3>1. (a32 * H + a00) * (b32 * H + b00)
            = (a32 * b32) * (H * H) + (a00 * b32 + a32 * b00) * H + a00 * b00
      BY <2>0, <2>1, ProductOfPairs
    <3> QED BY <2>0, <2>1, <3>1
  <2>11. (a00 * b32 + a32 * b00) * H = Y + X
    <3>1. \A p, q, h \in Nat : (p + q) * h = p * h + q * h OBVIOUS
    <3>2. a00 * b32 \in Nat /\ a32 * b00 \in Nat /\ H \in Nat BY <2>0, <2>1
    <3> QED BY <3>1, <3>2
  <2> HIDE DEF X, Y, Z, W, sx, sy
  <2>12. outer \in U128 /\ Val(outer) = hi * B + Z
    <3> HIDE DEF hi
    <3> QED BY <2>5, <2>9, MakeLimbs DEF B
  <2> HIDE DEF outer
  <2>13. /\ cross \in U128
         /\ Val(cross) = Val(outer) + Val(sx) \/ Val(cross) = Val(outer) + Val(sx) - M
    BY <2>3, <2>12, PlusAdds DEF B
  <2> HIDE DEF cross
  <2>14. /\ Times(a, b) \in U128
         /\ \/ Val(Times(a, b)) = Val(cross) + Val(sy)
            \/ Val(Times(a, b)) = Val(cross) + Val(sy) - M
    BY <2>4, <2>7, <2>13, PlusAdds DEF B
  <2> DEFINE C == ah * bh  D == S * B  HB == hi * B  v1 == Val(cross)  v2 == Val(Times(a, b))
  <2>15. D = k * M + HB
    <3> HIDE DEF S, k, hi
    <3>1. (k * B + hi) * B = k * (B * B) + hi * B BY <2>9, <1>0
    <3> QED BY <3>1, <2>9
  <2>16. Val(a) * Val(b) = C * M + D + X + Y + Z
    <3> DEFINE T == al * bh + ah * bl
    <3>1. T \in Nat /\ S = T + W BY <1>2, <2>6
    <3>2. Val(a) * Val(b) = C * M + T * B + (W * B + (Y + X) + Z) BY <1>1, <2>10, <2>11
    <3> HIDE DEF T, S
    <3>3. (T + W) * B = T * B + W * B BY <3>1, <2>6, <1>0
    <3>4. D = T * B + W * B BY <3>1, <3>3
    <3>5. T * B \in Nat /\ W * B \in Nat /\ C * M \in Nat BY <3>1, <2>6, <1>0, <1>2
    <3> HIDE DEF C, D, M
    <3> QED BY <3>2, <3>4, <3>5, <2>5, <2>6
  <2>17. v1 \in Nat /\ v2 \in Nat BY <2>13, <2>14, LimbsOf
  <2>18. C \in Nat /\ D \in Nat /\ HB \in Nat /\ M \in Nat
    <3> HIDE DEF hi, S
    <3> QED BY <1>0, <1>2, <2>8, <2>9
  <2>19. v1 = (HB + Z) + X \/ v1 = (HB + Z) + X - M BY <2>3, <2>12, <2>13
  <2>20. v2 = v1 + Y \/ v2 = v1 + Y - M BY <2>4, <2>14
  <2> HIDE DEF C, D, HB, v1, v2, M, S, hi, k
  <2>21. \E n \in Int : C * M + D + X + Y + Z = n * M + v2
    <3>0. /\ M \in Nat /\ C \in Nat /\ D \in Nat /\ k \in Nat /\ HB \in Nat
          /\ X \in Nat /\ Y \in Nat /\ Z \in Nat /\ v1 \in Nat /\ v2 \in Nat
      BY <2>5, <2>6, <2>9, <2>17, <2>18
    <3>1. /\ (C + k) * M = C * M + k * M
          /\ (C + k + 1) * M = C * M + k * M + M
          /\ (C + k + 2) * M = C * M + k * M + M + M
      BY <3>0
    <3>2. C * M \in Nat /\ k * M \in Nat BY <3>0
    <3>3. \/ C * M + D + X + Y + Z = (C + k) * M + v2
          \/ C * M + D + X + Y + Z = (C + k + 1) * M + v2
          \/ C * M + D + X + Y + Z = (C + k + 2) * M + v2
      BY <2>15, <2>19, <2>20, <3>0, <3>1, <3>2
    <3>4. C + k \in Int /\ C + k + 1 \in Int /\ C + k + 2 \in Int BY <3>0
    <3> QED BY <3>3, <3>4
  <2> QED BY <2>14, <2>16, <2>21 DEF v2
<1> QED BY <1>4, <1>5

\* add_with_carry adds; the carry that it reports is the carry of the sum, except on
\* the portable path when a carry comes in and the second addend is the largest
\* number: the sum is then the first addend again and the comparison with it misses
\* the carry (uint128.inl:1517-1559).
THEOREM AddWithCarryCarries ==
  ASSUME NEW a \in U128, NEW b \in U128, NEW c \in {0, 1}
  PROVE  /\ AddWithCarry(a, b, c).sum \in U128
         /\ Val(AddWithCarry(a, b, c).sum)
              = IF Val(a) + Val(b) + c < Base * Base THEN Val(a) + Val(b) + c
                ELSE Val(a) + Val(b) + c - Base * Base
         /\ AddWithCarry(a, b, c).carry
              = (IF Val(a) + Val(b) + c < Base * Base THEN 0 ELSE 1)
            <=> Intrinsics(CalculationMode) \/ c = 0 \/ Val(b) # Base * Base - 1
<1> DEFINE M == Base * Base  va == Val(a)  vb == Val(b)  out == AddWithCarry(a, b, c)
<1>1. /\ va \in Nat /\ va < M /\ vb \in Nat /\ vb < M /\ M \in Nat /\ M >= 4
  <2>1. Base * Base >= 4 /\ Base * Base \in Nat
    <3>1. \A B \in Nat : B >= 4 => B * B >= 4 /\ B * B \in Nat OBVIOUS
    <3> QED BY <3>1, Widths
  <2> QED BY <2>1, LimbsOf
<1>2. c = 0 \/ c = 1 OBVIOUS
<1>3. CASE Intrinsics(CalculationMode)
  <2> DEFINE l == ADDCARRY64(c, a.low, b.low)  h == ADDCARRY64(l.carry, a.high, b.high)
  <2>0. /\ a.high \in Nat /\ a.low \in Nat /\ b.high \in Nat /\ b.low \in Nat
        /\ a.high < Base /\ a.low < Base /\ b.high < Base /\ b.low < Base
        /\ va = a.high * Base + a.low /\ vb = b.high * Base + b.low
        /\ Base \in Nat /\ Base >= 4
    BY LimbsOf, Widths
  <2>1. \A x, y \in Nat : x < Base /\ y < Base =>
          \A d \in {0, 1} :
             /\ ADDCARRY64(d, x, y).carry \in {0, 1}
             /\ ADDCARRY64(d, x, y).sum \in Nat /\ ADDCARRY64(d, x, y).sum < Base
             /\ x + y + d = ADDCARRY64(d, x, y).carry * Base + ADDCARRY64(d, x, y).sum
    <3> TAKE x, y \in Nat
    <3> HAVE x < Base /\ y < Base
    <3> TAKE d \in {0, 1}
    <3> DEFINE n == x + y + d  q == n \div Base  r == n % Base
    <3>1. n \in Nat /\ n < Base + Base BY <2>0
    <3>2. q \in {0, 1} BY <3>1, <2>0
    <3>3. r \in Nat /\ r < Base /\ n = q * Base + r
      BY <3>1, <2>0, DivisionParts
    <3>4. ADDCARRY64(d, x, y).carry = q /\ ADDCARRY64(d, x, y).sum = r
      BY DEF ADDCARRY64, Wrap
    <3> HIDE DEF q, r
    <3> QED BY <3>2, <3>3, <3>4
  <2>2. /\ l.carry \in {0, 1} /\ l.sum \in Nat /\ l.sum < Base
        /\ a.low + b.low + c = l.carry * Base + l.sum
    BY <2>0, <2>1
  <2> HIDE DEF l
  <2>3. /\ h.carry \in {0, 1} /\ h.sum \in Nat /\ h.sum < Base
        /\ a.high + b.high + l.carry = h.carry * Base + h.sum
    <3>1. l.carry \in {0, 1} BY <2>2
    <3>2. a.high \in Nat /\ b.high \in Nat /\ a.high < Base /\ b.high < Base BY <2>0
    <3> QED BY <2>1, <3>1, <3>2
  <2> HIDE DEF h
  <2>4. out = [sum |-> make_uint128(h.sum, l.sum), carry |-> h.carry]
    BY <1>3 DEF AddWithCarry, AddWithCarryLimb, l, h
  <2>5. out.sum \in U128 /\ Val(out.sum) = h.sum * Base + l.sum /\ out.carry = h.carry
    <3>1. out.sum = make_uint128(h.sum, l.sum) /\ out.carry = h.carry BY <2>4
    <3> HIDE DEF out
    <3> QED BY <2>2, <2>3, <3>1, MakeLimbs
  <2> DEFINE v == Val(out.sum)
  <2>6. v \in Nat /\ v < M BY <2>5, LimbsOf
  <2>7. va + vb + c = h.carry * M + v
    <3> DEFINE ah == a.high  al == a.low  bh == b.high  bl == b.low  B == Base
               hc == h.carry  hs == h.sum  lc == l.carry  ls == l.sum
    <3>0. /\ ah \in Nat /\ al \in Nat /\ bh \in Nat /\ bl \in Nat /\ B \in Nat
          /\ hc \in Nat /\ hs \in Nat /\ lc \in Nat /\ ls \in Nat /\ c \in Nat
      BY <2>0, <2>2, <2>3
    <3>1. /\ va = ah * B + al /\ vb = bh * B + bl /\ v = hs * B + ls
          /\ al + bl + c = lc * B + ls /\ ah + bh + lc = hc * B + hs
      BY <2>0, <2>2, <2>3, <2>5
    <3>M. M = B * B OBVIOUS
    <3> HIDE DEF ah, al, bh, bl, B, hc, hs, lc, ls, va, vb, v, M
    <3>2. (ah + bh + lc) * B = ah * B + bh * B + lc * B BY <3>0
    <3>3. (hc * B + hs) * B = hc * (B * B) + hs * B BY <3>0
    <3>4. /\ ah * B \in Nat /\ bh * B \in Nat /\ lc * B \in Nat /\ hs * B \in Nat
          /\ hc * (B * B) \in Nat
      BY <3>0
    <3>5. ah * B + bh * B + lc * B = hc * (B * B) + hs * B BY <3>1, <3>2, <3>3
    <3>6. va + vb + c = hc * (B * B) + v BY <3>0, <3>1, <3>4, <3>5
    <3> QED BY <3>6, <3>M DEF hc
  <2>8. h.carry = 0 \/ h.carry = 1 BY <2>3
  <2> HIDE DEF M, va, vb, v, out
  <2>9. IF va + vb + c < M THEN v = va + vb + c /\ h.carry = 0
                           ELSE v = va + vb + c - M /\ h.carry = 1
    BY <1>1, <1>2, <2>6, <2>7, <2>8
  <2> QED BY <1>3, <2>5, <2>9 DEF v, M, va, vb, out
<1>4. CASE ~ Intrinsics(CalculationMode)
  <2> DEFINE started == IF c = 1 THEN Plus(a, One) ELSE a  total == Plus(started, b)
             w == Val(started)  v == Val(total)
  <2>1. out = [sum |-> total, carry |-> IF Less(total, a) THEN 1 ELSE 0]
    BY <1>4 DEF AddWithCarry
  <2>2. started \in U128 /\ (w = va + c \/ w = va + c - M)
    BY <1>2, ZeroAndOne, PlusAdds, <1>1
  <2> HIDE DEF started
  <2>3. total \in U128 /\ (v = w + vb \/ v = w + vb - M)
    BY <2>2, PlusAdds
  <2> HIDE DEF total
  <2>4. w \in Nat /\ w < M /\ v \in Nat /\ v < M
    BY <2>2, <2>3, LimbsOf
  <2>5. out.sum = total /\ (out.carry = 1 <=> v < va) /\ out.carry \in {0, 1}
    <3>1. Less(total, a) <=> v < va BY <2>3, ComparisonsCompare
    <3> QED BY <2>1, <3>1
  <2> HIDE DEF M, va, vb, w, v, out
  <2>6. v = IF va + vb + c < M THEN va + vb + c ELSE va + vb + c - M
    BY <1>1, <1>2, <2>2, <2>3, <2>4
  <2>7. out.carry = (IF va + vb + c < M THEN 0 ELSE 1) <=> c = 0 \/ vb # M - 1
    BY <1>1, <1>2, <2>4, <2>5, <2>6
  <2>8. out.sum \in U128 /\ Val(out.sum) = v BY <2>3, <2>5 DEF v
  <2> QED BY <1>4, <2>6, <2>7, <2>8 DEF M, va, vb, out
<1> QED BY <1>3, <1>4

\* sub_with_borrow subtracts; the borrow that it reports is the borrow of the
\* difference, except on the portable path when a borrow comes in and the subtrahend
\* is the largest number (uint128.inl:1601-1648).
THEOREM SubWithBorrowBorrows ==
  ASSUME NEW a \in U128, NEW b \in U128, NEW c \in {0, 1}
  PROVE  /\ SubWithBorrow(a, b, c).difference \in U128
         /\ Val(SubWithBorrow(a, b, c).difference)
              = IF Val(a) - Val(b) - c >= 0 THEN Val(a) - Val(b) - c
                ELSE Val(a) - Val(b) - c + Base * Base
         /\ SubWithBorrow(a, b, c).borrow
              = (IF Val(a) - Val(b) - c >= 0 THEN 0 ELSE 1)
            <=> Intrinsics(CalculationMode) \/ c = 0 \/ Val(b) # Base * Base - 1
<1> DEFINE M == Base * Base  va == Val(a)  vb == Val(b)  out == SubWithBorrow(a, b, c)
<1>1. /\ va \in Nat /\ va < M /\ vb \in Nat /\ vb < M /\ M \in Nat /\ M >= 4
  <2>1. Base * Base >= 4 /\ Base * Base \in Nat
    <3>1. \A B \in Nat : B >= 4 => B * B >= 4 /\ B * B \in Nat OBVIOUS
    <3> QED BY <3>1, Widths
  <2> QED BY <2>1, LimbsOf
<1>2. c = 0 \/ c = 1 OBVIOUS
<1>3. CASE Intrinsics(CalculationMode)
  <2> DEFINE l == SUBBORROW_64(c, a.low, b.low)  h == SUBBORROW_64(l.borrow, a.high, b.high)
  <2>0. /\ a.high \in Nat /\ a.low \in Nat /\ b.high \in Nat /\ b.low \in Nat
        /\ a.high < Base /\ a.low < Base /\ b.high < Base /\ b.low < Base
        /\ va = a.high * Base + a.low /\ vb = b.high * Base + b.low
        /\ Base \in Nat /\ Base >= 4
    BY LimbsOf, Widths
  <2>1. \A x, y \in Nat : x < Base /\ y < Base =>
          \A d \in {0, 1} :
             /\ SUBBORROW_64(d, x, y).borrow \in {0, 1}
             /\ SUBBORROW_64(d, x, y).difference \in Nat
             /\ SUBBORROW_64(d, x, y).difference < Base
             /\ x - y - d = SUBBORROW_64(d, x, y).difference
                              - SUBBORROW_64(d, x, y).borrow * Base
    <3> TAKE x, y \in Nat
    <3> HAVE x < Base /\ y < Base
    <3> TAKE d \in {0, 1}
    <3>1. \A n \in Int : n < Base /\ n >= - Base => n % Base = IF n < 0 THEN n + Base ELSE n
      <4>1. Base \in Nat \ {0} BY <2>0
      <4> QED BY <4>1
    <3>2. x - y - d \in Int /\ x - y - d < Base /\ x - y - d >= - Base BY <2>0
    <3>3. SUBBORROW_64(d, x, y).difference = IF x - y - d < 0 THEN x - y - d + Base ELSE x - y - d
      BY <3>1, <3>2 DEF SUBBORROW_64, Wrap
    <3>4. SUBBORROW_64(d, x, y).borrow = IF x - y - d < 0 THEN 1 ELSE 0
      BY DEF SUBBORROW_64
    <3> QED BY <3>3, <3>4, <2>0
  <2>2. /\ l.borrow \in {0, 1} /\ l.difference \in Nat /\ l.difference < Base
        /\ a.low - b.low - c = l.difference - l.borrow * Base
    BY <2>0, <2>1
  <2> HIDE DEF l
  <2>3. /\ h.borrow \in {0, 1} /\ h.difference \in Nat /\ h.difference < Base
        /\ a.high - b.high - l.borrow = h.difference - h.borrow * Base
    BY <2>0, <2>1, <2>2
  <2> HIDE DEF h
  <2>4. out = [difference |-> make_uint128(h.difference, l.difference), borrow |-> h.borrow]
    BY <1>3 DEF SubWithBorrow, SubWithBorrowLimb, l, h
  <2>5. /\ out.difference \in U128 /\ out.borrow = h.borrow
        /\ Val(out.difference) = h.difference * Base + l.difference
    <3>1. out.difference = make_uint128(h.difference, l.difference) /\ out.borrow = h.borrow
      BY <2>4
    <3> HIDE DEF out
    <3> QED BY <2>2, <2>3, <3>1, MakeLimbs
  <2> DEFINE v == Val(out.difference)
  <2>6. v \in Nat /\ v < M BY <2>5, LimbsOf
  <2>7. va - vb - c = v - h.borrow * M
    <3> DEFINE ah == a.high  al == a.low  bh == b.high  bl == b.low  B == Base
               hb == h.borrow  hd == h.difference  lb == l.borrow  ld == l.difference
    <3>0. /\ ah \in Nat /\ al \in Nat /\ bh \in Nat /\ bl \in Nat /\ B \in Nat
          /\ hb \in Nat /\ hd \in Nat /\ lb \in Nat /\ ld \in Nat /\ c \in Nat
      BY <2>0, <2>2, <2>3
    <3>1. /\ va = ah * B + al /\ vb = bh * B + bl /\ v = hd * B + ld
          /\ al - bl - c = ld - lb * B /\ ah - bh - lb = hd - hb * B
      BY <2>0, <2>2, <2>3, <2>5
    <3>M. M = B * B OBVIOUS
    <3> HIDE DEF ah, al, bh, bl, B, hb, hd, lb, ld, va, vb, v, M
    <3>2. (ah - bh - lb) * B = ah * B - bh * B - lb * B BY <3>0
    <3>3. (hd - hb * B) * B = hd * B - hb * (B * B) BY <3>0
    <3>4. /\ ah * B \in Nat /\ bh * B \in Nat /\ lb * B \in Nat /\ hd * B \in Nat
          /\ hb * (B * B) \in Nat
      BY <3>0
    <3>5. ah * B - bh * B - lb * B = hd * B - hb * (B * B) BY <3>1, <3>2, <3>3
    <3>6. va - vb - c = v - hb * (B * B) BY <3>0, <3>1, <3>4, <3>5
    <3> QED BY <3>6, <3>M DEF hb
  <2>8. h.borrow = 0 \/ h.borrow = 1 BY <2>3
  <2> HIDE DEF M, va, vb, v, out
  <2>9. IF va - vb - c >= 0 THEN v = va - vb - c /\ h.borrow = 0
                            ELSE v = va - vb - c + M /\ h.borrow = 1
    BY <1>1, <1>2, <2>6, <2>7, <2>8
  <2> QED BY <1>3, <2>5, <2>9 DEF v, M, va, vb, out
<1>4. CASE ~ Intrinsics(CalculationMode)
  <2> DEFINE started == IF c = 1 THEN Minus(a, One) ELSE a  rest == Minus(started, b)
             w == Val(started)  v == Val(rest)
  <2>1. out = [difference |-> rest, borrow |-> IF Greater(rest, a) THEN 1 ELSE 0]
    BY <1>4 DEF SubWithBorrow
  <2>2. started \in U128 /\ (w = va - c \/ w = va - c + M)
    BY <1>2, ZeroAndOne, MinusSubtracts, <1>1
  <2> HIDE DEF started
  <2>3. rest \in U128 /\ (v = w - vb \/ v = w - vb + M)
    BY <2>2, MinusSubtracts
  <2> HIDE DEF rest
  <2>4. w \in Nat /\ w < M /\ v \in Nat /\ v < M
    BY <2>2, <2>3, LimbsOf
  <2>5. out.difference = rest /\ (out.borrow = 1 <=> v > va) /\ out.borrow \in {0, 1}
    <3>1. Greater(rest, a) <=> v > va BY <2>3, ComparisonsCompare
    <3> QED BY <2>1, <3>1
  <2> HIDE DEF M, va, vb, w, v, out
  <2>6. v = IF va - vb - c >= 0 THEN va - vb - c ELSE va - vb - c + M
    BY <1>1, <1>2, <2>2, <2>3, <2>4
  <2>7. out.borrow = (IF va - vb - c >= 0 THEN 0 ELSE 1) <=> c = 0 \/ vb # M - 1
    BY <1>1, <1>2, <2>4, <2>5, <2>6
  <2>8. out.difference \in U128 /\ Val(out.difference) = v BY <2>3, <2>5 DEF v
  <2> QED BY <1>4, <2>6, <2>7, <2>8 DEF M, va, vb, out
<1> QED BY <1>3, <1>4

\* A sum or a difference of limbs, wrapped once.
LEMMA WrapOnce ==
  /\ \A n \in Nat : n < Base + Base => Wrap(n) = IF n < Base THEN n ELSE n - Base
  /\ \A n \in Nat : n < Base + Base => n \div Base = IF n < Base THEN 0 ELSE 1
  /\ \A n \in Int : n < Base /\ n >= - Base => Wrap(n) = IF n < 0 THEN n + Base ELSE n
<1>1. Base \in Nat \ {0} BY Widths
<1>2. \A n \in Nat : n < Base + Base => n % Base = IF n < Base THEN n ELSE n - Base
  BY <1>1
<1>3. \A n \in Nat : n < Base + Base => n \div Base = IF n < Base THEN 0 ELSE 1
  BY <1>1
<1>4. \A n \in Int : n < Base /\ n >= - Base => n % Base = IF n < 0 THEN n + Base ELSE n
  BY <1>1
<1> QED BY <1>2, <1>3, <1>4 DEF Wrap

\* add_with_carry of a limb adds; the carry that it reports is the carry of the sum,
\* except on the portable path when a carry comes in and both addends are all ones
\* (uint128.inl:1473-1508).
THEOREM AddWithCarryLimbCarries ==
  ASSUME NEW a \in Limb, NEW b \in Limb, NEW c \in {0, 1}
  PROVE  /\ AddWithCarryLimb(a, b, c).sum
              = IF a + b + c < Base THEN a + b + c ELSE (a + b + c) - Base
         /\ AddWithCarryLimb(a, b, c).carry = (IF a + b + c < Base THEN 0 ELSE 1)
            <=> Intrinsics(CalculationMode) \/ c = 0 \/ a # Base - 1 \/ b # Base - 1
<1>1. /\ Base \in Nat /\ Base >= 4 /\ a \in Nat /\ b \in Nat /\ a < Base /\ b < Base
      /\ c \in Nat /\ (c = 0 \/ c = 1)
  BY Widths DEF Limb
<1>2. CASE Intrinsics(CalculationMode)
  <2> DEFINE n == a + b + c
  <2>1. n \in Nat /\ n < Base + Base BY <1>1
  <2> HIDE DEF n
  <2>2. Wrap(n) = IF n < Base THEN n ELSE n - Base BY <2>1, WrapOnce
  <2>3. n \div Base = IF n < Base THEN 0 ELSE 1 BY <2>1, WrapOnce
  <2>4. AddWithCarryLimb(a, b, c) = [sum |-> Wrap(n), carry |-> n \div Base]
    BY <1>2 DEF AddWithCarryLimb, ADDCARRY64, n
  <2> QED BY <1>2, <2>2, <2>3, <2>4 DEF n
<1>3. CASE ~ Intrinsics(CalculationMode)
  <2> DEFINE s == Wrap(a + c)  t == Wrap(s + b)
  <2>1. AddWithCarryLimb(a, b, c) = [sum |-> t, carry |-> IF t < MaxOf(a, b) THEN 1 ELSE 0]
    BY <1>3 DEF AddWithCarryLimb
  <2>2. s = IF a + c < Base THEN a + c ELSE (a + c) - Base
    <3> DEFINE n == a + c
    <3>1. n \in Nat /\ n < Base + Base BY <1>1
    <3> HIDE DEF n
    <3>2. Wrap(n) = IF n < Base THEN n ELSE n - Base BY <3>1, WrapOnce
    <3> QED BY <3>2 DEF n
  <2> HIDE DEF s
  <2>3. t = IF s + b < Base THEN s + b ELSE (s + b) - Base
    <3> DEFINE n == s + b
    <3>1. n \in Nat /\ n < Base + Base BY <1>1, <2>2
    <3> HIDE DEF n
    <3>2. Wrap(n) = IF n < Base THEN n ELSE n - Base BY <3>1, WrapOnce
    <3> QED BY <3>2 DEF n
  <2> HIDE DEF t
  <2>4. t = IF a + b + c < Base THEN a + b + c ELSE (a + b + c) - Base
    BY <1>1, <2>2, <2>3
  <2>5. t < MaxOf(a, b) <=> t < a \/ t < b BY <1>1, <2>4 DEF MaxOf
  <2>6. (t < a \/ t < b) <=> a + b + c >= Base /\ ~ (c = 1 /\ a = Base - 1 /\ b = Base - 1)
    BY <1>1, <2>4
  <2>7. c = 1 /\ a = Base - 1 /\ b = Base - 1 => a + b + c >= Base BY <1>1
  <2>8. a + b + c < Base <=> ~ (a + b + c >= Base) BY <1>1
  <2> QED BY <1>3, <1>1, <2>1, <2>4, <2>5, <2>6, <2>7, <2>8
<1> QED BY <1>2, <1>3

\* sub_with_borrow of a limb subtracts; on the portable path, whose test of the borrow
\* is the wrong way round, the borrow that it reports is right only when a borrow comes
\* in and the subtrahend is all ones (uint128.inl:1562-1599).
THEOREM SubWithBorrowLimbBorrows ==
  ASSUME NEW a \in Limb, NEW b \in Limb, NEW c \in {0, 1}
  PROVE  /\ SubWithBorrowLimb(a, b, c).difference
              = IF a - b - c >= 0 THEN a - b - c ELSE a - b - c + Base
         /\ SubWithBorrowLimb(a, b, c).borrow = (IF a - b - c >= 0 THEN 0 ELSE 1)
            <=> Intrinsics(CalculationMode) \/ (c = 1 /\ b = Base - 1)
<1>1. /\ Base \in Nat /\ Base >= 4 /\ a \in Nat /\ b \in Nat /\ a < Base /\ b < Base
      /\ c \in Nat /\ (c = 0 \/ c = 1)
  BY Widths DEF Limb
<1>2. CASE Intrinsics(CalculationMode)
  <2>1. a - b - c \in Int /\ a - b - c < Base /\ a - b - c >= - Base BY <1>1
  <2>2. Wrap(a - b - c) = IF a - b - c < 0 THEN a - b - c + Base ELSE a - b - c
    BY <2>1, WrapOnce
  <2>3. SubWithBorrowLimb(a, b, c)
          = [difference |-> Wrap(a - b - c), borrow |-> IF a < b + c THEN 1 ELSE 0]
    BY <1>2 DEF SubWithBorrowLimb, SUBBORROW_64
  <2> QED BY <1>1, <1>2, <2>2, <2>3
<1>3. CASE ~ Intrinsics(CalculationMode)
  <2> DEFINE s == Wrap(a - c)  t == Wrap(s - b)
  <2>1. SubWithBorrowLimb(a, b, c) = [difference |-> t, borrow |-> IF t > a THEN 0 ELSE 1]
    BY <1>3 DEF SubWithBorrowLimb
  <2>2. s = IF a - c < 0 THEN a - c + Base ELSE a - c
    <3>1. a - c \in Int /\ a - c < Base /\ a - c >= - Base BY <1>1
    <3> QED BY <3>1, WrapOnce
  <2> HIDE DEF s
  <2>3. t = IF s - b < 0 THEN s - b + Base ELSE s - b
    <3>1. s - b \in Int /\ s - b < Base /\ s - b >= - Base BY <1>1, <2>2
    <3> QED BY <3>1, WrapOnce
  <2> HIDE DEF t
  <2>4. t = IF a - b - c >= 0 THEN a - b - c ELSE a - b - c + Base
    BY <1>1, <2>2, <2>3
  <2>5. t > a <=> a - b - c < 0 /\ ~ (c = 1 /\ b = Base - 1)
    BY <1>1, <2>4
  <2>6. c = 1 /\ b = Base - 1 => a - b - c < 0 BY <1>1
  <2>7. a - b - c >= 0 <=> ~ (a - b - c < 0) BY <1>1
  <2> QED BY <1>3, <2>1, <2>4, <2>5, <2>6, <2>7
<1> QED BY <1>2, <1>3

-----------------------------------------------------------------------------
(* The division loop *)

\* The division loop's states, within a set that the body does not leave.
LEMMA IteratedSteps ==
  \A S : \A s \in S :
    (\A t \in S : LoopBody(t) \in S) =>
      /\ Iterated(s)[0] = s
      /\ \A k \in 0..Bits : Iterated(s)[k] \in S
      /\ \A k \in 0..(Bits - 1) : Iterated(s)[k + 1] = LoopBody(Iterated(s)[k])
<1> SUFFICES ASSUME NEW S, NEW s \in S, \A t \in S : LoopBody(t) \in S
             PROVE  /\ Iterated(s)[0] = s
                    /\ \A k \in 0..Bits : Iterated(s)[k] \in S
                    /\ \A k \in 0..(Bits - 1) : Iterated(s)[k + 1] = LoopBody(Iterated(s)[k])
  OBVIOUS
<1> DEFINE step == [k \in Nat |-> [t \in S |-> LoopBody(t)]]
           Eq(h) == h = [k \in 0..Bits |-> IF k = 0 THEN s ELSE LoopBody(h[k - 1])]
<1>1. step \in [Nat -> [S -> S]] /\ \A k \in Nat, t \in S : step[k][t] = LoopBody(t) OBVIOUS
<1> HIDE DEF step
<1>2. PICK g : Follows(g, S, s, step) BY <1>1, Recursion
<1>3. g \in [Nat -> S] /\ g[0] = s /\ \A k \in Nat : g[k + 1] = LoopBody(g[k])
  <2>1. g \in [Nat -> S] /\ g[0] = s /\ \A k \in Nat : g[k + 1] = step[k][g[k]]
    BY <1>2 DEF Follows
  <2> QED BY <1>1, <2>1
<1> DEFINE h == [k \in 0..Bits |-> g[k]]
<1>4. Bits \in Nat BY Widths
<1>5. Eq(h)
  <2>1. ASSUME NEW k \in 0..Bits, k # 0
        PROVE  k - 1 \in Nat /\ k - 1 \in 0..Bits /\ (k - 1) + 1 = k
    BY <1>4, <2>1
  <2>2. \A k \in 0..Bits : h[k] = IF k = 0 THEN s ELSE LoopBody(h[k - 1])
    BY <1>3, <2>1
  <2>3. h = [k \in 0..Bits |-> h[k]] OBVIOUS
  <2> HIDE DEF h
  <2> QED BY <2>2, <2>3
<1>6. Iterated(s) = CHOOSE f : Eq(f) BY DEF Iterated
<1> HIDE DEF Eq, h
<1>7. Eq(Iterated(s)) BY <1>5, <1>6
<1> DEFINE a == Iterated(s)
<1>8. \A k \in 0..Bits : a[k] = IF k = 0 THEN s ELSE LoopBody(a[k - 1])
  <2>1. a = [k \in 0..Bits |-> IF k = 0 THEN s ELSE LoopBody(a[k - 1])] BY <1>7 DEF Eq
  <2> HIDE DEF a
  <2> QED BY <2>1
<1> HIDE DEF a
<1>9. a[0] = s BY <1>4, <1>8
<1>10. \A k \in 0..(Bits - 1) : a[k + 1] = LoopBody(a[k])
  <2> TAKE k \in 0..(Bits - 1)
  <2>1. k + 1 \in 0..Bits /\ k + 1 # 0 /\ (k + 1) - 1 = k BY <1>4
  <2> QED BY <2>1, <1>8
<1>11. \A k \in 0..Bits : a[k] \in S
  <2> DEFINE D == {k \in 0..Bits : a[k] \in S}
  <2>1. 0 \in D BY <1>4, <1>9
  <2>2. \A k \in 0..(Bits - 1) : k \in D => k + 1 \in D
    <3> TAKE k \in 0..(Bits - 1)
    <3>1. k + 1 \in 0..Bits BY <1>4
    <3> QED BY <3>1, <1>10
  <2>3. \A k \in 0..Bits : k \in D
    <3> HIDE DEF D
    <3> QED BY <1>4, <2>1, <2>2, UpTo
  <2> QED BY <2>3
<1> QED BY <1>9, <1>10, <1>11 DEF a

\* What the loop of the division has reached: the dividend is the quotient so far,
\* at the weight W that it will have at the end, times the divisor, plus what is
\* left, and what is left is below that weight of divisors.
LoopReached(s, x, d, W) ==
  /\ x = Val(s.quotient) * W * d + Val(s.dividend)
  /\ Val(s.dividend) < W * d

\* The alignment of the division: the leading bits of denominator and dividend
\* meet, and the denominator has not lost a bit at the top.
LEMMA AlignmentStarts ==
  ASSUME NEW u \in U128, NEW v \in U128, Val(v) # 0, Val(v) < Val(u)
  PROVE  LET n == fls(u) - fls(v)
         IN  /\ n \in 0..(Bits - 1) /\ Aligned(u, v) \in LoopStates
             /\ LoopReached(Aligned(u, v), Val(u), Val(v), Pow2[n + 1])
             /\ Val(Aligned(u, v).denominator) = Pow2[n] * Val(v)
<1> DEFINE x == Val(u)  d == Val(v)  p == fls(u)  k == fls(v)
<1>1. x \in Nat /\ d \in Nat /\ x < Base * Base /\ d # 0 /\ d < x BY LimbsOf
<1>4. p \in 0..(Bits - 1) /\ Pow2[p] =< x /\ x < Pow2[p + 1] BY <1>1, FlsFindsLeadingBit
<1>5. k \in 0..(Bits - 1) /\ Pow2[k] =< d /\ d < Pow2[k + 1] BY <1>1, FlsFindsLeadingBit
<1> HIDE DEF p, k, x, d
<1>7. p \in Nat /\ k \in Nat /\ Bits \in Nat BY <1>4, <1>5, Widths
<1>8. k =< p
  <2>1. SUFFICES ASSUME p < k PROVE FALSE BY <1>7
  <2>2. p + 1 \in Nat /\ p + 1 =< k BY <1>7, <2>1
  <2>3. Pow2[p + 1] =< Pow2[k] BY <1>7, <2>2, PowMonotone
  <2>4. Pow2[p + 1] \in Nat /\ Pow2[k] \in Nat BY <1>7, <2>2, PowPositive
  <2> QED BY <1>1, <1>4, <1>5, <2>3, <2>4
<1> DEFINE n == p - k
<1>9. n \in 0..(Bits - 1) /\ n \in Nat /\ k + n = p /\ (k + 1) + n = p + 1
  BY <1>4, <1>5, <1>7, <1>8
<1>10. /\ Pow2[p] = Pow2[k] * Pow2[n] /\ Pow2[p + 1] = Pow2[k + 1] * Pow2[n]
       /\ Pow2[p + 1] = Pow2[k] * Pow2[n + 1]
  <2>1. k + 1 \in Nat /\ n + 1 \in Nat /\ k + (n + 1) = p + 1 BY <1>7, <1>9
  <2>2. Pow2[k + n] = Pow2[k] * Pow2[n] BY <1>7, <1>9, PowSum, Zenon
  <2>3. Pow2[(k + 1) + n] = Pow2[k + 1] * Pow2[n] BY <1>9, <2>1, PowSum, Zenon
  <2>4. Pow2[k + (n + 1)] = Pow2[k] * Pow2[n + 1] BY <1>7, <2>1, PowSum, Zenon
  <2> QED BY <1>9, <2>1, <2>2, <2>3, <2>4, Zenon
<1>11. /\ Pow2[k] \in Nat \ {0} /\ Pow2[n] \in Nat \ {0} /\ Pow2[n + 1] \in Nat \ {0}
       /\ Pow2[k + 1] \in Nat /\ Pow2[p + 1] \in Nat
  <2>1. k + 1 \in Nat /\ n + 1 \in Nat /\ p + 1 \in Nat BY <1>7, <1>9
  <2> QED BY <1>7, <1>9, <2>1, PowPositive
<1> HIDE DEF n
<1>12. d * Pow2[n] < Base * Base
  <2>1. \A a, b, c \in Nat : a < b /\ c # 0 => a * c < b * c OBVIOUS
  <2>2. d * Pow2[n] < Pow2[p + 1] BY <2>1, <1>1, <1>5, <1>10, <1>11
  <2>3. Pow2[p + 1] =< Base * Base
    <3>1. p + 1 \in Nat /\ p + 1 =< Bits BY <1>4, <1>7
    <3> QED BY <3>1, <1>7, PowMonotone, Widths
  <2>4. d * Pow2[n] \in Nat /\ Base * Base \in Nat BY <1>1, <1>11, Widths
  <2> QED BY <2>2, <2>3, <2>4, <1>11
<1>13. /\ ShiftLeft(v, n) \in U128
       /\ Val(ShiftLeft(v, n)) = d * Pow2[n]
  BY <1>1, <1>9, <1>12, ShiftLeftExact DEF d
<1>14. x < Pow2[n + 1] * d
  <2>1. \A a, b, c \in Nat : a =< b => c * a =< c * b OBVIOUS
  <2>2. Pow2[n + 1] * Pow2[k] =< Pow2[n + 1] * d BY <2>1, <1>1, <1>5, <1>11
  <2>3. Pow2[n + 1] * Pow2[k] = Pow2[p + 1] BY <1>10, <1>11
  <2>4. Pow2[n + 1] * d \in Nat BY <1>1, <1>11
  <2> QED BY <2>2, <2>3, <2>4, <1>1, <1>4, <1>11
<1> DEFINE s == Aligned(u, v)
<1>15. s = [dividend |-> u, quotient |-> Zero, denominator |-> ShiftLeft(v, n)]
  BY DEF Aligned, n, p, k
<1>16. s \in LoopStates BY <1>13, <1>15, ZeroAndOne DEF LoopStates
<1>17. Val(s.quotient) = 0 /\ Val(s.dividend) = x BY <1>15, ZeroAndOne DEF x
<1>18. x = 0 * Pow2[n + 1] * d + x BY <1>1, <1>11
<1>19. Val(s.denominator) = Pow2[n] * d BY <1>1, <1>11, <1>13, <1>15
<1>20. LoopReached(s, x, d, Pow2[n + 1]) BY <1>14, <1>17, <1>18 DEF LoopReached
<1> QED BY <1>9, <1>16, <1>19, <1>20 DEF x, d, n, p, k

\* The arithmetic of one iteration: W is the weight of the quotient's last bit
\* after it, d the divisor, so that the denominator is W * d.
LEMMA IterationNumbers ==
  ASSUME NEW x \in Nat, NEW q \in Nat, NEW W \in Nat \ {0}, NEW d \in Nat, NEW y \in Nat,
         x = q * (2 * W) * d + y, y < (2 * W) * d
  PROVE  /\ y >= W * d => /\ x = (2 * q + 1) * W * d + (y - W * d)
                          /\ y - W * d < W * d /\ y - W * d \in Nat
         /\ y < W * d => x = (2 * q) * W * d + y
<1> DEFINE e == W * d  z == q * e
<1>1. e \in Nat /\ z \in Nat OBVIOUS
<1>2. q * (2 * W) * d = 2 * z /\ (2 * q + 1) * W * d = 2 * z + e /\ (2 * q) * W * d = 2 * z
      /\ (2 * W) * d = 2 * e
  OBVIOUS
<1> HIDE DEF e, z
<1> QED BY <1>1, <1>2 DEF e

\* An iteration goes from the weight 2^(n+1) to 2^n, whether it subtracts or not,
\* and the quotient has room for its new bit.
LEMMA IterationSteps ==
  ASSUME NEW s \in LoopStates, NEW x \in Nat, x < Base * Base, NEW d \in Nat \ {0},
         NEW n \in Nat, LoopReached(s, x, d, Pow2[n + 1]),
         Val(s.denominator) = Pow2[n] * d
  PROVE  /\ LoopBody(s) \in LoopStates
         /\ LoopReached(LoopBody(s), x, d, Pow2[n])
         /\ n # 0 => Val(LoopBody(s).denominator) = Pow2[n - 1] * d
<1> DEFINE q == Val(s.quotient)  y == Val(s.dividend)  m == Val(s.denominator)  W == Pow2[n]
<1>2. q \in Nat /\ y \in Nat /\ Base * Base \in Nat
  BY LimbsOf, Widths DEF LoopStates
<1>4. W \in Nat \ {0} /\ Pow2[n + 1] = 2 * W BY PowPositive, PowSteps
<1>5. x = q * (2 * W) * d + y /\ y < (2 * W) * d /\ m = W * d
  <2> HIDE DEF W
  <2> QED BY <1>4 DEF LoopReached, W
<1> HIDE DEF W, q, y, m
<1>6. 2 * q < Base * Base
  <2>1. W * d \in Nat /\ W * d >= 1
    <3>1. \A a, b \in Nat \ {0} : a * b \in Nat /\ a * b >= 1 OBVIOUS
    <3> QED BY <3>1, <1>2, <1>4
  <2> DEFINE e == W * d
  <2>2. q * (2 * W) * d = (2 * q) * e BY <1>2, <1>4
  <2> HIDE DEF e
  <2>3. (2 * q) * e >= 2 * q
    <3>1. \A a, b \in Nat : b >= 1 => a * b >= a OBVIOUS
    <3> QED BY <3>1, <1>2, <2>1 DEF e
  <2>4. (2 * q) * e \in Nat BY <1>2, <2>1 DEF e
  <2> QED BY <1>2, <1>5, <2>2, <2>3, <2>4
<1> DEFINE t == LoopBody(s)
<1>7. /\ t \in LoopStates
      /\ y >= m => Val(t.dividend) = y - m /\ Val(t.quotient) = 2 * q + 1
      /\ y < m => t.dividend = s.dividend /\ Val(t.quotient) = 2 * q
      /\ Val(t.denominator) = m \div 2
  BY <1>6, LoopBodyStep DEF q, y, m
<1> HIDE DEF t
<1>9. Val(t.dividend) < W * d /\ x = Val(t.quotient) * W * d + Val(t.dividend)
  <2>1. m \in Nat BY <1>2, <1>4, <1>5
  <2>2. /\ y >= m => /\ x = (2 * q + 1) * W * d + (y - W * d)
                     /\ y - W * d < W * d
        /\ y < m => x = (2 * q) * W * d + y
    BY <1>2, <1>4, <1>5, IterationNumbers
  <2>3. CASE y >= m
    BY <2>2, <2>3, <1>5, <1>7
  <2>4. CASE y < m
    <3>1. Val(t.dividend) = y BY <2>4, <1>7 DEF y
    <3> QED BY <3>1, <2>2, <2>4, <1>5, <1>7
  <2> QED BY <2>1, <2>3, <2>4, <1>2
<1>10. ASSUME n # 0
       PROVE  Val(t.denominator) = Pow2[n - 1] * d
  <2>2. n - 1 \in Nat /\ (n - 1) + 1 = n BY <1>10
  <2> DEFINE V == Pow2[n - 1]
  <2>3. V \in Nat /\ W = 2 * V BY <2>2, PowPositive, PowSteps DEF W
  <2> HIDE DEF V
  <2>4. m = 2 * (V * d) /\ V * d \in Nat
    <3>1. (2 * V) * d = 2 * (V * d) /\ V * d \in Nat BY <2>3
    <3> QED BY <3>1, <1>5, <2>3
  <2> DEFINE v == V * d
  <2> HIDE DEF v
  <2>5. m \div 2 = v BY <2>4 DEF v
  <2> QED BY <2>5, <1>7 DEF v, V
<1> QED BY <1>7, <1>9, <1>10 DEF LoopReached, W, t

\* After the last iteration the weight is one: the numbers are the result.
LEMMA ReachedIsResult ==
  ASSUME NEW s \in LoopStates, NEW x \in Nat, NEW d \in Nat \ {0}, LoopReached(s, x, d, 1)
  PROVE  Val(s.quotient) = x \div d /\ Val(s.dividend) = x % d
<1> DEFINE q == Val(s.quotient)  y == Val(s.dividend)
<1>2. q \in Nat /\ y \in Nat BY LimbsOf DEF LoopStates
<1>4. x = q * 1 * d + y /\ y < 1 * d BY DEF LoopReached
<1> HIDE DEF q, y
<1>5. x = q * d + y /\ y < d BY <1>2, <1>4
<1>6. (q * d + y) \div d = q /\ (q * d + y) % d = y BY <1>2, <1>5, DivisionUnique
<1> QED BY <1>5, <1>6 DEF q, y

\* The body does not leave the states of the loop.
LEMMA LoopBodyCloses ==
  ASSUME NEW s \in LoopStates
  PROVE  LoopBody(s) \in LoopStates
<1> DEFINE doubled == ShiftLeft(s.quotient, 1)
<1>1. s.dividend \in U128 /\ s.quotient \in U128 /\ s.denominator \in U128 BY DEF LoopStates
<1>2. 1 \in 0..(Bits - 1) BY Widths
<1>3. doubled \in U128 /\ Val(doubled) = (Val(s.quotient) * Pow2[1]) % (Base * Base)
  BY <1>1, <1>2, ShiftLeftMultiplies
<1>4. Val(doubled) % 2 = 0
  <2>1. Pow2[1] = 2
    <3>1. 0 \in Nat /\ Pow2[0] = 1 /\ Pow2[0 + 1] = 2 * Pow2[0] BY PowSteps
    <3> QED BY <3>1
  <2>2. Base * Base = 2 * (Pow2[LimbBits - 1] * Base)
        /\ Pow2[LimbBits - 1] * Base \in Nat \ {0}
    <3>1. Pow2[LimbBits - 1] \in Nat \ {0}
      <4>1. LimbBits - 1 \in Nat BY Widths
      <4> QED BY <4>1, PowPositive
    <3>2. Base \in Nat \ {0} /\ Base = 2 * Pow2[LimbBits - 1] BY Widths
    <3>3. \A a, b \in Nat \ {0} : b = 2 * a => b * b = 2 * (a * b) /\ a * b \in Nat \ {0}
      OBVIOUS
    <3> QED BY <3>1, <3>2, <3>3
  <2> DEFINE m == Pow2[LimbBits - 1] * Base  q == Val(s.quotient)
  <2>3. q \in Nat /\ m \in Nat \ {0} BY <1>1, <2>2, LimbsOf
  <2> HIDE DEF m, q
  <2>4. Val(doubled) = (q * 2) % (2 * m) BY <1>3, <2>1, <2>2 DEF m, q
  <2>5. (q * 2) % (2 * m) = 2 * (q % m)
    <3> DEFINE a == q \div m  b == q % m
    <3>1. a \in Nat /\ b \in Nat /\ b < m /\ q = a * m + b BY <2>3, DivisionParts
    <3> HIDE DEF a, b
    <3>2. q * 2 = a * (2 * m) + 2 * b BY <2>3, <3>1
    <3>3. 2 * b < 2 * m /\ 2 * b \in Nat /\ 2 * m \in Nat \ {0} BY <2>3, <3>1
    <3>4. (a * (2 * m) + 2 * b) % (2 * m) = 2 * b BY <3>1, <3>3, DivisionUnique
    <3> QED BY <3>2, <3>4 DEF b
  <2>6. \A b \in Nat : (2 * b) % 2 = 0 OBVIOUS
  <2>7. q % m \in Nat BY <2>3
  <2> QED BY <2>4, <2>5, <2>6, <2>7
<1>5. SetLowBit(doubled) \in U128 BY <1>3, <1>4, SetLowBitOfEven
<1>6. Minus(s.dividend, s.denominator) \in U128 /\ ShiftRight(s.denominator, 1) \in U128
  BY <1>1, <1>2, MinusSubtracts, ShiftRightDivides
<1> HIDE DEF doubled
<1> QED BY <1>1, <1>3, <1>5, <1>6 DEF LoopBody, LoopStates, doubled

\* unsafe_constexpr_div_mod_impl computes quotient and remainder.
LEMMA LongDivisionDivides ==
  ASSUME NEW u \in U128, NEW v \in U128, Val(v) # 0
  PROVE  LET r == unsafe_constexpr_div_mod_impl(u, v)
         IN  /\ r.quotient \in U128 /\ r.remainder \in U128
             /\ Val(r.quotient) = Val(u) \div Val(v) /\ Val(r.remainder) = Val(u) % Val(v)
<1> DEFINE x == Val(u)  d == Val(v)  r == unsafe_constexpr_div_mod_impl(u, v)
<1>1. x \in Nat /\ x < Base * Base /\ d \in Nat \ {0} BY LimbsOf
<1>2. CASE Greater(v, u)
  <2>1. r = DivResult(Zero, u) BY <1>2 DEF unsafe_constexpr_div_mod_impl
  <2>2. x < d BY <1>1, <1>2, ComparisonsCompare
  <2>3. x \div d = 0 /\ x % d = x BY <1>1, <2>2, BelowDivisor
  <2> QED BY <2>1, <2>3, ZeroAndOne DEF DivResult
<1>3. CASE ~ Greater(v, u) /\ Equal(v, u)
  <2>1. r = DivResult(One, Zero) BY <1>3 DEF unsafe_constexpr_div_mod_impl
  <2>2. x = d BY <1>1, <1>3, ComparisonsCompare
  <2>3. \A n \in Nat \ {0} : n \div n = 1 /\ n % n = 0 OBVIOUS
  <2>4. x \div d = 1 /\ x % d = 0 BY <1>1, <2>2, <2>3
  <2> QED BY <2>1, <2>4, ZeroAndOne DEF DivResult
<1>4. CASE ~ Greater(v, u) /\ ~ Equal(v, u)
  <2> DEFINE n == fls(u) - fls(v)  start == Aligned(u, v)  after == Iterated(start)
  <2>1. r = DivResult(after[n + 1].quotient, after[n + 1].dividend)
    BY <1>4 DEF unsafe_constexpr_div_mod_impl
  <2>2. d < x BY <1>1, <1>4, ComparisonsCompare
  <2>3. /\ n \in 0..(Bits - 1) /\ start \in LoopStates
        /\ LoopReached(start, x, d, Pow2[n + 1]) /\ Val(start.denominator) = Pow2[n] * d
    BY <1>1, <2>2, AlignmentStarts
  <2>4. /\ after[0] = start
        /\ \A k \in 0..Bits : after[k] \in LoopStates
        /\ \A k \in 0..(Bits - 1) : after[k + 1] = LoopBody(after[k])
    <3> HIDE DEF start
    <3> QED BY <2>3, LoopBodyCloses, IteratedSteps
  <2> HIDE DEF n, start, after, x, d
  <2>5. Bits \in Nat /\ n \in Nat /\ n < Bits BY <2>3, Widths
  <2> DEFINE S == {k \in 0..(n + 1) :
                     /\ LoopReached(after[k], x, d, Pow2[(n + 1) - k])
                     /\ k # n + 1 => Val(after[k].denominator) = Pow2[n - k] * d}
  <2>6. 0 \in S
    <3>1. (n + 1) - 0 = n + 1 /\ n - 0 = n /\ 0 \in 0..(n + 1) BY <2>5
    <3> QED BY <3>1, <2>3, <2>4
  <2>7. ASSUME NEW k \in 0..((n + 1) - 1), k \in S
        PROVE  k + 1 \in S
    <3> DEFINE j == n - k
    <3>1. /\ k \in 0..Bits /\ k \in 0..(Bits - 1) /\ k + 1 \in 0..(n + 1) /\ j \in Nat
          /\ (n + 1) - k = j + 1 /\ (n + 1) - (k + 1) = j /\ k # n + 1
          /\ k + 1 # n + 1 => j # 0 /\ n - (k + 1) = j - 1
      BY <2>5
    <3> HIDE DEF j
    <3>2. /\ after[k] \in LoopStates /\ after[k + 1] = LoopBody(after[k])
          /\ LoopReached(after[k], x, d, Pow2[j + 1]) /\ Val(after[k].denominator) = Pow2[j] * d
      BY <2>4, <2>7, <3>1 DEF j
    <3>3. /\ LoopReached(after[k + 1], x, d, Pow2[j])
          /\ j # 0 => Val(after[k + 1].denominator) = Pow2[j - 1] * d
      BY <1>1, <3>1, <3>2, IterationSteps DEF x, d
    <3> QED BY <3>1, <3>3
  <2>8. n + 1 \in S
    <3> HIDE DEF S
    <3>1. n + 1 \in Nat /\ n + 1 \in 0..(n + 1) BY <2>5
    <3>2. \A k \in 0..((n + 1) - 1) : k \in S => k + 1 \in S BY <2>7
    <3> QED BY <3>1, <3>2, <2>6, UpTo
  <2>9. LoopReached(after[n + 1], x, d, 1)
    <3>1. (n + 1) - (n + 1) = 0 BY <2>5
    <3> QED BY <2>8, <3>1, PowSteps
  <2>10. after[n + 1] \in LoopStates BY <2>4, <2>5
  <2>11. Val(after[n + 1].quotient) = x \div d /\ Val(after[n + 1].dividend) = x % d
    BY <1>1, <2>9, <2>10, ReachedIsResult DEF x, d
  <2> QED BY <2>1, <2>10, <2>11 DEF DivResult, LoopStates, x, d
<1> QED BY <1>2, <1>3, <1>4

\* unsafe_div_mod is exact in every mode: by the loop, or by two divisions of a pair
\* of limbs where the divisor has one limb (uint128.inl:2628-2705, 2756-2795).
THEOREM DivisionDivides ==
  ASSUME NEW u \in U128, NEW v \in U128, Val(v) # 0
  PROVE  LET r == unsafe_div_mod(u, v)
         IN  /\ r.quotient \in U128 /\ r.remainder \in U128
             /\ Val(r.quotient) = Val(u) \div Val(v) /\ Val(r.remainder) = Val(u) % Val(v)
<1> DEFINE r == unsafe_div_mod(u, v)
<1>1. CASE CalculationMode # "msvc_x64" \/ (~ Greater(v, u) /\ v.high # 0)
  <2>1. r = unsafe_constexpr_div_mod_impl(u, v)
    BY <1>1 DEF unsafe_div_mod, div_mod_msc_x64_impl
  <2> HIDE DEF r
  <2> QED BY <2>1, LongDivisionDivides DEF r
<1>2. CASE CalculationMode = "msvc_x64" /\ Greater(v, u)
  <2>1. r = DivResult(Zero, u) BY <1>2 DEF unsafe_div_mod, div_mod_msc_x64_impl
  <2>2. Val(u) < Val(v) /\ Val(u) \in Nat /\ Val(v) \in Nat \ {0}
    BY <1>2, LimbsOf, ComparisonsCompare
  <2>3. Val(u) \div Val(v) = 0 /\ Val(u) % Val(v) = Val(u) BY <2>2, BelowDivisor
  <2> QED BY <2>1, <2>3, ZeroAndOne DEF DivResult
<1>3. CASE CalculationMode = "msvc_x64" /\ ~ Greater(v, u) /\ v.high = 0
  <2>1. r = DivideByLimb(u, v.low) BY <1>3 DEF unsafe_div_mod, div_mod_msc_x64_impl
  <2>2. v.low \in Nat \ {0} /\ v.low < Base /\ Val(v) = v.low
    <3>1. \A n \in Nat : 0 * Base + n = n BY Widths
    <3> QED BY <1>3, <3>1, LimbsOf
  <2> HIDE DEF r
  <2> QED BY <2>1, <2>2, ShortDivisionDivides DEF r
<1> QED BY <1>1, <1>2, <1>3
=============================================================================
