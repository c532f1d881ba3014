--------------------------- MODULE TextStreamProofs ---------------------------
(***************************************************************************)
(* What texts become when they are parsed, and numbers when they are        *)
(* written and read back, for numbers of any width of whole bytes and texts *)
(* of any length.                                                           *)
(***************************************************************************)
EXTENDS TextStream, Uint128Theorems, SequenceTheorems

-----------------------------------------------------------------------------
(* Texts without some of their characters *)

\* A function on 0..n with values in T can be given by its first value and its steps.
HasRecursion(T) ==
  \A z \in T : \A k \in Nat : \A st \in [1..k -> [T -> T]] :
    \E g \in [0..k -> T] : g[0] = z /\ \A i \in 1..k : g[i] = st[i][g[i - 1]]

\* FiniteRecursion, under a name that hides the function.
LEMMA Recursions == \A T : HasRecursion(T)
BY FiniteRecursion DEF HasRecursion

\* w holds what is left of the text up to each of its characters.
Leaves(w, S, text, C) ==
  /\ w \in [0..Len(text) -> Seq(S)]
  /\ w[0] = <<>>
  /\ \A i \in 1..Len(text) :
       w[i] = w[i - 1] \o (IF text[i] \in C THEN <<>> ELSE <<text[i]>>)
  /\ Without(text, C) = w[Len(text)]

\* The text that is left grows character by character.
LEMMA WithoutSteps == \A S : \A text \in Seq(S) : \A C : \E w : Leaves(w, S, text, C)
<1> SUFFICES ASSUME NEW S, NEW text \in Seq(S), NEW C
             PROVE  \E w : Leaves(w, S, text, C)
  OBVIOUS
<1> DEFINE n == Len(text)
           e == [i \in 1..n |-> IF text[i] \in C THEN <<>> ELSE <<text[i]>>]
           step == [i \in 1..n |-> [s \in Seq(S) |-> s \o e[i]]]
           Eq(h) == h = [i \in 0..n |-> IF i = 0 THEN <<>> ELSE h[i - 1] \o e[i]]
           Eq2(h) == h = [i \in 0..n |->
                            IF i = 0 THEN <<>>
                            ELSE h[i - 1] \o IF text[i] \in C THEN <<>> ELSE <<text[i]>>]
           u == CHOOSE u : Eq2(u)
<1>1. n \in Nat OBVIOUS
<1>2. \A i \in 1..n : e[i] \in Seq(S)
  <2>1. \A i \in 1..n : text[i] \in S OBVIOUS
  <2>2. <<>> \in Seq(S) /\ \A x \in S : <<x>> \in Seq(S) OBVIOUS
  <2> QED BY <2>1, <2>2
<1>3. \A h : Eq(h) <=> Eq2(h)
  <2> TAKE h
  <2>1. \A i \in 0..n : i # 0 =>
          h[i - 1] \o e[i] = h[i - 1] \o IF text[i] \in C THEN <<>> ELSE <<text[i]>>
    <3> TAKE i \in 0..n
    <3> HAVE i # 0
    <3>1. i \in 1..n BY <1>1
    <3> QED BY <3>1
  <2> HIDE DEF e
  <2> QED BY <2>1
<1> HIDE DEF e
<1>4. step \in [1..n -> [Seq(S) -> Seq(S)]]
  <2>1. \A i \in 1..n : \A s \in Seq(S) : s \o e[i] \in Seq(S) BY <1>2
  <2> HIDE DEF n
  <2> QED BY <2>1
<1>5. <<>> \in Seq(S) OBVIOUS
<1>6. \A i \in 1..n : \A s \in Seq(S) : step[i][s] = s \o e[i] OBVIOUS
<1> HIDE DEF step
<1>7. PICK g \in [0..n -> Seq(S)] :
        g[0] = <<>> /\ \A i \in 1..n : g[i] = step[i][g[i - 1]]
  <2> HIDE DEF n
  <2> DEFINE T == Seq(S)
  <2> HIDE DEF T
  <2>1. HasRecursion(T) BY Recursions
  <2>2. step \in [1..n -> [T -> T]] /\ <<>> \in T BY <1>4, <1>5 DEF T
  <2>3. \E g \in [0..n -> T] : g[0] = <<>> /\ \A i \in 1..n : g[i] = step[i][g[i - 1]]
    BY <2>1, <2>2, <1>1 DEF HasRecursion
  <2> QED BY <2>3 DEF T
<1>8. \A i \in 1..n : i - 1 \in 0..n /\ i \in 0..n BY <1>1
<1>9. \A i \in 1..n : g[i] = g[i - 1] \o e[i] BY <1>6, <1>7, <1>8
<1>10. Eq(g)
  <2>1. \A i \in 0..n : g[i] = IF i = 0 THEN <<>> ELSE g[i - 1] \o e[i]
    <3>1. \A i \in 0..n : i # 0 => i \in 1..n BY <1>1
    <3> QED BY <3>1, <1>7, <1>9
  <2>2. g = [i \in 0..n |-> g[i]] BY <1>7
  <2> HIDE DEF n
  <2> QED BY <2>1, <2>2
<1>11. Eq2(u)
  <2> HIDE DEF Eq, Eq2
  <2> QED BY <1>3, <1>10
<1>12. Eq(u)
  <2> HIDE DEF Eq, Eq2
  <2> QED BY <1>3, <1>11
<1>13. Without(text, C) = u[n] BY DEF Without
<1> HIDE DEF u
<1>14. u[0] = <<>> /\ \A i \in 1..n : u[i] = u[i - 1] \o e[i]
  <2>1. \A i \in 0..n : u[i] = IF i = 0 THEN <<>> ELSE u[i - 1] \o e[i] BY <1>12
  <2>2. 0 \in 0..n /\ \A i \in 1..n : i \in 0..n /\ i # 0 BY <1>1
  <2> QED BY <2>1, <2>2
<1> DEFINE D == {i \in 0..n : u[i] = g[i]}
<1>15. \A i \in 0..n : i \in D
  <2>1. 0 \in D BY <1>1, <1>7, <1>14
  <2>2. \A i \in 0..(n - 1) : i \in D => i + 1 \in D
    <3> TAKE i \in 0..(n - 1)
    <3>1. i + 1 \in 1..n /\ (i + 1) - 1 = i BY <1>1
    <3> QED BY <3>1, <1>8, <1>9, <1>14
  <2> HIDE DEF D
  <2> QED BY <1>1, <2>1, <2>2, UpTo
<1>16. Without(text, C) = g[n] BY <1>1, <1>13, <1>15
<1>17. \A i \in 1..n : g[i] = g[i - 1] \o (IF text[i] \in C THEN <<>> ELSE <<text[i]>>)
  BY <1>9 DEF e
<1> QED BY <1>7, <1>16, <1>17 DEF Leaves

\* What is left of a text has its characters that are not taken out, and no others.
LEMMA WithoutElements ==
  ASSUME NEW S, NEW text \in Seq(S), NEW C
  PROVE  /\ Without(text, C) \in Seq(S)
         /\ \A j \in 1..Len(Without(text, C)) :
              /\ Without(text, C)[j] \notin C
              /\ \E i \in 1..Len(text) : text[i] = Without(text, C)[j]
         /\ \A i \in 1..Len(text) : text[i] \notin C =>
              \E j \in 1..Len(Without(text, C)) : Without(text, C)[j] = text[i]
<1> DEFINE n == Len(text)
<1>1. n \in Nat /\ \A i \in 1..n : text[i] \in S OBVIOUS
<1>2. PICK w :
      /\ w \in [0..n -> Seq(S)]
      /\ w[0] = <<>>
      /\ \A i \in 1..n : w[i] = w[i - 1] \o (IF text[i] \in C THEN <<>> ELSE <<text[i]>>)
      /\ Without(text, C) = w[n]
  <2>1. text \in Seq(S) OBVIOUS
  <2>2. \E z : Leaves(z, S, text, C)
    BY <2>1, WithoutSteps, Zenon
  <2>3. Len(text) = n BY <1>1
  <2> HIDE DEF n
  <2> QED BY <2>2, <2>3 DEF Leaves
<1> DEFINE P(s, k) ==
             /\ \A j \in 1..Len(s) : s[j] \notin C /\ \E i \in 1..k : text[i] = s[j]
             /\ \A i \in 1..k : text[i] \notin C => \E j \in 1..Len(s) : s[j] = text[i]
           D == {k \in 0..n : P(w[k], k)}
<1> HIDE DEF n
<1>3. 0 \in D BY <1>1, <1>2
<1>4. ASSUME NEW k \in 0..(n - 1), k \in D
      PROVE  k + 1 \in D
  <2> DEFINE s == w[k]  t == w[k + 1]
  <2>1. k \in Nat /\ k + 1 \in 1..n /\ (k + 1) - 1 = k /\ k \in 0..n /\ k + 1 \in 0..n BY <1>1
  <2>2. s \in Seq(S) /\ t \in Seq(S) BY <1>2, <2>1
  <2>3. t = s \o (IF text[k + 1] \in C THEN <<>> ELSE <<text[k + 1]>>) BY <1>2, <2>1
  <2>4. P(s, k) BY <1>4
  <2> HIDE DEF s, t
  <2>5. CASE text[k + 1] \in C
    <3>1. t = s BY <2>2, <2>3, <2>5
    <3>2. \A i \in 1..(k + 1) : text[i] \notin C => i \in 1..k BY <2>1, <2>5
    <3>3. \A i \in 1..k : i \in 1..(k + 1) BY <2>1
    <3>4. P(t, k + 1) BY <2>4, <3>1, <3>2, <3>3
    <3> QED BY <2>1, <3>4 DEF t
  <2>6. CASE text[k + 1] \notin C
    <3>1. t = s \o <<text[k + 1]>> BY <2>3, <2>6
    <3>2. Len(t) = Len(s) + 1 /\ t[Len(s) + 1] = text[k + 1] /\ Len(s) \in Nat
          /\ \A j \in 1..Len(s) : t[j] = s[j]
      BY <1>1, <2>1, <2>2, <3>1
    <3>3. \A j \in 1..Len(t) : t[j] \notin C /\ \E i \in 1..(k + 1) : text[i] = t[j]
      <4> TAKE j \in 1..Len(t)
      <4>1. CASE j = Len(s) + 1
        <5>1. k + 1 \in 1..(k + 1) BY <2>1
        <5> QED BY <3>2, <4>1, <5>1, <2>6
      <4>2. CASE j # Len(s) + 1
        <5>1. j \in 1..Len(s) BY <3>2, <4>2
        <5>2. s[j] \notin C /\ \E i \in 1..k : text[i] = s[j] BY <5>1, <2>4
        <5>3. \A i \in 1..k : i \in 1..(k + 1) BY <2>1
        <5> QED BY <5>1, <5>2, <5>3, <3>2
      <4> QED BY <4>1, <4>2
    <3>4. \A i \in 1..(k + 1) : text[i] \notin C => \E j \in 1..Len(t) : t[j] = text[i]
      <4> TAKE i \in 1..(k + 1)
      <4> HAVE text[i] \notin C
      <4>1. CASE i = k + 1
        <5>1. Len(s) + 1 \in 1..Len(t) BY <3>2
        <5> QED BY <3>2, <4>1, <5>1
      <4>2. CASE i # k + 1
        <5>1. i \in 1..k BY <2>1, <4>2
        <5>2. PICK j \in 1..Len(s) : s[j] = text[i] BY <5>1, <2>4
        <5>3. j \in 1..Len(t) /\ t[j] = s[j] BY <3>2
        <5> QED BY <5>2, <5>3
      <4> QED BY <4>1, <4>2
    <3>5. P(t, k + 1) BY <3>3, <3>4
    <3> QED BY <2>1, <3>5 DEF t
  <2> QED BY <2>5, <2>6
<1>5. n \in D
  <2>1. \A k \in 0..(n - 1) : k \in D => k + 1 \in D BY <1>4
  <2>2. n \in 0..n BY <1>1
  <2> HIDE DEF D
  <2> QED BY <1>1, <1>3, <2>1, <2>2, UpTo
<1>6. P(Without(text, C), n) /\ Without(text, C) \in Seq(S)
  <2>1. n \in 0..n BY <1>1
  <2> QED BY <1>2, <1>5, <2>1
<1> QED BY <1>6 DEF n

\* Two sets that take the same characters of a text leave the same, ...
LEMMA WithoutAgree ==
  ASSUME NEW S, NEW text \in Seq(S), NEW C, NEW D,
         \A i \in 1..Len(text) : text[i] \in C <=> text[i] \in D
  PROVE  Without(text, C) = Without(text, D)
<1> DEFINE n == Len(text)
<1>1. n \in Nat OBVIOUS
<1>2. PICK w :
      /\ w \in [0..n -> Seq(S)]
      /\ w[0] = <<>>
      /\ \A i \in 1..n : w[i] = w[i - 1] \o (IF text[i] \in C THEN <<>> ELSE <<text[i]>>)
      /\ Without(text, C) = w[n]
  <2>1. text \in Seq(S) OBVIOUS
  <2>2. \E z : Leaves(z, S, text, C)
    BY <2>1, WithoutSteps, Zenon
  <2>3. Len(text) = n BY <1>1
  <2> HIDE DEF n
  <2> QED BY <2>2, <2>3 DEF Leaves
<1>3. PICK x :
      /\ x \in [0..n -> Seq(S)]
      /\ x[0] = <<>>
      /\ \A i \in 1..n : x[i] = x[i - 1] \o (IF text[i] \in D THEN <<>> ELSE <<text[i]>>)
      /\ Without(text, D) = x[n]
  <2>1. text \in Seq(S) OBVIOUS
  <2>2. \E z : Leaves(z, S, text, D)
    BY <2>1, WithoutSteps, Zenon
  <2>3. Len(text) = n BY <1>1
  <2> HIDE DEF n
  <2> QED BY <2>2, <2>3 DEF Leaves
<1> DEFINE E == {k \in 0..n : w[k] = x[k]}
<1>4. \A i \in 1..n : text[i] \in C <=> text[i] \in D OBVIOUS
<1> HIDE DEF n
<1>5. 0 \in E BY <1>1, <1>2, <1>3
<1>6. \A k \in 0..(n - 1) : k \in E => k + 1 \in E
  <2> TAKE k \in 0..(n - 1)
  <2> HAVE k \in E
  <2>1. k + 1 \in 1..n /\ (k + 1) - 1 = k /\ k + 1 \in 0..n BY <1>1
  <2>2. w[k + 1] = w[k] \o (IF text[k + 1] \in C THEN <<>> ELSE <<text[k + 1]>>)
    BY <1>2, <2>1
  <2>3. x[k + 1] = x[k] \o (IF text[k + 1] \in D THEN <<>> ELSE <<text[k + 1]>>)
    BY <1>3, <2>1
  <2>4. (text[k + 1] \in C <=> text[k + 1] \in D) /\ w[k] = x[k] BY <1>4, <2>1
  <2>5. w[k + 1] = x[k + 1] BY <2>2, <2>3, <2>4
  <2> QED BY <2>1, <2>5
<1>7. n \in E
  <2>1. n \in 0..n BY <1>1
  <2> HIDE DEF E
  <2> QED BY <1>1, <1>5, <1>6, <2>1, UpTo
<1> QED BY <1>2, <1>3, <1>7

\* ... all of it if they take none, and nothing if they take every one.
LEMMA WithoutNoneOrAll ==
  ASSUME NEW S, NEW text \in Seq(S), NEW C
  PROVE  /\ (\A i \in 1..Len(text) : text[i] \notin C) => Without(text, C) = text
         /\ (\A i \in 1..Len(text) : text[i] \in C) => Without(text, C) = <<>>
<1> DEFINE n == Len(text)
<1>1. n \in Nat OBVIOUS
<1>2. PICK w :
      /\ w \in [0..n -> Seq(S)]
      /\ w[0] = <<>>
      /\ \A i \in 1..n : w[i] = w[i - 1] \o (IF text[i] \in C THEN <<>> ELSE <<text[i]>>)
      /\ Without(text, C) = w[n]
  <2>1. text \in Seq(S) OBVIOUS
  <2>2. \E z : Leaves(z, S, text, C)
    BY <2>1, WithoutSteps, Zenon
  <2>3. Len(text) = n BY <1>1
  <2> HIDE DEF n
  <2> QED BY <2>2, <2>3 DEF Leaves
<1>3. ASSUME \A i \in 1..n : text[i] \notin C
      PROVE  Without(text, C) = text
  <2> DEFINE E == {k \in 0..n : Len(w[k]) = k /\ \A j \in 1..k : w[k][j] = text[j]}
  <2>1. 0 \in E BY <1>1, <1>2
  <2>2. \A k \in 0..(n - 1) : k \in E => k + 1 \in E
    <3> TAKE k \in 0..(n - 1)
    <3> HAVE k \in E
    <3>1. k \in Nat /\ k + 1 \in 1..n /\ (k + 1) - 1 = k /\ k \in 0..n /\ k + 1 \in 0..n
      BY <1>1
    <3>2. w[k + 1] = w[k] \o <<text[k + 1]>> BY <1>2, <1>3, <3>1
    <3>3. w[k] \in Seq(S) /\ text[k + 1] \in S /\ Len(w[k]) = k BY <1>2, <3>1
    <3>4. Len(w[k + 1]) = k + 1 /\ w[k + 1][k + 1] = text[k + 1]
          /\ \A j \in 1..k : w[k + 1][j] = w[k][j]
      <4> DEFINE a == w[k]  c == text[k + 1]
      <4>1. a \in Seq(S) /\ c \in S /\ Len(a) = k BY <3>3
      <4> HIDE DEF a, c
      <4>2. Len(a \o <<c>>) = k + 1 /\ (a \o <<c>>)[k + 1] = c
            /\ \A j \in 1..k : (a \o <<c>>)[j] = a[j]
        BY <3>1, <4>1
      <4> QED BY <3>2, <4>2 DEF a, c
    <3>5. \A j \in 1..(k + 1) : w[k + 1][j] = text[j]
      <4> TAKE j \in 1..(k + 1)
      <4>1. j = k + 1 \/ j \in 1..k BY <3>1
      <4> QED BY <4>1, <3>4
    <3> QED BY <3>1, <3>4, <3>5
  <2>3. n \in E
    <3>1. n \in 0..n BY <1>1
    <3> HIDE DEF E, n
    <3> QED BY <1>1, <2>1, <2>2, <3>1, UpTo
  <2>4. w[n] \in Seq(S) BY <1>1, <1>2
  <2>5. w[n] = text BY <2>3, <2>4, SeqEqual
  <2> QED BY <1>2, <2>5
<1>4. ASSUME \A i \in 1..n : text[i] \in C
      PROVE  Without(text, C) = <<>>
  <2> DEFINE E == {k \in 0..n : w[k] = <<>>}
  <2>1. 0 \in E BY <1>1, <1>2
  <2>2. \A k \in 0..(n - 1) : k \in E => k + 1 \in E
    <3> TAKE k \in 0..(n - 1)
    <3> HAVE k \in E
    <3>1. k + 1 \in 1..n /\ (k + 1) - 1 = k /\ k + 1 \in 0..n BY <1>1
    <3>2. w[k + 1] = w[k] \o <<>> BY <1>2, <1>4, <3>1
    <3> QED BY <3>1, <3>2
  <2>3. n \in E
    <3>1. n \in 0..n BY <1>1
    <3> HIDE DEF E, n
    <3> QED BY <1>1, <2>1, <2>2, <3>1, UpTo
  <2> QED BY <1>2, <2>3
<1> QED BY <1>3, <1>4

\* What is left of two texts in a row.
LEMMA WithoutConcat ==
  ASSUME NEW S, NEW s \in Seq(S), NEW t \in Seq(S), NEW C
  PROVE  Without(s \o t, C) = Without(s, C) \o Without(t, C)
<1> DEFINE m == Len(s)  n == Len(t)  r == s \o t
<1>1. m \in Nat /\ n \in Nat /\ r \in Seq(S) /\ Len(r) = m + n
      /\ (\A i \in 1..m : r[i] = s[i]) /\ (\A i \in 1..n : r[m + i] = t[i])
      /\ \A i \in 1..n : t[i] \in S
  OBVIOUS
<1>2. PICK w :
      /\ w \in [0..(m + n) -> Seq(S)]
      /\ w[0] = <<>>
      /\ \A i \in 1..(m + n) : w[i] = w[i - 1] \o (IF r[i] \in C THEN <<>> ELSE <<r[i]>>)
      /\ Without(r, C) = w[m + n]
  <2>1. r \in Seq(S) OBVIOUS
  <2>2. \E z : Leaves(z, S, r, C)
    <3> HIDE DEF r, m, n
    <3> QED BY <2>1, WithoutSteps, Zenon
  <2>3. Len(r) = m + n BY <1>1
  <2> HIDE DEF r, m, n
  <2> QED BY <2>2, <2>3 DEF Leaves
<1>3. PICK x :
      /\ x \in [0..m -> Seq(S)]
      /\ x[0] = <<>>
      /\ \A i \in 1..m : x[i] = x[i - 1] \o (IF s[i] \in C THEN <<>> ELSE <<s[i]>>)
      /\ Without(s, C) = x[m]
  <2>1. s \in Seq(S) OBVIOUS
  <2>2. \E z : Leaves(z, S, s, C)
    BY <2>1, WithoutSteps, Zenon
  <2>3. Len(s) = m BY <1>1
  <2> HIDE DEF r, m, n
  <2> QED BY <2>2, <2>3 DEF Leaves
<1>4. PICK y :
      /\ y \in [0..n -> Seq(S)]
      /\ y[0] = <<>>
      /\ \A i \in 1..n : y[i] = y[i - 1] \o (IF t[i] \in C THEN <<>> ELSE <<t[i]>>)
      /\ Without(t, C) = y[n]
  <2>1. t \in Seq(S) OBVIOUS
  <2>2. \E z : Leaves(z, S, t, C)
    BY <2>1, WithoutSteps, Zenon
  <2>3. Len(t) = n BY <1>1
  <2> HIDE DEF r, m, n
  <2> QED BY <2>2, <2>3 DEF Leaves
<1> HIDE DEF m, n, r
<1> DEFINE E == {k \in 0..m : w[k] = x[k]}
<1>5. m \in E
  <2>1. 0 \in E BY <1>1, <1>2, <1>3
  <2>2. \A k \in 0..(m - 1) : k \in E => k + 1 \in E
    <3> TAKE k \in 0..(m - 1)
    <3> HAVE k \in E
    <3>1. k + 1 \in 1..m /\ k + 1 \in 1..(m + n) /\ (k + 1) - 1 = k /\ k + 1 \in 0..m BY <1>1
    <3>2. w[k + 1] = w[k] \o (IF r[k + 1] \in C THEN <<>> ELSE <<r[k + 1]>>) BY <1>2, <3>1
    <3>3. x[k + 1] = x[k] \o (IF s[k + 1] \in C THEN <<>> ELSE <<s[k + 1]>>) BY <1>3, <3>1
    <3>4. r[k + 1] = s[k + 1] /\ w[k] = x[k] BY <1>1, <3>1
    <3>5. w[k + 1] = x[k + 1] BY <3>2, <3>3, <3>4
    <3> QED BY <3>1, <3>5
  <2>3. m \in 0..m BY <1>1
  <2> HIDE DEF E
  <2> QED BY <1>1, <2>1, <2>2, <2>3, UpTo
<1>6. w[m] = x[m] /\ x[m] \in Seq(S) BY <1>1, <1>3, <1>5
<1> DEFINE F == {k \in 0..n : w[m + k] = x[m] \o y[k]}
<1>7. n \in F
  <2>1. 0 \in F
    <3>1. m + 0 = m /\ 0 \in 0..n BY <1>1
    <3>2. x[m] \o <<>> = x[m] BY <1>6, ConcatEmptySeq
    <3>3. w[m + 0] = x[m] \o y[0] BY <3>1, <3>2, <1>4, <1>6
    <3> QED BY <3>1, <3>3
  <2>2. \A k \in 0..(n - 1) : k \in F => k + 1 \in F
    <3> TAKE k \in 0..(n - 1)
    <3> HAVE k \in F
    <3> DEFINE c == IF t[k + 1] \in C THEN <<>> ELSE <<t[k + 1]>>
    <3>1. k + 1 \in 1..n /\ m + (k + 1) \in 1..(m + n) /\ (m + (k + 1)) - 1 = m + k
          /\ (k + 1) - 1 = k /\ k + 1 \in 0..n /\ k \in 0..n
      BY <1>1
    <3>2. r[m + (k + 1)] = t[k + 1] /\ t[k + 1] \in S BY <1>1, <3>1
    <3>3. w[m + (k + 1)] = w[m + k] \o c BY <1>2, <3>1, <3>2
    <3>4. y[k + 1] = y[k] \o c BY <1>4, <3>1
    <3>5. c \in Seq(S) BY <3>2
    <3>6. w[m + k] = x[m] \o y[k] OBVIOUS
    <3>7. y[k] \in Seq(S) BY <1>4, <3>1
    <3> HIDE DEF c
    <3>8. (x[m] \o y[k]) \o c = x[m] \o (y[k] \o c)
      <4>1. \A a, b, d \in Seq(S) : (a \o b) \o d = a \o (b \o d) BY ConcatAssociative, SMTT(30)
      <4> QED BY <4>1, <1>6, <3>5, <3>7, Zenon
    <3>9. w[m + (k + 1)] = x[m] \o y[k + 1] BY <3>3, <3>4, <3>6, <3>8
    <3> QED BY <3>1, <3>9
  <2>3. n \in 0..n BY <1>1
  <2> HIDE DEF F
  <2> QED BY <1>1, <2>1, <2>2, <2>3, UpTo
<1>8. Without(r, C) = Without(s, C) \o Without(t, C) BY <1>2, <1>3, <1>4, <1>7
<1> QED BY <1>8 DEF r

-----------------------------------------------------------------------------
(* The number that digits denote *)

\* d holds the numbers that the digits denote up to each of them.
Reads(d, digits, base) ==
  /\ d \in [0..Len(digits) -> Nat]
  /\ d[0] = 0
  /\ \A i \in 1..Len(digits) : d[i] = d[i - 1] * base + digits[i]
  /\ Denoted(digits, base) = d[Len(digits)]

\* The number grows digit by digit.
LEMMA DenotedSteps == \A digits \in Seq(Nat) : \A base \in Nat : \E d : Reads(d, digits, base)
<1> SUFFICES ASSUME NEW digits \in Seq(Nat), NEW base \in Nat
             PROVE  \E d : Reads(d, digits, base)
  OBVIOUS
<1> DEFINE n == Len(digits)
           step == [i \in 1..n |-> [m \in Nat |-> m * base + digits[i]]]
           Eq(h) == h = [i \in 0..n |-> IF i = 0 THEN 0 ELSE h[i - 1] * base + digits[i]]
           u == CHOOSE u : Eq(u)
<1>1. n \in Nat /\ \A i \in 1..n : digits[i] \in Nat OBVIOUS
<1>2. \A m, c \in Nat : m * base + c \in Nat OBVIOUS
<1>3. step \in [1..n -> [Nat -> Nat]]
  <2> HIDE DEF n
  <2> QED BY <1>1, <1>2
<1>4. \A i \in 1..n : \A m \in Nat : step[i][m] = m * base + digits[i] OBVIOUS
<1> HIDE DEF step
<1>5. PICK g \in [0..n -> Nat] : g[0] = 0 /\ \A i \in 1..n : g[i] = step[i][g[i - 1]]
  <2> DEFINE T == Nat
  <2> HIDE DEF T, n
  <2>1. HasRecursion(T) BY Recursions
  <2>2. step \in [1..n -> [T -> T]] /\ 0 \in T BY <1>3 DEF T
  <2>3. \E g \in [0..n -> T] : g[0] = 0 /\ \A i \in 1..n : g[i] = step[i][g[i - 1]]
    BY <2>1, <2>2, <1>1 DEF HasRecursion
  <2> QED BY <2>3 DEF T
<1>6. \A i \in 1..n : i - 1 \in 0..n /\ i \in 0..n BY <1>1
<1>7. \A i \in 1..n : g[i] = g[i - 1] * base + digits[i] BY <1>4, <1>5, <1>6
<1>8. Eq(g)
  <2>1. \A i \in 0..n : g[i] = IF i = 0 THEN 0 ELSE g[i - 1] * base + digits[i]
    <3>1. \A i \in 0..n : i # 0 => i \in 1..n BY <1>1
    <3> QED BY <3>1, <1>5, <1>7
  <2>2. g = [i \in 0..n |-> g[i]] BY <1>5
  <2> HIDE DEF n
  <2> QED BY <2>1, <2>2
<1>9. Eq(u)
  <2> HIDE DEF Eq
  <2> QED BY <1>8
<1>10. Denoted(digits, base) = u[n] BY DEF Denoted
<1> HIDE DEF u
<1>11. u[0] = 0 /\ \A i \in 1..n : u[i] = u[i - 1] * base + digits[i]
  <2>1. \A i \in 0..n : u[i] = IF i = 0 THEN 0 ELSE u[i - 1] * base + digits[i] BY <1>9
  <2>2. 0 \in 0..n /\ \A i \in 1..n : i \in 0..n /\ i # 0 BY <1>1
  <2> QED BY <2>1, <2>2
<1> DEFINE D == {i \in 0..n : u[i] = g[i]}
<1>12. n \in D
  <2>1. 0 \in D BY <1>1, <1>5, <1>11
  <2>2. \A i \in 0..(n - 1) : i \in D => i + 1 \in D
    <3> TAKE i \in 0..(n - 1)
    <3>1. i + 1 \in 1..n /\ (i + 1) - 1 = i BY <1>1
    <3> QED BY <3>1, <1>6, <1>7, <1>11
  <2>3. n \in 0..n BY <1>1
  <2> HIDE DEF D
  <2> QED BY <1>1, <2>1, <2>2, <2>3, UpTo
<1>13. Denoted(digits, base) = g[n] BY <1>1, <1>10, <1>12
<1> QED BY <1>5, <1>7, <1>13 DEF Reads

\* Digits in a row: those behind shift the others by their count.
LEMMA DenotedConcat ==
  ASSUME NEW s \in Seq(Nat), NEW t \in Seq(Nat), NEW b \in Nat
  PROVE  /\ Denoted(s \o t, b) = Denoted(s, b) * Power(b, Len(t)) + Denoted(t, b)
         /\ Denoted(s, b) \in Nat /\ Denoted(t, b) \in Nat
<1> DEFINE m == Len(s)  n == Len(t)  r == s \o t
<1>1. m \in Nat /\ n \in Nat /\ r \in Seq(Nat) /\ Len(r) = m + n
      /\ (\A i \in 1..m : r[i] = s[i]) /\ (\A i \in 1..n : r[m + i] = t[i])
      /\ \A i \in 1..n : t[i] \in Nat
  OBVIOUS
<1>2. PICK w : Reads(w, r, b) BY <1>1, DenotedSteps
<1>3. PICK x : Reads(x, s, b) BY DenotedSteps
<1>4. PICK y : Reads(y, t, b) BY DenotedSteps
<1>5. /\ w \in [0..(m + n) -> Nat] /\ w[0] = 0
      /\ \A i \in 1..(m + n) : w[i] = w[i - 1] * b + r[i]
      /\ Denoted(r, b) = w[m + n]
  <2> HIDE DEF m, n, r
  <2> QED BY <1>1, <1>2 DEF Reads
<1>6. /\ x \in [0..m -> Nat] /\ x[0] = 0
      /\ \A i \in 1..m : x[i] = x[i - 1] * b + s[i]
      /\ Denoted(s, b) = x[m]
  BY <1>3 DEF Reads
<1>7. /\ y \in [0..n -> Nat] /\ y[0] = 0
      /\ \A i \in 1..n : y[i] = y[i - 1] * b + t[i]
      /\ Denoted(t, b) = y[n]
  BY <1>4 DEF Reads
<1> HIDE DEF m, n, r
<1> DEFINE E == {k \in 0..m : w[k] = x[k]}
<1>8. m \in E
  <2>1. 0 \in E BY <1>1, <1>5, <1>6
  <2>2. \A k \in 0..(m - 1) : k \in E => k + 1 \in E
    <3> TAKE k \in 0..(m - 1)
    <3> HAVE k \in E
    <3>1. k + 1 \in 1..m /\ k + 1 \in 1..(m + n) /\ (k + 1) - 1 = k /\ k + 1 \in 0..m BY <1>1
    <3>2. w[k + 1] = w[k] * b + r[k + 1] BY <1>5, <3>1
    <3>3. x[k + 1] = x[k] * b + s[k + 1] BY <1>6, <3>1
    <3>4. r[k + 1] = s[k + 1] /\ w[k] = x[k] BY <1>1, <3>1
    <3>5. w[k + 1] = x[k + 1] BY <3>2, <3>3, <3>4
    <3> QED BY <3>1, <3>5
  <2>3. m \in 0..m BY <1>1
  <2> HIDE DEF E
  <2> QED BY <1>1, <2>1, <2>2, <2>3, UpTo
<1> DEFINE a == x[m]
<1>9. w[m] = a /\ a \in Nat BY <1>1, <1>6, <1>8
<1> HIDE DEF a
<1> DEFINE F == {k \in 0..n : w[m + k] = a * Power(b, k) + y[k]}
<1>10. n \in F
  <2>1. 0 \in F
    <3>1. m + 0 = m /\ 0 \in 0..n BY <1>1
    <3>2. a * Power(b, 0) + y[0] = a
      <4>1. a * 1 + 0 = a BY <1>9
      <4> QED BY <4>1, <1>7, PowerSteps
    <3> QED BY <3>1, <3>2, <1>9
  <2>2. \A k \in 0..(n - 1) : k \in F => k + 1 \in F
    <3> TAKE k \in 0..(n - 1)
    <3> HAVE k \in F
    <3> DEFINE P == Power(b, k)  c == t[k + 1]  z == y[k]
    <3>1. k + 1 \in 1..n /\ m + (k + 1) \in 1..(m + n) /\ (m + (k + 1)) - 1 = m + k
          /\ (k + 1) - 1 = k /\ k + 1 \in 0..n /\ k \in 0..n /\ k \in Nat
      BY <1>1
    <3>2. r[m + (k + 1)] = c /\ c \in Nat BY <1>1, <3>1
    <3>3. w[m + (k + 1)] = w[m + k] * b + c BY <1>5, <3>1, <3>2
    <3>4. y[k + 1] = z * b + c BY <1>7, <3>1
    <3>5. w[m + k] = a * P + z OBVIOUS
    <3>6. Power(b, k + 1) = b * P /\ P \in Nat BY <3>1, PowerSteps
    <3>7. z \in Nat BY <1>7, <3>1
    <3> HIDE DEF c, P, z
    <3>8. (a * P + z) * b + c = a * (b * P) + (z * b + c)
      <4>1. (a * P + z) * b = (a * P) * b + z * b BY <1>9, <3>6, <3>7
      <4>2. (a * P) * b = a * (b * P) BY <1>9, <3>6
      <4>3. a * (b * P) \in Nat /\ z * b \in Nat BY <1>9, <3>6, <3>7
      <4> QED BY <4>1, <4>2, <4>3, <3>2
    <3>9. w[m + (k + 1)] = a * Power(b, k + 1) + y[k + 1] BY <3>3, <3>4, <3>5, <3>6, <3>8
    <3> QED BY <3>1, <3>9
  <2>3. n \in 0..n BY <1>1
  <2> HIDE DEF F
  <2> QED BY <1>1, <2>1, <2>2, <2>3, UpTo
<1>11. Denoted(r, b) = a * Power(b, n) + y[n] BY <1>5, <1>10
<1>12. y[n] \in Nat BY <1>1, <1>7
<1> QED BY <1>6, <1>7, <1>9, <1>11, <1>12 DEF a, n, r

\* So many digits denote a number below the power of their count, and one that is not
\* below the share of the first digit.
LEMMA DenotedBounds ==
  ASSUME NEW b \in Nat \ {0}, NEW s \in Seq(0..(b - 1))
  PROVE  /\ Denoted(s, b) \in Nat /\ Denoted(s, b) < Power(b, Len(s))
         /\ s # <<>> => s[1] * Power(b, Len(s) - 1) =< Denoted(s, b)
<1> DEFINE n == Len(s)
<1>1. n \in Nat /\ \A i \in 1..n : s[i] \in Nat /\ s[i] < b OBVIOUS
<1>2. s \in Seq(Nat)
  <2>1. \A i \in 1..n : s[i] \in Nat BY <1>1
  <2> QED BY <2>1
<1>3. PICK d : Reads(d, s, b) BY <1>2, DenotedSteps
<1>4. /\ d \in [0..n -> Nat] /\ d[0] = 0
      /\ \A i \in 1..n : d[i] = d[i - 1] * b + s[i]
      /\ Denoted(s, b) = d[n]
  BY <1>3 DEF Reads
<1>5. s # <<>> => 1 \in 1..n BY <1>2
<1> HIDE DEF n
<1> DEFINE E == {k \in 0..n : /\ d[k] < Power(b, k)
                              /\ k # 0 => s[1] * Power(b, k - 1) =< d[k]}
<1>6. n \in E
  <2>1. 0 \in E
    <3>1. 0 \in 0..n BY <1>1
    <3> QED BY <3>1, <1>4, PowerSteps
  <2>2. \A k \in 0..(n - 1) : k \in E => k + 1 \in E
    <3> TAKE k \in 0..(n - 1)
    <3> HAVE k \in E
    <3> DEFINE P == Power(b, k)  c == s[k + 1]  z == d[k]
    <3>1. k + 1 \in 1..n /\ (k + 1) - 1 = k /\ k + 1 \in 0..n /\ k \in 0..n /\ k \in Nat BY <1>1
    <3>2. c \in Nat /\ c < b BY <1>1, <3>1
    <3>3. z \in Nat /\ z < P /\ d[k + 1] = z * b + c BY <1>4, <3>1
    <3>4. Power(b, k + 1) = b * P /\ P \in Nat BY <3>1, PowerSteps
    <3>5. z * b + c < b * P
      <4> HIDE DEF z, c, P
      <4>1. z + 1 =< P BY <3>3, <3>4
      <4>2. \A i, j, m \in Nat : i =< j => i * m =< j * m OBVIOUS
      <4>3. (z + 1) * b =< P * b BY <4>1, <4>2, <3>3, <3>4
      <4>4. (z + 1) * b = z * b + b /\ P * b = b * P /\ z * b \in Nat /\ P * b \in Nat
        BY <3>3, <3>4
      <4> QED BY <4>3, <4>4, <3>2
    <3>6. s[1] * Power(b, k) =< d[k + 1]
      <4>1. CASE k = 0
        <5>1. s[1] * 1 = c /\ z = 0 /\ 0 * b = 0 BY <4>1, <1>1, <1>4, <3>1
        <5>2. d[k + 1] = c BY <5>1, <3>2, <3>3
        <5>3. Power(b, k) = 1 BY <4>1, PowerSteps
        <5> QED BY <5>1, <5>2, <5>3, <3>2
      <4>2. CASE k # 0
        <5> DEFINE Q == Power(b, k - 1)  f == s[1]
        <5>1. k - 1 \in Nat /\ (k - 1) + 1 = k BY <3>1, <4>2
        <5>2. Q \in Nat /\ Power(b, (k - 1) + 1) = b * Q BY <5>1, PowerSteps
        <5>3. f * Q =< z BY <4>2
        <5>4. f \in Nat
          <6>1. 1 \in 1..n BY <3>1, <1>1
          <6> QED BY <6>1, <1>1
        <5> HIDE DEF Q, f, z, c
        <5>5. (f * Q) * b =< z * b
          <6>1. \A i, j, m \in Nat : i =< j => i * m =< j * m OBVIOUS
          <6>2. f * Q \in Nat BY <5>2, <5>4
          <6> QED BY <6>1, <6>2, <5>3, <3>3
        <5>6. f * (b * Q) = (f * Q) * b /\ z * b \in Nat /\ (f * Q) * b \in Nat
          BY <5>2, <5>4, <3>3
        <5>7. f * Power(b, k) =< d[k + 1] BY <5>1, <5>2, <5>5, <5>6, <3>2, <3>3
        <5> QED BY <5>7 DEF f
      <4> QED BY <4>1, <4>2
    <3>7. d[k + 1] < Power(b, k + 1) BY <3>3, <3>4, <3>5
    <3> QED BY <3>1, <3>6, <3>7
  <2>3. n \in 0..n BY <1>1
  <2> HIDE DEF E
  <2> QED BY <1>1, <2>1, <2>2, <2>3, UpTo
<1>7. n # 0 => s[1] * Power(b, n - 1) =< d[n] BY <1>6
<1>8. s # <<>> => n # 0 BY <1>1, <1>5
<1>9. d[n] \in Nat BY <1>1, <1>4
<1> QED BY <1>4, <1>6, <1>7, <1>8, <1>9 DEF n

\* From the last digit to the first: each is added at its own power.
LEMMA DenotedBackwards ==
  ASSUME NEW s \in Seq(Nat), NEW b \in Nat
  PROVE  \E p \in [0..Len(s) -> Nat] :
           /\ p[0] = 0 /\ p[Len(s)] = Denoted(s, b)
           /\ \A k \in 1..Len(s) :
                p[k] = p[k - 1] + s[Len(s) + 1 - k] * Power(b, k - 1)
           /\ \A k \in 0..Len(s) : p[k] =< Denoted(s, b)
<1> DEFINE n == Len(s)
<1>1. n \in Nat /\ \A i \in 1..n : s[i] \in Nat OBVIOUS
<1>2. PICK d : Reads(d, s, b) BY DenotedSteps
<1>3. /\ d \in [0..n -> Nat] /\ d[0] = 0
      /\ \A i \in 1..n : d[i] = d[i - 1] * b + s[i]
      /\ Denoted(s, b) = d[n]
  BY <1>2 DEF Reads
<1> HIDE DEF n
<1> DEFINE p == [k \in 0..n |-> d[n] - d[n - k] * Power(b, k)]
<1>4. d[n] \in Nat BY <1>1, <1>3
<1>5. p[0] = 0
  <2>1. 0 \in 0..n /\ n - 0 = n /\ Power(b, 0) = 1 BY <1>1, PowerSteps
  <2>2. d[n] - d[n] * 1 = 0 BY <1>4
  <2> QED BY <2>1, <2>2
<1>6. p[n] = d[n]
  <2>1. n \in 0..n /\ n - n = 0 BY <1>1
  <2>3. Power(b, n) \in Nat BY <1>1, PowerSteps
  <2>2. d[n] - 0 * Power(b, n) = d[n] BY <1>4, <2>3
  <2> QED BY <2>1, <2>2, <1>3
<1>7. ASSUME NEW k \in 1..n
      PROVE  p[k] = p[k - 1] + s[n + 1 - k] * Power(b, k - 1) /\ p[k - 1] \in Int
  <2> DEFINE P == Power(b, k - 1)  c == s[n + 1 - k]  x == d[n - k]  y == d[n]
  <2>1. k - 1 \in Nat /\ k - 1 \in 0..n /\ k \in 0..n /\ (k - 1) + 1 = k /\ n - (k - 1) = n + 1 - k
        /\ n + 1 - k \in 1..n /\ (n + 1 - k) - 1 = n - k /\ n - k \in 0..n
    BY <1>1
  <2>2. P \in Nat /\ Power(b, k) = b * P
    <3>1. Power(b, (k - 1) + 1) = b * P BY <2>1, PowerSteps
    <3> QED BY <2>1, <3>1, PowerSteps
  <2>3. c \in Nat /\ x \in Nat /\ y \in Nat BY <1>1, <1>3, <1>4, <2>1
  <2>4. d[n + 1 - k] = x * b + c BY <1>3, <2>1
  <2>5. p[k] = y - x * (b * P) /\ p[k - 1] = y - (x * b + c) * P BY <2>1, <2>2, <2>4
  <2> HIDE DEF P, c, x, y, p
  <2>6. (x * b + c) * P = x * (b * P) + c * P
    <3>1. (x * b + c) * P = (x * b) * P + c * P BY <2>2, <2>3
    <3>2. (x * b) * P = x * (b * P) BY <2>2, <2>3
    <3> QED BY <3>1, <3>2
  <2>7. x * (b * P) \in Nat /\ c * P \in Nat BY <2>2, <2>3
  <2>8. p[k] = p[k - 1] + c * P /\ p[k - 1] \in Int BY <2>3, <2>5, <2>6, <2>7
  <2> QED BY <2>8 DEF c, P
<1>8. ASSUME NEW k \in 0..n
      PROVE  p[k] =< d[n] /\ p[k] \in Int
  <2>1. n - k \in 0..n /\ k \in Nat BY <1>1
  <2>2. d[n - k] \in Nat /\ Power(b, k) \in Nat BY <1>3, <2>1, PowerSteps
  <2>3. d[n - k] * Power(b, k) \in Nat BY <2>2
  <2> QED BY <1>4, <2>3
<1> HIDE DEF p
<1> DEFINE E == {k \in 0..n : p[k] \in Nat}
<1>9. \A k \in 0..n : k \in E
  <2>1. 0 \in E BY <1>1, <1>5
  <2>2. \A k \in 0..(n - 1) : k \in E => k + 1 \in E
    <3> TAKE k \in 0..(n - 1)
    <3> HAVE k \in E
    <3>1. k + 1 \in 1..n /\ (k + 1) - 1 = k /\ k + 1 \in 0..n /\ k \in Nat
          /\ n + 1 - (k + 1) \in 1..n
      BY <1>1
    <3>2. p[k + 1] = p[k] + s[n + 1 - (k + 1)] * Power(b, k) BY <1>7, <3>1
    <3>3. Power(b, k) \in Nat /\ s[n + 1 - (k + 1)] \in Nat BY <1>1, <3>1, PowerSteps
    <3>4. s[n + 1 - (k + 1)] * Power(b, k) \in Nat BY <3>3
    <3> QED BY <3>1, <3>2, <3>4
  <2> HIDE DEF E
  <2> QED BY <1>1, <2>1, <2>2, UpTo
<1>10. p \in [0..n -> Nat] BY <1>9 DEF p
<1>11. /\ p[0] = 0 /\ p[n] = Denoted(s, b)
       /\ \A k \in 1..n : p[k] = p[k - 1] + s[n + 1 - k] * Power(b, k - 1)
       /\ \A k \in 0..n : p[k] =< Denoted(s, b)
  BY <1>3, <1>5, <1>6, <1>7, <1>8
<1> QED BY <1>10, <1>11 DEF n

-----------------------------------------------------------------------------
(* Widths and residues *)

\* Bytes and hexadecimal digits divide the width.
LEMMA TextWidths ==
  /\ LimbBits \in Nat /\ LimbBits >= 8 /\ Bits = LimbBits + LimbBits
  /\ Base \in Nat /\ Base >= 256 /\ Base * Base \in Nat /\ Base =< Base * Base
  /\ ByteCount \in Nat /\ ByteCount >= 2 /\ Bits = 8 * ByteCount
  /\ MaxHexDigits = 2 * ByteCount /\ Bits = 4 * MaxHexDigits
  /\ \E h \in Nat \ {0} : LimbBits = 8 * h /\ ByteCount = 2 * h /\ Base = 256 * Pow2[8 * h - 8]
<1>1. LimbBits \in Nat /\ LimbBits >= 2 /\ Bits = LimbBits + LimbBits /\ Base \in Nat
  BY Widths
<1>2. LimbBits % 8 = 0 BY TextAssumption DEF CharBit
<1>3. PICK h \in Nat \ {0} : LimbBits = 8 * h
  <2> DEFINE h == LimbBits \div 8
  <2>1. h \in Nat /\ LimbBits = 8 * h BY <1>1, <1>2
  <2> QED BY <2>1, <1>1
<1>4. Bits = 16 * h BY <1>1, <1>3
<1>5. ByteCount = 2 * h /\ MaxHexDigits = 4 * h
  <2>1. (16 * h) \div 8 = 2 * h /\ (16 * h) \div 4 = 4 * h OBVIOUS
  <2> QED BY <1>4, <2>1 DEF ByteCount, MaxHexDigits, CharBit
<1>6. Pow2[8] = 256 BY PowSteps
<1>7. Pow2[8] =< Pow2[LimbBits] BY <1>1, <1>3, PowMonotone
<1>8. Base >= 256 BY <1>1, <1>6, <1>7 DEF Base
<1>9. \A x \in Nat : x >= 256 => x * x \in Nat /\ x =< x * x OBVIOUS
<1>10. Base = 256 * Pow2[8 * h - 8]
  <2>1. 8 * h - 8 \in Nat /\ 8 + (8 * h - 8) = LimbBits BY <1>3
  <2>2. Pow2[8 + (8 * h - 8)] = Pow2[8] * Pow2[8 * h - 8] BY <2>1, PowSum, Zenon
  <2> QED BY <1>6, <2>1, <2>2 DEF Base
<1> QED BY <1>1, <1>3, <1>4, <1>5, <1>8, <1>9, <1>10

\* A number below 256 in the low limb.
LEMMA SmallNumber ==
  ASSUME NEW c \in Nat, c < 256
  PROVE  make_uint128(0, c) \in U128 /\ Val(make_uint128(0, c)) = c
<1>1. Base \in Nat /\ Base >= 256 BY TextWidths
<1>2. make_uint128(0, c) \in U128 /\ Val(make_uint128(0, c)) = 0 * Base + c
  BY <1>1, MakeLimbs
<1> QED BY <1>1, <1>2

\* Sums and products of residues.
LEMMA Congruences ==
  ASSUME NEW m \in Nat \ {0}, NEW a \in Nat, NEW b \in Nat
  PROVE  /\ ((a % m) + (b % m)) % m = (a + b) % m
         /\ ((a % m) * (b % m)) % m = (a * b) % m
<1> DEFINE p == a \div m  q == b \div m  x == a % m  y == b % m
<1>1. p \in Nat /\ x \in Nat /\ a = p * m + x BY DivisionParts
<1>2. q \in Nat /\ y \in Nat /\ b = q * m + y BY DivisionParts
<1> HIDE DEF p, q, x, y
<1>3. \A i, r \in Nat : (i * m + r) % m = r % m
  <2> TAKE i, r \in Nat
  <2> DEFINE j == r \div m  z == r % m
  <2>1. j \in Nat /\ z \in Nat /\ z < m /\ r = j * m + z BY DivisionParts
  <2> HIDE DEF j, z
  <2>2. i * m + (j * m + z) = (i + j) * m + z
    <3>1. (i + j) * m = i * m + j * m /\ i * m \in Nat /\ j * m \in Nat BY <2>1
    <3> QED BY <2>1, <3>1
  <2>3. i + j \in Nat BY <2>1
  <2>4. ((i + j) * m + z) % m = z BY <2>1, <2>3, DivisionUnique
  <2> QED BY <2>1, <2>2, <2>4 DEF z
<1>4. a + b = (p + q) * m + (x + y)
  <2>1. (p + q) * m = p * m + q * m /\ p * m \in Nat /\ q * m \in Nat BY <1>1, <1>2
  <2> QED BY <1>1, <1>2, <2>1
<1>5. a * b = ((p * q) * m + (p * y + q * x)) * m + x * y
  <2>1. (p * m + x) * (q * m + y) = (p * q) * (m * m) + (x * q + p * y) * m + x * y
    BY <1>1, <1>2, ProductOfPairs
  <2>2. ((p * q) * m + (p * y + q * x)) * m = (p * q) * (m * m) + (x * q + p * y) * m
    <3> DEFINE u == p * q  w == p * y + q * x
    <3>1. u \in Nat /\ w \in Nat /\ w = x * q + p * y BY <1>1, <1>2
    <3> HIDE DEF u, w
    <3>2. (u * m + w) * m = u * (m * m) + w * m BY <3>1
    <3> QED BY <3>1, <3>2 DEF u, w
  <2> QED BY <1>1, <1>2, <2>1, <2>2
<1>6. (a + b) % m = (x + y) % m
  <2> DEFINE u == p + q  w == x + y
  <2>1. u \in Nat /\ w \in Nat /\ a + b = u * m + w BY <1>1, <1>2, <1>4
  <2> HIDE DEF u, w
  <2>2. (u * m + w) % m = w % m BY <1>3, <2>1, Zenon
  <2>3. (a + b) % m = w % m BY <2>1, <2>2, Zenon
  <2> QED BY <2>3 DEF w
<1>7. (a * b) % m = (x * y) % m
  <2> DEFINE u == (p * q) * m + (p * y + q * x)  w == x * y
  <2>1. u \in Nat /\ w \in Nat BY <1>1, <1>2
  <2>2. a * b = u * m + w BY <1>5
  <2> HIDE DEF u, w
  <2>3. (u * m + w) % m = w % m BY <1>3, <2>1, Zenon
  <2>4. (a * b) % m = w % m BY <2>2, <2>3, Zenon
  <2> QED BY <2>4 DEF w
<1> QED BY <1>6, <1>7 DEF x, y

\* A digit is added at its power, and the power raised, modulo the width.
LEMMA DigitAdds ==
  ASSUME NEW sum \in U128, NEW exp \in U128, NEW p \in Nat, NEW e \in Nat,
         Val(sum) = p % (Base * Base), Val(exp) = e % (Base * Base),
         NEW c \in Nat, c < 256, NEW b \in Nat, b < 256
  PROVE  /\ Plus(sum, Times(make_uint128(0, c), exp)) \in U128
         /\ Val(Plus(sum, Times(make_uint128(0, c), exp))) = (p + c * e) % (Base * Base)
         /\ Times(exp, make_uint128(0, b)) \in U128
         /\ Val(Times(exp, make_uint128(0, b))) = (b * e) % (Base * Base)
<1> DEFINE m == Base * Base  cu == make_uint128(0, c)  bu == make_uint128(0, b)
<1>1. m \in Nat \ {0} BY TextWidths
<1>2. cu \in U128 /\ Val(cu) = c /\ bu \in U128 /\ Val(bu) = b BY SmallNumber
<1>3. c < m /\ b < m BY TextWidths
<1> HIDE DEF cu, bu
<1>4. /\ Times(cu, exp) \in U128 /\ Val(Times(cu, exp)) = (c * Val(exp)) % m
      /\ Times(exp, bu) \in U128 /\ Val(Times(exp, bu)) = (Val(exp) * b) % m
  BY <1>2, TimesMultiplies
<1> DEFINE t == Times(cu, exp)
<1>5. Plus(sum, t) \in U128 /\ Val(Plus(sum, t)) = (Val(sum) + Val(t)) % m
  <2> HIDE DEF t
  <2>1. t \in U128 BY <1>4 DEF t
  <2> QED BY <2>1, PlusAdds, PlusWraps
<1> HIDE DEF m
<1>6. c % m = c /\ b % m = b BY <1>1, <1>3, BelowDivisor
<1>7. ((c % m) * (e % m)) % m = (c * e) % m /\ ((e % m) * (b % m)) % m = (e * b) % m
  BY <1>1, Congruences
<1>8. Val(t) = (c * e) % m BY <1>4, <1>6, <1>7 DEF m
<1>9. Val(Times(exp, bu)) = (b * e) % m
  <2>1. e * b = b * e OBVIOUS
  <2> QED BY <1>4, <1>6, <1>7, <2>1 DEF m
<1>10. ((p % m) + ((c * e) % m)) % m = (p + c * e) % m
  <2>1. c * e \in Nat OBVIOUS
  <2> QED BY <1>1, <2>1, Congruences
<1> QED BY <1>4, <1>5, <1>8, <1>9, <1>10 DEF m, cu, bu, t

-----------------------------------------------------------------------------
(* Decimal text *)

\* The states of the loop over decimal digits.
ReadStates ==
  [sum : U128, exp : U128, ends : {"value", "invalid_argument", "overflow_error"}]

\* What one digit does to a state of the loop.
LEMMA AddDigitSteps ==
  ASSUME NEW s \in ReadStates, NEW c
  PROVE  LET sum == Plus(s.sum, Times(make_uint128(0, c), s.exp))
         IN  /\ AddDigit(c, s) \in ReadStates
             /\ s.ends # "value" => AddDigit(c, s) = s
             /\ s.ends = "value" /\ c \notin 0..9 => AddDigit(c, s).ends = "invalid_argument"
             /\ s.ends = "value" /\ c \in 0..9 =>
                  IF Val(s.sum) > Val(sum) THEN AddDigit(c, s).ends = "overflow_error"
                  ELSE /\ AddDigit(c, s).ends = "value" /\ AddDigit(c, s).sum = sum
                       /\ AddDigit(c, s).exp = Times(s.exp, Ten)
<1> DEFINE sum == Plus(s.sum, Times(make_uint128(0, c), s.exp))
<1>1. s.sum \in U128 /\ s.exp \in U128 BY DEF ReadStates
<1>2. CASE s.ends # "value"
  <2>1. AddDigit(c, s) = s BY <1>2 DEF AddDigit
  <2> QED BY <1>2, <2>1
<1>3. CASE s.ends = "value" /\ c \notin 0..9
  <2>1. AddDigit(c, s) = [s EXCEPT !.ends = "invalid_argument"]
    BY <1>3 DEF AddDigit, IsDecimalDigit
  <2> QED BY <1>3, <2>1 DEF ReadStates
<1>4. CASE s.ends = "value" /\ c \in 0..9
  <2>1. AddDigit(c, s) = Accumulate(s, sum) BY <1>4 DEF AddDigit, IsDecimalDigit
  <2>2. Ten \in U128 BY SmallNumber DEF Ten
  <2>3. sum \in U128
    <3>1. make_uint128(0, c) \in U128 BY <1>4, SmallNumber
    <3>2. Times(make_uint128(0, c), s.exp) \in U128 BY <1>1, <3>1, TimesMultiplies
    <3> QED BY <1>1, <3>2, PlusAdds
  <2>4. Times(s.exp, Ten) \in U128 BY <1>1, <2>2, TimesMultiplies
  <2> HIDE DEF sum
  <2>5. Greater(s.sum, sum) <=> Val(s.sum) > Val(sum) BY <1>1, <2>3, ComparisonsCompare
  <2>6. CASE Val(s.sum) > Val(sum)
    <3>1. AddDigit(c, s) = [s EXCEPT !.ends = "overflow_error"]
      BY <2>1, <2>5, <2>6 DEF Accumulate
    <3> QED BY <1>4, <2>6, <3>1 DEF ReadStates, sum
  <2>7. CASE ~ (Val(s.sum) > Val(sum))
    <3>1. AddDigit(c, s) = [s EXCEPT !.sum = sum, !.exp = Times(s.exp, Ten)]
      BY <2>1, <2>5, <2>7 DEF Accumulate
    <3>2. AddDigit(c, s).ends = "value" /\ AddDigit(c, s).sum = sum
          /\ AddDigit(c, s).exp = Times(s.exp, Ten) /\ AddDigit(c, s) \in ReadStates
      BY <1>4, <2>3, <2>4, <3>1 DEF ReadStates
    <3> QED BY <1>4, <2>7, <3>2 DEF sum
  <2> QED BY <2>6, <2>7
<1> QED BY <1>2, <1>3, <1>4

\* The loop goes from digit to digit, from the last to the first.
LEMMA DigitsReadSteps ==
  ASSUME NEW t \in Seq(Chars)
  PROVE  LET r == DigitsRead(t)
         IN  /\ r \in [0..Len(t) -> ReadStates]
             /\ r[0] = [sum |-> Zero, exp |-> One, ends |-> "value"]
             /\ \A k \in 1..Len(t) : r[k] = AddDigit(t[Len(t) + 1 - k], r[k - 1])
<1> DEFINE n == Len(t)
           start == [sum |-> Zero, exp |-> One, ends |-> "value"]
           step == [k \in 1..n |-> [s \in ReadStates |-> AddDigit(t[n + 1 - k], s)]]
           Eq(h) == h = [k \in 0..n |-> IF k = 0 THEN start
                                        ELSE AddDigit(t[n + 1 - k], h[k - 1])]
           u == CHOOSE u : Eq(u)
<1>1. n \in Nat OBVIOUS
<1>2. start \in ReadStates BY ZeroAndOne DEF ReadStates
<1>3. step \in [1..n -> [ReadStates -> ReadStates]]
  <2>1. \A c : \A s \in ReadStates : AddDigit(c, s) \in ReadStates BY AddDigitSteps
  <2> HIDE DEF n
  <2> QED BY <2>1
<1>4. \A k \in 1..n : \A s \in ReadStates : step[k][s] = AddDigit(t[n + 1 - k], s) OBVIOUS
<1> HIDE DEF step, start
<1>5. PICK g \in [0..n -> ReadStates] :
        g[0] = start /\ \A k \in 1..n : g[k] = step[k][g[k - 1]]
  <2> HIDE DEF n
  <2> DEFINE T == ReadStates
  <2> HIDE DEF T
  <2>1. HasRecursion(T) BY Recursions
  <2>2. step \in [1..n -> [T -> T]] /\ start \in T BY <1>2, <1>3 DEF T
  <2>3. \E g \in [0..n -> T] : g[0] = start /\ \A i \in 1..n : g[i] = step[i][g[i - 1]]
    BY <2>1, <2>2, <1>1 DEF HasRecursion
  <2> QED BY <2>3 DEF T
<1>6. \A k \in 1..n : k - 1 \in 0..n /\ k \in 0..n BY <1>1
<1>7. \A k \in 1..n : g[k] = AddDigit(t[n + 1 - k], g[k - 1]) BY <1>4, <1>5, <1>6
<1>8. Eq(g)
  <2>1. \A k \in 0..n : g[k] = IF k = 0 THEN start ELSE AddDigit(t[n + 1 - k], g[k - 1])
    <3>1. \A k \in 0..n : k # 0 => k \in 1..n BY <1>1
    <3> QED BY <3>1, <1>5, <1>7
  <2>2. g = [k \in 0..n |-> g[k]] BY <1>5
  <2> HIDE DEF n
  <2> QED BY <2>1, <2>2
<1>9. Eq(u)
  <2> HIDE DEF Eq
  <2> QED BY <1>8
<1>10. DigitsRead(t) = u BY DEF DigitsRead, start
<1> HIDE DEF u
<1>11. u[0] = start /\ \A k \in 1..n : u[k] = AddDigit(t[n + 1 - k], u[k - 1])
  <2>1. \A k \in 0..n : u[k] = IF k = 0 THEN start ELSE AddDigit(t[n + 1 - k], u[k - 1])
    BY <1>9
  <2>2. 0 \in 0..n /\ \A k \in 1..n : k \in 0..n /\ k # 0 BY <1>1
  <2> QED BY <2>1, <2>2
<1> DEFINE D == {k \in 0..n : u[k] = g[k]}
<1>12. \A k \in 0..n : k \in D
  <2>1. 0 \in D BY <1>1, <1>5, <1>11
  <2>2. \A k \in 0..(n - 1) : k \in D => k + 1 \in D
    <3> TAKE k \in 0..(n - 1)
    <3>1. k + 1 \in 1..n /\ (k + 1) - 1 = k BY <1>1
    <3> QED BY <3>1, <1>6, <1>7, <1>11
  <2> HIDE DEF D
  <2> QED BY <1>1, <2>1, <2>2, UpTo
<1>13. u \in [0..n -> ReadStates]
  <2>1. u = [k \in 0..n |-> u[k]] BY <1>9
  <2>2. \A k \in 0..n : u[k] \in ReadStates BY <1>5, <1>12
  <2> HIDE DEF n
  <2> QED BY <2>1, <2>2
<1> QED BY <1>10, <1>11, <1>13 DEF n, start

\* Digits that are all decimal give their number modulo the width, or an overflow is
\* noticed, which never happens when the number fits; the first that is not decimal
\* is refused unless an overflow was noticed before.
LEMMA DecimalParses ==
  ASSUME NEW t \in Seq(Chars)
  PROVE  LET n == Denoted(t, 10)
         IN  /\ (\A i \in 1..Len(t) : t[i] \in 0..9) =>
                  /\ n \in Nat
                  /\ parse_decimal_str(t) \in {Value(n % (Base * Base)), Throws("overflow_error")}
                  /\ Fits(n) => parse_decimal_str(t) = Value(n)
             /\ (\E i \in 1..Len(t) : t[i] \notin 0..9) =>
                  parse_decimal_str(t) \in {Throws("invalid_argument"), Throws("overflow_error")}
             /\ parse_decimal_str(t).number \in 0..(Base * Base - 1)
<1> DEFINE L == Len(t)  M == Base * Base  n == Denoted(t, 10)  r == DigitsRead(t)
           digits == \A i \in 1..L : t[i] \in 0..9
<1>1. L \in Nat /\ M \in Nat \ {0} BY TextWidths
<1>2. /\ r \in [0..L -> ReadStates]
      /\ r[0] = [sum |-> Zero, exp |-> One, ends |-> "value"]
      /\ \A k \in 1..L : r[k] = AddDigit(t[L + 1 - k], r[k - 1])
  BY DigitsReadSteps
<1>3. parse_decimal_str(t) = IF r[L].ends = "value" THEN Parsed(r[L].sum) ELSE Throws(r[L].ends)
  BY DEF parse_decimal_str
<1> HIDE DEF r, L
<1>4. L \in 0..L /\ r[L] \in ReadStates BY <1>1, <1>2
<1>5. Val(r[L].sum) \in 0..(M - 1)
  <2>1. r[L].sum \in U128 BY <1>4 DEF ReadStates
  <2> QED BY <2>1, <1>1, LimbsOf
<1>6. parse_decimal_str(t).number \in 0..(M - 1)
  BY <1>1, <1>3, <1>5 DEF Parsed, Throws
<1>7. ASSUME digits
      PROVE  /\ n \in Nat
             /\ parse_decimal_str(t) \in {Value(n % M), Throws("overflow_error")}
             /\ Fits(n) => parse_decimal_str(t) = Value(n)
  <2>1. t \in Seq(Nat)
    <3>1. \A i \in 1..L : t[i] \in Nat BY <1>7
    <3> QED BY <3>1 DEF L
  <2>2. PICK p \in [0..L -> Nat] :
          /\ p[0] = 0 /\ p[L] = n
          /\ \A k \in 1..L : p[k] = p[k - 1] + t[L + 1 - k] * Power(10, k - 1)
          /\ \A k \in 0..L : p[k] =< n
    BY <2>1, DenotedBackwards DEF L
  <2>3. n \in Nat BY <2>2, <1>4
  <2> HIDE DEF n, M
  <2> DEFINE E == {k \in 0..L :
                     /\ r[k].ends \in {"value", "overflow_error"}
                     /\ n < M => r[k].ends = "value"
                     /\ r[k].ends = "value" =>
                          Val(r[k].sum) = p[k] % M /\ Val(r[k].exp) = Power(10, k) % M}
  <2>4. 0 \in E
    <3>1. 0 % M = 0 /\ 1 % M = 1
      <4>1. 1 < M BY TextWidths DEF M
      <4> QED BY <4>1, <1>1
    <3>2. r[0].ends = "value" /\ Val(r[0].sum) = 0 /\ Val(r[0].exp) = 1
      BY <1>2, ZeroAndOne
    <3>3. Power(10, 0) = 1 /\ p[0] = 0 /\ 0 \in 0..L BY <1>1, <2>2, PowerSteps
    <3> QED BY <3>1, <3>2, <3>3
  <2>5. \A k \in 0..(L - 1) : k \in E => k + 1 \in E
    <3> TAKE k \in 0..(L - 1)
    <3> HAVE k \in E
    <3> DEFINE s == r[k]  c == t[L + 1 - (k + 1)]  x == r[k + 1]
               sum == Plus(s.sum, Times(make_uint128(0, c), s.exp))
    <3>1. k + 1 \in 1..L /\ (k + 1) - 1 = k /\ k + 1 \in 0..L /\ k \in 0..L /\ k \in Nat
          /\ L + 1 - (k + 1) \in 1..L
      BY <1>1
    <3>2. s \in ReadStates /\ x = AddDigit(c, s) BY <1>2, <3>1
    <3>3. c \in 0..9 BY <1>7, <3>1
    <3>4. /\ s.ends \in {"value", "overflow_error"} /\ (n < M => s.ends = "value")
          /\ s.ends = "value" => Val(s.sum) = p[k] % M /\ Val(s.exp) = Power(10, k) % M
      OBVIOUS
    <3>5. p[k + 1] = p[k] + c * Power(10, k) /\ p[k] \in Nat /\ p[k + 1] \in Nat /\ p[k + 1] =< n
      BY <2>2, <3>1
    <3>6. /\ s.ends # "value" => x = s
          /\ s.ends = "value" => IF Val(s.sum) > Val(sum) THEN x.ends = "overflow_error"
                                 ELSE x.ends = "value" /\ x.sum = sum /\ x.exp = Times(s.exp, Ten)
      BY <3>2, <3>3, AddDigitSteps
    <3>7. s.sum \in U128 /\ s.exp \in U128 BY <3>2 DEF ReadStates
    <3>8. s.ends = "value" =>
            Val(sum) = p[k + 1] % M /\ Val(Times(s.exp, Ten)) = Power(10, k + 1) % M
      <4> SUFFICES ASSUME s.ends = "value"
                   PROVE  Val(sum) = p[k + 1] % M
                          /\ Val(Times(s.exp, Ten)) = Power(10, k + 1) % M
        OBVIOUS
      <4> DEFINE e == Power(10, k)  q == p[k]  su == s.sum  ex == s.exp
      <4>1. e \in Nat /\ Power(10, k + 1) = 10 * e BY <3>1, PowerSteps
      <4>2. su \in U128 /\ ex \in U128 /\ q \in Nat /\ c \in Nat /\ c < 256
        BY <3>3, <3>5, <3>7, SMTT(30)
      <4>3. Val(su) = q % (Base * Base) /\ Val(ex) = e % (Base * Base) BY <3>4 DEF M
      <4> HIDE DEF e, q, c, su, ex
      <4>4. /\ Val(Plus(su, Times(make_uint128(0, c), ex))) = (q + c * e) % (Base * Base)
            /\ Val(Times(ex, make_uint128(0, 10))) = (10 * e) % (Base * Base)
        BY <4>1, <4>2, <4>3, DigitAdds
      <4> QED BY <4>1, <4>4, <3>5 DEF M, Ten, su, ex, q, e
    <3>9. n < M => p[k] % M =< p[k + 1] % M
      <4> SUFFICES ASSUME n < M PROVE p[k] % M =< p[k + 1] % M OBVIOUS
      <4>1. c * Power(10, k) \in Nat
        <5>1. c \in Nat BY <3>3
        <5>2. Power(10, k) \in Nat BY <3>1, PowerSteps
        <5> DEFINE e == Power(10, k)
        <5>3. e \in Nat BY <5>2
        <5> HIDE DEF c, e
        <5>4. c * e \in Nat BY <5>1, <5>3
        <5> QED BY <5>4 DEF e
      <4> HIDE DEF c
      <4>2. p[k] =< p[k + 1] /\ p[k + 1] < M BY <3>5, <4>1, <2>3, <1>1
      <4>3. p[k] % M = p[k] /\ p[k + 1] % M = p[k + 1] BY <3>5, <4>2, <1>1, BelowDivisor
      <4> QED BY <4>2, <4>3
    <3> HIDE DEF s, sum, c
    <3>10. n < M => ~ (Val(s.sum) > Val(sum))
      <4> SUFFICES ASSUME n < M PROVE ~ (Val(s.sum) > Val(sum)) OBVIOUS
      <4>1. p[k] % M \in Nat /\ p[k + 1] % M \in Nat BY <1>1, <3>5, DivisionParts
      <4>2. Val(s.sum) = p[k] % M /\ Val(sum) = p[k + 1] % M BY <3>4, <3>8
      <4> QED BY <3>9, <4>1, <4>2
    <3>11. /\ x.ends \in {"value", "overflow_error"}
           /\ n < M => x.ends = "value"
           /\ x.ends = "value" => Val(x.sum) = p[k + 1] % M /\ Val(x.exp) = Power(10, k + 1) % M
      BY <3>4, <3>6, <3>8, <3>10
    <3> QED BY <3>1, <3>11
  <2>6. L \in E
    <3> HIDE DEF E
    <3> QED BY <1>1, <1>4, <2>4, <2>5, UpTo
  <2>7. p[L] = n BY <2>2
  <2>8. parse_decimal_str(t) \in {Value(n % M), Throws("overflow_error")}
    BY <1>3, <2>6, <2>7 DEF Parsed, Throws, Value
  <2>9. n < M => parse_decimal_str(t) = Value(n)
    <3>1. n < M => n % M = n BY <1>1, <2>3, BelowDivisor
    <3> QED BY <1>3, <2>6, <2>7, <3>1 DEF Parsed, Throws, Value
  <2> QED BY <2>3, <2>8, <2>9 DEF Fits, M
<1>8. ASSUME NEW j \in 1..L, t[j] \notin 0..9
      PROVE  parse_decimal_str(t) \in {Throws("invalid_argument"), Throws("overflow_error")}
  <2> DEFINE E == {k \in 0..L : r[k].ends = "value" => \A i \in 1..k : t[L + 1 - i] \in 0..9}
  <2>1. 0 \in E BY <1>1
  <2>2. \A k \in 0..(L - 1) : k \in E => k + 1 \in E
    <3> TAKE k \in 0..(L - 1)
    <3> HAVE k \in E
    <3> DEFINE c == t[L + 1 - (k + 1)]  s == r[k]
    <3>1. k + 1 \in 1..L /\ (k + 1) - 1 = k /\ k + 1 \in 0..L /\ k \in 0..L /\ k \in Nat
      BY <1>1
    <3>2. s \in ReadStates /\ r[k + 1] = AddDigit(c, s) BY <1>2, <3>1
    <3>3. /\ s.ends # "value" => r[k + 1] = s
          /\ s.ends = "value" /\ c \notin 0..9 => r[k + 1].ends = "invalid_argument"
      BY <3>2, AddDigitSteps
    <3>4. r[k + 1].ends = "value" => s.ends = "value" /\ c \in 0..9
      <4> HIDE DEF s, c
      <4> QED BY <3>3
    <3>5. \A i \in 1..(k + 1) : i \in 1..k \/ i = k + 1 BY <3>1
    <3> QED BY <3>1, <3>4, <3>5
  <2>3. L \in E
    <3> HIDE DEF E
    <3> QED BY <1>1, <1>4, <2>1, <2>2, UpTo
  <2>4. L + 1 - j \in 1..L /\ L + 1 - (L + 1 - j) = j BY <1>1
  <2>5. r[L].ends # "value" BY <1>8, <2>3, <2>4
  <2>6. r[L].ends \in {"invalid_argument", "overflow_error"} BY <1>4, <2>5 DEF ReadStates
  <2> QED BY <1>3, <2>5, <2>6
<1> QED BY <1>6, <1>7, <1>8 DEF L

-----------------------------------------------------------------------------
(* Trimming *)

\* The elements of two sequences in a row.
LEMMA InARow ==
  ASSUME NEW S, NEW s \in Seq(S), NEW t \in Seq(S)
  PROVE  /\ s \o t \in Seq(S) /\ Len(s \o t) = Len(s) + Len(t)
         /\ Len(s) \in Nat /\ Len(t) \in Nat
         /\ \A i \in 1..Len(s) : (s \o t)[i] = s[i]
         /\ \A i \in 1..Len(t) : (s \o t)[Len(s) + i] = t[i]
  OBVIOUS

\* A text is the spaces before what is trimmed, that, and the spaces after it.
Trims(s, m, e, text) ==
  /\ s \in Seq(Chars) /\ m \in Seq(Chars) /\ e \in Seq(Chars)
  /\ text = (s \o m) \o e /\ m = Trim(text)
  /\ (\A i \in 1..Len(s) : s[i] = Space) /\ (\A i \in 1..Len(e) : e[i] = Space)
  /\ m # <<>> => m[1] # Space /\ m[Len(m)] # Space

\* Trimming takes the spaces off both ends, and no other character.
LEMMA TrimParts ==
  ASSUME NEW text \in Seq(Chars)
  PROVE  \E s, m, e : Trims(s, m, e, text)
<1> DEFINE n == Len(text)  kept == {i \in 1..n : text[i] # Space}
<1>1. n \in Nat /\ DOMAIN text = 1..n OBVIOUS
<1>2. Trim(text) = IF kept = {} THEN <<>> ELSE SubSeq(text, Min(kept), Max(kept))
  BY <1>1 DEF Trim
<1>3. <<>> \in Seq(Chars) /\ text \in Seq(Chars) OBVIOUS
<1>4. CASE kept = {}
  <2>1. text = (<<>> \o <<>>) \o text BY <1>3
  <2>2. Trims(<<>>, <<>>, text, text)
    <3>1. \A i \in 1..Len(text) : text[i] = Space BY <1>4
    <3>2. Len(<<>>) = 0 OBVIOUS
    <3>3. text = (<<>> \o <<>>) \o <<>> \/ TRUE OBVIOUS
    <3>4. <<>> \o <<>> = <<>> OBVIOUS
    <3>5. <<>> \o text = text BY <1>3, ConcatEmptySeq
    <3>6. Trim(text) = <<>> BY <1>2, <1>4
    <3> HIDE DEF n, kept
    <3> QED BY <1>3, <3>1, <3>2, <3>4, <3>5, <3>6 DEF Trims
  <2> QED BY <2>2
<1>5. CASE kept # {}
  <2> DEFINE a == Min(kept)  b == Max(kept)
             s == SubSeq(text, 1, a - 1)  m == SubSeq(text, a, b)  e == SubSeq(text, b + 1, n)
  <2>1. kept \in SUBSET Nat /\ kept \in SUBSET (1..n) BY <1>1
  <2> HIDE DEF kept
  <2>2. a \in kept /\ \A i \in kept : a =< i
    <3>1. \E i \in kept : \A j \in kept : i =< j BY <1>5, <2>1, Least
    <3> QED BY <3>1 DEF Min
  <2>3. b \in kept /\ \A i \in kept : b >= i
    <3> DEFINE R == {k \in 0..n : n - k \in kept}
    <3>1. R \in SUBSET Nat /\ R # {}
      <4>1. PICK i \in kept : TRUE BY <1>5
      <4>2. i \in 1..n BY <2>1
      <4>3. n - i \in 0..n /\ n - (n - i) = i BY <1>1, <4>2
      <4> QED BY <1>1, <4>1, <4>3
    <3>2. PICK k \in R : \A j \in R : k =< j
      <4> HIDE DEF R
      <4> QED BY <3>1, Least
    <3>3. n - k \in kept /\ \A i \in kept : n - k >= i
      <4> SUFFICES ASSUME NEW i \in kept PROVE n - k >= i OBVIOUS
      <4>1. i \in 1..n BY <2>1
      <4>2. n - i \in R BY <1>1, <4>1
      <4>3. k =< n - i /\ k \in 0..n
        <5>1. k \in 0..n BY DEF R
        <5> HIDE DEF R
        <5> QED BY <3>2, <4>2, <5>1
      <4> HIDE DEF R, n
      <4> QED BY <1>1, <4>1, <4>3
    <3> QED BY <3>3 DEF Max
  <2>4. a \in 1..n /\ b \in 1..n /\ a =< b BY <2>1, <2>2, <2>3
  <2> HIDE DEF a, b
  <2>5. /\ s \in Seq(Chars) /\ Len(s) = a - 1 /\ \A i \in 1..(a - 1) : s[i] = text[i]
        /\ m \in Seq(Chars) /\ Len(m) = b - a + 1
        /\ \A i \in 1..(b - a + 1) : m[i] = text[a + i - 1]
        /\ e \in Seq(Chars) /\ Len(e) = n - b /\ \A i \in 1..(n - b) : e[i] = text[b + i]
    <3>0. \A i \in 1..n : text[i] \in Chars OBVIOUS
    <3> HIDE DEF n
    <3>1. s \in Seq(Chars) /\ Len(s) = a - 1 /\ \A i \in 1..(a - 1) : s[i] = text[i]
      BY <1>1, <2>4, <3>0
    <3>2. m \in Seq(Chars) /\ Len(m) = b - a + 1
          /\ \A i \in 1..(b - a + 1) : m[i] = text[a + i - 1]
      BY <1>1, <2>4, <3>0
    <3>3. e \in Seq(Chars) /\ Len(e) = n - b /\ \A i \in 1..(n - b) : e[i] = text[b + i]
      BY <1>1, <2>4, <3>0
    <3> QED BY <3>1, <3>2, <3>3
  <2> HIDE DEF s, m, e
  <2>6. text = (s \o m) \o e
    <3> DEFINE x == (s \o m) \o e
    <3>1. s \o m \in Seq(Chars) /\ Len(s \o m) = b
          /\ (\A i \in 1..(a - 1) : (s \o m)[i] = s[i])
          /\ \A i \in 1..(b - a + 1) : (s \o m)[a - 1 + i] = m[i]
      BY <1>1, <2>4, <2>5
    <3> DEFINE y == s \o m
    <3> HIDE DEF y
    <3>2. y \in Seq(Chars) /\ Len(y) = b BY <3>1 DEF y
    <3>3. y \o e \in Seq(Chars) /\ Len(y \o e) = n
          /\ (\A i \in 1..b : (y \o e)[i] = y[i])
          /\ \A i \in 1..(n - b) : (y \o e)[b + i] = e[i]
      <4>1. e \in Seq(Chars) /\ Len(e) = n - b /\ b + (n - b) = n
        <5> HIDE DEF n
        <5> QED BY <1>1, <2>4, <2>5
      <4> HIDE DEF n
      <4>2. /\ y \o e \in Seq(Chars) /\ Len(y \o e) = Len(y) + Len(e)
            /\ (\A i \in 1..Len(y) : (y \o e)[i] = y[i])
            /\ \A i \in 1..Len(e) : (y \o e)[Len(y) + i] = e[i]
        <5>1. \A p, q \in Seq(Chars) :
                /\ p \o q \in Seq(Chars) /\ Len(p \o q) = Len(p) + Len(q)
                /\ (\A i \in 1..Len(p) : (p \o q)[i] = p[i])
                /\ \A i \in 1..Len(q) : (p \o q)[Len(p) + i] = q[i]
          BY InARow
        <5> QED BY <3>2, <4>1, <5>1, Zenon
      <4> DEFINE z == y \o e
      <4>3. /\ z \in Seq(Chars) /\ Len(z) = Len(y) + Len(e)
            /\ (\A i \in 1..Len(y) : z[i] = y[i])
            /\ \A i \in 1..Len(e) : z[Len(y) + i] = e[i]
        BY <4>2
      <4> HIDE DEF z
      <4>4. /\ z \in Seq(Chars) /\ Len(z) = n
            /\ (\A i \in 1..b : z[i] = y[i]) /\ \A i \in 1..(n - b) : z[b + i] = e[i]
        BY <3>2, <4>1, <4>3
      <4> QED BY <4>4 DEF z
    <3>4. \A i \in 1..b : y[i] = text[i]
      <4> TAKE i \in 1..b
      <4>1. CASE i \in 1..(a - 1) BY <3>1, <2>5, <4>1 DEF y
      <4>2. CASE i \notin 1..(a - 1)
        <5>1. i - (a - 1) \in 1..(b - a + 1) /\ a - 1 + (i - (a - 1)) = i
              /\ a + (i - (a - 1)) - 1 = i
          BY <2>4, <4>2
        <5> QED BY <3>1, <2>5, <5>1, SMTT(30) DEF y
      <4> QED BY <4>1, <4>2
    <3>5. \A i \in 1..n : (y \o e)[i] = text[i]
      <4> TAKE i \in 1..n
      <4>1. CASE i \in 1..b BY <3>3, <3>4, <4>1
      <4>2. CASE i \notin 1..b
        <5>1. i - b \in 1..(n - b) /\ b + (i - b) = i BY <1>1, <2>4, <4>2
        <5> QED BY <3>3, <2>5, <5>1, ZenonT(40)
      <4> QED BY <4>1, <4>2
    <3>6. text = y \o e
      <4> DEFINE z == y \o e
      <4>1. z \in Seq(Chars) /\ Len(z) = n /\ \A i \in 1..n : z[i] = text[i] BY <3>3, <3>5
      <4> HIDE DEF z
      <4>2. text = z BY <4>1, <1>3, SeqEqual
      <4> QED BY <4>2 DEF z
    <3> QED BY <3>6 DEF y
  <2>7. \A i \in 1..Len(s) : s[i] = Space
    <3> TAKE i \in 1..Len(s)
    <3>1. i \in 1..(a - 1) /\ i \in 1..n /\ ~ (a =< i) BY <1>1, <2>4, <2>5
    <3>2. i \notin kept BY <2>2, <3>1
    <3> QED BY <2>5, <3>1, <3>2 DEF kept
  <2>8. \A i \in 1..Len(e) : e[i] = Space
    <3> TAKE i \in 1..Len(e)
    <3>1. i \in 1..(n - b) /\ b + i \in 1..n /\ ~ (b >= b + i) BY <1>1, <2>4, <2>5
    <3>2. b + i \notin kept BY <2>3, <3>1
    <3> QED BY <2>5, <3>1, <3>2 DEF kept
  <2>9. m[1] # Space /\ m[Len(m)] # Space
    <3>1. 1 \in 1..(b - a + 1) /\ b - a + 1 \in 1..(b - a + 1) /\ a + 1 - 1 = a
          /\ a + (b - a + 1) - 1 = b
      BY <2>4
    <3>2. text[a] # Space /\ text[b] # Space BY <2>2, <2>3 DEF kept
    <3> QED BY <2>5, <3>1, <3>2
  <2>10. m = Trim(text) BY <1>2, <1>5 DEF m, a, b
  <2>11. Trims(s, m, e, text) BY <2>5, <2>6, <2>7, <2>8, <2>9, <2>10 DEF Trims
  <2> QED BY <2>11
<1> QED BY <1>4, <1>5

\* What trim_and_strip leaves is the text without separators and spaces, unless there
\* is a space inside, which stays.
LEMMA Stripped ==
  ASSUME NEW text \in Seq(Chars)
  PROVE  /\ trim_and_strip(text) \in Seq(Chars)
         /\ OuterSpaces(text) => trim_and_strip(text) = Core(text)
         /\ ~ OuterSpaces(text) =>
              \E j \in 1..Len(trim_and_strip(text)) : trim_and_strip(text)[j] = Space
         /\ \A j \in 1..Len(trim_and_strip(text)) :
              \E i \in 1..Len(text) : text[i] = trim_and_strip(text)[j]
<1>1. PICK s, m, e : Trims(s, m, e, text) BY TrimParts
<1>2. /\ s \in Seq(Chars) /\ m \in Seq(Chars) /\ e \in Seq(Chars)
      /\ text = (s \o m) \o e
      /\ (\A i \in 1..Len(s) : s[i] = Space) /\ (\A i \in 1..Len(e) : e[i] = Space)
      /\ m # <<>> => m[1] # Space /\ m[Len(m)] # Space
  BY <1>1 DEF Trims
<1> DEFINE t == Without(m, {Separator})
<1>3. trim_and_strip(text) = t BY <1>1 DEF Trims, trim_and_strip
<1>4. /\ t \in Seq(Chars)
      /\ \A j \in 1..Len(t) : \E i \in 1..Len(m) : m[i] = t[j]
      /\ \A i \in 1..Len(m) : m[i] \notin {Separator} => \E j \in 1..Len(t) : t[j] = m[i]
  <2> DEFINE C == {Separator}
  <2>1. m \in Seq(Chars) BY <1>2
  <2> HIDE DEF C
  <2>2. /\ Without(m, C) \in Seq(Chars)
        /\ \A j \in 1..Len(Without(m, C)) : \E i \in 1..Len(m) : m[i] = Without(m, C)[j]
        /\ \A i \in 1..Len(m) : m[i] \notin C =>
             \E j \in 1..Len(Without(m, C)) : Without(m, C)[j] = m[i]
    BY <2>1, WithoutElements
  <2> QED BY <2>2 DEF C
<1> HIDE DEF t
<1> DEFINE a == Len(s)  b == Len(m)  c == Len(e)  n == Len(text)
<1>5. /\ a \in Nat /\ b \in Nat /\ c \in Nat /\ n = a + b + c /\ DOMAIN text = 1..n
      /\ \A i \in 1..a : text[i] = s[i]
      /\ \A i \in 1..b : text[a + i] = m[i]
      /\ \A i \in 1..c : text[a + b + i] = e[i]
  <2>1. a \in Nat /\ b \in Nat /\ c \in Nat BY <1>2
  <2> DEFINE y == s \o m
  <2>2. y \in Seq(Chars) /\ Len(y) = a + b /\ (\A i \in 1..a : y[i] = s[i])
        /\ \A i \in 1..b : y[a + i] = m[i]
    BY <1>2
  <2>3. text = y \o e BY <1>2
  <2> HIDE DEF y
  <2>4. Len(text) = a + b + c /\ (\A i \in 1..(a + b) : text[i] = y[i])
        /\ \A i \in 1..c : text[a + b + i] = e[i]
    <3>1. y \in Seq(Chars) /\ e \in Seq(Chars) BY <1>2, <2>2
    <3>2. Len(y \o e) = Len(y) + Len(e) /\ (\A i \in 1..Len(y) : (y \o e)[i] = y[i])
          /\ \A i \in 1..Len(e) : (y \o e)[Len(y) + i] = e[i]
      BY <3>1, InARow
    <3> QED BY <2>2, <2>3, <3>2
  <2>5. \A i \in 1..a : i \in 1..(a + b) BY <2>1
  <2>6. \A i \in 1..b : a + i \in 1..(a + b) BY <2>1
  <2> QED BY <2>1, <2>2, <2>4, <2>5, <2>6
<1> HIDE DEF a, b, c, n
<1>6. \A j \in 1..Len(t) : \E i \in 1..n : text[i] = t[j]
  <2> TAKE j \in 1..Len(t)
  <2>1. PICK i \in 1..b : m[i] = t[j] BY <1>4 DEF b
  <2>2. a + i \in 1..n BY <1>5
  <2> QED BY <1>5, <2>1, <2>2
<1>7. ASSUME OuterSpaces(text)
      PROVE  t = Core(text)
  <2>1. \A i \in 1..b : m[i] # Space
    <3> SUFFICES ASSUME NEW i \in 1..b, m[i] = Space PROVE FALSE OBVIOUS
    <3>1. m # <<>> /\ 1 \in 1..b /\ b \in 1..b
      <4>1. 1 \in 1..b /\ b \in 1..b BY <1>5
      <4>2. Len(<<>>) = 0 OBVIOUS
      <4> QED BY <4>1, <4>2, <1>5 DEF b
    <3>2. a + i \in 1..n /\ a + 1 \in 1..(a + i) /\ a + b \in (a + i)..n BY <1>5
    <3>3. text[a + i] = Space BY <1>5
    <3>4. (\A j \in 1..(a + i) : text[j] = Space) \/ (\A j \in (a + i)..n : text[j] = Space)
      BY <1>7, <1>5, <3>2, <3>3 DEF OuterSpaces, n
    <3>5. text[a + 1] = m[1] /\ text[a + b] = m[b] BY <1>5, <3>1
    <3> QED BY <1>2, <3>1, <3>2, <3>4, <3>5 DEF b
  <2> DEFINE D == {Space, Separator}
  <2>2. t = Without(m, D)
    <3>1. \A i \in 1..Len(m) : m[i] \in {Separator} <=> m[i] \in D BY <2>1 DEF b
    <3> HIDE DEF D
    <3> QED BY <3>1, <1>2, WithoutAgree DEF t
  <2>3. Without(s, D) = <<>> /\ Without(e, D) = <<>>
    <3>1. (\A i \in 1..Len(s) : s[i] \in D) /\ (\A i \in 1..Len(e) : e[i] \in D) BY <1>2
    <3> HIDE DEF D
    <3> QED BY <1>2, <3>1, WithoutNoneOrAll
  <2> HIDE DEF D
  <2>4. Without(text, D) = (Without(s, D) \o Without(m, D)) \o Without(e, D)
    <3>1. s \o m \in Seq(Chars) BY <1>2
    <3>2. Without((s \o m) \o e, D) = Without(s \o m, D) \o Without(e, D)
      <4> DEFINE y == s \o m
      <4>1. y \in Seq(Chars) /\ e \in Seq(Chars) BY <1>2, <3>1
      <4> HIDE DEF y
      <4>2. Without(y \o e, D) = Without(y, D) \o Without(e, D) BY <4>1, WithoutConcat
      <4> QED BY <4>2 DEF y
    <3>3. Without(s \o m, D) = Without(s, D) \o Without(m, D) BY <1>2, WithoutConcat
    <3> QED BY <1>2, <3>2, <3>3
  <2>5. (<<>> \o t) \o <<>> = t
    <3>1. <<>> \o t = t BY <1>4, ConcatEmptySeq
    <3>2. t \o <<>> = t BY <1>4, ConcatEmptySeq
    <3> QED BY <3>1, <3>2
  <2> QED BY <2>2, <2>3, <2>4, <2>5 DEF Core, D
<1>8. ASSUME ~ OuterSpaces(text)
      PROVE  \E j \in 1..Len(t) : t[j] = Space
  <2>1. PICK k \in 1..n : /\ text[k] = Space
                          /\ ~ \A j \in 1..k : text[j] = Space
                          /\ ~ \A j \in k..n : text[j] = Space
    BY <1>5, <1>8 DEF OuterSpaces, n
  <2>2. k \in (a + 1)..(a + b)
    <3>1. ~ (k =< a)
      <4> SUFFICES ASSUME k =< a PROVE FALSE OBVIOUS
      <4>1. \A j \in 1..k : j \in 1..a BY <1>5
      <4> QED BY <1>2, <1>5, <2>1, <4>1 DEF a
    <3>2. ~ (k > a + b)
      <4> SUFFICES ASSUME k > a + b PROVE FALSE OBVIOUS
      <4>1. \A j \in k..n : j - (a + b) \in 1..c /\ a + b + (j - (a + b)) = j BY <1>5
      <4> QED BY <1>2, <1>5, <2>1, <4>1 DEF c
    <3> QED BY <1>5, <3>1, <3>2
  <2>3. k - a \in 1..b /\ a + (k - a) = k BY <1>5, <2>2
  <2>4. m[k - a] = Space BY <1>5, <2>1, <2>3
  <2>5. Space # Separator BY DEF Space, Separator
  <2> QED BY <1>4, <2>3, <2>4, <2>5 DEF b
<1> QED BY <1>3, <1>4, <1>6, <1>7, <1>8 DEF n

-----------------------------------------------------------------------------
(* The formats *)

IsZeroShape(t)    == t # <<>> /\ \A i \in 1..Len(t) : t[i] = 0
IsDecimalShape(t) == t # <<>> /\ t[1] # 0 /\ \A i \in 1..Len(t) : LooksDecimal(t[i])
IsHexShape(t) ==
  Len(t) >= 3 /\ t[1] = 0 /\ t[2] = Tag /\ \A i \in 3..Len(t) : is_legal_hex_char(t[i])

\* Which parser a text goes to.
LEMMA FormatParses ==
  ASSUME NEW t \in Seq(Chars)
  PROVE  /\ IsZeroShape(t) => ParseTrimmed(t) = Value(0)
         /\ IsDecimalShape(t) => ParseTrimmed(t) = parse_decimal_str(t)
         /\ IsHexShape(t) => ParseTrimmed(t) = parse_hex_str(t)
         /\ ~ IsZeroShape(t) /\ ~ IsDecimalShape(t) /\ ~ IsHexShape(t) =>
              ParseTrimmed(t) = Throws("invalid_argument")
<1>1. Len(t) \in Nat /\ DOMAIN t = 1..Len(t) OBVIOUS
<1>2. AllZero(t) <=> IsZeroShape(t) BY <1>1 DEF AllZero, IsZeroShape
<1>3. t # <<>> => 1 \in 1..Len(t) OBVIOUS
<1>4. (t # <<>> /\ t[1] # 0 /\ (\A i \in DOMAIN t : LooksDecimal(t[i]))) <=> IsDecimalShape(t)
  BY <1>1 DEF IsDecimalShape
<1>5. Len(t) >= 3 /\ HasHexTag(t) /\ (\A i \in 3..Len(t) : is_legal_hex_char(t[i]))
        <=> IsHexShape(t)
  BY <1>1 DEF HasHexTag, IsHexShape
<1>6. IsDecimalShape(t) => ~ IsZeroShape(t) BY <1>3 DEF IsDecimalShape, IsZeroShape
<1>7. IsHexShape(t) => ~ IsZeroShape(t) /\ ~ IsDecimalShape(t)
  <2>1. IsHexShape(t) => t[1] = 0 /\ t[2] = Tag /\ 2 \in 1..Len(t) BY <1>1 DEF IsHexShape
  <2> QED BY <2>1 DEF IsZeroShape, IsDecimalShape, Tag
<1>8. /\ IsZeroShape(t) => get_format(t) = "Zero"
      /\ IsDecimalShape(t) => get_format(t) = "Decimal"
      /\ IsHexShape(t) => get_format(t) = "Hexadecimal"
      /\ ~ IsZeroShape(t) /\ ~ IsDecimalShape(t) /\ ~ IsHexShape(t) =>
           get_format(t) = "Illegal"
  BY <1>2, <1>4, <1>5, <1>6, <1>7 DEF get_format
<1>9. /\ ParseAs("Zero", t) = Parsed(Zero)
      /\ ParseAs("Decimal", t) = parse_decimal_str(t)
      /\ ParseAs("Hexadecimal", t) = parse_hex_str(t)
      /\ ParseAs("Illegal", t) = Throws("invalid_argument")
  BY DEF ParseAs
<1>10. Parsed(Zero) = Value(0) BY ZeroAndOne DEF Parsed, Value
<1> QED BY <1>8, <1>9, <1>10 DEF ParseTrimmed

-----------------------------------------------------------------------------
(* The digits of a number *)

\* Dividing by two numbers is dividing by their product.
LEMMA DivideTwice ==
  ASSUME NEW n \in Nat, NEW p \in Nat \ {0}, NEW b \in Nat \ {0}
  PROVE  (n \div p) \div b = n \div (b * p)
<1> DEFINE q == n \div p  r == n % p  x == q \div b  y == q % b
<1>1. q \in Nat /\ r \in Nat /\ r < p /\ n = q * p + r BY DivisionParts
<1> HIDE DEF q, r
<1>2. x \in Nat /\ y \in Nat /\ y < b /\ q = x * b + y BY <1>1, DivisionParts
<1> HIDE DEF x, y
<1>3. n = x * (b * p) + (y * p + r)
  <2>1. (x * b + y) * p + r = x * (b * p) + (y * p + r) BY <1>1, <1>2
  <2> QED BY <1>1, <1>2, <2>1
<1>4. y * p + r \in Nat /\ y * p + r < b * p /\ b * p \in Nat \ {0}
  <2>1. \A i, j, m \in Nat : i =< j => i * m =< j * m OBVIOUS
  <2>2. (y + 1) * p =< b * p BY <1>2, <2>1
  <2>3. (y + 1) * p = y * p + p BY <1>2
  <2>4. y * p \in Nat /\ b * p \in Nat BY <1>2
  <2> QED BY <1>1, <2>2, <2>3, <2>4
<1>5. n \div (b * p) = x
  <2> DEFINE m == b * p  c == y * p + r
  <2>1. m \in Nat \ {0} /\ c \in Nat /\ c < m /\ n = x * m + c BY <1>3, <1>4
  <2> HIDE DEF m, c
  <2> QED BY <1>2, <2>1, DivisionUnique DEF m
<1> QED BY <1>5 DEF x, q

\* The digits that are written of a number are its digits in the base: they denote it,
\* they are no more than it needs, and all of a number that fits are found.
LEMMA DigitsShow ==
  ASSUME NEW n \in Nat, n < Pow2[Bits], NEW b \in Nat, b >= 2
  PROVE  /\ DigitsOf(n, b) \in Seq(0..(b - 1))
         /\ Len(DigitsOf(n, b)) \in 1..Bits
         /\ Denoted(DigitsOf(n, b), b) = n
         /\ DigitsOf(n, b)[1] = 0 => Len(DigitsOf(n, b)) = 1
         /\ n < Power(b, Len(DigitsOf(n, b)))
         /\ Power(b, Len(DigitsOf(n, b)) - 1) =< MaxOf(n, 1)
<1> DEFINE Is(k) == Power(b, k - 1) =< MaxOf(n, 1) /\ n < Power(b, k)
           count == CHOOSE k \in 1..Bits : Is(k)
           d == DigitsOf(n, b)
<1>1. Bits \in Nat /\ Bits >= 4 BY Widths
<1>2. /\ \A k \in Nat : Power(b, k) \in Nat \ {0}
      /\ \A k \in Nat : Power(b, k + 1) = b * Power(b, k)
      /\ Power(b, 0) = 1
  <2>1. b \in Nat \ {0} OBVIOUS
  <2>2. \A k \in Nat : Power(b, k) \in Nat \ {0} BY <2>1, PowerSum
  <2>3. \A k \in Nat : Power(b, k + 1) = b * Power(b, k) BY PowerSteps
  <2> QED BY <2>2, <2>3, PowerSteps
<1>3. \E k \in 1..Bits : Is(k)
  <2> DEFINE S == {k \in Nat : n < Power(b, k)}
  <2>1. Bits \in S
    <3>1. Power(b, Bits) >= Pow2[Bits] BY <1>1, PowerGrows
    <3>2. Power(b, Bits) \in Nat /\ Pow2[Bits] \in Nat BY <1>1, <1>2, PowPositive
    <3> QED BY <1>1, <3>1, <3>2
  <2>2. PICK m \in S : \A k \in S : m =< k
    <3>1. S \in SUBSET Nat /\ S # {} BY <2>1
    <3> HIDE DEF S
    <3> QED BY <3>1, Least
  <2>3. m \in 0..Bits
    <3>1. m =< Bits /\ m \in Nat BY <2>1, <2>2
    <3> QED BY <1>1, <3>1
  <2>4. CASE m = 0
    <3>1. n = 0 BY <1>2, <2>2, <2>4
    <3>2. Power(b, 1) = b BY <1>2
    <3>3. Is(1) BY <1>2, <3>1, <3>2 DEF MaxOf
    <3> QED BY <1>1, <3>3
  <2>5. CASE m # 0
    <3>1. m \in 1..Bits /\ m - 1 \in Nat BY <2>3, <2>5
    <3>2. ~ (m =< m - 1) BY <3>1
    <3>3. ~ (n < Power(b, m - 1)) BY <2>2, <3>1, <3>2
    <3>4. Power(b, m - 1) \in Nat BY <1>2, <3>1
    <3>5. Is(m) BY <2>2, <3>3, <3>4 DEF MaxOf
    <3> QED BY <3>1, <3>5
  <2> QED BY <2>4, <2>5
<1>4. count \in 1..Bits /\ Is(count)
  <2> HIDE DEF Is
  <2> QED BY <1>3
<1>5. d = [i \in 1..count |-> (n \div Power(b, count - i)) % b] BY DEF DigitsOf
<1> HIDE DEF count, d
<1> DEFINE P(i) == Power(b, count - i)
<1>6. \A i \in 0..count : count - i \in Nat /\ P(i) \in Nat \ {0} BY <1>2, <1>4
<1>7. \A i \in 0..count : n \div P(i) \in Nat
  <2> TAKE i \in 0..count
  <2> DEFINE p == P(i)
  <2>1. p \in Nat \ {0} BY <1>6
  <2> HIDE DEF p
  <2>2. n \div p \in Nat BY <2>1, DivisionParts
  <2> QED BY <2>2 DEF p
<1>8. d \in Seq(0..(b - 1)) /\ Len(d) = count
  <2>1. \A x \in Nat : x % b \in 0..(b - 1) OBVIOUS
  <2>2. \A i \in 1..count : (n \div Power(b, count - i)) % b \in 0..(b - 1)
    <3> TAKE i \in 1..count
    <3>1. n \div Power(b, count - i) \in Nat BY <1>4, <1>7
    <3> QED BY <2>1, <3>1
  <2>3. count \in Nat BY <1>4
  <2> DEFINE e(i) == (n \div Power(b, count - i)) % b
  <2>4. \A i \in 1..count : e(i) \in 0..(b - 1) BY <2>2
  <2>5. d = [i \in 1..count |-> e(i)] BY <1>5
  <2> HIDE DEF e
  <2> QED BY <2>3, <2>4, <2>5
<1>9. \A i \in 1..count : n \div P(i) = (n \div P(i - 1)) * b + d[i]
  <2> TAKE i \in 1..count
  <2> DEFINE p == P(i)  x == n \div p
  <2>1. i \in 0..count /\ i - 1 \in 0..count /\ count - (i - 1) = (count - i) + 1
        /\ count - i \in Nat
    BY <1>4
  <2>2. P(i - 1) = b * p BY <1>2, <2>1
  <2>3. d[i] = x % b BY <1>5
  <2>4. p \in Nat \ {0} /\ x \in Nat BY <1>6, <1>7, <2>1
  <2>5. x \div b = n \div (b * p)
    <3> HIDE DEF p
    <3>1. b \in Nat \ {0} /\ p \in Nat \ {0} BY <2>4
    <3>2. (n \div p) \div b = n \div (b * p) BY <3>1, DivideTwice
    <3> QED BY <3>2
  <2>6. x = (x \div b) * b + (x % b)
    <3> HIDE DEF x
    <3> QED BY <2>4, DivisionParts
  <2> HIDE DEF x, P, p
  <2> QED BY <2>2, <2>3, <2>5, <2>6 DEF x, p
<1>10. Denoted(d, b) = n
  <2>1. d \in Seq(Nat)
    <3>1. \A i \in 1..count : d[i] \in 0..(b - 1) BY <1>8
    <3> QED BY <1>8, <3>1
  <2>2. \E u : Reads(u, d, b) BY <2>1, DenotedSteps
  <2>3. PICK u : /\ u[0] = 0 /\ Denoted(d, b) = u[count]
                 /\ \A i \in 1..count : u[i] = u[i - 1] * b + d[i]
    BY <1>8, <2>2 DEF Reads
  <2> DEFINE D == {i \in 0..count : u[i] = n \div P(i)}
  <2>4. 0 \in D
    <3>1. n \div Power(b, count) = 0
      <4> DEFINE p == Power(b, count)
      <4>1. p \in Nat \ {0} /\ n < p BY <1>2, <1>4
      <4> HIDE DEF p
      <4>2. n \div p = 0 BY <4>1, BelowDivisor
      <4> QED BY <4>2 DEF p
    <3>2. count - 0 = count /\ 0 \in 0..count BY <1>4
    <3> QED BY <2>3, <3>1, <3>2
  <2>5. \A i \in 0..(count - 1) : i \in D => i + 1 \in D
    <3> TAKE i \in 0..(count - 1)
    <3> HAVE i \in D
    <3>1. i + 1 \in 1..count /\ (i + 1) - 1 = i /\ i + 1 \in 0..count BY <1>4
    <3> HIDE DEF P
    <3>2. u[i + 1] = u[i] * b + d[i + 1] BY <2>3, <3>1
    <3>3. n \div P(i + 1) = (n \div P(i)) * b + d[i + 1] BY <1>9, <3>1
    <3> QED BY <3>1, <3>2, <3>3
  <2>6. count \in D
    <3>1. count \in 0..count /\ count \in Nat BY <1>4
    <3> HIDE DEF D
    <3> QED BY <2>4, <2>5, <3>1, UpTo
  <2>7. P(count) = 1
    <3>1. count - count = 0 BY <1>4
    <3> QED BY <1>2, <3>1
  <2>8. n \div 1 = n OBVIOUS
  <2> QED BY <2>3, <2>6, <2>7, <2>8
<1>11. d[1] = 0 => count = 1
  <2> SUFFICES ASSUME count # 1 PROVE d[1] # 0 OBVIOUS
  <2> DEFINE p == Power(b, count - 1)
  <2>1. 1 \in 1..count /\ count - 1 \in Nat /\ count - 2 \in Nat /\ (count - 2) + 1 = count - 1
        /\ (count - 1) + 1 = count
    BY <1>4
  <2>2. p \in Nat \ {0} /\ p = b * Power(b, count - 2) /\ Power(b, count - 2) \in Nat \ {0}
        /\ Power(b, count) = b * p
    BY <1>2, <2>1
  <2> DEFINE r == Power(b, count - 2)
  <2>3. p > 1
    <3>1. r \in Nat \ {0} /\ p = b * r BY <2>2
    <3> HIDE DEF r, p
    <3>2. \A i, j, m \in Nat : i =< j => i * m =< j * m OBVIOUS
    <3>3. 2 * r =< b * r BY <3>1, <3>2
    <3> QED BY <3>1, <3>3
  <2>4. p =< n /\ n < b * p BY <1>4, <2>2, <2>3 DEF MaxOf
  <2> HIDE DEF p
  <2>5. n \div p # 0 /\ n \div p < b /\ n \div p \in Nat
    <3> DEFINE q == n \div p  s == n % p
    <3>1. q \in Nat /\ s \in Nat /\ s < p /\ n = q * p + s BY <2>2, DivisionParts
    <3> HIDE DEF q, s
    <3>2. q # 0 BY <2>2, <2>4, <3>1
    <3>3. q < b
      <4>1. \A i, j, m \in Nat : i =< j => i * m =< j * m OBVIOUS
      <4>2. b =< q => b * p =< q * p BY <2>2, <3>1, <4>1
      <4>3. q * p \in Nat /\ b * p \in Nat BY <2>2, <3>1
      <4> QED BY <2>4, <3>1, <4>2, <4>3
    <3> QED BY <3>1, <3>2, <3>3 DEF q
  <2>6. (n \div p) % b = n \div p
    <3> DEFINE q == n \div p
    <3>1. q \in Nat /\ q < b BY <2>5
    <3> HIDE DEF q
    <3>2. q % b = q BY <3>1, BelowDivisor
    <3> QED BY <3>2 DEF q
  <2> QED BY <1>5, <2>1, <2>5, <2>6 DEF p
<1> QED BY <1>4, <1>8, <1>10, <1>11 DEF d

\* The first digit of a number that is not zero is not zero.
LEMMA FirstDigit ==
  ASSUME NEW n \in Nat \ {0}, n < Pow2[Bits], NEW b \in Nat, b >= 2
  PROVE  DigitsOf(n, b)[1] # 0
<1> SUFFICES ASSUME DigitsOf(n, b)[1] = 0 PROVE FALSE
  OBVIOUS
<1> DEFINE d == DigitsOf(n, b)
<1>1. d \in Seq(0..(b - 1)) /\ Len(d) = 1 /\ Denoted(d, b) = n BY DigitsShow
<1>2. d[1] = 0 OBVIOUS
<1> HIDE DEF d
<1>3. d \in Seq(Nat)
  <2>1. \A i \in 1..Len(d) : d[i] \in 0..(b - 1) BY <1>1
  <2> QED BY <1>1, <2>1
<1>4. \E x : Reads(x, d, b) BY <1>3, DenotedSteps
<1>5. PICK x : x[0] = 0 /\ x[1] = x[1 - 1] * b + d[1] /\ Denoted(d, b) = x[1]
  BY <1>1, <1>4 DEF Reads
<1>6. x[1] = 0
  <2>1. 1 - 1 = 0 /\ 0 * b + 0 = 0 OBVIOUS
  <2> QED BY <1>2, <1>5, <2>1
<1> QED BY <1>1, <1>5, <1>6

\* Zeros in front of digits change nothing.
LEMMA PaddedShows ==
  ASSUME NEW b \in Nat, b >= 2, NEW d \in Seq(0..(b - 1)), NEW w \in Nat, Len(d) =< w
  PROVE  /\ Padded(d, w, 0) \in Seq(0..(b - 1)) /\ Len(Padded(d, w, 0)) = w
         /\ Denoted(Padded(d, w, 0), b) = Denoted(d, b)
<1> DEFINE k == w - Len(d)  z == [i \in 1..k |-> 0]
<1>1. k \in Nat /\ Len(d) \in Nat OBVIOUS
<1>2. Padded(d, w, 0) = z \o d BY DEF Padded
<1> HIDE DEF k
<1>3. z \in Seq(0..(b - 1)) /\ z \in Seq(Nat) /\ Len(z) = k /\ \A i \in 1..k : z[i] = 0
  <2>1. 0 \in 0..(b - 1) OBVIOUS
  <2> QED BY <1>1, <2>1
<1> HIDE DEF z
<1>4. z \o d \in Seq(0..(b - 1)) /\ Len(z \o d) = k + Len(d) BY <1>3, InARow
<1>5. Denoted(z, b) = 0
  <2>1. \E x : Reads(x, z, b) BY <1>3, DenotedSteps
  <2>2. PICK x : /\ x[0] = 0 /\ Denoted(z, b) = x[k]
                 /\ \A i \in 1..k : x[i] = x[i - 1] * b + z[i]
    BY <1>3, <2>1 DEF Reads
  <2> DEFINE D == {i \in 0..k : x[i] = 0}
  <2>3. 0 \in D BY <1>1, <2>2
  <2>4. \A i \in 0..(k - 1) : i \in D => i + 1 \in D
    <3> TAKE i \in 0..(k - 1)
    <3>1. i + 1 \in 1..k /\ (i + 1) - 1 = i /\ i + 1 \in 0..k BY <1>1
    <3>2. 0 * b + 0 = 0 OBVIOUS
    <3> QED BY <1>3, <2>2, <3>1, <3>2
  <2>5. k \in D
    <3>1. k \in 0..k BY <1>1
    <3> HIDE DEF D
    <3> QED BY <1>1, <2>3, <2>4, <3>1, UpTo
  <2> QED BY <2>2, <2>5
<1>6. Denoted(z \o d, b) = Denoted(d, b)
  <2>1. d \in Seq(Nat)
    <3>1. \A i \in 1..Len(d) : d[i] \in 0..(b - 1) OBVIOUS
    <3> QED BY <3>1
  <2>2. Denoted(z \o d, b) = Denoted(z, b) * Power(b, Len(d)) + Denoted(d, b)
        /\ Denoted(d, b) \in Nat
    BY <1>3, <2>1, DenotedConcat
  <2>3. Power(b, Len(d)) \in Nat BY <1>1, PowerSteps
  <2> DEFINE e == Power(b, Len(d))  y == Denoted(d, b)
  <2>4. e \in Nat /\ y \in Nat BY <2>2, <2>3
  <2> HIDE DEF e, y
  <2>5. 0 * e + y = y BY <2>4
  <2> QED BY <1>5, <2>2, <2>5 DEF e, y
<1>7. k + Len(d) = w BY <1>1 DEF k
<1> QED BY <1>2, <1>4, <1>6, <1>7

\* The digits of a chunk: the power of the base is below a limb, and the next is not.
LEMMA ChunkWidth ==
  ASSUME NEW b \in {8, 10, 16}
  PROVE  LET log == DivBaseLog(b)
         IN  /\ log \in Nat \ {0} /\ Power(b, log) \in Nat \ {0}
             /\ Power(b, log) < Base /\ b * Power(b, log) >= Base
<1> DEFINE Is(k) == Power(b, k) < Base /\ Power(b, k + 1) >= Base
<1>1. LimbBits \in Nat /\ Base \in Nat /\ Base >= 256 BY TextWidths
<1>2. /\ \A k \in Nat : Power(b, k) \in Nat \ {0}
      /\ \A k \in Nat : Power(b, k + 1) = b * Power(b, k)
      /\ Power(b, 0) = 1
  <2>1. b \in Nat \ {0} OBVIOUS
  <2>2. \A k \in Nat : Power(b, k) \in Nat \ {0} BY <2>1, PowerSum
  <2>3. \A k \in Nat : Power(b, k + 1) = b * Power(b, k) BY <2>1, PowerSteps
  <2>4. Power(b, 0) = 1 BY <2>1, PowerSteps
  <2> QED BY <2>2, <2>3, <2>4
<1>3. \E k \in 0..LimbBits : Is(k)
  <2> DEFINE S == {k \in Nat : Power(b, k) >= Base}
  <2>1. LimbBits \in S
    <3>1. b \in Nat /\ b >= 2 OBVIOUS
    <3>2. Power(b, LimbBits) >= Pow2[LimbBits] BY <1>1, <3>1, PowerGrows
    <3> QED BY <1>1, <3>2 DEF Base
  <2>2. PICK m \in S : \A k \in S : m =< k
    <3>1. S \in SUBSET Nat /\ S # {} BY <2>1
    <3> HIDE DEF S
    <3> QED BY <3>1, Least
  <2>3. m \in Nat /\ m =< LimbBits /\ Power(b, m) >= Base BY <2>1, <2>2
  <2>4. m # 0 BY <1>1, <1>2, <2>3
  <2>5. m - 1 \in 0..LimbBits /\ (m - 1) + 1 = m /\ ~ (m =< m - 1) /\ m - 1 \in Nat
    BY <1>1, <2>3, <2>4
  <2>6. ~ (Power(b, m - 1) >= Base) BY <2>2, <2>5
  <2>7. Power(b, m - 1) < Base BY <1>1, <1>2, <2>5, <2>6
  <2> QED BY <2>3, <2>5, <2>7
<1> DEFINE log == DivBaseLog(b)
<1>4. log \in 0..LimbBits /\ Is(log)
  <2>1. log = CHOOSE k \in 0..LimbBits : Is(k) BY DEF DivBaseLog
  <2> HIDE DEF Is, log
  <2> QED BY <1>3, <2>1
<1> HIDE DEF log
<1>5. log # 0
  <2>1. Power(b, 0 + 1) = b * 1 BY <1>2
  <2>2. b * 1 < Base BY <1>1
  <2> QED BY <1>1, <1>4, <2>1, <2>2
<1>6. log \in Nat BY <1>1, <1>4
<1> QED BY <1>2, <1>4, <1>5, <1>6 DEF log

\* The three chunks of a number.
LEMMA ChunksOf ==
  ASSUME NEW u \in U128, NEW b \in {8, 10, 16}
  PROVE  LET D == Power(b, DivBaseLog(b))
             c == Chunks(u, make_uint128(0, D))
         IN  /\ c.high \in Nat /\ c.mid \in Nat /\ c.low \in Nat
             /\ c.high < Base /\ c.mid < D /\ c.low < D
             /\ Val(u) = (c.high * D + c.mid) * D + c.low
<1> DEFINE D == Power(b, DivBaseLog(b))
<1>1. D \in Nat \ {0} /\ D < Base /\ b * D >= Base BY ChunkWidth
<1>2. Base \in Nat /\ Base >= 256 /\ Base * Base \in Nat BY TextWidths
<1> DEFINE div == make_uint128(0, D)
           first == unsafe_div_mod(u, div)
           second == unsafe_div_mod(first.quotient, div)
           c == Chunks(u, div)
<1>3. c = [high |-> second.quotient.low, mid |-> second.remainder.low, low |-> first.remainder.low]
  BY DEF Chunks, SecondDivision, ThreeChunks
<1> HIDE DEF D
<1>4. div \in U128 /\ Val(div) = D
  <2>1. make_uint128(0, D) \in U128 /\ Val(make_uint128(0, D)) = 0 * Base + D
    BY <1>1, <1>2, MakeLimbs
  <2> QED BY <1>1, <1>2, <2>1
<1> HIDE DEF div
<1>5. /\ first.quotient \in U128 /\ first.remainder \in U128
      /\ Val(first.quotient) = Val(u) \div D /\ Val(first.remainder) = Val(u) % D
  BY <1>1, <1>4, DivisionDivides
<1> HIDE DEF first
<1>6. /\ second.quotient \in U128 /\ second.remainder \in U128
      /\ Val(second.quotient) = Val(first.quotient) \div D
      /\ Val(second.remainder) = Val(first.quotient) % D
  <2> DEFINE q == first.quotient
  <2>1. q \in U128 BY <1>5
  <2> HIDE DEF q
  <2>2. LET r == unsafe_div_mod(q, div)
        IN  /\ r.quotient \in U128 /\ r.remainder \in U128
            /\ Val(r.quotient) = Val(q) \div Val(div) /\ Val(r.remainder) = Val(q) % Val(div)
    BY <1>1, <1>4, <2>1, DivisionDivides
  <2> QED BY <2>2, <1>4 DEF q
<1> HIDE DEF second
\* A number below a limb is in the low one.
<1>7. \A w \in U128 : Val(w) < Base => w.low = Val(w)
  <2> TAKE w \in U128
  <2> HAVE Val(w) < Base
  <2> DEFINE h == w.high  l == w.low
  <2>1. h \in Nat /\ l \in Nat /\ Val(w) = h * Base + l BY LimbsOf
  <2> HIDE DEF h, l
  <2>2. h = 0
    <3>1. \A i, j, m \in Nat : i =< j => i * m =< j * m OBVIOUS
    <3>2. h # 0 => 1 * Base =< h * Base BY <1>2, <2>1, <3>1
    <3>3. h * Base \in Nat BY <1>2, <2>1
    <3> QED BY <1>2, <2>1, <3>2, <3>3
  <2>3. 0 * Base + l = l BY <1>2, <2>1
  <2> QED BY <2>1, <2>2, <2>3 DEF l
<1> DEFINE n == Val(u)  x == n \div D  y == x \div D
<1>8. n \in Nat /\ n < Base * Base BY LimbsOf
<1> HIDE DEF n
<1>9. x \in Nat /\ n % D \in Nat /\ n % D < D /\ n = x * D + (n % D) BY <1>1, <1>8, DivisionParts
<1> HIDE DEF x
<1>10. y \in Nat /\ x % D \in Nat /\ x % D < D /\ x = y * D + (x % D) BY <1>1, <1>9, DivisionParts
<1> HIDE DEF y
<1>11. y < b * b
  <2>1. \A i, j, m \in Nat : i =< j => i * m =< j * m OBVIOUS
  <2>2. y * D * D =< n
    <3>1. y * D \in Nat /\ y * D =< x BY <1>1, <1>10
    <3> DEFINE k == y * D
    <3> HIDE DEF k
    <3>2. k * D =< x * D BY <1>1, <1>9, <2>1, <3>1 DEF k
    <3>3. k * D \in Nat /\ x * D \in Nat BY <1>1, <1>9, <3>1 DEF k
    <3>4. k * D =< n BY <1>8, <1>9, <3>2, <3>3
    <3> QED BY <3>4 DEF k
  <2>3. Base * Base =< (b * D) * (b * D)
    <3> DEFINE e == b * D
    <3>1. e \in Nat /\ Base =< e BY <1>1, <1>2
    <3> HIDE DEF e
    <3>2. Base * Base =< e * Base /\ Base * e =< e * e BY <1>2, <2>1, <3>1
    <3>3. e * Base = Base * e /\ e * Base \in Nat /\ e * e \in Nat BY <1>2, <3>1
    <3> QED BY <1>2, <3>2, <3>3 DEF e
  <2>4. b \in Nat /\ (b * D) * (b * D) = (b * b) * D * D BY <1>1
  <2>5. b * b =< y => (b * b) * D * D =< y * D * D
    <3> DEFINE e == b * b
    <3>1. e \in Nat BY <2>4
    <3> HIDE DEF e
    <3>2. e =< y => e * D =< y * D BY <1>1, <1>10, <2>1, <3>1
    <3>3. e * D \in Nat /\ y * D \in Nat BY <1>1, <1>10, <3>1
    <3> DEFINE f == e * D  g == y * D
    <3> HIDE DEF f, g
    <3>4. f =< g => f * D =< g * D BY <1>1, <2>1, <3>3 DEF f, g
    <3> QED BY <3>2, <3>4 DEF e, f, g
  <2>6. y * D * D \in Nat /\ (b * b) * D * D \in Nat /\ b * b \in Nat BY <1>1, <1>10, <2>4
  <2> DEFINE p == y * D * D  q == (b * b) * D * D  r == b * b
  <2>7. /\ p \in Nat /\ q \in Nat /\ r \in Nat /\ p =< n /\ Base * Base =< q
        /\ r =< y => q =< p
    BY <2>2, <2>3, <2>4, <2>5, <2>6
  <2> HIDE DEF p, q, r
  <2>8. y < r BY <1>2, <1>8, <1>10, <2>7
  <2> QED BY <2>8 DEF r
<1>12. y < Base
  <2>1. b * b =< 256 OBVIOUS
  <2>2. b * b \in Nat OBVIOUS
  <2> QED BY <1>2, <1>10, <1>11, <2>1, <2>2
<1>13. Val(first.quotient) = x /\ Val(first.remainder) = n % D BY <1>5 DEF n, x
<1>14. Val(second.quotient) = y /\ Val(second.remainder) = x % D BY <1>6, <1>13 DEF y
<1>15. c.high = y /\ c.mid = x % D /\ c.low = n % D
  <2>1. n % D < Base /\ x % D < Base BY <1>1, <1>2, <1>9, <1>10
  <2> QED BY <1>3, <1>5, <1>6, <1>7, <1>12, <1>13, <1>14, <2>1
<1>16. n = (y * D + (x % D)) * D + (n % D) BY <1>9, <1>10
<1> QED BY <1>9, <1>10, <1>12, <1>15, <1>16 DEF n, D, c, div

\* A chunk that is not the first is written with all the digits that its power has.
LEMMA PaddedChunk ==
  ASSUME NEW b \in {8, 10, 16}, NEW n \in Nat, n < Power(b, DivBaseLog(b))
  PROVE  LET log == DivBaseLog(b)
             p == Padded(DigitsOf(n, b), log, 0)
         IN  /\ p \in Seq(0..(b - 1)) /\ p \in Seq(Nat)
             /\ Len(p) = log /\ Denoted(p, b) = n
<1> DEFINE log == DivBaseLog(b)  d == DigitsOf(n, b)  D == Power(b, log)
<1>1. log \in Nat \ {0} /\ D \in Nat \ {0} /\ D < Base BY ChunkWidth
<1>2. b \in Nat /\ b >= 2 /\ b \in Nat \ {0} OBVIOUS
<1>3. n < Pow2[Bits]
  <2>1. Base =< Base * Base /\ Base * Base = Pow2[Bits] /\ Base \in Nat /\ Base * Base \in Nat
    BY TextWidths, Widths
  <2> HIDE DEF D
  <2>2. n < D BY DEF D, log
  <2> QED BY <1>1, <2>1, <2>2
<1>4. d \in Seq(0..(b - 1)) /\ Len(d) \in 1..Bits /\ Denoted(d, b) = n
      /\ Power(b, Len(d) - 1) =< MaxOf(n, 1)
  BY <1>2, <1>3, DigitsShow
<1> HIDE DEF d, log
<1>5. Len(d) =< log
  <2> SUFFICES ASSUME ~ (Len(d) =< log) PROVE FALSE OBVIOUS
  <2>1. Len(d) - 1 \in Nat /\ log =< Len(d) - 1 BY <1>1, <1>4
  <2>2. D =< Power(b, Len(d) - 1) BY <1>1, <1>2, <2>1, PowerGrows
  <2>3. D > 1
    <3>1. log - 1 \in Nat /\ (log - 1) + 1 = log BY <1>1
    <3> DEFINE r == Power(b, log - 1)
    <3>2. D = b * r /\ r \in Nat \ {0} BY <1>2, <3>1, PowerSteps, PowerSum
    <3> HIDE DEF r, D
    <3>3. \A i, j, m \in Nat : i =< j => i * m =< j * m OBVIOUS
    <3>4. 2 * r =< b * r BY <1>2, <3>2, <3>3
    <3> QED BY <1>1, <3>2, <3>4
  <2>4. Power(b, Len(d) - 1) \in Nat BY <1>2, <2>1, PowerSteps
  <2>5. n < D BY DEF log
  <2> DEFINE q == Power(b, Len(d) - 1)
  <2> HIDE DEF q, D
  <2> QED BY <1>1, <1>4, <2>2, <2>3, <2>4, <2>5 DEF q, MaxOf
<1> DEFINE p == Padded(d, log, 0)
<1>6. p \in Seq(0..(b - 1)) /\ Len(p) = log /\ Denoted(p, b) = n
  BY <1>1, <1>2, <1>4, <1>5, PaddedShows
<1>7. p \in Seq(Nat)
  <2> HIDE DEF p
  <2>1. \A i \in 1..Len(p) : p[i] \in 0..(b - 1) BY <1>6
  <2> QED BY <1>6, <2>1
<1> QED BY <1>6, <1>7 DEF p, d, log

\* The chunks together are the digits of the number, without a zero in front.
LEMMA JoinedShows ==
  ASSUME NEW u \in U128, NEW b \in {8, 10, 16}
  PROVE  LET log == DivBaseLog(b)
             j == Joined(Chunks(u, make_uint128(0, Power(b, log))), b, log)
         IN  /\ j \in Seq(0..(b - 1)) /\ j # <<>>
             /\ Denoted(j, b) = Val(u)
             /\ j[1] = 0 => Len(j) = 1
<1> DEFINE log == DivBaseLog(b)  D == Power(b, log)
           c == Chunks(u, make_uint128(0, D))  j == Joined(c, b, log)
           high == c.high  mid == c.mid  low == c.low
           dh == DigitsOf(high, b)  dm == DigitsOf(mid, b)  dl == DigitsOf(low, b)
           pm == Padded(dm, log, 0)  pl == Padded(dl, log, 0)
<1>1. b \in Nat /\ b >= 2 OBVIOUS
<1>2. log \in Nat \ {0} /\ D \in Nat \ {0} /\ D < Base BY ChunkWidth
<1>3. Base \in Nat /\ Base =< Pow2[Bits] /\ Pow2[Bits] \in Nat BY TextWidths, Widths
<1>4. /\ high \in Nat /\ mid \in Nat /\ low \in Nat
      /\ high < Base /\ mid < D /\ low < D
      /\ Val(u) = (high * D + mid) * D + low
  BY ChunksOf
<1>5. /\ pm \in Seq(0..(b - 1)) /\ pm \in Seq(Nat) /\ Len(pm) = log /\ Denoted(pm, b) = mid
      /\ pl \in Seq(0..(b - 1)) /\ pl \in Seq(Nat) /\ Len(pl) = log /\ Denoted(pl, b) = low
  BY <1>4, PaddedChunk
<1>6. /\ high # 0 => j = dh \o pm \o pl
      /\ high = 0 /\ mid # 0 => j = dm \o pl
      /\ high = 0 /\ mid = 0 => j = dl
  BY DEF Joined
<1> HIDE DEF c, j, D
<1> HIDE DEF pm, pl
<1>7. \A n \in Nat : n < Base \/ n < D =>
        LET d == DigitsOf(n, b)
        IN  /\ d \in Seq(0..(b - 1)) /\ d \in Seq(Nat) /\ Len(d) \in Nat \ {0}
            /\ Denoted(d, b) = n
            /\ d[1] = 0 => Len(d) = 1
            /\ n # 0 => d[1] # 0
  <2> TAKE n \in Nat
  <2> HAVE n < Base \/ n < D
  <2> DEFINE d == DigitsOf(n, b)
  <2>1. n < Pow2[Bits] BY <1>2, <1>3
  <2>2. /\ d \in Seq(0..(b - 1)) /\ Len(d) \in 1..Bits /\ Denoted(d, b) = n
        /\ d[1] = 0 => Len(d) = 1
    BY <1>1, <2>1, DigitsShow
  <2>3. n # 0 => d[1] # 0 BY <1>1, <2>1, FirstDigit
  <2> HIDE DEF d
  <2>4. \A i \in 1..Len(d) : d[i] \in 0..(b - 1) BY <2>2
  <2>5. d \in Seq(Nat) BY <2>2, <2>4
  <2>6. Len(d) \in Nat \ {0} BY <2>2
  <2> QED BY <2>2, <2>3, <2>5, <2>6 DEF d
<1>8. /\ dh \in Seq(0..(b - 1)) /\ dh \in Seq(Nat) /\ Len(dh) \in Nat \ {0}
      /\ Denoted(dh, b) = high /\ (high # 0 => dh[1] # 0)
      /\ dm \in Seq(0..(b - 1)) /\ dm \in Seq(Nat) /\ Len(dm) \in Nat \ {0}
      /\ Denoted(dm, b) = mid /\ (mid # 0 => dm[1] # 0)
      /\ dl \in Seq(0..(b - 1)) /\ Len(dl) \in Nat \ {0}
      /\ Denoted(dl, b) = low /\ (dl[1] = 0 => Len(dl) = 1)
  BY <1>4, <1>7
<1> HIDE DEF high, mid, low, dh, dm, dl, log
\* Digits in a row.
<1>9. \A s, t : s \in Seq(0..(b - 1)) /\ t \in Seq(0..(b - 1)) /\ s \in Seq(Nat) /\ t \in Seq(Nat)
          /\ Len(s) \in Nat \ {0} /\ Len(t) = log =>
        /\ s \o t \in Seq(0..(b - 1)) /\ s \o t \in Seq(Nat) /\ Len(s \o t) \in Nat \ {0}
        /\ (s \o t)[1] = s[1]
        /\ Denoted(s \o t, b) = Denoted(s, b) * D + Denoted(t, b)
  <2> SUFFICES ASSUME NEW s \in Seq(0..(b - 1)), NEW t \in Seq(0..(b - 1)),
                      s \in Seq(Nat), t \in Seq(Nat), Len(s) \in Nat \ {0}, Len(t) = log
               PROVE  /\ s \o t \in Seq(0..(b - 1)) /\ s \o t \in Seq(Nat)
                      /\ Len(s \o t) \in Nat \ {0}
                      /\ (s \o t)[1] = s[1]
                      /\ Denoted(s \o t, b) = Denoted(s, b) * D + Denoted(t, b)
    OBVIOUS
  <2>1. s \o t \in Seq(0..(b - 1)) /\ Len(s \o t) = Len(s) + Len(t)
        /\ \A i \in 1..Len(s) : (s \o t)[i] = s[i]
    BY InARow
  <2>2. s \o t \in Seq(Nat) BY InARow
  <2>3. 1 \in 1..Len(s) OBVIOUS
  <2>4. Len(s \o t) \in Nat \ {0} BY <1>2, <2>1
  <2>5. Denoted(s \o t, b) = Denoted(s, b) * Power(b, Len(t)) + Denoted(t, b)
    BY <1>1, DenotedConcat
  <2> QED BY <2>1, <2>2, <2>3, <2>4, <2>5 DEF D
<1>10. \A s : Len(s) \in Nat \ {0} => s # <<>>
  <2>1. Len(<<>>) = 0 OBVIOUS
  <2> QED BY <2>1
<1>11. CASE high # 0
  <2> DEFINE x == dh \o pm
  <2>1. /\ x \in Seq(0..(b - 1)) /\ x \in Seq(Nat) /\ Len(x) \in Nat \ {0}
        /\ x[1] = dh[1] /\ Denoted(x, b) = high * D + mid
    BY <1>5, <1>8, <1>9
  <2> HIDE DEF x
  <2>2. /\ x \o pl \in Seq(0..(b - 1)) /\ Len(x \o pl) \in Nat \ {0}
        /\ (x \o pl)[1] = x[1] /\ Denoted(x \o pl, b) = Denoted(x, b) * D + Denoted(pl, b)
    BY <1>5, <1>9, <2>1
  <2>3. j = x \o pl BY <1>6, <1>11 DEF x
  <2> QED BY <1>4, <1>5, <1>8, <1>10, <1>11, <2>1, <2>2, <2>3
         DEF j, c, D, log, high, mid, low
<1>12. CASE high = 0 /\ mid # 0
  <2>1. /\ dm \o pl \in Seq(0..(b - 1)) /\ Len(dm \o pl) \in Nat \ {0}
        /\ (dm \o pl)[1] = dm[1] /\ Denoted(dm \o pl, b) = mid * D + low
    BY <1>5, <1>8, <1>9
  <2>2. j = dm \o pl BY <1>6, <1>12
  <2>3. Val(u) = mid * D + low
    <3>1. 0 * D + mid = mid BY <1>2, <1>4
    <3> QED BY <1>4, <1>12, <3>1
  <2> QED BY <1>8, <1>10, <1>12, <2>1, <2>2, <2>3
         DEF j, c, D, log, high, mid, low
<1>13. CASE high = 0 /\ mid = 0
  <2>1. j = dl BY <1>6, <1>13
  <2>2. Val(u) = low
    <3>1. (0 * D + 0) * D + low = low BY <1>2, <1>4
    <3> QED BY <1>4, <1>13, <3>1
  <2> QED BY <1>8, <1>10, <2>1, <2>2 DEF j, c, D, log, high, mid, low
<1> QED BY <1>11, <1>12, <1>13

\* What to_string makes of a number: the mark of the base, if it is asked for and the
\* number is not zero, and the digits.
LEMMA ToStringShows ==
  ASSUME NEW u \in U128, NEW b \in {8, 10, 16}, NEW showbase \in BOOLEAN
  PROVE  LET mark == IF showbase /\ Val(u) # 0 THEN ShowBase(b) ELSE <<>>
         IN  \E j \in Seq(0..(b - 1)) :
               /\ j # <<>> /\ Denoted(j, b) = Val(u) /\ (j[1] = 0 => Len(j) = 1)
               /\ to_string(u, b, showbase) = mark \o j
               /\ mark \in Seq(0..Tag) /\ mark \o j \in Seq(0..Tag)
<1> DEFINE mark == IF showbase /\ Val(u) # 0 THEN ShowBase(b) ELSE <<>>
           log == DivBaseLog(b)
           j == Joined(Chunks(u, make_uint128(0, Power(b, log))), b, log)
<1>1. /\ j \in Seq(0..(b - 1)) /\ j # <<>> /\ Denoted(j, b) = Val(u)
      /\ j[1] = 0 => Len(j) = 1
  BY JoinedShows
<1>2. Equal(u, Zero) <=> Val(u) = 0 BY ZeroAndOne, ComparisonsCompare
<1>3. to_string(u, b, showbase) = mark \o j BY <1>2 DEF to_string
<1> HIDE DEF j
<1>4. mark \in Seq(0..Tag)
  <2>1. ShowBase(b) \in {<<0, Tag>>, <<0>>, <<>>} BY DEF ShowBase
  <2>2. <<0, Tag>> \in Seq(0..Tag) /\ <<0>> \in Seq(0..Tag) /\ <<>> \in Seq(0..Tag) BY DEF Tag
  <2> QED BY <2>1, <2>2
<1> HIDE DEF mark
<1>5. j \in Seq(0..Tag)
  <2>1. 0..(b - 1) \subseteq 0..Tag BY DEF Tag
  <2> DEFINE A == 0..(b - 1)  B == 0..Tag
  <2> HIDE DEF A, B
  <2>2. j \in Seq(A) /\ A \subseteq B BY <1>1, <2>1 DEF A, B
  <2>3. j \in Seq(B) BY <2>2, SeqMonotonic
  <2> QED BY <2>3 DEF B
<1>6. mark \o j \in Seq(0..Tag) BY <1>4, <1>5, InARow
<1> QED BY <1>1, <1>3, <1>4, <1>6 DEF mark

-----------------------------------------------------------------------------
(* Insertion *)

\* Rows of texts, with some of their characters or all.
LEMMA Rows ==
  ASSUME NEW S
  PROVE  \A s, t \in Seq(S) :
           /\ s \o t \in Seq(S) /\ Len(s \o t) = Len(s) + Len(t)
           /\ Len(s) \in Nat /\ Len(t) \in Nat
           /\ \A C : Without(s \o t, C) = Without(s, C) \o Without(t, C)
<1> TAKE s, t \in Seq(S)
<1>1. /\ s \o t \in Seq(S) /\ Len(s \o t) = Len(s) + Len(t)
      /\ Len(s) \in Nat /\ Len(t) \in Nat
  BY InARow
<1>2. \A C : Without(s \o t, C) = Without(s, C) \o Without(t, C) BY WithoutConcat
<1> QED BY <1>1, <1>2

\* A part of a sequence is one.
LEMMA PartOf ==
  ASSUME NEW S, NEW s \in Seq(S), NEW a \in Nat \ {0}, NEW b \in 0..Len(s)
  PROVE  /\ SubSeq(s, a, b) \in Seq(S)
         /\ Len(SubSeq(s, a, b)) = IF a =< b THEN b - a + 1 ELSE 0
         /\ \A i \in 1..(b - a + 1) : SubSeq(s, a, b)[i] = s[a + i - 1]
<1>1. Len(s) \in Nat /\ \A i \in 1..Len(s) : s[i] \in S OBVIOUS
<1>2. \A i \in a..b : s[i] \in S BY <1>1
<1> QED BY <1>1, <1>2, SubSeqProperties

\* Two texts in a row, taken apart.
LEMMA TakenApart ==
  ASSUME NEW S, NEW s \in Seq(S), NEW t \in Seq(S)
  PROVE  /\ SubSeq(s \o t, 1, Len(s)) = s
         /\ SubSeq(s \o t, Len(s) + 1, Len(s \o t)) = t
<1> DEFINE r == s \o t  a == Len(s)  b == Len(t)
<1>1. /\ r \in Seq(S) /\ Len(r) = a + b /\ a \in Nat /\ b \in Nat
      /\ (\A i \in 1..a : r[i] = s[i]) /\ \A i \in 1..b : r[a + i] = t[i]
  BY InARow
<1> HIDE DEF r, a, b
<1>2. SubSeq(r, 1, a) = s
  <2> DEFINE x == SubSeq(r, 1, a)
  <2>1. 1 \in Nat \ {0} /\ a \in 0..Len(r) BY <1>1
  <2>2. x \in Seq(S) /\ Len(x) = (IF 1 =< a THEN a - 1 + 1 ELSE 0)
        /\ \A i \in 1..(a - 1 + 1) : x[i] = r[1 + i - 1]
    BY <1>1, <2>1, PartOf
  <2> HIDE DEF x
  <2>3. Len(x) = a /\ \A i \in 1..a : x[i] = s[i]
    <3>1. a - 1 + 1 = a BY <1>1
    <3>2. \A i \in 1..a : 1 + i - 1 = i BY <1>1
    <3> QED BY <1>1, <2>2, <3>1, <3>2
  <2>4. Len(x) = Len(s) /\ \A i \in 1..Len(x) : x[i] = s[i] BY <2>3 DEF a
  <2>5. x = s BY <2>2, <2>4, SeqEqual
  <2> QED BY <2>5 DEF x
<1>3. SubSeq(r, a + 1, a + b) = t
  <2> DEFINE x == SubSeq(r, a + 1, a + b)
  <2>1. a + 1 \in Nat \ {0} /\ a + b \in 0..Len(r) BY <1>1
  <2>2. x \in Seq(S) /\ Len(x) = (IF a + 1 =< a + b THEN (a + b) - (a + 1) + 1 ELSE 0)
        /\ \A i \in 1..((a + b) - (a + 1) + 1) : x[i] = r[(a + 1) + i - 1]
    BY <1>1, <2>1, PartOf
  <2> HIDE DEF x
  <2>3. Len(x) = b /\ \A i \in 1..b : x[i] = t[i]
    <3>1. (a + b) - (a + 1) + 1 = b BY <1>1
    <3>2. \A i \in 1..b : (a + 1) + i - 1 = a + i BY <1>1
    <3> QED BY <1>1, <2>2, <3>1, <3>2
  <2>4. Len(x) = Len(t) /\ \A i \in 1..Len(x) : x[i] = t[i] BY <2>3 DEF b
  <2>5. x = t BY <2>2, <2>4, SeqEqual
  <2> QED BY <2>5 DEF x
<1> QED BY <1>1, <1>2, <1>3 DEF r, a

\* Filling is spaces, of which nothing is left without spaces.
LEMMA Filling ==
  ASSUME NEW n \in Nat
  PROVE  Fill(n) \in Seq(Chars) /\ Len(Fill(n)) = n /\ Without(Fill(n), {Space}) = <<>>
<1> DEFINE s == Fill(n)
<1>1. s \in Seq(Chars) /\ Len(s) = n /\ \A i \in 1..n : s[i] = Space
  <2>1. Space \in Chars BY DEF Space, Chars
  <2> QED BY <2>1 DEF Fill
<1> HIDE DEF s
<1> DEFINE C == {Space}
<1>2. \A i \in 1..Len(s) : s[i] \in C BY <1>1
<1> HIDE DEF C
<1>3. Without(s, C) = <<>> BY <1>1, <1>2, WithoutNoneOrAll
<1> QED BY <1>1, <1>3 DEF s, C

\* What is written of a number is its text and spaces; they are as many as the width
\* asks for, or two more if they go between the mark of the base and the digits.
LEMMA WidenedShows ==
  ASSUME NEW u \in U128, NEW f \in FormatsOfTheCode,
         NEW mark \in Seq(0..Tag), NEW j \in Seq(0..Tag),
         mark = IF f.showbase /\ Val(u) # 0 THEN ShowBase(f.base) ELSE <<>>
  PROVE  LET rep  == mark \o j
             w    == Widened(rep, u, f)
             more == IF f.showbase /\ Val(u) # 0 /\ f.base = 16 /\ f.adjust = "internal"
                     THEN 2 ELSE 0
         IN  /\ w \in Seq(Chars) /\ Without(w, {Space}) = rep
             /\ Len(w) = IF f.width > Len(rep) THEN f.width + more ELSE Len(rep)
             /\ f.width = 0 => w = rep
<1> DEFINE rep == mark \o j  w == Widened(rep, u, f)
           more == IF f.showbase /\ Val(u) # 0 /\ f.base = 16 /\ f.adjust = "internal"
                   THEN 2 ELSE 0
           C == {Space}
           missing == f.width - Len(rep)
           inside == f.adjust = "internal" /\ f.showbase /\ f.base = 16 /\ ~ Equal(u, Zero)
<1>1. f.base \in {8, 10, 16} /\ f.showbase \in BOOLEAN /\ f.width \in Nat
      /\ f.adjust \in {"left", "internal", "right"}
  BY DEF FormatsOfTheCode
<1>2. Equal(u, Zero) <=> Val(u) = 0 BY ZeroAndOne, ComparisonsCompare
<1>3. /\ mark \in Seq(Chars) /\ j \in Seq(Chars)
      /\ Without(mark, C) = mark /\ Without(j, C) = j
  <2> DEFINE A == 0..Tag
  <2>1. A \subseteq Chars /\ Space \notin A BY DEF Tag, Chars, Space
  <2>2. mark \in Seq(A) /\ j \in Seq(A) OBVIOUS
  <2> HIDE DEF A
  <2>3. mark \in Seq(Chars) /\ j \in Seq(Chars) BY <2>1, <2>2, SeqMonotonic
  <2>4. (\A i \in 1..Len(mark) : mark[i] \in A) /\ (\A i \in 1..Len(j) : j[i] \in A) BY <2>2
  <2>5. (\A i \in 1..Len(mark) : mark[i] \notin C) /\ (\A i \in 1..Len(j) : j[i] \notin C)
    BY <2>1, <2>4
  <2> HIDE DEF C
  <2> QED BY <2>3, <2>5, WithoutNoneOrAll
<1>r. \A s, t \in Seq(Chars) :
        /\ s \o t \in Seq(Chars) /\ Len(s \o t) = Len(s) + Len(t)
        /\ Len(s) \in Nat /\ Len(t) \in Nat
        /\ Without(s \o t, C) = Without(s, C) \o Without(t, C)
  BY Rows
<1>4. /\ rep \in Seq(Chars) /\ Len(rep) = Len(mark) + Len(j)
      /\ Len(mark) \in Nat /\ Len(j) \in Nat /\ Without(rep, C) = rep
  <2> HIDE DEF C
  <2> QED BY <1>3, <1>r, ZenonT(40)
<1>5. w = CASE missing =< 0 -> rep
          [] missing > 0 /\ f.adjust = "left" -> rep \o Fill(missing)
          [] missing > 0 /\ inside -> SubSeq(rep, 1, 2) \o Fill(missing + 2) \o SubSeq(rep, 3, Len(rep))
          [] OTHER -> Fill(missing) \o rep
  BY DEF Widened, InField
<1>10. missing \in Int /\ (missing =< 0 \/ missing > 0) /\ (missing > 0 => ~ (missing =< 0))
  BY <1>1, <1>4
<1> HIDE DEF w
<1>6. \A n \in Nat : Fill(n) \in Seq(Chars) /\ Len(Fill(n)) = n /\ Without(Fill(n), C) = <<>>
  BY Filling
<1>7. SubSeq(rep, 1, Len(mark)) = mark /\ SubSeq(rep, Len(mark) + 1, Len(rep)) = j
  BY <1>3, TakenApart
<1> HIDE DEF rep, C, inside
<1>8. CASE missing =< 0
  <2>1. w = rep
    <3> HIDE DEF missing
    <3> QED BY <1>5, <1>8, <1>10
  <2>2. ~ (f.width > Len(rep)) BY <1>1, <1>4, <1>8
  <2> QED BY <1>4, <2>1, <2>2 DEF rep, w, C
<1>9. CASE missing > 0
  <2> DEFINE m == f.width - Len(rep)
  <2>1. m \in Nat /\ f.width > Len(rep) /\ f.width # 0 /\ Len(rep) + m = f.width
        /\ m + 2 \in Nat
    BY <1>1, <1>4, <1>9
  <2>2. /\ f.adjust = "left" => w = rep \o Fill(m)
        /\ inside /\ f.adjust = "internal" =>
             w = SubSeq(rep, 1, 2) \o Fill(m + 2) \o SubSeq(rep, 3, Len(rep))
        /\ ~ inside /\ f.adjust # "left" => w = Fill(m) \o rep
    <3>1. /\ f.adjust = "left" => w = rep \o Fill(missing)
          /\ inside /\ f.adjust = "internal" =>
               w = SubSeq(rep, 1, 2) \o Fill(missing + 2) \o SubSeq(rep, 3, Len(rep))
          /\ ~ inside /\ f.adjust # "left" => w = Fill(missing) \o rep
      <4> HIDE DEF missing
      <4>1. missing > 0 /\ ~ (missing =< 0) BY <1>9, <1>10
      <4>2. f.adjust = "left" => w = rep \o Fill(missing)
        <5>1. inside => f.adjust = "internal" BY DEF inside
        <5> QED BY <1>5, <4>1, <5>1
      <4>3. inside /\ f.adjust = "internal" =>
              w = SubSeq(rep, 1, 2) \o Fill(missing + 2) \o SubSeq(rep, 3, Len(rep))
        BY <1>5, <4>1
      <4>4. ~ inside /\ f.adjust # "left" => w = Fill(missing) \o rep BY <1>5, <4>1
      <4> QED BY <4>2, <4>3, <4>4
    <3> QED BY <3>1
  <2>3. inside => f.adjust = "internal" BY DEF inside
  <2> HIDE DEF m
  <2>4. Fill(m) \in Seq(Chars) /\ Len(Fill(m)) = m /\ Without(Fill(m), C) = <<>>
        /\ Fill(m + 2) \in Seq(Chars) /\ Len(Fill(m + 2)) = m + 2
        /\ Without(Fill(m + 2), C) = <<>>
    BY <1>6, <2>1
  <2>5. CASE inside
    <3>1. more = 2 /\ mark = <<0, Tag>> BY <1>2, <2>5 DEF inside, ShowBase
    <3>2. Len(mark) = 2 BY <3>1
    <3>3. w = mark \o Fill(m + 2) \o j
      <4>1. SubSeq(rep, 1, 2) = mark /\ SubSeq(rep, 3, Len(rep)) = j
        <5>1. 2 + 1 = 3 OBVIOUS
        <5> QED BY <1>7, <3>2, <5>1
      <4> QED BY <2>2, <2>3, <2>5, <4>1
    <3> DEFINE x == mark \o Fill(m + 2)
    <3>4. x \in Seq(Chars) /\ Len(x) = 2 + (m + 2)
      <4>1. x \in Seq(Chars) /\ Len(x) = Len(mark) + Len(Fill(m + 2)) BY <1>3, <1>r, <2>4, Zenon
      <4> QED BY <2>4, <3>2, <4>1
    <3>5. Without(x, C) = mark
      <4>1. Without(x, C) = Without(mark, C) \o Without(Fill(m + 2), C)
        BY <1>3, <1>r, <2>4, Zenon
      <4>2. mark \o <<>> = mark BY <1>3, ConcatEmptySeq
      <4> QED BY <1>3, <2>4, <4>1, <4>2
    <3> HIDE DEF x
    <3>6. w = x \o j BY <3>3 DEF x
    <3>7. w \in Seq(Chars) /\ Len(w) = (2 + (m + 2)) + Len(j) BY <1>3, <3>4, <3>6, InARow
    <3>8. Without(w, C) = rep
      <4>1. Without(x \o j, C) = Without(x, C) \o Without(j, C) BY <1>3, <1>r, <3>4, Zenon
      <4> QED BY <1>3, <3>5, <3>6, <4>1 DEF rep
    <3>9. Len(w) = f.width + more
      <4> DEFINE a == Len(j)  e == f.width
      <4>1. a \in Nat /\ e \in Nat /\ Len(rep) = 2 + a /\ Len(rep) + m = e
            /\ Len(w) = (2 + (m + 2)) + a
        BY <1>1, <1>4, <2>1, <3>2, <3>7 DEF rep
      <4> HIDE DEF a, e, more
      <4>2. Len(w) = e + more BY <2>1, <3>1, <4>1
      <4> QED BY <4>2 DEF e
    <3> QED BY <2>1, <3>7, <3>8, <3>9 DEF rep, w, C
  <2>6. CASE ~ inside
    <3>1. more = 0 BY <1>2, <2>6 DEF inside
    <3>2. CASE f.adjust = "left"
      <4>1. w = rep \o Fill(m) BY <2>2, <3>2
      <4>2. w \in Seq(Chars) /\ Len(w) = Len(rep) + m
        <5>1. w \in Seq(Chars) /\ Len(w) = Len(rep) + Len(Fill(m))
          BY <1>4, <1>r, <2>4, <4>1, Zenon DEF rep
        <5> QED BY <2>4, <5>1
      <4>3. Without(w, C) = rep
        <5>1. Without(rep \o Fill(m), C) = Without(rep, C) \o Without(Fill(m), C)
          BY <1>4, <1>r, <2>4, Zenon DEF rep
        <5>2. rep \o <<>> = rep BY <1>4, ConcatEmptySeq
        <5> QED BY <1>4, <2>4, <4>1, <5>1, <5>2
      <4>4. Len(w) = f.width + more BY <1>1, <2>1, <3>1, <4>2
      <4> QED BY <2>1, <4>2, <4>3, <4>4 DEF rep, w, C
    <3>3. CASE f.adjust # "left"
      <4>1. w = Fill(m) \o rep BY <2>2, <2>6, <3>3
      <4>2. w \in Seq(Chars) /\ Len(w) = m + Len(rep) BY <1>4, <2>4, <4>1, InARow
      <4>3. Without(w, C) = rep
        <5>1. Without(Fill(m) \o rep, C) = Without(Fill(m), C) \o Without(rep, C)
          BY <1>4, <1>r, <2>4, Zenon DEF rep
        <5>2. <<>> \o rep = rep BY <1>4, ConcatEmptySeq
        <5> QED BY <1>4, <2>4, <4>1, <5>1, <5>2
      <4>4. Len(w) = f.width + more BY <1>1, <1>4, <2>1, <3>1, <4>2
      <4> QED BY <2>1, <4>2, <4>3, <4>4 DEF rep, w, C
    <3> QED BY <3>2, <3>3
  <2> QED BY <2>5, <2>6
<1> QED BY <1>8, <1>9, <1>10

\* The characters that an insertion writes.
LEMMA InsertedShows ==
  ASSUME NEW u \in U128, NEW f \in FormatsOfTheCode
  PROVE  LET shows  == f.showbase /\ Val(u) # 0
             mark   == IF shows THEN ShowBase(f.base) ELSE <<>>
             w      == Inserted(u, f)
             rep    == Without(w, {Space})
             digits == SubSeq(rep, Len(mark) + 1, Len(rep))
             more   == IF shows /\ f.base = 16 /\ f.adjust = "internal" THEN 2 ELSE 0
         IN  /\ w \in Seq(Chars) /\ w # <<>>
             /\ IsPrefix(mark, rep)
             /\ digits \in Seq(0..(f.base - 1)) /\ digits # <<>>
             /\ Denoted(digits, f.base) = Val(u)
             /\ digits[1] = 0 => Len(digits) = 1
             /\ Len(w) = IF f.width > Len(rep) THEN f.width + more ELSE Len(rep)
             /\ f.width = 0 => w = mark \o digits
<1> DEFINE shows == f.showbase /\ Val(u) # 0
           mark == IF shows THEN ShowBase(f.base) ELSE <<>>
           more == IF shows /\ f.base = 16 /\ f.adjust = "internal" THEN 2 ELSE 0
           w == Inserted(u, f)
<1>1. f.base \in {8, 10, 16} /\ f.showbase \in BOOLEAN /\ f.width \in Nat
  BY DEF FormatsOfTheCode
<1>2. PICK j \in Seq(0..(f.base - 1)) :
        /\ j # <<>> /\ Denoted(j, f.base) = Val(u) /\ (j[1] = 0 => Len(j) = 1)
        /\ to_string(u, f.base, f.showbase) = mark \o j
        /\ mark \in Seq(0..Tag) /\ mark \o j \in Seq(0..Tag)
  <2> DEFINE b == f.base  sb == f.showbase
  <2>1. b \in {8, 10, 16} /\ sb \in BOOLEAN BY <1>1
  <2>2. b = f.base /\ sb = f.showbase OBVIOUS
  <2> HIDE DEF b, sb
  <2>3. LET mk == IF sb /\ Val(u) # 0 THEN ShowBase(b) ELSE <<>>
        IN  \E x \in Seq(0..(b - 1)) :
              /\ x # <<>> /\ Denoted(x, b) = Val(u) /\ (x[1] = 0 => Len(x) = 1)
              /\ to_string(u, b, sb) = mk \o x
              /\ mk \in Seq(0..Tag) /\ mk \o x \in Seq(0..Tag)
    BY <2>1, ToStringShows, ZenonT(40)
  <2> QED BY <2>2, <2>3
<1>3. w = Widened(mark \o j, u, f) BY <1>2 DEF Inserted
<1>4. j \in Seq(0..Tag)
  <2>1. 0..(f.base - 1) \subseteq 0..Tag
    <3>1. f.base \in Nat /\ f.base =< 16 BY <1>1
    <3> DEFINE b == f.base
    <3>2. b \in Nat /\ b =< 16 BY <3>1
    <3> HIDE DEF b
    <3>3. 0..(b - 1) \subseteq 0..16 BY <3>2
    <3> QED BY <3>3 DEF b, Tag
  <2> DEFINE A == 0..(f.base - 1)  B == 0..Tag
  <2> HIDE DEF A, B
  <2>2. j \in Seq(A) /\ A \subseteq B BY <1>2, <2>1 DEF A, B
  <2>3. j \in Seq(B) BY <2>2, SeqMonotonic
  <2> QED BY <2>3 DEF B
<1> DEFINE rep == mark \o j
<1>5. /\ w \in Seq(Chars) /\ Without(w, {Space}) = rep
      /\ Len(w) = IF f.width > Len(rep) THEN f.width + more ELSE Len(rep)
      /\ f.width = 0 => w = rep
  <2>1. mark \in Seq(0..Tag) BY <1>2
  <2>2. mark = IF f.showbase /\ Val(u) # 0 THEN ShowBase(f.base) ELSE <<>> OBVIOUS
  <2>3. \A mk, x \in Seq(0..Tag) :
          mk = (IF f.showbase /\ Val(u) # 0 THEN ShowBase(f.base) ELSE <<>>) =>
          LET r  == mk \o x
              wd == Widened(r, u, f)
              mr == IF f.showbase /\ Val(u) # 0 /\ f.base = 16 /\ f.adjust = "internal"
                    THEN 2 ELSE 0
          IN  /\ wd \in Seq(Chars) /\ Without(wd, {Space}) = r
              /\ Len(wd) = IF f.width > Len(r) THEN f.width + mr ELSE Len(r)
              /\ f.width = 0 => wd = r
    BY WidenedShows
  <2>4. more = IF f.showbase /\ Val(u) # 0 /\ f.base = 16 /\ f.adjust = "internal"
               THEN 2 ELSE 0
    OBVIOUS
  <2> HIDE DEF mark, more, w
  <2>5. LET r  == mark \o j
            wd == Widened(r, u, f)
            mr == IF f.showbase /\ Val(u) # 0 /\ f.base = 16 /\ f.adjust = "internal"
                  THEN 2 ELSE 0
        IN  /\ wd \in Seq(Chars) /\ Without(wd, {Space}) = r
            /\ Len(wd) = IF f.width > Len(r) THEN f.width + mr ELSE Len(r)
            /\ f.width = 0 => wd = r
    BY <2>1, <2>2, <2>3, <1>4, Zenon
  <2> QED BY <1>3, <2>4, <2>5
<1>6. mark \in Seq(0..Tag) BY <1>2
<1>7. more \in {0, 2} OBVIOUS
<1> HIDE DEF mark, w, more
<1>8. /\ rep \in Seq(0..Tag) /\ Len(rep) = Len(mark) + Len(j)
      /\ Len(mark) \in Nat /\ Len(j) \in Nat
      /\ SubSeq(rep, 1, Len(mark)) = mark /\ SubSeq(rep, Len(mark) + 1, Len(rep)) = j
  BY <1>4, <1>6, InARow, TakenApart
<1>9. SubSeq(mark, 1, Len(mark)) = mark BY <1>6, SubSeqFull
<1> HIDE DEF rep
<1>10. IsPrefix(mark, rep) BY <1>8, <1>9 DEF IsPrefix
<1>11. w # <<>>
  <2>1. Len(j) # 0 BY <1>4, <1>2
  <2>2. Len(rep) > 0 BY <1>8, <2>1
  <2>3. Len(w) > 0 BY <1>1, <1>5, <1>7, <1>8, <2>2
  <2>4. Len(<<>>) = 0 OBVIOUS
  <2> QED BY <2>3, <2>4
<1> QED BY <1>2, <1>5, <1>8, <1>10, <1>11 DEF mark, w, more, rep

-----------------------------------------------------------------------------
(* Bytes *)

Byte == 0..255
\* A byte array in the memory of an object.
ByteArrays == [1..ByteCount -> Byte]

\* One more byte of a number: what is above it, and what is below.
LEMMA NextByte ==
  ASSUME NEW n \in Nat, NEW k \in Nat
  PROVE  LET x == n \div Pow2[8 * k]
         IN  /\ x \in Nat /\ x % 256 \in Byte
             /\ n \div Pow2[8 * (k + 1)] = x \div 256
             /\ x * Pow2[8 * k] = (x \div 256) * Pow2[8 * (k + 1)] + (x % 256) * Pow2[8 * k]
             /\ n % Pow2[8 * (k + 1)] = (n % Pow2[8 * k]) + (x % 256) * Pow2[8 * k]
             /\ Pow2[8 * k] \in Nat \ {0} /\ Pow2[8 * (k + 1)] = 256 * Pow2[8 * k]
<1> DEFINE P == Pow2[8 * k]  x == n \div P  r == n % P  y == x \div 256  d == x % 256
<1>1. P \in Nat \ {0} /\ Pow2[8 * (k + 1)] = 256 * P
  <2>1. 8 * k \in Nat /\ 8 \in Nat /\ 8 * (k + 1) = 8 + 8 * k OBVIOUS
  <2>2. Pow2[8] = 256 BY PowSteps
  <2>3. Pow2[8 + 8 * k] = Pow2[8] * Pow2[8 * k] BY <2>1, PowSum
  <2>4. Pow2[8 * k] \in Nat \ {0} BY <2>1, PowPositive
  <2> QED BY <2>1, <2>2, <2>3, <2>4
<1> HIDE DEF P
<1>2. x \in Nat /\ r \in Nat /\ r < P /\ n = x * P + r BY <1>1, DivisionParts
<1>3. n \div (256 * P) = x \div 256
  <2>1. \A p, b \in Nat \ {0} : (n \div p) \div b = n \div (b * p) BY DivideTwice
  <2>2. 256 \in Nat \ {0} OBVIOUS
  <2>3. (n \div P) \div 256 = n \div (256 * P) BY <1>1, <2>1, <2>2
  <2> QED BY <2>3
<1> HIDE DEF x, r
<1>4. y \in Nat /\ d \in Nat /\ d < 256 /\ x = y * 256 + d BY <1>2, DivisionParts
<1> HIDE DEF y, d
<1>5. x * P = y * (256 * P) + d * P BY <1>1, <1>4
<1>6. n % (256 * P) = r + d * P
  <2>1. n = y * (256 * P) + (d * P + r) BY <1>1, <1>2, <1>4, <1>5
  <2>2. d * P + r \in Nat /\ d * P + r < 256 * P
    <3>1. \A i, j, m \in Nat : i =< j => i * m =< j * m OBVIOUS
    <3>2. (d + 1) * P =< 256 * P BY <1>1, <1>4, <3>1
    <3>3. (d + 1) * P = d * P + P /\ d * P \in Nat BY <1>1, <1>4
    <3> QED BY <1>1, <1>2, <3>2, <3>3
  <2> DEFINE c == d * P + r  m == 256 * P
  <2>3. c \in Nat /\ m \in Nat \ {0} /\ c < m /\ n = y * m + c BY <1>1, <2>1, <2>2
  <2>4. c = r + d * P
    <3>1. d * P \in Nat BY <1>1, <1>4
    <3> DEFINE e == d * P
    <3>2. e \in Nat BY <3>1
    <3> HIDE DEF e
    <3>3. e + r = r + e BY <1>2, <3>2
    <3> QED BY <3>3 DEF e
  <2> HIDE DEF c, m
  <2>5. n % m = c BY <1>4, <2>3, DivisionUnique
  <2> QED BY <2>4, <2>5 DEF m
<1>7. d \in Byte BY <1>4 DEF Byte
<1> QED BY <1>1, <1>2, <1>3, <1>5, <1>6, <1>7 DEF P, x, r, y, d

\* The number of bits that a byte is moved by is below the width.
LEMMA ShiftedBy ==
  ASSUME NEW little \in BOOLEAN, NEW unit \in {1, 8}, NEW i \in 1..ByteCount
  PROVE  /\ Below(little, i) \in 0..(ByteCount - 1)
         /\ Below(little, i) * unit \in 0..(Bits - 1)
<1>1. ByteCount \in Nat /\ ByteCount >= 2 /\ Bits = 8 * ByteCount BY TextWidths
<1>2. Below(little, i) \in 0..(ByteCount - 1) BY <1>1 DEF Below
<1> DEFINE k == Below(little, i)
<1>3. k \in 0..(ByteCount - 1) BY <1>2
<1> HIDE DEF k
<1>4. k * unit \in 0..(Bits - 1)
  <2>1. CASE unit = 1 BY <1>1, <1>3, <2>1
  <2>2. CASE unit = 8 BY <1>1, <1>3, <2>2
  <2> QED BY <2>1, <2>2
<1> QED BY <1>2, <1>4 DEF k

\* A byte that is moved in a number keeps all of its bits.
LEMMA MovedByte ==
  ASSUME NEW c \in Byte, NEW k \in 0..(Bits - 8)
  PROVE  /\ ShiftLeft(make_uint128(0, c), k) \in U128
         /\ Val(ShiftLeft(make_uint128(0, c), k)) = c * Pow2[k]
<1>1. Bits \in Nat /\ Bits >= 16 /\ Base * Base = Pow2[Bits]
  <2>1. LimbBits \in Nat /\ LimbBits >= 8 /\ Bits = LimbBits + LimbBits BY TextWidths
  <2> QED BY <2>1, Widths
<1>2. k \in 0..(Bits - 1) /\ k \in Nat BY <1>1
<1>3. c \in Nat /\ c < 256 BY DEF Byte
<1> DEFINE u == make_uint128(0, c)
<1>4. u \in U128 /\ Val(u) = c BY <1>3, SmallNumber
<1> HIDE DEF u
<1>5. ShiftLeft(u, k) \in U128 /\ Val(ShiftLeft(u, k)) = (c * Pow2[k]) % Pow2[Bits]
  BY <1>1, <1>2, <1>4, ShiftLeftMultiplies
<1>6. c * Pow2[k] < Pow2[Bits] /\ c * Pow2[k] \in Nat /\ Pow2[Bits] \in Nat \ {0}
  <2>1. Bits - 8 \in Nat /\ 8 + (Bits - 8) = Bits BY <1>1
  <2>2. Pow2[k] =< Pow2[Bits - 8] BY <1>2, <2>1, PowMonotone
  <2>3. Pow2[Bits] = 256 * Pow2[Bits - 8]
    <3>1. Pow2[8 + (Bits - 8)] = Pow2[8] * Pow2[Bits - 8] BY <2>1, PowSum
    <3>2. Pow2[8] = 256 BY PowSteps
    <3> QED BY <2>1, <3>1, <3>2
  <2>4. Pow2[k] \in Nat \ {0} /\ Pow2[Bits - 8] \in Nat \ {0} BY <1>2, <2>1, PowPositive
  <2> DEFINE p == Pow2[k]  q == Pow2[Bits - 8]
  <2>5. p \in Nat \ {0} /\ q \in Nat \ {0} /\ p =< q /\ Pow2[Bits] = 256 * q BY <2>2, <2>3, <2>4
  <2> HIDE DEF p, q
  <2>6. \A i, j, m \in Nat : i =< j => i * m =< j * m OBVIOUS
  <2>7. c * p \in Nat /\ (c + 1) * p =< 256 * p /\ (c + 1) * p = c * p + p
    <3>1. (c + 1) * p =< 256 * p BY <1>3, <2>5, <2>6
    <3> QED BY <1>3, <2>5, <3>1
  <2>8. 256 * p =< 256 * q BY <2>5
  <2> QED BY <2>5, <2>7, <2>8 DEF p
<1> DEFINE e == c * Pow2[k]  m == Pow2[Bits]
<1>7. e \in Nat /\ m \in Nat \ {0} /\ e < m BY <1>6
<1> HIDE DEF e, m
<1>8. e % m = e BY <1>7, BelowDivisor
<1> QED BY <1>5, <1>8 DEF e, m, u

\* r holds what has been or-ed together up to each of the bytes.
Ors(r, little, unit, bytes) ==
  /\ r \in [0..ByteCount -> U128]
  /\ r[0] = Zero
  /\ \A i \in 1..ByteCount :
       r[i] = BitOr(r[i - 1], ShiftLeft(make_uint128(0, bytes[i]), Below(little, i) * unit))
  /\ OrShifted(little, unit, bytes) = r[ByteCount]

\* The loop over the bytes goes from the first to the last.
LEMMA OrShiftedSteps ==
  \A little \in BOOLEAN : \A unit \in {1, 8} : \A bytes \in ByteArrays :
    \E r : Ors(r, little, unit, bytes)
<1> SUFFICES ASSUME NEW little \in BOOLEAN, NEW unit \in {1, 8}, NEW bytes \in ByteArrays
             PROVE  \E r : Ors(r, little, unit, bytes)
  OBVIOUS
<1> DEFINE n == ByteCount
           e == [i \in 1..n |-> ShiftLeft(make_uint128(0, bytes[i]), Below(little, i) * unit)]
           step == [i \in 1..n |-> [s \in U128 |-> BitOr(s, e[i])]]
           Eq(h) == h = [i \in 0..n |->
                           IF i = 0 THEN Zero
                           ELSE BitOr(h[i - 1], ShiftLeft(make_uint128(0, bytes[i]),
                                                          Below(little, i) * unit))]
           Eq2(h) == h = [i \in 0..n |-> IF i = 0 THEN Zero ELSE BitOr(h[i - 1], e[i])]
           u == CHOOSE u : Eq(u)
<1>1. n \in Nat BY TextWidths
<1>2. \A i \in 1..n : e[i] \in U128
  <2> TAKE i \in 1..n
  <2>1. bytes[i] \in Nat /\ bytes[i] < 256
    <3>1. bytes[i] \in Byte BY DEF ByteArrays
    <3> QED BY <3>1 DEF Byte
  <2> DEFINE b == make_uint128(0, bytes[i])  k == Below(little, i) * unit
  <2>2. b \in U128 BY <2>1, SmallNumber
  <2>3. k \in 0..(Bits - 1) BY ShiftedBy
  <2>4. e[i] = ShiftLeft(b, k) OBVIOUS
  <2> HIDE DEF b, k, e
  <2>5. ShiftLeft(b, k) \in U128 BY <2>2, <2>3, ShiftLeftMultiplies
  <2> QED BY <2>4, <2>5
<1>3. \A h : Eq(h) <=> Eq2(h)
  <2> TAKE h
  <2>1. \A i \in 0..n : i # 0 =>
          BitOr(h[i - 1], e[i])
            = BitOr(h[i - 1], ShiftLeft(make_uint128(0, bytes[i]), Below(little, i) * unit))
    <3> TAKE i \in 0..n
    <3> HAVE i # 0
    <3>1. i \in 1..n BY <1>1
    <3> QED BY <3>1
  <2> HIDE DEF e
  <2> QED BY <2>1
<1>0. \A i \in 1..n : e[i] = ShiftLeft(make_uint128(0, bytes[i]), Below(little, i) * unit)
  OBVIOUS
<1> HIDE DEF e
<1>4. step \in [1..n -> [U128 -> U128]]
  <2>1. \A i \in 1..n : \A s \in U128 : BitOr(s, e[i]) \in U128 BY <1>2, BitOrAdds
  <2> HIDE DEF n
  <2> QED BY <2>1
<1>5. Zero \in U128 BY ZeroAndOne
<1>6. \A i \in 1..n : \A s \in U128 : step[i][s] = BitOr(s, e[i]) OBVIOUS
<1> HIDE DEF step
<1>7. PICK g \in [0..n -> U128] :
        g[0] = Zero /\ \A i \in 1..n : g[i] = step[i][g[i - 1]]
  <2> HIDE DEF n
  <2> DEFINE T == U128
  <2> HIDE DEF T
  <2>1. HasRecursion(T) BY Recursions
  <2>2. step \in [1..n -> [T -> T]] /\ Zero \in T BY <1>4, <1>5 DEF T
  <2>3. \E g \in [0..n -> T] : g[0] = Zero /\ \A i \in 1..n : g[i] = step[i][g[i - 1]]
    BY <2>1, <2>2, <1>1 DEF HasRecursion
  <2> QED BY <2>3 DEF T
<1>8. \A i \in 1..n : i - 1 \in 0..n /\ i \in 0..n BY <1>1
<1>9. \A i \in 1..n : g[i] = BitOr(g[i - 1], e[i]) BY <1>6, <1>7, <1>8
<1>10. Eq2(g)
  <2>1. \A i \in 0..n : g[i] = IF i = 0 THEN Zero ELSE BitOr(g[i - 1], e[i])
    <3>1. \A i \in 0..n : i # 0 => i \in 1..n BY <1>1
    <3> QED BY <3>1, <1>7, <1>9
  <2>2. g = [i \in 0..n |-> g[i]] BY <1>7
  <2> HIDE DEF n
  <2> QED BY <2>1, <2>2
<1>11. Eq(u)
  <2> HIDE DEF Eq, Eq2
  <2> QED BY <1>3, <1>10
<1>12. Eq2(u)
  <2> HIDE DEF Eq, Eq2
  <2> QED BY <1>3, <1>11
<1>13. OrShifted(little, unit, bytes) = u[n] BY DEF OrShifted
<1> HIDE DEF u
<1>14. u[0] = Zero /\ \A i \in 1..n : u[i] = BitOr(u[i - 1], e[i])
  <2>1. \A i \in 0..n : u[i] = IF i = 0 THEN Zero ELSE BitOr(u[i - 1], e[i]) BY <1>12
  <2>2. 0 \in 0..n /\ \A i \in 1..n : i \in 0..n /\ i # 0 BY <1>1
  <2> QED BY <2>1, <2>2
<1> DEFINE D == {i \in 0..n : u[i] = g[i]}
<1>15. \A i \in 0..n : i \in D
  <2>1. 0 \in D BY <1>1, <1>7, <1>14
  <2>2. \A i \in 0..(n - 1) : i \in D => i + 1 \in D
    <3> TAKE i \in 0..(n - 1)
    <3>1. i + 1 \in 1..n /\ (i + 1) - 1 = i BY <1>1
    <3> QED BY <3>1, <1>8, <1>9, <1>14
  <2> HIDE DEF D
  <2> QED BY <1>1, <2>1, <2>2, UpTo
<1>16. OrShifted(little, unit, bytes) = g[n] BY <1>1, <1>13, <1>15
<1>17. \A i \in 1..n :
         g[i] = BitOr(g[i - 1], ShiftLeft(make_uint128(0, bytes[i]), Below(little, i) * unit))
  BY <1>9, <1>0
<1> QED BY <1>7, <1>16, <1>17 DEF Ors

\* Numbers that stand for the same are the same.
LEMMA SameNumber ==
  ASSUME NEW a \in U128, NEW b \in U128, Val(a) = Val(b)
  PROVE  a = b
<1>1. a.high = b.high /\ a.low = b.low BY ComparisonsCompare DEF Equal
<1> QED BY <1>1 DEF U128

\* Bytes that are moved by bytes, the first the least, make the number whose digits in
\* base 256 they are.
LEMMA BytesAddUp ==
  ASSUME NEW bytes \in ByteArrays
  PROVE  /\ OrShifted(TRUE, 8, bytes) \in U128
         /\ \E p \in [0..ByteCount -> Nat] :
              /\ p[0] = 0 /\ Val(OrShifted(TRUE, 8, bytes)) = p[ByteCount]
              /\ \A i \in 1..ByteCount : p[i] = p[i - 1] + bytes[i] * Pow2[8 * (i - 1)]
<1> DEFINE n == ByteCount
<1>1. n \in Nat /\ n >= 2 /\ Bits = 8 * n /\ Bits \in Nat
  <2>1. n \in Nat /\ n >= 2 /\ Bits = 8 * n BY TextWidths
  <2> QED BY <2>1
<1>2. PICK r : Ors(r, TRUE, 8, bytes) BY OrShiftedSteps
<1>3. /\ r \in [0..n -> U128] /\ r[0] = Zero /\ OrShifted(TRUE, 8, bytes) = r[n]
      /\ \A i \in 1..n :
           r[i] = BitOr(r[i - 1], ShiftLeft(make_uint128(0, bytes[i]), Below(TRUE, i) * 8))
  BY <1>2 DEF Ors
<1> HIDE DEF n
<1> DEFINE p == [i \in 0..n |-> Val(r[i])]
<1>4. p \in [0..n -> Nat] /\ \A i \in 0..n : p[i] = Val(r[i])
  <2>1. \A i \in 0..n : Val(r[i]) \in Nat BY <1>3, LimbsOf
  <2> QED BY <2>1
<1> HIDE DEF p
<1>5. p[0] = 0 BY <1>1, <1>3, <1>4, ZeroAndOne
<1> DEFINE D == {i \in 0..n : /\ p[i] < Pow2[8 * i]
                              /\ i # 0 => p[i] = p[i - 1] + bytes[i] * Pow2[8 * (i - 1)]}
<1>6. 0 \in D
  <2>1. Pow2[8 * 0] = 1 BY PowSteps
  <2> QED BY <1>1, <1>5, <2>1
<1>7. \A i \in 0..(n - 1) : i \in D => i + 1 \in D
  <2> TAKE i \in 0..(n - 1)
  <2> HAVE i \in D
  <2> DEFINE c == bytes[i + 1]  P == Pow2[8 * i]  a == r[i]
             b == ShiftLeft(make_uint128(0, c), 8 * i)
  <2>1. /\ i + 1 \in 1..n /\ (i + 1) - 1 = i /\ i \in 0..n /\ i + 1 \in 0..n /\ i \in Nat
        /\ 8 * i \in 0..(Bits - 8) /\ 8 * i \in Nat /\ 8 * i \in 0..Bits
    BY <1>1
  <2>2. c \in Byte BY <2>1 DEF ByteArrays, n
  <2>3. r[i + 1] = BitOr(a, b)
    <3>1. Below(TRUE, i + 1) = i BY <2>1 DEF Below
    <3>2. i * 8 = 8 * i BY <2>1
    <3> QED BY <1>3, <2>1, <3>1, <3>2
  <2>4. a \in U128 /\ Val(a) = p[i] /\ Val(r[i + 1]) = p[i + 1] BY <1>3, <1>4, <2>1
  <2> HIDE DEF c
  <2>5. b \in U128 /\ Val(b) = c * P BY <2>1, <2>2, MovedByte
  <2>6. Val(a) < P BY <2>4
  <2>7. c \in Nat /\ c < 256 BY <2>2 DEF Byte
  <2> DEFINE k == 8 * i
  <2>8. P = Pow2[k] /\ k \in 0..Bits BY <2>1
  <2> HIDE DEF a, b, k, P
  <2>9. Val(BitOr(a, b)) = Val(a) + Val(b)
    <3>1. \A m \in 0..Bits : \A q \in Nat :
            Val(a) < Pow2[m] /\ Val(b) = q * Pow2[m] => Val(BitOr(a, b)) = Val(a) + Val(b)
      BY <2>4, <2>5, BitOrAdds
    <3> QED BY <2>5, <2>6, <2>7, <2>8, <3>1
  <2>10. p[i + 1] = p[i] + c * P BY <2>3, <2>4, <2>5, <2>9
  <2>11. P \in Nat \ {0} /\ Pow2[8 * (i + 1)] = 256 * P BY <2>1, NextByte DEF P
  <2>12. p[i] + c * P < 256 * P
    <3> DEFINE x == p[i]
    <3>1. x \in Nat /\ x < P BY <1>4, <2>1, <2>4, <2>6
    <3> HIDE DEF x
    <3>2. \A j, l, m \in Nat : j =< l => j * m =< l * m OBVIOUS
    <3>3. (c + 1) * P =< 256 * P BY <2>7, <2>11, <3>2
    <3>4. (c + 1) * P = c * P + P /\ c * P \in Nat BY <2>7, <2>11
    <3>5. x + c * P < 256 * P BY <2>11, <3>1, <3>3, <3>4
    <3> QED BY <3>5 DEF x
  <2>13. p[i + 1] < Pow2[8 * (i + 1)] BY <2>10, <2>11, <2>12
  <2> QED BY <2>1, <2>10, <2>13 DEF P, c
<1>8. \A i \in 0..n : i \in D
  <2> HIDE DEF D
  <2> QED BY <1>1, <1>6, <1>7, UpTo
<1>9. \A i \in 1..n : p[i] = p[i - 1] + bytes[i] * Pow2[8 * (i - 1)]
  <2> TAKE i \in 1..n
  <2>1. i \in 0..n /\ i # 0 BY <1>1
  <2> QED BY <1>8, <2>1
<1>10. OrShifted(TRUE, 8, bytes) \in U128 /\ Val(OrShifted(TRUE, 8, bytes)) = p[n]
  <2>1. n \in 0..n BY <1>1
  <2> QED BY <1>3, <1>4, <2>1
<1> QED BY <1>4, <1>5, <1>9, <1>10 DEF n

\* The bytes of a number, the first the least.
BytesOf(u) == [i \in 1..ByteCount |-> (Val(u) \div Pow2[8 * (i - 1)]) % 256]

\* The bytes of a number are an array of them, also in reverse, and no less than the
\* number.
LEMMA BytesOfNumber ==
  ASSUME NEW u \in U128
  PROVE  /\ BytesOf(u) \in ByteArrays /\ Reverse(BytesOf(u)) \in ByteArrays
         /\ Reverse(Reverse(BytesOf(u))) = BytesOf(u)
         /\ \A i \in 1..ByteCount : Reverse(BytesOf(u))[i]
              = (Val(u) \div Pow2[8 * (ByteCount - i)]) % 256
<1> DEFINE n == ByteCount  b == BytesOf(u)
<1>1. n \in Nat BY TextWidths
<1>2. \A i \in 1..n : (Val(u) \div Pow2[8 * (i - 1)]) % 256 \in Byte
  <2> TAKE i \in 1..n
  <2> DEFINE k == i - 1
  <2>1. k \in Nat /\ Val(u) \in Nat BY <1>1, LimbsOf
  <2> HIDE DEF k
  <2>2. (Val(u) \div Pow2[8 * k]) % 256 \in Byte BY <2>1, NextByte
  <2> QED BY <2>2 DEF k
<1>3. \A i \in 1..n : b[i] = (Val(u) \div Pow2[8 * (i - 1)]) % 256 BY DEF BytesOf
<1>4. b \in [1..n -> Byte]
  <2> DEFINE e(i) == (Val(u) \div Pow2[8 * (i - 1)]) % 256
  <2>1. b = [i \in 1..n |-> e(i)] BY DEF BytesOf
  <2>2. \A i \in 1..n : e(i) \in Byte BY <1>2
  <2> HIDE DEF e, n, b
  <2> QED BY <2>1, <2>2
<1> HIDE DEF b
<1>5. \A x \in [1..n -> Byte] :
        /\ Reverse(x) = [i \in 1..n |-> x[n + 1 - i]]
        /\ Reverse(x) \in [1..n -> Byte]
        /\ Reverse(Reverse(x)) = x
  <2> HIDE DEF n
  <2>1. \A x \in [1..n -> Byte] :
          Reverse(x) = [i \in 1..n |-> x[n + 1 - i]] /\ Reverse(x) \in [1..n -> Byte]
    <3> TAKE x \in [1..n -> Byte]
    <3>1. Len(x) = n /\ x \in Seq(Byte) BY <1>1
    <3>2. \A i \in 1..n : (n - i) + 1 = n + 1 - i /\ n + 1 - i \in 1..n BY <1>1
    <3>3. Reverse(x) = [i \in 1..n |-> x[(n - i) + 1]] BY <3>1 DEF Reverse
    <3> QED BY <3>2, <3>3
  <2> TAKE x \in [1..n -> Byte]
  <2> DEFINE y == Reverse(x)
  <2>2. y \in [1..n -> Byte] /\ \A i \in 1..n : y[i] = x[n + 1 - i] BY <2>1
  <2>3. Reverse(y) = [i \in 1..n |-> y[n + 1 - i]] BY <2>1, <2>2
  <2> HIDE DEF y
  <2>4. \A i \in 1..n : n + 1 - i \in 1..n /\ n + 1 - (n + 1 - i) = i BY <1>1
  <2>5. \A i \in 1..n : y[n + 1 - i] = x[i] BY <2>2, <2>4
  <2>6. Reverse(y) = x BY <2>3, <2>5
  <2> QED BY <2>1, <2>6 DEF y
<1>6. \A i \in 1..n : Reverse(b)[i] = (Val(u) \div Pow2[8 * (n - i)]) % 256
  <2> TAKE i \in 1..n
  <2>1. n + 1 - i \in 1..n /\ (n + 1 - i) - 1 = n - i BY <1>1
  <2>2. Reverse(b)[i] = b[n + 1 - i] BY <1>4, <1>5
  <2> QED BY <1>3, <2>1, <2>2
<1> QED BY <1>4, <1>5, <1>6 DEF b, ByteArrays

\* They make the number again where they are moved by bytes, ...
LEMMA BytesAgain ==
  ASSUME NEW u \in U128
  PROVE  OrShifted(TRUE, 8, BytesOf(u)) = u
<1> DEFINE n == ByteCount  b == BytesOf(u)  x == Val(u)
<1>1. n \in Nat /\ Bits = 8 * n BY TextWidths
<1>2. x \in Nat /\ x < Pow2[Bits]
  <2>1. Val(u) \in Nat /\ Val(u) < Base * Base BY LimbsOf
  <2> QED BY <2>1, Widths
<1>3. b \in ByteArrays BY BytesOfNumber
<1>4. \A i \in 1..n : b[i] = (x \div Pow2[8 * (i - 1)]) % 256 BY DEF BytesOf
<1> HIDE DEF b, x, n
<1>5. OrShifted(TRUE, 8, b) \in U128 BY <1>3, BytesAddUp
<1>6. PICK p \in [0..n -> Nat] :
        /\ p[0] = 0 /\ Val(OrShifted(TRUE, 8, b)) = p[n]
        /\ \A i \in 1..n : p[i] = p[i - 1] + b[i] * Pow2[8 * (i - 1)]
  BY <1>3, BytesAddUp DEF n
<1> DEFINE D == {i \in 0..n : p[i] = x % Pow2[8 * i]}
<1>7. 0 \in D
  <2>1. Pow2[8 * 0] = 1 /\ x % 1 = 0 BY <1>2, PowSteps
  <2> QED BY <1>1, <1>6, <2>1
<1>8. \A i \in 0..(n - 1) : i \in D => i + 1 \in D
  <2> TAKE i \in 0..(n - 1)
  <2> HAVE i \in D
  <2>1. i + 1 \in 1..n /\ (i + 1) - 1 = i /\ i + 1 \in 0..n /\ i \in Nat BY <1>1
  <2>2. x % Pow2[8 * (i + 1)] = (x % Pow2[8 * i]) + ((x \div Pow2[8 * i]) % 256) * Pow2[8 * i]
    BY <1>2, <2>1, NextByte
  <2>3. b[i + 1] = (x \div Pow2[8 * i]) % 256 BY <1>4, <2>1
  <2>4. p[i + 1] = p[i] + b[i + 1] * Pow2[8 * i] BY <1>6, <2>1
  <2> QED BY <2>1, <2>2, <2>3, <2>4
<1>9. n \in D
  <2>1. n \in 0..n BY <1>1
  <2> HIDE DEF D
  <2> QED BY <1>1, <1>7, <1>8, <2>1, UpTo
<1>10. x % Pow2[8 * n] = x
  <2> DEFINE m == Pow2[8 * n]
  <2>1. m \in Nat \ {0} /\ x < m
    <3>1. 8 * n \in Nat BY <1>1
    <3> QED BY <1>1, <1>2, <3>1, PowPositive
  <2> HIDE DEF m
  <2>2. x % m = x BY <1>2, <2>1, BelowDivisor
  <2> QED BY <2>2 DEF m
<1>11. Val(OrShifted(TRUE, 8, b)) = Val(u) BY <1>6, <1>9, <1>10 DEF x
<1> QED BY <1>5, <1>11, SameNumber DEF b

\* ... but if they are moved by bits and come in the other order, only if the number is
\* that of one byte.
LEMMA BytesByIndex ==
  ASSUME NEW u \in U128
  PROVE  OrShifted(FALSE, 1, Reverse(BytesOf(u))) = u <=> Val(u) < 256
<1> DEFINE n == ByteCount  b == Reverse(BytesOf(u))  x == Val(u)
           w(i) == (x \div Pow2[8 * (n - i)]) * Pow2[8 * (n - i)]
<1>1. n \in Nat /\ n >= 2 /\ Bits = 8 * n /\ Bits \in Nat
  <2>1. n \in Nat /\ n >= 2 /\ Bits = 8 * n BY TextWidths
  <2> QED BY <2>1
<1>2. x \in Nat /\ x < Pow2[8 * n]
  <2>1. Val(u) \in Nat /\ Val(u) < Base * Base BY LimbsOf
  <2> QED BY <1>1, <2>1, Widths
<1>3. b \in ByteArrays /\ \A i \in 1..n : b[i] = (x \div Pow2[8 * (n - i)]) % 256
  BY BytesOfNumber
<1> HIDE DEF b, x
<1>4. PICK r : Ors(r, FALSE, 1, b) BY <1>3, OrShiftedSteps
<1>5. /\ r \in [0..n -> U128] /\ r[0] = Zero /\ OrShifted(FALSE, 1, b) = r[n]
      /\ \A i \in 1..n :
           r[i] = BitOr(r[i - 1], ShiftLeft(make_uint128(0, b[i]), Below(FALSE, i) * 1))
  BY <1>4 DEF Ors
<1>6. \A i \in 1..n : Below(FALSE, i) * 1 = n - i BY <1>1 DEF Below
<1>0. \A c \in Byte : \A k \in 0..(n - 1) :
        ShiftLeft(make_uint128(0, c), k) \in U128
        /\ Val(ShiftLeft(make_uint128(0, c), k)) = c * Pow2[k]
  <2> TAKE c \in Byte
  <2> TAKE k \in 0..(n - 1)
  <2>1. k \in 0..(Bits - 8) BY <1>1
  <2> QED BY <2>1, MovedByte
<1>b. \A i \in 1..n : b[i] \in Byte BY <1>3 DEF ByteArrays
<1> HIDE DEF n
\* What one more byte adds.
<1>7. \A i \in 0..(n - 1) :
        /\ w(i) \in Nat /\ w(i + 1) = w(i) + b[i + 1] * Pow2[8 * (n - (i + 1))]
        /\ r[i] \in U128 /\ r[i + 1] \in U128
        /\ Val(r[i]) \in Nat /\ Val(r[i + 1]) \in Nat
        /\ Val(r[i + 1]) =< Val(r[i]) + b[i + 1] * Pow2[n - (i + 1)]
        /\ Val(r[i]) = 0 => Val(r[i + 1]) = b[i + 1] * Pow2[n - (i + 1)]
  <2> TAKE i \in 0..(n - 1)
  <2> DEFINE k == n - (i + 1)  c == b[i + 1]
  <2>1. i + 1 \in 1..n /\ (i + 1) - 1 = i /\ i \in 0..n /\ i + 1 \in 0..n /\ k \in Nat
        /\ n - i = k + 1 /\ k \in 0..(n - 1)
    BY <1>1
  <2> HIDE DEF k
  <2>2. c = (x \div Pow2[8 * k]) % 256 BY <1>3, <2>1 DEF k
  <2>3. c \in Byte /\ c \in Nat BY <1>b, <2>1 DEF Byte
  <2> HIDE DEF c
  <2>4. /\ x \div Pow2[8 * k] \in Nat
        /\ x \div Pow2[8 * (k + 1)] = (x \div Pow2[8 * k]) \div 256
        /\ (x \div Pow2[8 * k]) * Pow2[8 * k]
             = ((x \div Pow2[8 * k]) \div 256) * Pow2[8 * (k + 1)] + c * Pow2[8 * k]
        /\ Pow2[8 * k] \in Nat /\ Pow2[8 * (k + 1)] \in Nat
    <3>1. k + 1 \in Nat /\ 8 * (k + 1) \in Nat BY <2>1
    <3>2. Pow2[8 * (k + 1)] \in Nat BY <3>1, PowPositive
    <3> QED BY <1>2, <2>1, <2>2, <3>2, NextByte
  <2>5. w(i) = (x \div Pow2[8 * (k + 1)]) * Pow2[8 * (k + 1)]
        /\ w(i + 1) = (x \div Pow2[8 * k]) * Pow2[8 * k]
    BY <2>1 DEF k
  <2>6. w(i + 1) = w(i) + c * Pow2[8 * k]
    <3> HIDE DEF w
    <3> QED BY <2>4, <2>5
  <2>7. w(i) \in Nat
    <3>1. x \div Pow2[8 * (k + 1)] \in Nat
      <4>1. k + 1 \in Nat BY <2>1
      <4> QED BY <1>2, <4>1, NextByte
    <3> DEFINE y == x \div Pow2[8 * (k + 1)]  z == Pow2[8 * (k + 1)]
    <3>2. y \in Nat /\ z \in Nat BY <2>4, <3>1
    <3> HIDE DEF y, z
    <3>3. y * z \in Nat BY <3>2
    <3> HIDE DEF w
    <3> QED BY <2>5, <3>3 DEF y, z
  <2>8. r[i] \in U128 /\ r[i + 1] \in U128 BY <1>5, <2>1
  <2> DEFINE s == ShiftLeft(make_uint128(0, c), k)
  <2>9. r[i + 1] = BitOr(r[i], s) BY <1>5, <1>6, <2>1 DEF k, c
  <2>10. s \in U128 /\ Val(s) = c * Pow2[k] BY <1>0, <2>1, <2>3
  <2> HIDE DEF s
  <2>11. /\ Val(BitOr(r[i], s)) =< Val(r[i]) + Val(s)
         /\ \A m \in 0..Bits : \A q \in Nat :
              Val(r[i]) < Pow2[m] /\ Val(s) = q * Pow2[m] =>
                Val(BitOr(r[i], s)) = Val(r[i]) + Val(s)
    <3> DEFINE a == r[i]
    <3>1. a \in U128 BY <2>8
    <3> HIDE DEF a
    <3>2. /\ Val(BitOr(a, s)) =< Val(a) + Val(s)
          /\ \A m \in 0..Bits : \A q \in Nat :
              Val(a) < Pow2[m] /\ Val(s) = q * Pow2[m] =>
                Val(BitOr(a, s)) = Val(a) + Val(s)
      BY <2>10, <3>1, BitOrAdds
    <3> QED BY <3>2 DEF a
  <2>12. Val(r[i]) \in Nat /\ Val(r[i + 1]) \in Nat /\ Val(s) \in Nat
    BY <2>8, <2>10, LimbsOf
  <2>13. Val(r[i]) = 0 => Val(r[i + 1]) = Val(s)
    <3> SUFFICES ASSUME Val(r[i]) = 0 PROVE Val(r[i + 1]) = Val(s) OBVIOUS
    <3>1. 0 \in 0..Bits /\ Pow2[0] = 1 BY <1>1, PowSteps
    <3>2. Val(s) = Val(s) * 1 /\ 0 < 1 /\ 0 + Val(s) = Val(s) BY <2>12
    <3>3. Val(BitOr(r[i], s)) = Val(r[i]) + Val(s)
      <4> DEFINE a == Val(r[i])  e == Val(s)  f == Val(BitOr(r[i], s))
      <4>1. /\ \A m \in 0..Bits : \A q \in Nat : a < Pow2[m] /\ e = q * Pow2[m] => f = a + e
            /\ e \in Nat /\ e = e * 1 /\ a = 0
        BY <2>11, <2>12, <3>2
      <4> HIDE DEF a, e, f
      <4>2. f = a + e BY <3>1, <4>1
      <4> QED BY <4>2 DEF a, e, f
    <3> QED BY <2>9, <3>2, <3>3
  <2> HIDE DEF w
  <2> QED BY <2>6, <2>7, <2>8, <2>9, <2>10, <2>11, <2>12, <2>13 DEF c, k
<1>8. w(0) = 0
  <2> DEFINE m == Pow2[8 * n]
  <2>1. m \in Nat \ {0} /\ x < m
    <3>1. 8 * n \in Nat BY <1>1
    <3> QED BY <1>2, <3>1, PowPositive
  <2>2. n - 0 = n BY <1>1
  <2> HIDE DEF m
  <2>3. x \div m = 0 BY <1>2, <2>1, BelowDivisor
  <2>4. 0 * m = 0 BY <2>1
  <2> QED BY <2>2, <2>3, <2>4 DEF m
<1>9. w(n) = x
  <2>1. n - n = 0 /\ 8 * 0 = 0 /\ Pow2[0] = 1 BY <1>1, PowSteps
  <2>2. x \div 1 = x /\ x * 1 = x BY <1>2
  <2> QED BY <2>1, <2>2
<1> HIDE DEF w
<1> DEFINE D == {i \in 0..n : /\ w(i) \in Nat /\ Val(r[i]) \in Nat
                              /\ i =< n - 1 =>
                                   /\ w(i) = 0 => Val(r[i]) = 0
                                   /\ w(i) # 0 => Val(r[i]) < w(i)}
<1>10. \A i \in 0..n : i \in D
  <2>1. 0 \in D BY <1>1, <1>5, <1>8, ZeroAndOne
  <2>2. \A i \in 0..(n - 1) : i \in D => i + 1 \in D
    <3> TAKE i \in 0..(n - 1)
    <3> HAVE i \in D
    <3> DEFINE k == n - (i + 1)  c == b[i + 1]  a == Val(r[i])  e == Val(r[i + 1])
               p == Pow2[k]  q == Pow2[8 * k]  y == w(i)  z == w(i + 1)
    <3>1. i + 1 \in 0..n /\ i + 1 \in 1..n /\ k \in Nat /\ i =< n - 1
          /\ (i + 1 =< n - 1 => k # 0)
      BY <1>1
    <3>2. /\ y \in Nat /\ z = y + c * q /\ a \in Nat /\ e \in Nat /\ e =< a + c * p
          /\ a = 0 => e = c * p
      BY <1>7
    <3>3. c \in Nat
      <4>1. b[i + 1] \in Byte BY <1>b, <3>1
      <4> QED BY <4>1 DEF Byte
    <3>4. (y = 0 => a = 0) /\ (y # 0 => a < y) BY <3>1
    <3>5. p \in Nat \ {0} /\ q \in Nat \ {0} /\ (k # 0 => p < q)
      <4>1. 8 * k \in Nat BY <3>1
      <4>2. p \in Nat \ {0} /\ q \in Nat \ {0} BY <3>1, <4>1, PowPositive
      <4>3. k # 0 => p < q
        <5> SUFFICES ASSUME k # 0 PROVE p < q OBVIOUS
        <5>1. k + 1 \in Nat /\ k + 1 =< 8 * k BY <3>1
        <5> HIDE DEF k
        <5>2. Pow2[k + 1] = 2 * Pow2[k] BY <3>1, PowSteps
        <5>3. Pow2[k + 1] =< Pow2[8 * k] BY <4>1, <5>1, PowMonotone
        <5> QED BY <4>2, <5>2, <5>3
      <4> QED BY <4>2, <4>3
    <3> HIDE DEF k, c, a, e, p, q, y, z
    <3>6. c * p \in Nat /\ c * q \in Nat BY <3>3, <3>5
    <3>7. k # 0 => (c = 0 => c * p = 0 /\ c * q = 0) /\ (c # 0 => c * p < c * q /\ c * q # 0)
      <4> SUFFICES ASSUME k # 0
                   PROVE  (c = 0 => c * p = 0 /\ c * q = 0)
                          /\ (c # 0 => c * p < c * q /\ c * q # 0)
        OBVIOUS
      <4>1. p < q BY <3>5
      <4>2. c = 0 => c * p = 0 /\ c * q = 0 BY <3>5
      <4>3. c # 0 => c * p < c * q /\ c * q # 0
        <5> SUFFICES ASSUME c # 0 PROVE c * p < c * q /\ c * q # 0 OBVIOUS
        <5> DEFINE d == q - p
        <5>1. d \in Nat \ {0} /\ q = p + d BY <3>5, <4>1
        <5> HIDE DEF d
        <5>2. c * (p + d) = c * p + c * d BY <3>3, <3>5, <5>1
        <5>3. c * d \in Nat \ {0} BY <3>3, <5>1
        <5> QED BY <3>6, <5>1, <5>2, <5>3
      <4> QED BY <4>2, <4>3
    <3>8. z \in Nat BY <3>2, <3>6
    <3>9. k # 0 => (z = 0 => e = 0) /\ (z # 0 => e < z)
      <4> SUFFICES ASSUME k # 0 PROVE (z = 0 => e = 0) /\ (z # 0 => e < z) OBVIOUS
      <4> DEFINE g == c * p  h == c * q
      <4>1. /\ g \in Nat /\ h \in Nat /\ z = y + h /\ e =< a + g
            /\ (c = 0 => g = 0 /\ h = 0) /\ (c # 0 => g < h /\ h # 0)
        BY <3>2, <3>6, <3>7
      <4> HIDE DEF g, h
      <4> QED BY <3>2, <3>4, <3>8, <4>1
    <3>10. z \in Nat /\ e \in Nat /\ (i + 1 =< n - 1 => (z = 0 => e = 0) /\ (z # 0 => e < z))
      BY <3>1, <3>2, <3>8, <3>9
    <3> QED BY <3>1, <3>10 DEF z, e
  <2> HIDE DEF D
  <2> QED BY <1>1, <2>1, <2>2, UpTo
\* The last byte is not moved at all.
<1> DEFINE y == w(n - 1)  a == Val(r[n - 1])  e == Val(r[n])  c == b[n]
<1>11. /\ y \in Nat /\ a \in Nat /\ e \in Nat /\ c \in Nat /\ c < 256
       /\ (y = 0 => a = 0) /\ (y # 0 => a < y)
       /\ x = y + c /\ e =< a + c /\ (a = 0 => e = c)
  <2>1. n - 1 \in 0..n /\ n - 1 \in 0..(n - 1) /\ (n - 1) + 1 = n /\ n - 1 =< n - 1
        /\ n - n = 0 /\ n \in 1..n
    BY <1>1
  <2>2. n - 1 \in D BY <1>10, <2>1
  <2>3. b[n] \in Byte BY <1>b, <2>1
  <2>4. c \in Nat /\ c < 256 BY <2>3 DEF Byte
  <2>5. Pow2[8 * (n - n)] = 1 /\ Pow2[n - n] = 1
    <3>1. 8 * 0 = 0 OBVIOUS
    <3> QED BY <2>1, <3>1, PowSteps
  <2>6. /\ w(n) = w(n - 1) + b[n] * 1 /\ Val(r[n]) \in Nat
        /\ Val(r[n]) =< Val(r[n - 1]) + b[n] * 1
        /\ Val(r[n - 1]) = 0 => Val(r[n]) = b[n] * 1
    BY <1>7, <2>1, <2>5
  <2>7. b[n] * 1 = b[n] BY <2>4
  <2> QED BY <1>9, <2>1, <2>2, <2>4, <2>6, <2>7
<1>12. y # 0 => x >= 256
  <2> SUFFICES ASSUME y # 0 PROVE x >= 256 OBVIOUS
  <2>1. y = (x \div Pow2[8 * 1]) * Pow2[8 * 1]
    <3>1. n - (n - 1) = 1 BY <1>1
    <3> QED BY <3>1 DEF w
  <2>2. Pow2[8 * 1] = 256 BY PowSteps
  <2>3. y = (x \div 256) * 256 BY <2>1, <2>2
  <2> HIDE DEF y
  <2>4. x \div 256 # 0 /\ x \div 256 \in Nat BY <1>2, <2>3
  <2> QED BY <1>2, <2>4
<1> HIDE DEF y, a, e, c
<1>13. e = x <=> x < 256
  <2>1. y = 0 => x < 256 /\ e = x BY <1>11
  <2>2. y # 0 => ~ (x < 256) /\ e < x BY <1>2, <1>11, <1>12
  <2> QED BY <1>2, <1>11, <2>1, <2>2
<1>14. r[n] \in U128
  <2>1. n \in 0..n BY <1>1
  <2> QED BY <1>5, <2>1
<1>15. r[n] = u <=> e = x BY <1>14, SameNumber DEF e, x
<1> QED BY <1>5, <1>13, <1>15 DEF b, x

\* The byte arrays of a number, on a machine of either order.
LEMMA ArraysOf ==
  ASSUME NEW u \in U128, NEW little \in BOOLEAN
  PROVE  /\ to_little_endian_arr(little, u) = BytesOf(u)
         /\ to_big_endian_arr(little, u) = Reverse(BytesOf(u))
<1> DEFINE n == ByteCount  x == Val(u)  native == to_bytes_native(little, u)
           b == BytesOf(u)
<1>1. n \in Nat /\ n >= 2 BY TextWidths
<1>2. x \in Nat BY LimbsOf
<1>3. \A k \in 0..(n - 1) : ShiftRight(u, 8 * k).low % 256 = (x \div Pow2[8 * k]) % 256
  <2> TAKE k \in 0..(n - 1)
  <2> DEFINE s == ShiftRight(u, 8 * k)  h == s.high  l == s.low
  <2>1. 8 * k \in 0..(Bits - 1)
    <3>1. Bits = 8 * n BY TextWidths
    <3> QED BY <1>1, <3>1
  <2>2. s \in U128 /\ Val(s) = x \div Pow2[8 * k] BY <2>1, ShiftRightDivides
  <2> HIDE DEF s
  <2>3. h \in Nat /\ l \in Nat /\ Val(s) = h * Base + l BY <2>2, LimbsOf
  <2> HIDE DEF h, l
  <2>4. PICK d \in Nat : Base = 256 * d
    <3>1. PICK e \in Nat \ {0} : Base = 256 * Pow2[8 * e - 8] BY TextWidths
    <3>2. 8 * e - 8 \in Nat BY <3>1
    <3>3. Pow2[8 * e - 8] \in Nat BY <3>2, PowPositive
    <3> QED BY <3>1, <3>3
  <2>5. Val(s) = (h * d) * 256 + l BY <2>3, <2>4
  <2>6. Val(s) % 256 = l % 256
    <3> DEFINE q == h * d
    <3>1. q \in Nat /\ Val(s) = q * 256 + l BY <2>3, <2>4, <2>5
    <3> HIDE DEF q
    <3>2. (q * 256 + l) % 256 = l % 256 BY <2>3, <3>1
    <3> QED BY <3>1, <3>2
  <2> QED BY <2>2, <2>6 DEF s, l
<1>4. native = [i \in 1..n |-> (x \div Pow2[8 * Below(little, i)]) % 256]
  <2>1. native = [i \in 1..n |-> ShiftRight(u, Below(little, i) * 8).low % 256]
    <3>1. Pow2[8] = 256 BY PowSteps
    <3> QED BY <3>1 DEF to_bytes_native, CharBit
  <2>2. \A i \in 1..n : ShiftRight(u, Below(little, i) * 8).low % 256
          = (x \div Pow2[8 * Below(little, i)]) % 256
    <3> TAKE i \in 1..n
    <3> DEFINE k == Below(little, i)
    <3>1. k \in 0..(n - 1) BY <1>1 DEF Below
    <3> HIDE DEF k
    <3>2. k * 8 = 8 * k BY <1>1, <3>1
    <3> HIDE DEF x
    <3> QED BY <1>3, <3>1, <3>2 DEF k
  <2> HIDE DEF n, native, x
  <2> QED BY <2>1, <2>2
<1>5. \A i \in 1..n : (little => Below(little, i) = i - 1) /\ (~ little => Below(little, i) = n - i)
  BY DEF Below
<1>6. b = [i \in 1..n |-> (x \div Pow2[8 * (i - 1)]) % 256] BY DEF BytesOf
<1>7. /\ Reverse(b) = [i \in 1..n |-> (x \div Pow2[8 * (n - i)]) % 256]
      /\ Reverse(Reverse(b)) = b
  <2>1. b \in ByteArrays /\ Reverse(b) \in ByteArrays /\ Reverse(Reverse(b)) = b
        /\ \A i \in 1..n : Reverse(b)[i] = (x \div Pow2[8 * (n - i)]) % 256
    BY BytesOfNumber
  <2> DEFINE y == Reverse(b)
  <2>2. y \in [1..n -> Byte] /\ \A i \in 1..n : y[i] = (x \div Pow2[8 * (n - i)]) % 256
    BY <2>1 DEF ByteArrays
  <2> HIDE DEF y, n, x
  <2>3. y = [i \in 1..n |-> (x \div Pow2[8 * (n - i)]) % 256] BY <2>2
  <2> QED BY <2>1, <2>3 DEF y
<1> HIDE DEF b, native, n, x
<1>8. CASE little
  <2>1. native = b BY <1>4, <1>5, <1>6, <1>8
  <2> QED BY <1>8, <2>1 DEF to_little_endian_arr, to_big_endian_arr, ReversedUnless, native, b
<1>9. CASE ~ little
  <2>1. native = Reverse(b) BY <1>4, <1>5, <1>7, <1>9
  <2> QED BY <1>7, <1>9, <2>1
         DEF to_little_endian_arr, to_big_endian_arr, ReversedUnless, native, b
<1> QED BY <1>8, <1>9

\* Numbers made of their own bytes.
LEMMA NumbersOfBytes ==
  ASSUME NEW u \in U128, NEW little \in BOOLEAN
  PROVE  /\ make_from_bytes_little_endian(little, BytesOf(u)) = u
              <=> little \/ Val(u) < 256
         /\ make_from_bytes_big_endian(little, Reverse(BytesOf(u))) = u
              <=> little \/ Val(u) < 256
<1> DEFINE b == BytesOf(u)
<1>1. Reverse(Reverse(b)) = b BY BytesOfNumber
<1>2. OrShifted(TRUE, 8, b) = u BY BytesAgain
<1>3. OrShifted(FALSE, 1, Reverse(b)) = u <=> Val(u) < 256 BY BytesByIndex
<1> HIDE DEF b
<1>4. CASE little
  <2>1. make_from_bytes_little_endian(little, b) = OrShifted(TRUE, 8, b)
    BY <1>4 DEF make_from_bytes_little_endian, make_from_bytes_native, ReversedUnless, CharBit
  <2>2. make_from_bytes_big_endian(little, Reverse(b)) = OrShifted(TRUE, 8, b)
    BY <1>1, <1>4 DEF make_from_bytes_big_endian, make_from_bytes_native, ReversedUnless, CharBit
  <2> QED BY <1>2, <1>4, <2>1, <2>2 DEF b
<1>5. CASE ~ little
  <2>1. make_from_bytes_little_endian(little, b) = OrShifted(FALSE, 1, Reverse(b))
    BY <1>5 DEF make_from_bytes_little_endian, make_from_bytes_native, ReversedUnless
  <2>2. make_from_bytes_big_endian(little, Reverse(b)) = OrShifted(FALSE, 1, Reverse(b))
    BY <1>5 DEF make_from_bytes_big_endian, make_from_bytes_native, ReversedUnless
  <2> QED BY <1>3, <1>5, <2>1, <2>2 DEF b
<1> QED BY <1>4, <1>5

-----------------------------------------------------------------------------
(* Hexadecimal text *)

\* A power of 256 is one of two.
LEMMA PowersOf256 == \A k \in Nat : Power(256, k) = Pow2[8 * k]
<1> DEFINE S == {k \in Nat : Power(256, k) = Pow2[8 * k]}
<1>1. 0 \in S
  <2>1. 256 \in Nat OBVIOUS
  <2>2. Power(256, 0) = 1 BY <2>1, PowerSteps
  <2>3. Pow2[0] = 1 /\ 8 * 0 = 0 BY PowSteps
  <2>4. Pow2[8 * 0] = 1 BY <2>3
  <2> QED BY <2>2, <2>4
<1>2. \A k \in Nat : k \in S => k + 1 \in S
  <2> TAKE k \in Nat
  <2> HAVE k \in S
  <2>1. Power(256, k + 1) = 256 * Power(256, k) BY PowerSteps
  <2>2. Pow2[8 * (k + 1)] = 256 * Pow2[8 * k]
    <3>1. 0 \in Nat OBVIOUS
    <3> QED BY <3>1, NextByte
  <2> QED BY <2>1, <2>2
<1>3. \A k \in Nat : k \in S
  <2> TAKE k \in Nat
  <2>1. \A j \in 0..(k - 1) : j \in S => j + 1 \in S BY <1>2
  <2>2. k \in 0..k OBVIOUS
  <2> HIDE DEF S
  <2> QED BY <1>1, <2>1, <2>2, UpTo
<1> QED BY <1>3

\* Bytes in the order of big-endian machines are the digits of their number in base 256.
LEMMA BytesDenote ==
  ASSUME NEW bytes \in ByteArrays
  PROVE  /\ make_from_bytes_big_endian(TRUE, bytes) \in U128
         /\ \E x \in [0..ByteCount -> Nat] :
              /\ x[0] = 0 /\ Val(make_from_bytes_big_endian(TRUE, bytes)) = x[ByteCount]
              /\ \A i \in 1..ByteCount : x[i] = x[i - 1] * 256 + bytes[i]
<1> DEFINE n == ByteCount  y == Reverse(bytes)
<1>1. n \in Nat BY TextWidths
<1>2. bytes \in Seq(Byte) /\ Len(bytes) = n /\ bytes \in [1..n -> Byte]
  BY <1>1 DEF ByteArrays
<1> HIDE DEF n
<1>3. y \in [1..n -> Byte] /\ \A i \in 1..n : y[i] = bytes[n + 1 - i]
  <2>1. y = [i \in 1..n |-> bytes[(n - i) + 1]] BY <1>2 DEF Reverse
  <2>2. \A i \in 1..n : (n - i) + 1 = n + 1 - i /\ n + 1 - i \in 1..n BY <1>1
  <2> QED BY <1>2, <2>1, <2>2
<1> HIDE DEF y
<1>4. y \in ByteArrays BY <1>3 DEF ByteArrays, n
<1>5. make_from_bytes_big_endian(TRUE, bytes) = OrShifted(TRUE, 8, y)
  BY DEF make_from_bytes_big_endian, make_from_bytes_native, ReversedUnless, CharBit, y
<1>6. OrShifted(TRUE, 8, y) \in U128 BY <1>4, BytesAddUp
<1>7. PICK p \in [0..n -> Nat] :
        /\ p[0] = 0 /\ Val(OrShifted(TRUE, 8, y)) = p[n]
        /\ \A i \in 1..n : p[i] = p[i - 1] + y[i] * Pow2[8 * (i - 1)]
  BY <1>4, BytesAddUp DEF n
<1>8. bytes \in Seq(Nat)
  <2>1. Byte \subseteq Nat BY DEF Byte
  <2> QED BY <1>2, <2>1, SeqMonotonic
<1>9. PICK q \in [0..Len(bytes) -> Nat] :
        /\ q[0] = 0 /\ q[Len(bytes)] = Denoted(bytes, 256)
        /\ \A k \in 1..Len(bytes) :
             q[k] = q[k - 1] + bytes[Len(bytes) + 1 - k] * Power(256, k - 1)
  <2>1. 256 \in Nat OBVIOUS
  <2> QED BY <1>8, <2>1, DenotedBackwards, ZenonT(40)
<1>9a. q[0] = 0 /\ q[n] = Denoted(bytes, 256)
       /\ \A k \in 1..n : q[k] = q[k - 1] + bytes[n + 1 - k] * Power(256, k - 1)
  BY <1>2, <1>9
<1> DEFINE D == {k \in 0..n : p[k] = q[k]}
<1>10. n \in D
  <2>1. 0 \in D BY <1>1, <1>7, <1>9a
  <2>2. \A k \in 0..(n - 1) : k \in D => k + 1 \in D
    <3> TAKE k \in 0..(n - 1)
    <3> HAVE k \in D
    <3>1. k + 1 \in 1..n /\ (k + 1) - 1 = k /\ k + 1 \in 0..n /\ k \in Nat BY <1>1
    <3>2. Power(256, k) = Pow2[8 * k] BY <3>1, PowersOf256
    <3>3. q[k + 1] = q[k] + bytes[n + 1 - (k + 1)] * Power(256, k) BY <1>9a, <3>1
    <3>4. p[k + 1] = p[k] + y[k + 1] * Pow2[8 * k] BY <1>7, <3>1
    <3> QED BY <1>3, <3>1, <3>2, <3>3, <3>4
  <2>3. n \in 0..n BY <1>1
  <2> HIDE DEF D
  <2> QED BY <1>1, <2>1, <2>2, <2>3, UpTo
<1>11. Val(OrShifted(TRUE, 8, y)) = Denoted(bytes, 256) BY <1>7, <1>9a, <1>10
<1>12. \E x : Reads(x, bytes, 256)
  <2>1. 256 \in Nat OBVIOUS
  <2> QED BY <1>8, <2>1, DenotedSteps
<1>13. \E x \in [0..n -> Nat] :
         /\ x[0] = 0 /\ Denoted(bytes, 256) = x[n]
         /\ \A i \in 1..n : x[i] = x[i - 1] * 256 + bytes[i]
  BY <1>2, <1>12, ZenonT(40) DEF Reads
<1> QED BY <1>5, <1>6, <1>11, <1>13, ZenonT(40) DEF n

\* The bytes that pairs of digits make: the number of the digits, in front; a digit
\* that is left over alone makes a byte that counts sixteen times too little.
LEMMA PairsDenote ==
  ASSUME NEW digits \in Seq(0..15), Len(digits) \in 1..MaxHexDigits
  PROVE  LET arr == [i \in 1..ByteCount |-> PairByte(digits, i)]
             u   == make_from_bytes_big_endian(TRUE, arr)
             n   == Denoted(digits, 16)
         IN  /\ u \in U128 /\ n \in Nat
             /\ \E k \in 0..(ByteCount - 1), a \in Nat, c \in 0..15 :
                  \/ /\ Len(digits) % 2 = 0 /\ (MaxHexDigits - Len(digits)) * 4 = 8 * k
                     /\ Val(u) = n * Pow2[8 * k]
                  \/ /\ Len(digits) % 2 # 0 /\ (MaxHexDigits - Len(digits)) * 4 = 8 * k + 4
                     /\ n = 16 * a + c /\ Val(u) = (256 * a + c) * Pow2[8 * k]
<1> DEFINE L == Len(digits)  N == ByteCount
           arr == [i \in 1..N |-> PairByte(digits, i)]
           u == make_from_bytes_big_endian(TRUE, arr)
           n == Denoted(digits, 16)
<1>1. N \in Nat /\ N >= 2 /\ MaxHexDigits = 2 * N BY TextWidths
<1>2. L \in Nat /\ L >= 1 /\ L =< 2 * N /\ \A i \in 1..L : digits[i] \in 0..15 BY <1>1
<1> HIDE DEF L, N
<1>2a. \A i \in 1..L : digits[i] \in Nat
  <2>1. 0..15 \subseteq Nat OBVIOUS
  <2> QED BY <1>2, <2>1, Zenon
<1>3. \A i \in 1..N :
        /\ 2 * i =< L => arr[i] = 16 * digits[2 * i - 1] + digits[2 * i]
        /\ 2 * i - 1 = L => arr[i] = digits[2 * i - 1]
        /\ 2 * i - 1 > L => arr[i] = 0
  <2> TAKE i \in 1..N
  <2>1. arr[i] = PairByte(digits, i) OBVIOUS
  <2> HIDE DEF arr
  <2> QED BY <1>1, <1>2, <2>1 DEF PairByte, L
<1>4. arr \in ByteArrays
  <2>1. \A i \in 1..N : PairByte(digits, i) \in Byte
    <3> TAKE i \in 1..N
    <3>1. CASE 2 * i =< L
      <4>1. 2 * i \in 1..L /\ 2 * i - 1 \in 1..L BY <1>1, <1>2, <3>1
      <4>2. digits[2 * i] \in 0..15 /\ digits[2 * i - 1] \in 0..15 BY <1>2, <4>1
      <4>3. PairByte(digits, i) = 16 * digits[2 * i - 1] + digits[2 * i]
        BY <1>3, <3>1
      <4>4. \A a, b \in 0..15 : 16 * a + b \in 0..255 OBVIOUS
      <4>5. 16 * digits[2 * i - 1] + digits[2 * i] \in 0..255 BY <4>2, <4>4
      <4> QED BY <4>3, <4>5 DEF Byte
    <3>2. CASE 2 * i - 1 = L
      <4>1. 2 * i - 1 \in 1..L BY <1>1, <1>2, <3>2
      <4>2. digits[2 * i - 1] \in 0..15 BY <1>2, <4>1
      <4>3. PairByte(digits, i) = digits[2 * i - 1] BY <1>3, <3>2
      <4> QED BY <4>2, <4>3 DEF Byte
    <3>3. CASE 2 * i - 1 > L
      <4>1. PairByte(digits, i) = 0 BY <1>3, <3>3
      <4> QED BY <4>1 DEF Byte
    <3> QED BY <1>1, <1>2, <3>1, <3>2, <3>3
  <2> QED BY <2>1 DEF ByteArrays, N
<1> HIDE DEF arr
<1>5. u \in U128 BY <1>4, BytesDenote
<1>6. PICK x \in [0..N -> Nat] :
        x[0] = 0 /\ Val(u) = x[N] /\ \A i \in 1..N : x[i] = x[i - 1] * 256 + arr[i]
  BY <1>4, BytesDenote DEF N
<1> HIDE DEF u
<1>7. digits \in Seq(Nat)
  <2>1. 0..15 \subseteq Nat OBVIOUS
  <2> QED BY <2>1, SeqMonotonic
<1>8. PICK d : Reads(d, digits, 16)
  <2>1. 16 \in Nat OBVIOUS
  <2> QED BY <1>7, <2>1, DenotedSteps
<1>9. /\ d \in [0..L -> Nat] /\ d[0] = 0 /\ n = d[L]
      /\ \A i \in 1..L : d[i] = d[i - 1] * 16 + digits[i]
  BY <1>8 DEF Reads, L
<1> HIDE DEF n
<1>10. n \in Nat BY <1>2, <1>9
<1>11. \A m \in Nat : 2 * m =< L => x[m] = d[2 * m]
  <2> TAKE m \in Nat
  <2> HAVE 2 * m =< L
  <2> DEFINE D == {k \in 0..m : x[k] = d[2 * k]}
  <2>1. 0 \in D BY <1>6, <1>9
  <2>2. \A k \in 0..(m - 1) : k \in D => k + 1 \in D
    <3> TAKE k \in 0..(m - 1)
    <3> HAVE k \in D
    <3>1. /\ k \in Nat /\ k + 1 \in 1..N /\ 2 * (k + 1) =< L /\ (k + 1) - 1 = k
          /\ 2 * k + 1 \in 1..L /\ 2 * k + 2 \in 1..L /\ k + 1 \in 0..m
          /\ (2 * k + 1) - 1 = 2 * k /\ (2 * k + 2) - 1 = 2 * k + 1
          /\ 2 * (k + 1) - 1 = 2 * k + 1 /\ 2 * (k + 1) = 2 * k + 2
      BY <1>1, <1>2
    <3>2. arr[k + 1] = 16 * digits[2 * k + 1] + digits[2 * k + 2] BY <1>3, <3>1
    <3>3. x[k + 1] = x[k] * 256 + arr[k + 1] BY <1>6, <3>1
    <3>4. d[2 * k + 1] = d[2 * k] * 16 + digits[2 * k + 1] BY <1>9, <3>1
    <3>5. d[2 * k + 2] = d[2 * k + 1] * 16 + digits[2 * k + 2] BY <1>9, <3>1
    <3>6. digits[2 * k + 1] \in Nat /\ digits[2 * k + 2] \in Nat /\ d[2 * k] \in Nat
      <4>1. 2 * k \in 0..L BY <1>1, <1>2, <3>1
      <4>2. d[2 * k] \in Nat BY <1>9, <4>1
      <4> QED BY <1>2a, <3>1, <4>2
    <3>7. x[k] = d[2 * k] OBVIOUS
    <3>8. x[k + 1] = d[2 * k + 2]
      <4> DEFINE a == d[2 * k]  b == digits[2 * k + 1]  c == digits[2 * k + 2]
      <4>1. a \in Nat /\ b \in Nat /\ c \in Nat BY <3>6
      <4>2. x[k + 1] = a * 256 + (16 * b + c) BY <3>2, <3>3, <3>7
      <4>3. d[2 * k + 2] = (a * 16 + b) * 16 + c BY <3>4, <3>5
      <4> HIDE DEF a, b, c
      <4> QED BY <4>1, <4>2, <4>3
    <3> QED BY <3>1, <3>8
  <2>3. m \in 0..m OBVIOUS
  <2>4. m \in D
    <3> HIDE DEF D
    <3> QED BY <2>1, <2>2, <2>3, UpTo
  <2> QED BY <2>4
<1>12. \A r \in 1..N : 2 * r >= L => x[N] = x[r] * Pow2[8 * (N - r)]
  <2> TAKE r \in 1..N
  <2> HAVE 2 * r >= L
  <2> DEFINE D == {k \in 0..(N - r) : x[r + k] = x[r] * Pow2[8 * k]}
  <2>0. x[r] \in Nat BY <1>1, <1>6
  <2>1. 0 \in D
    <3>1. 8 * 0 = 0 /\ r + 0 = r /\ 0 \in 0..(N - r) BY <1>1
    <3>2. Pow2[8 * 0] = 1 BY <3>1, PowSteps
    <3> QED BY <2>0, <3>1, <3>2
  <2>2. \A k \in 0..((N - r) - 1) : k \in D => k + 1 \in D
    <3> TAKE k \in 0..((N - r) - 1)
    <3> HAVE k \in D
    <3>1. /\ k \in Nat /\ r + (k + 1) \in 1..N /\ (r + (k + 1)) - 1 = r + k
          /\ 2 * (r + (k + 1)) - 1 > L /\ k + 1 \in 0..(N - r)
      BY <1>1, <1>2
    <3>2. arr[r + (k + 1)] = 0 BY <1>3, <3>1
    <3>3. x[r + (k + 1)] = x[r + k] * 256 + 0 BY <1>6, <3>1, <3>2
    <3>4. Pow2[8 * (k + 1)] = 256 * Pow2[8 * k] /\ Pow2[8 * k] \in Nat
      <4>1. 0 \in Nat OBVIOUS
      <4> QED BY <3>1, <4>1, NextByte, ZenonT(40)
    <3>5. x[r + k] = x[r] * Pow2[8 * k] OBVIOUS
    <3>6. \A a, b \in Nat : (a * b) * 256 + 0 = a * (256 * b) OBVIOUS
    <3>7. x[r + (k + 1)] = x[r] * Pow2[8 * (k + 1)] BY <2>0, <3>3, <3>4, <3>5, <3>6
    <3> QED BY <3>1, <3>7
  <2>3. N - r \in Nat /\ N - r \in 0..(N - r) /\ r + (N - r) = N BY <1>1
  <2>4. N - r \in D
    <3> HIDE DEF D
    <3> QED BY <2>1, <2>2, <2>3, UpTo
  <2> QED BY <2>3, <2>4
<1>13. CASE L % 2 = 0
  <2> DEFINE m == L \div 2
  <2>1. m \in Nat /\ L = 2 * m /\ m \in 1..N /\ N - m \in 0..(N - 1)
        /\ (2 * N - L) * 4 = 8 * (N - m)
    BY <1>1, <1>2, <1>13
  <2> HIDE DEF m
  <2>2. x[m] = n BY <1>9, <1>11, <2>1
  <2>3. Val(u) = n * Pow2[8 * (N - m)] BY <1>6, <1>12, <2>1, <2>2
  <2>4. 0 \in Nat /\ 0 \in 0..15 OBVIOUS
  <2>5. (MaxHexDigits - L) * 4 = 8 * (N - m) BY <1>1, <2>1
  <2> QED BY <1>5, <1>10, <1>13, <2>1, <2>3, <2>4, <2>5 DEF n, u, arr, L, N
<1>14. CASE L % 2 # 0
  <2> DEFINE m == L \div 2  a == d[2 * m]  c == digits[L]
  <2>1. m \in Nat /\ L = 2 * m + 1 /\ m + 1 \in 1..N /\ N - (m + 1) \in 0..(N - 1)
        /\ (2 * N - L) * 4 = 8 * (N - (m + 1)) + 4 /\ 2 * m \in 0..L /\ L - 1 = 2 * m
        /\ 2 * (m + 1) - 1 = L /\ (m + 1) - 1 = m /\ 2 * (m + 1) >= L /\ L \in 1..L
    BY <1>1, <1>2, <1>14
  <2> HIDE DEF m
  <2>2. a \in Nat /\ c \in 0..15 /\ n = 16 * a + c
    <3>1. d[L] = d[2 * m] * 16 + digits[L] BY <1>9, <2>1
    <3> QED BY <1>2, <1>9, <2>1, <3>1
  <2>3. x[m + 1] = 256 * a + c
    <3>1. x[m] = a BY <1>11, <2>1
    <3>2. arr[m + 1] = c BY <1>3, <2>1
    <3>3. x[m + 1] = x[m] * 256 + arr[m + 1] BY <1>6, <2>1
    <3> QED BY <2>2, <3>1, <3>2, <3>3
  <2>4. Val(u) = (256 * a + c) * Pow2[8 * (N - (m + 1))] BY <1>6, <1>12, <2>1, <2>3
  <2>5. (MaxHexDigits - L) * 4 = 8 * (N - (m + 1)) + 4 BY <1>1, <2>1
  <2> HIDE DEF a, c
  <2> DEFINE e == N - (m + 1)
  <2>6. /\ L % 2 # 0 /\ (MaxHexDigits - L) * 4 = 8 * e + 4
        /\ n = 16 * a + c /\ Val(u) = (256 * a + c) * Pow2[8 * e]
    BY <1>14, <2>2, <2>4, <2>5
  <2>7. e \in 0..(N - 1) /\ a \in Nat /\ c \in 0..15 BY <2>1, <2>2
  <2> HIDE DEF e
  <2> QED BY <1>5, <1>10, <2>6, <2>7, ZenonT(40) DEF n, u, arr, L, N
<1> QED BY <1>13, <1>14

\* The number of values of a hexadecimal digit.
LEMMA Sixteen == Pow2[4] = 16
BY PowSteps

\* Hexadecimal digits are read by whole bytes: their number, less an odd last digit.
LEMMA HexParses ==
  ASSUME NEW t \in Seq(Chars), Len(t) >= 3
  PROVE  LET digits == SubSeq(t, 3, Len(t))
             n      == Denoted(digits, 16)
         IN  /\ Len(digits) = Len(t) - 2 /\ \A i \in 1..Len(digits) : digits[i] = t[i + 2]
             /\ parse_hex_str(t).number \in 0..(Base * Base - 1)
             /\ Len(digits) > MaxHexDigits => parse_hex_str(t) = Throws("invalid_argument")
             /\ (\E i \in 1..Len(digits) : digits[i] \notin 0..15) =>
                  parse_hex_str(t) = Throws("invalid_argument")
             /\ Len(digits) =< MaxHexDigits /\ (\A i \in 1..Len(digits) : digits[i] \in 0..15) =>
                  /\ Len(digits) % 2 = 0 => parse_hex_str(t) = Value(n)
                  /\ Len(digits) % 2 # 0 => parse_hex_str(t) = Value(n - (n % 16))
<1> DEFINE digits == SubSeq(t, 3, Len(t))  L == Len(digits)  M == Base * Base
           arr == [i \in 1..ByteCount |-> PairByte(digits, i)]
           u == make_from_bytes_big_endian(TRUE, arr)
           s == (MaxHexDigits - L) * 4
<1>1. L = Len(t) - 2 /\ (\A i \in 1..L : digits[i] = t[i + 2]) /\ digits \in Seq(Chars)
      /\ L \in Nat /\ L >= 1 /\ DOMAIN digits = 1..L
  <2>1. 3 \in 1..(Len(t) + 1) /\ Len(t) \in 0..Len(t) BY LenProperties
  <2>2. \A i : (3 + i) - 1 = i + 2 \/ i \notin Int OBVIOUS
  <2> QED OBVIOUS
<1>2. parse_hex_str(t) = IF L > MaxHexDigits \/ \E i \in 1..L : digits[i] \notin 0..15
                         THEN Throws("invalid_argument") ELSE Parsed(ShiftRight(u, s))
  <2>1. \A i : IsHexDigit(digits[i]) <=> digits[i] \in 0..15 BY DEF IsHexDigit
  <2>2. parse_hex_str(t) = IF L > MaxHexDigits \/ \E i \in DOMAIN digits : ~ IsHexDigit(digits[i])
                           THEN Throws("invalid_argument") ELSE Parsed(ShiftRight(u, s))
    BY DEF parse_hex_str
  <2> HIDE DEF digits, L, u, s
  <2> QED BY <1>1, <2>1, <2>2
<1> HIDE DEF digits
<1>3. M \in Nat \ {0} /\ M - 1 \in Nat BY TextWidths
<1>4. CASE L > MaxHexDigits \/ \E i \in 1..L : digits[i] \notin 0..15
  <2>1. parse_hex_str(t) = Throws("invalid_argument") BY <1>2, <1>4
  <2>2. Throws("invalid_argument").number = 0 BY DEF Throws
  <2>3. MaxHexDigits \in Nat BY TextWidths
  <2> HIDE DEF L, M
  <2> QED BY <1>1, <1>3, <1>4, <2>1, <2>2, <2>3 DEF digits, L, M
<1>5. CASE L =< MaxHexDigits /\ \A i \in 1..L : digits[i] \in 0..15
  <2> DEFINE n == Denoted(digits, 16)
  <2>1. digits \in Seq(0..15) /\ L \in 1..MaxHexDigits
    <3>1. MaxHexDigits \in Nat BY TextWidths
    <3> QED BY <1>1, <1>5, <3>1
  <2>2. u \in U128 /\ n \in Nat BY <2>1, PairsDenote
  <2>3. PICK k \in 0..(ByteCount - 1), a \in Nat, c \in 0..15 :
          \/ /\ L % 2 = 0 /\ s = 8 * k /\ Val(u) = n * Pow2[8 * k]
          \/ /\ L % 2 # 0 /\ s = 8 * k + 4
             /\ n = 16 * a + c /\ Val(u) = (256 * a + c) * Pow2[8 * k]
    BY <2>1, PairsDenote
  <2>4. ByteCount \in Nat /\ Bits = 8 * ByteCount /\ MaxHexDigits \in Nat BY TextWidths
  <2>5. s \in 0..(Bits - 1)
    <3>1. s = 8 * k \/ s = 8 * k + 4 BY <2>3
    <3> HIDE DEF s
    <3> QED BY <2>4, <3>1
  <2> HIDE DEF u, s, n
  <2>6. ShiftRight(u, s) \in U128 /\ Val(ShiftRight(u, s)) = Val(u) \div Pow2[s]
    BY <2>2, <2>5, ShiftRightDivides
  <2>7. Val(ShiftRight(u, s)) \in 0..(M - 1) BY <1>3, <2>6, LimbsOf
  <2>8. parse_hex_str(t) = Value(Val(ShiftRight(u, s)))
    <3>1. parse_hex_str(t) = Parsed(ShiftRight(u, s))
      <4>1. ~ (L > MaxHexDigits) BY <1>1, <1>5, <2>4
      <4> QED BY <1>2, <1>5, <4>1
    <3> QED BY <3>1 DEF Parsed, Value
  <2>9. 8 * k \in Nat /\ Pow2[8 * k] \in Nat \ {0}
    <3>1. 8 * k \in Nat BY <2>4
    <3> QED BY <3>1, PowPositive
  <2>10. L % 2 = 0 => Val(ShiftRight(u, s)) = n
    <3> HAVE L % 2 = 0
    <3> DEFINE P == Pow2[8 * k]
    <3>1. Val(u) \div Pow2[s] = (n * P) \div P BY <2>3
    <3>2. P \in Nat \ {0} BY <2>9
    <3> HIDE DEF P
    <3>3. n * P = n * P + 0 /\ 0 \in Nat /\ 0 < P BY <2>2, <3>2
    <3>4. (n * P) \div P = n BY <2>2, <3>2, <3>3, DivisionUnique
    <3> QED BY <2>6, <3>1, <3>4
  <2>11. L % 2 # 0 => Val(ShiftRight(u, s)) = n - (n % 16)
    <3> HAVE L % 2 # 0
    <3> DEFINE P == Pow2[8 * k]  y == 256 * a + c
    <3>1. Pow2[8 * k + 4] = P * 16
      <4>2. Pow2[8 * k + 4] = Pow2[8 * k] * Pow2[4]
        <5>1. 4 \in Nat OBVIOUS
        <5> QED BY <2>9, <5>1, PowSum
      <4> QED BY <4>2, Sixteen
    <3>2. Val(u) \div Pow2[s] = (y * P) \div (P * 16) BY <2>3, <3>1
    <3>3. P \in Nat \ {0} BY <2>9
    <3> HIDE DEF P
    <3>4. y \in Nat /\ y = (16 * a) * 16 + c /\ 16 * a \in Nat /\ c \in Nat /\ c < 16 OBVIOUS
    <3>5. y \div 16 = 16 * a BY <3>4, DivisionUnique
    <3> HIDE DEF y
    <3>6. y * P = y * P + 0 /\ 0 \in Nat /\ 0 < P /\ y * P \in Nat BY <3>3, <3>4
    <3>7. (y * P) \div P = y BY <3>3, <3>4, <3>6, DivisionUnique
    <3>8. ((y * P) \div P) \div 16 = (y * P) \div (16 * P)
      <4>1. \A z \in Nat : \A p, b \in Nat \ {0} : (z \div p) \div b = z \div (b * p)
        BY DivideTwice
      <4>2. 16 \in Nat \ {0} OBVIOUS
      <4> QED BY <3>3, <3>6, <4>1, <4>2, Zenon
    <3>9. 16 * P = P * 16 BY <3>3
    <3>10. n = a * 16 + c /\ n % 16 = c
      <4>1. n = a * 16 + c BY <2>3
      <4> QED BY <4>1
    <3> QED BY <2>6, <3>2, <3>5, <3>7, <3>8, <3>9, <3>10
  <2> DEFINE z == Val(ShiftRight(u, s))
  <2>12. /\ parse_hex_str(t) = Value(z) /\ z \in 0..(M - 1)
         /\ L % 2 = 0 => z = n
         /\ L % 2 # 0 => z = n - (n % 16)
    BY <2>7, <2>8, <2>10, <2>11
  <2>13. Value(z).number = z BY DEF Value
  <2> HIDE DEF L, M, z
  <2>14. L \in Nat /\ MaxHexDigits \in Nat BY <1>1, <2>4
  <2> QED BY <1>1, <1>5, <2>12, <2>13, <2>14 DEF digits, L, M, n
<1>6. MaxHexDigits \in Nat BY TextWidths
<1> HIDE DEF L
<1> QED BY <1>1, <1>4, <1>5, <1>6

-----------------------------------------------------------------------------
(* What make_from_string makes of a text *)

\* The text that is parsed, when it has no space inside: that of the digits.
LEMMA CoreIsParsed ==
  ASSUME NEW text \in Seq(Chars), OuterSpaces(text)
  PROVE  /\ Core(text) \in Seq(Chars)
         /\ make_from_string(text) = ParseTrimmed(Core(text))
BY Stripped DEF make_from_string

\* Decimal text is exact when it fits.
LEMMA DecimalText ==
  ASSUME NEW text \in Seq(Chars), IsDecimalText(text)
  PROVE  LET n == Denoted(Core(text), 10)
         IN  IF Fits(n) THEN make_from_string(text) = Value(n)
             ELSE make_from_string(text) \in {Value(n % (Base * Base)), Throws("overflow_error")}
<1> DEFINE t == Core(text)  n == Denoted(t, 10)
<1>1. OuterSpaces(text) /\ t # <<>> /\ t[1] # 0 /\ \A i \in DOMAIN t : t[i] \in 0..9
  BY DEF IsDecimalText
<1>2. t \in Seq(Chars) /\ make_from_string(text) = ParseTrimmed(t) BY <1>1, CoreIsParsed
<1> HIDE DEF t
<1>3. \A i \in 1..Len(t) : t[i] \in 0..9 BY <1>1, <1>2
<1>4. IsDecimalShape(t) BY <1>1, <1>3 DEF IsDecimalShape, LooksDecimal
<1>5. make_from_string(text) = parse_decimal_str(t) BY <1>2, <1>4, FormatParses
<1>6. /\ parse_decimal_str(t) \in {Value(n % (Base * Base)), Throws("overflow_error")}
      /\ Fits(n) => parse_decimal_str(t) = Value(n)
  BY <1>2, <1>3, DecimalParses
<1> QED BY <1>5, <1>6 DEF t

\* Hexadecimal text is read by whole bytes.
LEMMA HexText ==
  ASSUME NEW text \in Seq(Chars), IsHexText(text)
  PROVE  LET digits == HexDigits(text)
             n      == Denoted(digits, 16)
         IN  make_from_string(text) = IF Len(digits) > MaxHexDigits THEN Throws("invalid_argument")
                                      ELSE IF Len(digits) % 2 = 0 THEN Value(n)
                                      ELSE Value(n - (n % 16))
<1> DEFINE t == Core(text)  digits == SubSeq(t, 3, Len(t))
<1>1. /\ OuterSpaces(text) /\ Len(t) > 2 /\ t[1] = 0 /\ t[2] = Tag
      /\ \A i \in 3..Len(t) : t[i] \in 0..15
  BY DEF IsHexText
<1>2. t \in Seq(Chars) /\ make_from_string(text) = ParseTrimmed(t) BY <1>1, CoreIsParsed
<1>3. digits = HexDigits(text) BY DEF HexDigits
<1> HIDE DEF t
<1>4. Len(t) \in Nat /\ Len(t) >= 3 BY <1>1, <1>2
<1>5. IsHexShape(t) BY <1>1, <1>4 DEF IsHexShape, is_legal_hex_char
<1>6. make_from_string(text) = parse_hex_str(t) BY <1>2, <1>5, FormatParses
<1> DEFINE n == Denoted(digits, 16)  L == Len(digits)
<1>7. L = Len(t) - 2 /\ \A i \in 1..L : digits[i] = t[i + 2] BY <1>2, <1>4, HexParses
<1>8. \A i \in 1..L : digits[i] \in 0..15
  <2> TAKE i \in 1..L
  <2>1. i + 2 \in 3..Len(t)
    <3> HIDE DEF L
    <3> QED BY <1>4, <1>7
  <2> QED BY <1>1, <1>7, <2>1
<1>9. L > MaxHexDigits => parse_hex_str(t) = Throws("invalid_argument")
  BY <1>2, <1>4, HexParses
<1>10. L =< MaxHexDigits => /\ L % 2 = 0 => parse_hex_str(t) = Value(n)
                            /\ L % 2 # 0 => parse_hex_str(t) = Value(n - (n % 16))
  BY <1>2, <1>4, <1>8, HexParses
<1>11. L \in Nat /\ MaxHexDigits \in Nat
  <2> HIDE DEF L
  <2> QED BY <1>4, <1>7, TextWidths
<1> HIDE DEF n, L, digits
<1>12. make_from_string(text) = IF L > MaxHexDigits THEN Throws("invalid_argument")
                                ELSE IF L % 2 = 0 THEN Value(n) ELSE Value(n - (n % 16))
  BY <1>6, <1>9, <1>10, <1>11
<1> QED BY <1>3, <1>12 DEF n, L

\* Other text is zero or refused.
LEMMA OtherText ==
  ASSUME NEW text \in Seq(Chars), ~ IsDecimalText(text), ~ IsHexText(text)
  PROVE  IF IsZeroText(text) THEN make_from_string(text) = Value(0)
         ELSE \/ make_from_string(text) = Throws("invalid_argument")
              \/ /\ make_from_string(text) = Throws("overflow_error")
                 /\ \E i \in DOMAIN text : text[i] = WideDigit
<1> DEFINE t == trim_and_strip(text)  L == Len(t)
<1>1. /\ t \in Seq(Chars)
      /\ OuterSpaces(text) => t = Core(text)
      /\ ~ OuterSpaces(text) => \E j \in 1..L : t[j] = Space
      /\ \A j \in 1..L : \E i \in 1..Len(text) : text[i] = t[j]
      /\ make_from_string(text) = ParseTrimmed(t)
  BY Stripped DEF make_from_string
<1> HIDE DEF t
<1>2. L \in Nat /\ DOMAIN t = 1..L BY <1>1
<1>3. IsZeroText(text) => make_from_string(text) = Value(0)
  <2> HAVE IsZeroText(text)
  <2>1. IsZeroShape(t) BY <1>1, <1>2 DEF IsZeroText, IsZeroShape
  <2> QED BY <1>1, <2>1, FormatParses
<1>4. CASE IsZeroShape(t)
  <2>1. OuterSpaces(text) BY <1>1, <1>4 DEF IsZeroShape, Space
  <2>2. IsZeroText(text) BY <1>1, <1>2, <1>4, <2>1 DEF IsZeroText, IsZeroShape
  <2> QED BY <1>3, <2>2
<1>5. CASE IsDecimalShape(t)
  <2>1. OuterSpaces(text)
    BY <1>1, <1>5, SMTT(30) DEF IsDecimalShape, LooksDecimal, Space, WideDigit
  <2>2. t = Core(text) BY <1>1, <2>1
  <2>3. PICK j \in 1..L : t[j] \notin 0..9
    BY <1>2, <1>5, <2>1, <2>2 DEF IsDecimalText, IsDecimalShape
  <2>4. t[j] = WideDigit BY <1>5, <2>3 DEF IsDecimalShape, LooksDecimal
  <2>5. \E i \in DOMAIN text : text[i] = WideDigit
    <3>1. \E i \in 1..Len(text) : text[i] = t[j] BY <1>1
    <3>2. DOMAIN text = 1..Len(text) OBVIOUS
    <3> QED BY <2>4, <3>1, <3>2
  <2>6. make_from_string(text) = parse_decimal_str(t) BY <1>1, <1>5, FormatParses
  <2>7. parse_decimal_str(t) \in {Throws("invalid_argument"), Throws("overflow_error")}
    BY <1>1, <2>3, DecimalParses
  <2> QED BY <1>3, <2>5, <2>6, <2>7
<1>6. CASE IsHexShape(t)
  <2>1. OuterSpaces(text)
    <3>1. \A i \in 1..L : t[i] # Space
      <4> TAKE i \in 1..L
      <4>1. i = 1 \/ i = 2 \/ i \in 3..L BY <1>2
      <4>2. t[1] = 0 /\ t[2] = 16 BY <1>6 DEF IsHexShape, Tag
      <4>3. \A k \in 3..L : t[k] \in 0..15 \cup {21}
        BY <1>6 DEF IsHexShape, is_legal_hex_char, WideDigit
      <4>4. t[i] # 19
        <5>1. CASE i = 1 BY <4>2, <5>1
        <5>2. CASE i = 2 BY <4>2, <5>2
        <5>3. CASE i \in 3..L
          <6>1. t[i] \in 0..15 \cup {21} BY <4>3, <5>3, Zenon
          <6> QED BY <6>1
        <5> QED BY <4>1, <5>1, <5>2, <5>3
      <4> QED BY <4>4 DEF Space
    <3> QED BY <1>1, <3>1
  <2>2. t = Core(text) BY <1>1, <2>1
  <2>3. Len(t) >= 3 /\ Len(t) > 2 BY <1>2, <1>6 DEF IsHexShape
  <2>4. PICK j \in 3..L : t[j] \notin 0..15
    BY <1>6, <2>1, <2>2, <2>3 DEF IsHexText, IsHexShape
  <2> DEFINE digits == SubSeq(t, 3, L)
  <2>5. Len(digits) = L - 2 /\ \A i \in 1..Len(digits) : digits[i] = t[i + 2]
    BY <1>1, <2>3, HexParses
  <2>6. \E i \in 1..Len(digits) : digits[i] \notin 0..15
    <3>1. j - 2 \in 1..(L - 2) /\ (j - 2) + 2 = j BY <1>2, <2>3
    <3> HIDE DEF digits, L
    <3>2. j - 2 \in 1..Len(digits) BY <2>5, <3>1
    <3>3. digits[j - 2] = t[j] BY <2>5, <3>1, <3>2
    <3> QED BY <2>4, <3>2, <3>3
  <2>7. parse_hex_str(t) = Throws("invalid_argument") BY <1>1, <2>3, <2>6, HexParses
  <2>8. make_from_string(text) = parse_hex_str(t) BY <1>1, <1>6, FormatParses
  <2> QED BY <1>3, <2>7, <2>8
<1>7. CASE ~ IsZeroShape(t) /\ ~ IsDecimalShape(t) /\ ~ IsHexShape(t)
  BY <1>1, <1>3, <1>7, FormatParses
<1> QED BY <1>4, <1>5, <1>6, <1>7

\* What is parsed is a number of the width.
LEMMA NumbersOfTexts ==
  ASSUME NEW text \in Seq(Chars)
  PROVE  make_from_string(text).number \in 0..(Base * Base - 1)
<1> DEFINE t == trim_and_strip(text)  M == Base * Base - 1
<1>1. t \in Seq(Chars) /\ make_from_string(text) = ParseTrimmed(t)
  BY Stripped DEF make_from_string
<1>2. M \in Nat BY TextWidths
<1>3. Value(0).number \in 0..M /\ Throws("invalid_argument").number \in 0..M
  BY <1>2 DEF Value, Throws
<1> HIDE DEF t
<1>4. parse_decimal_str(t).number \in 0..M BY <1>1, DecimalParses
<1>5. IsHexShape(t) => parse_hex_str(t).number \in 0..M
  <2> HAVE IsHexShape(t)
  <2>1. Len(t) >= 3 BY DEF IsHexShape
  <2> QED BY <1>1, <2>1, HexParses
<1> HIDE DEF M
<1>6. ParseTrimmed(t).number \in 0..M BY <1>1, <1>3, <1>4, <1>5, FormatParses
<1> QED BY <1>1, <1>6 DEF M

-----------------------------------------------------------------------------
(* The types of the variables *)

\* What the history holds of an inserted number.
Entry == [number : 0..(Base * Base - 1), format : FormatsOfTheCode, readable : BOOLEAN]

\* The invariant about types that the theorems below rest on.
TypeOK ==
  /\ utf \in BOOLEAN
  /\ stream \in Seq(Chars)
  /\ rdstate \subseteq {"eofbit", "failbit", "badbit"}
  /\ v \in U128
  /\ unread \in Seq(Entry)
  /\ inserts \in Nat

\* The first of some positions.
LEMMA MinOf ==
  ASSUME NEW S \in SUBSET Nat, S # {}
  PROVE  Min(S) \in S /\ \A k \in S : Min(S) =< k
<1>1. \E m \in S : \A k \in S : m =< k BY Least
<1> QED BY <1>1 DEF Min

\* The next word of a text, and what is behind it, are texts.
LEMMA WordParts ==
  ASSUME NEW text \in Seq(Chars), utf \in BOOLEAN
  PROVE  Word(text).str \in Seq(Chars) /\ Word(text).rest \in Seq(Chars)
<1> DEFINE first == WordStart(text)  L == Len(text)
           ends == {i \in first..L : text[i] = Space}
           blank == ~ utf /\ Inked(text) = {}
<1>1. L \in Nat OBVIOUS
<1>2. first \in Nat \ {0}
  <2>1. Inked(text) \in SUBSET (Nat \ {0}) BY DEF Inked
  <2>2. Inked(text) # {} => Min(Inked(text)) \in Inked(text) BY <2>1, MinOf
  <2> QED BY <2>1, <2>2 DEF WordStart
<1> HIDE DEF first, L
<1>3. <<>> \in Seq(Chars) OBVIOUS
<1>4. \A a \in Nat \ {0} : \A b \in 0..L : SubSeq(text, a, b) \in Seq(Chars)
  BY PartOf DEF L
<1>5. CASE blank \/ ends = {}
  <2>1. Word(text) = [str |-> IF blank THEN <<>> ELSE SubSeq(text, first, L),
                      rest |-> <<>>, eof |-> TRUE]
    BY <1>5 DEF Word, first, L
  <2>2. L \in 0..L BY <1>1
  <2>3. SubSeq(text, first, L) \in Seq(Chars) BY <1>2, <1>4, <2>2
  <2> HIDE DEF blank
  <2> QED BY <1>3, <2>1, <2>3
<1>6. CASE ~ (blank \/ ends = {})
  <2> DEFINE e == Min(ends)  from == IF utf THEN e + 1 ELSE e
  <2>1. Word(text) = [str |-> SubSeq(text, first, e - 1), rest |-> SubSeq(text, from, L),
                      eof |-> FALSE]
    BY <1>6 DEF Word, first, L
  <2>2. e \in ends
    <3>1. ends \in SUBSET Nat BY <1>1, <1>2
    <3> HIDE DEF ends
    <3> QED BY <1>6, <3>1, MinOf
  <2>3. e \in first..L BY <2>2
  <2> HIDE DEF e
  <2>4. e - 1 \in 0..L /\ from \in Nat \ {0} /\ L \in 0..L BY <1>1, <1>2, <2>3
  <2> HIDE DEF from
  <2>5. SubSeq(text, first, e - 1) \in Seq(Chars) /\ SubSeq(text, from, L) \in Seq(Chars)
    BY <1>2, <1>4, <2>4
  <2> QED BY <2>1, <2>5
<1> QED BY <1>5, <1>6

\* What is assigned to the variable is a number.
LEMMA AssignedNumbers ==
  ASSUME NEW reads \in BOOLEAN, NEW n \in 0..(Base * Base - 1)
  PROVE  Assigned(reads, n) \in U128 /\ (reads => Val(Assigned(reads, n)) = n)
<1>1. Base \in Nat \ {0} /\ n \in Nat BY TextWidths
<1> DEFINE q == n \div Base  r == n % Base
<1>2. q \in Nat /\ r \in Nat /\ r < Base /\ n = q * Base + r BY <1>1, DivisionParts
<1> HIDE DEF q, r
<1>3. q < Base
  <2>1. \A i, j, m \in Nat : i =< j => i * m =< j * m OBVIOUS
  <2>2. Base =< q => Base * Base =< q * Base BY <1>1, <1>2, <2>1
  <2>3. q * Base \in Nat /\ Base * Base \in Nat BY <1>1, <1>2
  <2>4. n < Base * Base BY <1>1, <2>3
  <2> QED BY <1>1, <1>2, <2>2, <2>3, <2>4
<1>4. make_uint128(q, r) \in U128 /\ Val(make_uint128(q, r)) = n BY <1>2, <1>3, MakeLimbs
<1> QED BY <1>4, ZeroAndOne DEF Assigned, q, r

\* The stream starts with them.
LEMMA InitTyped == Init => TypeOK
<1> SUFFICES ASSUME Init PROVE TypeOK OBVIOUS
<1>1. Texts \subseteq Seq(Chars) BY TextAssumption
<1>2. <<>> \in Seq(Chars) /\ <<>> \in Seq(Entry) OBVIOUS
<1> QED BY <1>1, <1>2, ZeroAndOne DEF Init, TypeOK

\* What an insertion does, in a state of these types.
LEMMA InsertSteps ==
  ASSUME TypeOK, Insert
  PROVE  \E u \in U128, f \in FormatsOfTheCode :
           /\ InsertOne(u, f)
           /\ Inserted(u, f) \in Seq(Chars) /\ Inserted(u, f) # <<>>
           /\ stream' = stream \o Inserted(u, f) /\ stream' \in Seq(Chars)
           /\ unread' = Append(unread, [number |-> Val(u), format |-> f,
                                        readable |-> Readable(u, f)])
           /\ unread' \in Seq(Entry)
<1>1. PICK u \in Numbers, f \in Formats : InsertOne(u, f) BY DEF Insert
<1>2. u \in U128 /\ f \in FormatsOfTheCode BY TextAssumption
<1> DEFINE w == Inserted(u, f)
           e == [number |-> Val(u), format |-> f, readable |-> Readable(u, f)]
<1>3. w \in Seq(Chars) /\ w # <<>> BY <1>2, InsertedShows
<1>4. stream' = stream \o w /\ unread' = Append(unread, e) BY <1>1 DEF InsertOne
<1> HIDE DEF w
<1>5. stream \o w \in Seq(Chars) BY <1>3, InARow DEF TypeOK
<1>6. e \in Entry
  <2>1. Val(u) \in 0..(Base * Base - 1) BY <1>2, LimbsOf, TextWidths
  <2>2. Readable(u, f) \in BOOLEAN BY DEF Readable
  <2> QED BY <1>2, <2>1, <2>2 DEF Entry
<1> HIDE DEF e
<1>7. Append(unread, e) \in Seq(Entry) BY <1>6 DEF TypeOK
<1>8. stream' \in Seq(Chars) /\ unread' \in Seq(Entry) BY <1>4, <1>5, <1>7
<1> QED BY <1>1, <1>2, <1>3, <1>4, <1>8 DEF w, e

\* What an extraction does to a stream that has not failed: it takes a word.
LEMMA ExtractSteps ==
  ASSUME TypeOK, ExtractWord
  PROVE  LET word   == Word(stream)
             parsed == make_from_string(word.str)
             reads  == word.str # <<>> /\ parsed.ends = "value"
         IN  /\ word.str \in Seq(Chars) /\ word.rest \in Seq(Chars)
             /\ stream' = word.rest
             /\ v' = Assigned(reads, parsed.number) /\ v' \in U128
             /\ reads => Val(v') = parsed.number
             /\ rdstate' = (IF word.eof THEN {"eofbit"} ELSE {})
                             \cup (IF reads THEN {} ELSE {"failbit"})
             /\ unread' = IF unread = <<>> THEN <<>> ELSE Tail(unread)
             /\ UNCHANGED <<utf, inserts>>
<1> DEFINE word == Word(stream)  parsed == make_from_string(word.str)
           reads == word.str # <<>> /\ parsed.ends = "value"
<1>1. ParseWord(word, parsed) BY DEF ExtractWord
<1>2. TakeWord(word, reads, parsed.number) BY <1>1 DEF ParseWord
<1>3. word.str \in Seq(Chars) /\ word.rest \in Seq(Chars) BY WordParts DEF TypeOK
<1>4. parsed.number \in 0..(Base * Base - 1) BY <1>3, NumbersOfTexts
<1> DEFINE n == parsed.number
<1>5. reads \in BOOLEAN OBVIOUS
<1> HIDE DEF word, parsed, reads, n
<1>6. /\ stream' = word.rest /\ v' = Assigned(reads, n)
      /\ rdstate' = (IF word.eof THEN {"eofbit"} ELSE {})
                      \cup (IF reads THEN {} ELSE {"failbit"})
      /\ unread' = IF unread = <<>> THEN <<>> ELSE Tail(unread)
      /\ UNCHANGED <<utf, inserts>>
  BY <1>2 DEF TakeWord, n
<1>7. Assigned(reads, n) \in U128 /\ (reads => Val(Assigned(reads, n)) = n)
  BY <1>4, <1>5, AssignedNumbers DEF n
<1>8. v' \in U128 /\ (reads => Val(v') = n) BY <1>6, <1>7
<1> QED BY <1>3, <1>6, <1>8 DEF word, parsed, reads, n

\* Every step keeps the types.
LEMMA NextTyped == TypeOK /\ [Next]_vars => TypeOK'
<1> SUFFICES ASSUME TypeOK, [Next]_vars PROVE TypeOK' OBVIOUS
<1>1. CASE MakeFromString BY <1>1 DEF MakeFromString, Calls, streamvars, TypeOK
<1>2. CASE ParseLiteral BY <1>2 DEF ParseLiteral, Calls, streamvars, TypeOK
<1>3. CASE ReadResult BY <1>3 DEF ReadResult, streamvars, TypeOK
<1>4. CASE Insert
  <2>1. PICK u \in U128, f \in FormatsOfTheCode :
          InsertOne(u, f) /\ stream' \in Seq(Chars) /\ unread' \in Seq(Entry)
    BY <1>4, InsertSteps
  <2>2. inserts' = inserts + 1 /\ UNCHANGED <<utf, rdstate, v>> BY <2>1 DEF InsertOne
  <2> QED BY <2>1, <2>2 DEF TypeOK
<1>5. CASE InsertSpace
  <2>1. stream' = Append(stream, Space) /\ UNCHANGED <<utf, rdstate, v, unread, inserts>>
    BY <1>5 DEF InsertSpace
  <2>2. Append(stream, Space) \in Seq(Chars) BY DEF TypeOK, Space, Chars
  <2> QED BY <2>1, <2>2 DEF TypeOK
<1>6. CASE Extract
  <2>1. CASE ExtractFromFailed
    BY <2>1, ZeroAndOne DEF ExtractFromFailed, TypeOK
  <2>2. CASE ExtractAtEnd
    BY <2>2, ZeroAndOne DEF ExtractAtEnd, TypeOK
  <2>3. CASE ExtractWord
    <3>1. /\ stream' \in Seq(Chars) /\ v' \in U128 /\ UNCHANGED <<utf, inserts>>
          /\ rdstate' \subseteq {"eofbit", "failbit", "badbit"}
          /\ unread' = IF unread = <<>> THEN <<>> ELSE Tail(unread)
      BY <2>3, ExtractSteps
    <3>2. unread' \in Seq(Entry) BY <3>1 DEF TypeOK
    <3> QED BY <3>1, <3>2 DEF TypeOK
  <2> QED BY <1>6, <2>1, <2>2, <2>3 DEF Extract
<1>7. CASE UNCHANGED vars BY <1>7 DEF vars, streamvars, TypeOK
<1> QED BY <1>1, <1>2, <1>3, <1>4, <1>5, <1>6, <1>7 DEF Next

\* The stream holds characters, whatever text it starts with, and what is parsed,
\* read and inserted is a number of the width.
THEOREM TypeCorrect == Spec => []TypeOK
BY InitTyped, NextTyped, PTL DEF Spec

-----------------------------------------------------------------------------
(* The properties of make_from_string *)

\* A call of make_from_string returns what it makes of a text.
LEMMA StringCalls ==
  ASSUME TypeOK, [Next]_vars, vars' # vars, called'.op = "make_from_string"
  PROVE  /\ called'.text \in Seq(Chars)
         /\ called'.result = make_from_string(called'.text)
<1>1. called = NoCall => called.op = "none" BY DEF NoCall
<1>2. Next BY DEF vars
<1>3. CASE MakeFromString BY <1>3 DEF MakeFromString, Calls, TypeOK
<1>4. CASE ParseLiteral BY <1>4 DEF ParseLiteral, Calls
<1>5. CASE ReadResult BY <1>5 DEF ReadResult, NoCall
<1>6. CASE Insert
  <2>1. called' = called BY <1>6 DEF Insert, InsertOne
  <2> QED BY <1>1, <1>6, <2>1 DEF Insert
<1>7. CASE InsertSpace BY <1>1, <1>7 DEF InsertSpace
<1>8. CASE Extract BY <1>1, <1>8 DEF Extract
<1> QED BY <1>2, <1>3, <1>4, <1>5, <1>6, <1>7, <1>8 DEF Next

\* For every width and text: a decimal number that fits is parsed to itself.
THEOREM DecimalIsExact == Spec => DecimalIsExactWhenItFits
<1> DEFINE Step == called'.op = "make_from_string" /\ IsDecimalText(called'.text) =>
       LET n == Denoted(Core(called'.text), 10)
       IN  IF Fits(n) THEN called'.result = Value(n)
           ELSE called'.result \in {Value(n % (Base * Base)), Throws("overflow_error")}
<1>1. TypeOK /\ [Next]_vars => [Step]_vars
  <2> SUFFICES ASSUME TypeOK, [Next]_vars, vars' # vars, called'.op = "make_from_string",
                      IsDecimalText(called'.text)
               PROVE  LET n == Denoted(Core(called'.text), 10)
                      IN  IF Fits(n) THEN called'.result = Value(n)
                          ELSE called'.result \in {Value(n % (Base * Base)),
                                                   Throws("overflow_error")}
    OBVIOUS
  <2> DEFINE text == called'.text
  <2>1. text \in Seq(Chars) /\ called'.result = make_from_string(text) BY StringCalls
  <2>2. IsDecimalText(text) OBVIOUS
  <2> HIDE DEF text
  <2> QED BY <2>1, <2>2, DecimalText DEF text
<1> QED BY <1>1, TypeCorrect, PTL DEF Spec, DecimalIsExactWhenItFits

\* For every width and text: a hexadecimal number is read by whole bytes.
THEOREM HexadecimalIsReadByBytes == Spec => HexadecimalByWholeBytes
<1> DEFINE Step == called'.op = "make_from_string" /\ IsHexText(called'.text) =>
       LET digits == HexDigits(called'.text)
           n      == Denoted(digits, 16)
       IN  called'.result = IF Len(digits) > MaxHexDigits THEN Throws("invalid_argument")
                            ELSE IF Len(digits) % 2 = 0 THEN Value(n)
                            ELSE Value(n - (n % 16))
<1>1. TypeOK /\ [Next]_vars => [Step]_vars
  <2> SUFFICES ASSUME TypeOK, [Next]_vars, vars' # vars, called'.op = "make_from_string",
                      IsHexText(called'.text)
               PROVE  LET digits == HexDigits(called'.text)
                          n      == Denoted(digits, 16)
                      IN  called'.result = IF Len(digits) > MaxHexDigits
                                           THEN Throws("invalid_argument")
                                           ELSE IF Len(digits) % 2 = 0 THEN Value(n)
                                           ELSE Value(n - (n % 16))
    OBVIOUS
  <2> DEFINE text == called'.text
  <2>1. text \in Seq(Chars) /\ called'.result = make_from_string(text) BY StringCalls
  <2>2. IsHexText(text) OBVIOUS
  <2> HIDE DEF text
  <2> QED BY <2>1, <2>2, HexText DEF text
<1> QED BY <1>1, TypeCorrect, PTL DEF Spec, HexadecimalByWholeBytes

\* For every width and text: nothing else becomes a number.
THEOREM OtherIsRefused == Spec => OtherTextIsRefused
<1> DEFINE Step == called'.op = "make_from_string"
                     /\ ~ (IsDecimalText(called'.text) \/ IsHexText(called'.text)) =>
       IF IsZeroText(called'.text) THEN called'.result = Value(0)
       ELSE \/ called'.result = Throws("invalid_argument")
            \/ /\ called'.result = Throws("overflow_error")
               /\ \E i \in DOMAIN called'.text : called'.text[i] = WideDigit
<1>1. TypeOK /\ [Next]_vars => [Step]_vars
  <2> SUFFICES ASSUME TypeOK, [Next]_vars, vars' # vars, called'.op = "make_from_string",
                      ~ IsDecimalText(called'.text), ~ IsHexText(called'.text)
               PROVE  IF IsZeroText(called'.text) THEN called'.result = Value(0)
                      ELSE \/ called'.result = Throws("invalid_argument")
                           \/ /\ called'.result = Throws("overflow_error")
                              /\ \E i \in DOMAIN called'.text : called'.text[i] = WideDigit
    OBVIOUS
  <2> DEFINE text == called'.text
  <2>1. text \in Seq(Chars) /\ called'.result = make_from_string(text) BY StringCalls
  <2>2. ~ IsDecimalText(text) /\ ~ IsHexText(text) OBVIOUS
  <2> HIDE DEF text
  <2> QED BY <2>1, <2>2, OtherText DEF text
<1> QED BY <1>1, TypeCorrect, PTL DEF Spec, OtherTextIsRefused

-----------------------------------------------------------------------------
(* The properties of bytes and of insertion *)

\* For every width of whole bytes: the bytes of a number are its digits in base 256 and
\* give it back, except on a big-endian machine, which shifts by bytes and not by bits.
THEOREM BytesComeBack == Spec => BytesRoundTrip
<1> DEFINE Step == v' # v =>
       \A little \in BOOLEAN :
         LET bytes == [i \in 1..ByteCount |-> (Val(v') \div Pow2[CharBit * (i - 1)]) % 256]
             right == little \/ Val(v') < 256
         IN  /\ to_little_endian_arr(little, v') = bytes
             /\ to_big_endian_arr(little, v') = Reverse(bytes)
             /\ make_from_bytes_little_endian(little, bytes) = v' <=> right
             /\ make_from_bytes_big_endian(little, Reverse(bytes)) = v' <=> right
<1>1. TypeOK /\ [Next]_vars => [Step]_vars
  <2> SUFFICES ASSUME TypeOK, [Next]_vars, NEW little \in BOOLEAN
               PROVE  LET bytes == [i \in 1..ByteCount |->
                                      (Val(v') \div Pow2[CharBit * (i - 1)]) % 256]
                          right == little \/ Val(v') < 256
                      IN  /\ to_little_endian_arr(little, v') = bytes
                          /\ to_big_endian_arr(little, v') = Reverse(bytes)
                          /\ make_from_bytes_little_endian(little, bytes) = v' <=> right
                          /\ make_from_bytes_big_endian(little, Reverse(bytes)) = v' <=> right
    OBVIOUS
  <2> DEFINE u == v'
             bytes == [i \in 1..ByteCount |-> (Val(u) \div Pow2[CharBit * (i - 1)]) % 256]
  <2>1. u \in U128 BY NextTyped DEF TypeOK
  <2> HIDE DEF u
  <2>2. bytes = BytesOf(u) BY DEF BytesOf, CharBit
  <2>3. to_little_endian_arr(little, u) = bytes /\ to_big_endian_arr(little, u) = Reverse(bytes)
    <3> HIDE DEF bytes
    <3> QED BY <2>1, <2>2, ArraysOf
  <2>4. /\ make_from_bytes_little_endian(little, bytes) = u <=> little \/ Val(u) < 256
        /\ make_from_bytes_big_endian(little, Reverse(bytes)) = u <=> little \/ Val(u) < 256
    <3> HIDE DEF bytes
    <3> QED BY <2>1, <2>2, NumbersOfBytes
  <2> QED BY <2>3, <2>4 DEF u
<1> QED BY <1>1, TypeCorrect, PTL DEF Spec, BytesRoundTrip

\* For every width and number: the characters that an insertion writes are its digits.
THEOREM InsertionShows == Spec => InsertionShowsTheNumber
<1> DEFINE Step == inserts' > inserts =>
       LET entry   == Last(unread')
           f       == entry.format
           written == SubSeq(stream', Len(stream) + 1, Len(stream'))
           rep     == Without(written, {Space})
           shows   == f.showbase /\ entry.number # 0
           base    == IF shows THEN ShowBase(f.base) ELSE <<>>
           digits  == SubSeq(rep, Len(base) + 1, Len(rep))
           more    == IF shows /\ f.base = 16 /\ f.adjust = "internal" THEN 2 ELSE 0
       IN  /\ IsPrefix(base, rep)
           /\ Denoted(digits, f.base) = entry.number
           /\ digits[1] = 0 => Len(digits) = 1
           /\ Len(written) = IF f.width > Len(rep) THEN f.width + more ELSE Len(rep)
<1>1. TypeOK /\ [Next]_vars => [Step]_vars
  <2> SUFFICES ASSUME TypeOK, [Next]_vars, inserts' > inserts PROVE Step OBVIOUS
  <2>1. inserts \in Nat BY DEF TypeOK
  <2>2. Insert
    <3>1. inserts' # inserts BY <2>1
    <3>2. ExtractWord => inserts' = inserts BY ExtractSteps
    <3> QED BY <3>1, <3>2 DEF Next, vars, streamvars, MakeFromString, ParseLiteral, Calls,
             ReadResult, InsertSpace, Extract, ExtractFromFailed, ExtractAtEnd
  <2>3. PICK u \in U128, f \in FormatsOfTheCode :
          /\ stream' = stream \o Inserted(u, f) /\ Inserted(u, f) \in Seq(Chars)
          /\ unread' = Append(unread, [number |-> Val(u), format |-> f,
                                       readable |-> Readable(u, f)])
    BY <2>2, InsertSteps
  <2> DEFINE entry == [number |-> Val(u), format |-> f, readable |-> Readable(u, f)]
             w == Inserted(u, f)
  <2>4. Last(unread') = entry
    <3> HIDE DEF entry
    <3>1. unread' = Append(unread, entry) /\ unread \in Seq(Entry) BY <2>3 DEF entry, TypeOK
    <3>2. Len(Append(unread, entry)) = Len(unread) + 1
          /\ Append(unread, entry)[Len(unread) + 1] = entry
      BY <3>1
    <3> QED BY <3>1, <3>2 DEF Last
  <2>5. SubSeq(stream', Len(stream) + 1, Len(stream')) = w
    <3> HIDE DEF w
    <3>1. stream \in Seq(Chars) /\ w \in Seq(Chars) /\ stream' = stream \o w
      BY <2>3 DEF w, TypeOK
    <3> QED BY <3>1, TakenApart
  <2>6. entry.number = Val(u) /\ entry.format = f OBVIOUS
  <2> HIDE DEF entry
  <2> DEFINE shows  == f.showbase /\ Val(u) # 0
             mark   == IF shows THEN ShowBase(f.base) ELSE <<>>
             rep    == Without(w, {Space})
             digits == SubSeq(rep, Len(mark) + 1, Len(rep))
             more   == IF shows /\ f.base = 16 /\ f.adjust = "internal" THEN 2 ELSE 0
  <2>7. /\ IsPrefix(mark, rep)
        /\ Denoted(digits, f.base) = Val(u)
        /\ digits[1] = 0 => Len(digits) = 1
        /\ Len(w) = IF f.width > Len(rep) THEN f.width + more ELSE Len(rep)
    BY InsertedShows
  <2> HIDE DEF w
  <2> QED BY <2>4, <2>5, <2>6, <2>7, Zenon
<1> QED BY <1>1, TypeCorrect, PTL DEF Spec, InsertionShowsTheNumber

-----------------------------------------------------------------------------
(* Numbers that are read back *)

\* Zeros denote zero.
LEMMA ZerosDenote ==
  ASSUME NEW s \in Seq(Nat), NEW b \in Nat, \A i \in 1..Len(s) : s[i] = 0
  PROVE  Denoted(s, b) = 0
<1> DEFINE n == Len(s)
<1>1. n \in Nat /\ \A i \in 1..n : s[i] = 0 OBVIOUS
<1>2. PICK d : Reads(d, s, b) BY DenotedSteps
<1>3. d[0] = 0 /\ Denoted(s, b) = d[n] /\ \A i \in 1..n : d[i] = d[i - 1] * b + s[i]
  BY <1>2 DEF Reads
<1> HIDE DEF n
<1> DEFINE D == {k \in 0..n : d[k] = 0}
<1>4. 0 \in D BY <1>1, <1>3
<1>5. \A k \in 0..(n - 1) : k \in D => k + 1 \in D
  <2> TAKE k \in 0..(n - 1)
  <2> HAVE k \in D
  <2>1. k + 1 \in 1..n /\ (k + 1) - 1 = k /\ k + 1 \in 0..n BY <1>1
  <2>2. d[k + 1] = 0 * b + 0 BY <1>1, <1>3, <2>1
  <2>3. 0 * b + 0 = 0 OBVIOUS
  <2> QED BY <2>1, <2>2, <2>3
<1>6. n \in D
  <2>1. n \in 0..n BY <1>1
  <2> HIDE DEF D
  <2> QED BY <1>1, <1>4, <1>5, <2>1, UpTo
<1> QED BY <1>3, <1>6

\* So many hexadecimal digits are below the power of two of their bits.
LEMMA PowersOf16 == \A k \in Nat : Power(16, k) = Pow2[4 * k]
<1> DEFINE S == {k \in Nat : Power(16, k) = Pow2[4 * k]}
<1>1. 0 \in S
  <2>1. 16 \in Nat OBVIOUS
  <2>2. Power(16, 0) = 1 BY <2>1, PowerSteps
  <2>3. Pow2[0] = 1 /\ 4 * 0 = 0 BY PowSteps
  <2>4. Pow2[4 * 0] = 1 BY <2>3
  <2> QED BY <2>2, <2>4
<1>2. \A k \in Nat : k \in S => k + 1 \in S
  <2> TAKE k \in Nat
  <2> HAVE k \in S
  <2>1. Power(16, k + 1) = 16 * Power(16, k) BY PowerSteps
  <2>2. 4 * k \in Nat /\ 4 \in Nat /\ 4 * (k + 1) = 4 + 4 * k OBVIOUS
  <2>3. Pow2[4 + 4 * k] = Pow2[4] * Pow2[4 * k] BY <2>2, PowSum
  <2>4. Pow2[4 * (k + 1)] = 16 * Pow2[4 * k] BY <2>2, <2>3, Sixteen
  <2> QED BY <2>1, <2>4
<1>3. \A k \in Nat : k \in S
  <2> TAKE k \in Nat
  <2>1. \A j \in 0..(k - 1) : j \in S => j + 1 \in S BY <1>2
  <2>2. k \in 0..k OBVIOUS
  <2> HIDE DEF S
  <2> QED BY <1>1, <2>1, <2>2, UpTo
<1> QED BY <1>3

\* Digits without a leading zero are as many as the number needs.
LEMMA CountsAgree ==
  ASSUME NEW b \in Nat, b >= 2, NEW s \in Seq(0..(b - 1)), NEW n \in Nat, NEW k \in Nat,
         s # <<>>, s[1] = 0 => Len(s) = 1, Denoted(s, b) = n, k >= 1,
         n < Power(b, k), Power(b, k - 1) =< MaxOf(n, 1)
  PROVE  Len(s) = k
<1> DEFINE L == Len(s)  P(j) == Power(b, j)
<1>1. L \in Nat /\ L >= 1 /\ 1 \in 1..L
  <2>1. L \in Nat OBVIOUS
  <2>2. L # 0 OBVIOUS
  <2> QED BY <2>1, <2>2
<1>2. b \in Nat \ {0} OBVIOUS
<1>3. /\ \A j \in Nat : P(j) \in Nat \ {0}
      /\ \A i, j \in Nat : i =< j => P(i) =< P(j)
      /\ P(0) = 1
  BY <1>2, PowerSum, PowerGrows, PowerSteps
<1>4. n < P(L) /\ s[1] * P(L - 1) =< n BY <1>2, DenotedBounds
<1>5. s[1] \in 0..(b - 1) BY <1>1
<1> HIDE DEF L, P
<1>6. L = 1 \/ P(L - 1) =< n
  <2> SUFFICES ASSUME L # 1 PROVE P(L - 1) =< n OBVIOUS
  <2>1. s[1] \in Nat /\ s[1] >= 1 BY <1>5 DEF L
  <2>2. P(L - 1) \in Nat /\ L - 1 \in Nat
    <3>1. L - 1 \in Nat BY <1>1
    <3> QED BY <1>3, <3>1
  <2>3. \A i, m \in Nat : i >= 1 => m =< i * m OBVIOUS
  <2>4. P(L - 1) =< s[1] * P(L - 1) BY <2>1, <2>2, <2>3
  <2>5. s[1] * P(L - 1) \in Nat BY <2>1, <2>2
  <2> QED BY <1>4, <2>2, <2>4, <2>5
<1>7. k = 1 \/ P(k - 1) =< n
  <2> SUFFICES ASSUME k # 1 PROVE P(k - 1) =< n OBVIOUS
  <2>1. P(k - 1) =< MaxOf(n, 1) BY DEF P
  <2>2. P(1) >= 2
    <3>1. P(0 + 1) = b * P(0) BY PowerSteps DEF P
    <3> QED BY <1>3, <3>1
  <2>3. P(1) =< P(k - 1) /\ P(k - 1) \in Nat BY <1>3
  <2>4. P(1) \in Nat BY <1>3
  <2>5. MaxOf(n, 1) = n \/ MaxOf(n, 1) = 1 BY DEF MaxOf
  <2> QED BY <2>1, <2>2, <2>3, <2>4, <2>5
<1>8. n < P(k) BY DEF P
<1>9. ~ (L < k)
  <2> SUFFICES ASSUME L < k PROVE FALSE OBVIOUS
  <2>1. P(L) =< P(k - 1) /\ P(L) \in Nat /\ P(k - 1) \in Nat
    <3>1. k - 1 \in Nat /\ L =< k - 1 BY <1>1
    <3> QED BY <1>1, <1>3, <3>1
  <2> QED BY <1>1, <1>4, <1>7, <2>1
<1>10. ~ (k < L)
  <2> SUFFICES ASSUME k < L PROVE FALSE OBVIOUS
  <2>1. P(k) =< P(L - 1) /\ P(k) \in Nat /\ P(L - 1) \in Nat
    <3>1. L - 1 \in Nat /\ k =< L - 1 BY <1>1
    <3> QED BY <1>1, <1>3, <3>1
  <2> QED BY <1>1, <1>6, <1>8, <2>1
<1> QED BY <1>1, <1>9, <1>10 DEF L

\* Text without spaces and separators is its own core.
LEMMA CoreOfWord ==
  ASSUME NEW w \in Seq(Chars), \A i \in 1..Len(w) : w[i] # Space /\ w[i] # Separator
  PROVE  Core(w) = w /\ OuterSpaces(w)
<1> DEFINE C == {Space, Separator}
<1>1. \A i \in 1..Len(w) : w[i] \notin C OBVIOUS
<1> HIDE DEF C
<1>2. Without(w, C) = w BY <1>1, WithoutNoneOrAll
<1>3. Core(w) = w BY <1>2 DEF Core, C
<1>4. OuterSpaces(w) BY DEF OuterSpaces
<1> QED BY <1>3, <1>4

\* The characters that a readable insertion writes are parsed to its number.
LEMMA ReadableIsRead ==
  ASSUME NEW u \in U128, NEW f \in FormatsOfTheCode, Readable(u, f)
  PROVE  LET w == Inserted(u, f)
         IN  /\ w \in Seq(Chars) /\ w # <<>> /\ \A i \in 1..Len(w) : w[i] # Space
             /\ make_from_string(w) = Value(Val(u))
<1> DEFINE w == Inserted(u, f)  n == Val(u)
           mark == IF f.showbase /\ n # 0 THEN ShowBase(f.base) ELSE <<>>
           rep == Without(w, {Space})
           j == SubSeq(rep, Len(mark) + 1, Len(rep))
<1>1. /\ w \in Seq(Chars) /\ w # <<>>
      /\ j \in Seq(0..(f.base - 1)) /\ j # <<>>
      /\ Denoted(j, f.base) = n /\ (j[1] = 0 => Len(j) = 1)
      /\ f.width = 0 => w = mark \o j
  BY InsertedShows
<1>2. n \in Nat /\ n < Base * Base /\ Fits(n) BY LimbsOf DEF Fits
<1> HIDE DEF w, rep, j, n
<1>3. f.width = 0 /\ f.base \in {10, 16} /\ f.showbase \in BOOLEAN
      /\ (f.base = 16 => f.showbase /\ Len(DigitsOf(n, 16)) % 2 = 0)
  BY DEF Readable, FormatsOfTheCode, n
<1>4. Len(j) \in Nat /\ Len(j) >= 1 /\ 1 \in 1..Len(j)
  <2>1. Len(j) \in Nat BY <1>1
  <2>2. Len(j) # 0 BY <1>1
  <2> QED BY <2>1, <2>2
<1>5. \A i \in 1..Len(j) : j[i] \in 0..15
  <2>1. \A i \in 1..Len(j) : j[i] \in 0..(f.base - 1)
    <3> DEFINE B == 0..(f.base - 1)
    <3>1. j \in Seq(B) BY <1>1
    <3> HIDE DEF B
    <3>2. \A i \in 1..Len(j) : j[i] \in B BY <3>1
    <3> QED BY <3>2 DEF B
  <2>2. CASE f.base = 10
    <3>1. \A x : x \in 0..(10 - 1) => x \in 0..15 OBVIOUS
    <3> QED BY <2>1, <2>2, <3>1, Zenon
  <2>3. CASE f.base = 16
    <3>1. \A x : x \in 0..(16 - 1) => x \in 0..15 OBVIOUS
    <3> QED BY <2>1, <2>3, <3>1, Zenon
  <2> QED BY <1>3, <2>2, <2>3
<1>6. j[1] = 0 => n = 0
  <2> HAVE j[1] = 0
  <2>1. Len(j) = 1 BY <1>1
  <2>2. \A i \in 1..Len(j) : j[i] = 0 BY <2>1
  <2>3. j \in Seq(Nat)
    <3>1. 0..(f.base - 1) \subseteq Nat OBVIOUS
    <3> DEFINE B == 0..(f.base - 1)
    <3> HIDE DEF B
    <3> QED BY <1>1, <3>1, SeqMonotonic DEF B
  <2>4. f.base \in Nat BY <1>3
  <2> QED BY <1>1, <2>2, <2>3, <2>4, ZerosDenote
<1>7. n = 0 => j[1] = 0
  <2> HAVE n = 0
  <2> DEFINE b == f.base
  <2>1. b \in Nat \ {0} /\ b \in {10, 16} BY <1>3
  <2>2. j \in Seq(0..(b - 1)) /\ j # <<>> /\ Denoted(j, b) = 0 BY <1>1
  <2> HIDE DEF b
  <2>3. j[1] * Power(b, Len(j) - 1) =< Denoted(j, b) BY <2>1, <2>2, DenotedBounds
  <2>4. j[1] \in Nat BY <1>4, <1>5
  <2>5. Power(b, Len(j) - 1) \in Nat \ {0}
    <3>1. Len(j) - 1 \in Nat BY <1>4
    <3> QED BY <2>1, <3>1, PowerSum
  <2>6. \A x \in Nat : \A y \in Nat \ {0} : x * y =< 0 => x = 0 OBVIOUS
  <2> QED BY <2>2, <2>3, <2>4, <2>5, <2>6
<1>8. CASE mark = <<>>
  <2>1. w = j
    <3>1. <<>> \o j = j BY <1>1, ConcatEmptySeq
    <3> QED BY <1>1, <1>3, <1>8, <3>1
  <2>2. \A i \in 1..Len(w) : w[i] # Space /\ w[i] # Separator
    <3>1. \A x \in 0..15 : x # Space /\ x # Separator BY DEF Space, Separator
    <3> QED BY <1>5, <2>1, <3>1
  <2>3. Core(w) = w /\ OuterSpaces(w) BY <1>1, <2>2, CoreOfWord
  <2>4. make_from_string(w) = ParseTrimmed(w) BY <1>1, <2>3, CoreIsParsed
  <2>5. CASE n = 0
    <3>1. Len(w) = 1 /\ w[1] = 0 BY <1>1, <1>7, <2>1, <2>5
    <3>2. IsZeroShape(w) BY <1>1, <3>1 DEF IsZeroShape
    <3>3. make_from_string(w) = Value(n) BY <1>1, <2>4, <2>5, <3>2, FormatParses
    <3> QED BY <1>1, <2>2, <3>3 DEF w, n
  <2>6. CASE n # 0
    <3>1. f.base = 10
      <4>1. f.base = 16 => mark = <<0, Tag>> BY <1>3, <2>6 DEF ShowBase
      <4>2. <<0, Tag>> # <<>> OBVIOUS
      <4> HIDE DEF mark
      <4> QED BY <1>3, <1>8, <4>1, <4>2
    <3>2. \A i \in DOMAIN w : w[i] \in 0..9
      <4>1. DOMAIN w = 1..Len(w) BY <1>1
      <4>2. \A i \in 1..Len(j) : j[i] \in 0..(10 - 1) BY <1>1, <3>1
      <4> QED BY <2>1, <4>1, <4>2
    <3>3. w[1] # 0 BY <1>6, <2>1, <2>6
    <3>4. IsDecimalText(w) BY <1>1, <2>3, <3>2, <3>3 DEF IsDecimalText
    <3>5. Denoted(Core(w), 10) = n BY <1>1, <2>1, <2>3, <3>1
    <3>6. make_from_string(w) = Value(n) BY <1>1, <1>2, <3>4, <3>5, DecimalText
    <3> QED BY <1>1, <2>2, <3>6 DEF w, n
  <2> QED BY <2>5, <2>6
<1>9. CASE mark # <<>>
  <2>1. f.base = 16 /\ n # 0 /\ mark = <<0, Tag>>
    <3>1. f.showbase /\ n # 0 BY <1>9
    <3>2. ShowBase(10) = <<>> /\ ShowBase(16) = <<0, Tag>> BY DEF ShowBase
    <3> QED BY <1>3, <1>9, <3>1, <3>2
  <2> DEFINE m == <<0, Tag>>
  <2>2. m \in Seq(Chars) /\ j \in Seq(Chars) /\ Len(m) = 2 /\ m[1] = 0 /\ m[2] = Tag
    <3>1. 0..15 \subseteq Chars BY DEF Chars
    <3>2. j \in Seq(0..(16 - 1)) BY <1>1, <2>1
    <3>3. 0..(16 - 1) \subseteq Chars BY DEF Chars
    <3> DEFINE B == 0..(16 - 1)
    <3> HIDE DEF B
    <3>4. j \in Seq(Chars) BY <3>2, <3>3, SeqMonotonic DEF B
    <3> QED BY <3>4 DEF Tag, Chars
  <2>3. w = m \o j BY <1>1, <1>3, <2>1
  <2> HIDE DEF m
  <2>4. Len(w) = 2 + Len(j) /\ w[1] = 0 /\ w[2] = Tag /\ \A i \in 1..Len(j) : w[2 + i] = j[i]
    <3>1. /\ Len(m \o j) = Len(m) + Len(j)
          /\ \A i \in 1..Len(m) : (m \o j)[i] = m[i]
          /\ \A i \in 1..Len(j) : (m \o j)[Len(m) + i] = j[i]
      BY <2>2, InARow, SMTT(30)
    <3> DEFINE r == m \o j
    <3>2. Len(r) = 2 + Len(j) /\ (\A i \in 1..2 : r[i] = m[i])
          /\ \A i \in 1..Len(j) : r[2 + i] = j[i]
      BY <2>2, <3>1
    <3>3. w = r BY <2>3
    <3> HIDE DEF r
    <3> QED BY <2>2, <3>2, <3>3
  <2>5. \A i \in 3..Len(w) : w[i] \in 0..15
    <3> TAKE i \in 3..Len(w)
    <3>1. i - 2 \in 1..Len(j) /\ 2 + (i - 2) = i BY <1>4, <2>4
    <3>2. w[i] = j[i - 2] BY <2>4, <3>1
    <3> QED BY <1>5, <3>1, <3>2
  <2>6. \A i \in 1..Len(w) : w[i] # Space /\ w[i] # Separator
    <3> TAKE i \in 1..Len(w)
    <3>1. i = 1 \/ i = 2 \/ i \in 3..Len(w) BY <1>4, <2>4
    <3>2. \A x \in 0..15 : x # Space /\ x # Separator BY DEF Space, Separator
    <3>3. w[1] # Space /\ w[1] # Separator /\ w[2] # Space /\ w[2] # Separator
      BY <2>4 DEF Space, Separator, Tag
    <3>4. CASE i \in 3..Len(w) BY <2>5, <3>2, <3>4
    <3> QED BY <3>1, <3>3, <3>4
  <2>7. Core(w) = w /\ OuterSpaces(w) BY <1>1, <2>6, CoreOfWord
  <2>8. Len(w) > 2 BY <1>4, <2>4
  <2>9. IsHexText(w) BY <2>4, <2>5, <2>7, <2>8 DEF IsHexText
  <2>10. HexDigits(w) = j
    <3>1. SubSeq(m \o j, Len(m) + 1, Len(m \o j)) = j BY <2>2, TakenApart
    <3>2. Len(m) + 1 = 3 BY <2>2
    <3> QED BY <2>3, <2>7, <3>1, <3>2 DEF HexDigits
  <2>11. Len(j) = Len(DigitsOf(n, 16))
    <3> DEFINE k == Len(DigitsOf(n, 16))
    <3>1. n < Pow2[Bits] BY <1>2, Widths
    <3>2. 16 \in Nat /\ 16 >= 2 OBVIOUS
    <3>3. k \in Nat /\ k >= 1 /\ n < Power(16, k) /\ Power(16, k - 1) =< MaxOf(n, 1)
      <4>1. k \in 1..Bits /\ n < Power(16, k) /\ Power(16, k - 1) =< MaxOf(n, 1)
        BY <1>2, <3>1, <3>2, DigitsShow
      <4>2. Bits \in Nat BY Widths
      <4> HIDE DEF k
      <4> QED BY <4>1, <4>2
    <3> HIDE DEF k
    <3>4. j \in Seq(0..(16 - 1)) /\ Denoted(j, 16) = n BY <1>1, <2>1
    <3>5. Len(j) = k BY <1>1, <1>2, <3>2, <3>3, <3>4, CountsAgree
    <3> QED BY <3>5 DEF k
  <2>12. Len(j) % 2 = 0 BY <1>3, <2>1, <2>11
  <2>13. ~ (Len(j) > MaxHexDigits)
    <3> SUFFICES ASSUME Len(j) > MaxHexDigits PROVE FALSE OBVIOUS
    <3>1. MaxHexDigits \in Nat /\ Bits = 4 * MaxHexDigits BY TextWidths
    <3>2. Power(16, MaxHexDigits) = Base * Base BY <3>1, PowersOf16, Widths
    <3>3. j \in Seq(0..(16 - 1)) /\ Denoted(j, 16) = n /\ 16 \in Nat \ {0} BY <1>1, <2>1
    <3>4. j[1] * Power(16, Len(j) - 1) =< n BY <1>1, <3>3, DenotedBounds
    <3>5. Power(16, MaxHexDigits) =< Power(16, Len(j) - 1)
      <4>1. Len(j) - 1 \in Nat /\ MaxHexDigits =< Len(j) - 1 BY <1>4, <3>1
      <4> QED BY <3>1, <3>3, <4>1, PowerGrows
    <3>6. Power(16, Len(j) - 1) \in Nat
      <4>1. Len(j) - 1 \in Nat BY <1>4
      <4> QED BY <3>3, <4>1, PowerSum
    <3>7. j[1] \in Nat /\ j[1] >= 1 BY <1>4, <1>5, <1>6, <2>1
    <3>8. \A i, x \in Nat : i >= 1 => x =< i * x /\ i * x \in Nat OBVIOUS
    <3>9. Power(16, Len(j) - 1) =< n
      <4> DEFINE x == Power(16, Len(j) - 1)
      <4>1. x \in Nat BY <3>6
      <4> HIDE DEF x
      <4>2. x =< j[1] * x /\ j[1] * x \in Nat BY <3>7, <3>8, <4>1
      <4>3. j[1] * x =< n BY <3>4 DEF x
      <4>4. x =< n BY <1>2, <4>1, <4>2, <4>3
      <4> QED BY <4>4 DEF x
    <3>10. Base * Base \in Nat BY TextWidths
    <3> QED BY <1>2, <3>2, <3>5, <3>6, <3>9, <3>10
  <2>14. Denoted(HexDigits(w), 16) = n BY <1>1, <2>1, <2>10
  <2>15. make_from_string(w) = Value(n)
    BY <1>1, <2>9, <2>10, <2>12, <2>13, <2>14, HexText
  <2> QED BY <1>1, <2>6, <2>15 DEF w, n
<1> QED BY <1>8, <1>9

-----------------------------------------------------------------------------
(* The words of a stream *)

\* Three texts in a row.
LEMMA InOneRow == \A x, y, z \in Seq(Chars) : (x \o y) \o z = x \o (y \o z)
<1> DEFINE T == Chars
<1> HIDE DEF T
<1>1. \A x, y, z \in Seq(T) : (x \o y) \o z = x \o (y \o z) BY ConcatAssociative
<1> QED BY <1>1 DEF T

\* The next word of a stream that starts with one, perhaps behind a space, which only
\* the narrow path skips: that word, to the space behind it.
LEMMA WordOf ==
  ASSUME NEW a \in Seq(Chars), NEW w \in Seq(Chars), NEW r \in Seq(Chars), utf \in BOOLEAN,
         a = <<>> \/ a = <<Space>>, utf => a = <<>>,
         w # <<>>, \A i \in 1..Len(w) : w[i] # Space
  PROVE  /\ Word(a \o w) = [str |-> w, rest |-> <<>>, eof |-> TRUE]
         /\ Word((a \o w) \o (<<Space>> \o r)) =
              [str |-> w, rest |-> IF utf THEN r ELSE <<Space>> \o r, eof |-> FALSE]
<1> DEFINE m == Len(a)  k == Len(w)  h == a \o w  z == <<Space>>  y == z \o r
           g == h \o y  n == Len(r)
<1>1. /\ m \in {0, 1} /\ k \in Nat /\ k >= 1 /\ (utf => m = 0)
      /\ \A i \in 1..m : a[i] = Space
  <2>1. k \in Nat /\ k # 0 OBVIOUS
  <2> QED BY <2>1
<1>2. /\ h \in Seq(Chars) /\ Len(h) = m + k
      /\ (\A i \in 1..m : h[i] = a[i]) /\ \A i \in 1..k : h[m + i] = w[i]
  BY InARow
<1>3. z \in Seq(Chars) /\ Len(z) = 1 /\ z[1] = Space BY DEF Space, Chars
<1> HIDE DEF z
<1>r. \A s, t \in Seq(Chars) :
        /\ s \o t \in Seq(Chars) /\ Len(s \o t) = Len(s) + Len(t) /\ Len(t) \in Nat
        /\ \A i \in 1..Len(s) : (s \o t)[i] = s[i]
        /\ \A i \in 1..Len(t) : (s \o t)[Len(s) + i] = t[i]
  BY InARow
<1>4. /\ y \in Seq(Chars) /\ Len(y) = 1 + n /\ n \in Nat
      /\ (\A i \in 1..1 : y[i] = z[i]) /\ \A i \in 1..n : y[1 + i] = r[i]
  <2>1. /\ y \in Seq(Chars) /\ Len(y) = Len(z) + n /\ n \in Nat
        /\ (\A i \in 1..Len(z) : y[i] = z[i]) /\ \A i \in 1..n : y[Len(z) + i] = r[i]
    BY <1>3, <1>r, Zenon
  <2> HIDE DEF y, n
  <2> QED BY <1>3, <2>1
<1> HIDE DEF h, y, n
<1>5. /\ g \in Seq(Chars) /\ Len(g) = (m + k) + (1 + n)
      /\ (\A i \in 1..(m + k) : g[i] = h[i]) /\ \A i \in 1..(1 + n) : g[(m + k) + i] = y[i]
  <2>1. /\ g \in Seq(Chars) /\ Len(g) = Len(h) + Len(y)
        /\ (\A i \in 1..Len(h) : g[i] = h[i]) /\ \A i \in 1..Len(y) : g[Len(h) + i] = y[i]
    BY <1>2, <1>4, <1>r, Zenon
  <2> HIDE DEF g
  <2> QED BY <1>2, <1>4, <2>1
<1> HIDE DEF g
<1> DEFINE Starts(s) == Len(s) \in Nat /\ Len(s) >= m + k /\ s \in Seq(Chars)
                         /\ \A i \in 1..(m + k) : s[i] = h[i]
<1>6. Starts(h) /\ Starts(g) BY <1>1, <1>2, <1>4, <1>5
<1>7. /\ \A i \in (m + 1)..(m + k) : h[i] # Space
      /\ \A i \in 1..m : h[i] = Space
  <2>1. \A i \in (m + 1)..(m + k) : i - m \in 1..k /\ m + (i - m) = i BY <1>1
  <2>2. \A i \in 1..k : w[i] # Space OBVIOUS
  <2>3. \A i \in (m + 1)..(m + k) : h[i] # Space
    <3> TAKE i \in (m + 1)..(m + k)
    <3>1. h[m + (i - m)] = w[i - m] /\ w[i - m] # Space BY <1>2, <2>1, <2>2
    <3> QED BY <2>1, <3>1
  <2> QED BY <1>1, <1>2, <2>3
<1>8. \A s : Starts(s) => WordStart(s) = m + 1 /\ Inked(s) # {}
  <2> SUFFICES ASSUME NEW s, Starts(s) PROVE WordStart(s) = m + 1 /\ Inked(s) # {}
    OBVIOUS
  <2>1. DOMAIN s = 1..Len(s) OBVIOUS
  <2>2. m + 1 \in Inked(s)
    <3>1. m + 1 \in 1..Len(s) /\ m + 1 \in 1..(m + k) /\ m + 1 \in (m + 1)..(m + k) BY <1>1
    <3>2. s[m + 1] = h[m + 1] /\ h[m + 1] # Space BY <1>7, <3>1
    <3> QED BY <2>1, <3>1, <3>2 DEF Inked
  <2>3. \A i \in Inked(s) : i \in Nat /\ m + 1 =< i
    <3> TAKE i \in Inked(s)
    <3>1. i \in 1..Len(s) /\ s[i] # Space BY <2>1 DEF Inked
    <3>2. ~ (i \in 1..m)
      <4> SUFFICES ASSUME i \in 1..m PROVE FALSE OBVIOUS
      <4>1. i \in 1..(m + k) BY <1>1
      <4>2. s[i] = h[i] /\ h[i] = Space BY <1>7, <4>1
      <4> QED BY <3>1, <4>2
    <3> QED BY <1>1, <3>1, <3>2
  <2>4. Min(Inked(s)) = m + 1
    <3> DEFINE S == Inked(s)  x == Min(S)
    <3>1. S \in SUBSET Nat /\ S # {} BY <2>2, <2>3
    <3>2. x \in S /\ \A i \in S : x =< i
      <4> HIDE DEF S
      <4> QED BY <3>1, MinOf
    <3>3. m + 1 =< x /\ x =< m + 1 /\ x \in Nat BY <2>2, <2>3, <3>2
    <3> HIDE DEF x
    <3> QED BY <1>1, <3>3 DEF x
  <2>5. utf => m + 1 = 1 BY <1>1
  <2> QED BY <2>2, <2>4, <2>5 DEF WordStart
<1>9. Word(h) = [str |-> w, rest |-> <<>>, eof |-> TRUE]
  <2> DEFINE ends == {i \in WordStart(h)..Len(h) : h[i] = Space}
             blank == ~ utf /\ Inked(h) = {}
  <2>1. WordStart(h) = m + 1 /\ ~ blank BY <1>6, <1>8
  <2>2. ends = {} BY <1>2, <1>7, <2>1
  <2>3. Word(h) = [str |-> SubSeq(h, WordStart(h), Len(h)), rest |-> <<>>, eof |-> TRUE]
    BY <2>1, <2>2 DEF Word
  <2>4. SubSeq(h, m + 1, Len(h)) = w BY TakenApart DEF h
  <2> QED BY <2>1, <2>3, <2>4
<1>10. Word(g) = [str |-> w, rest |-> IF utf THEN r ELSE y, eof |-> FALSE]
  <2> DEFINE ends == {i \in WordStart(g)..Len(g) : g[i] = Space}  e == (m + k) + 1
             blank == ~ utf /\ Inked(g) = {}
  <2>1. WordStart(g) = m + 1 /\ ~ blank BY <1>6, <1>8
  <2>2. e \in ends
    <3>1. g[(m + k) + 1] = y[1] /\ y[1] = z[1]
      <4>1. 1 \in 1..(1 + n) /\ 1 \in 1..1 BY <1>4
      <4> QED BY <1>4, <1>5, <4>1
    <3>2. e \in (m + 1)..Len(g) BY <1>1, <1>4, <1>5
    <3> QED BY <1>3, <2>1, <3>1, <3>2
  <2>3. \A i \in ends : i \in Nat /\ e =< i
    <3> TAKE i \in ends
    <3>1. i \in (m + 1)..Len(g) /\ g[i] = Space BY <2>1
    <3>2. ~ (i \in (m + 1)..(m + k))
      <4> SUFFICES ASSUME i \in (m + 1)..(m + k) PROVE FALSE OBVIOUS
      <4>1. i \in 1..(m + k) BY <1>1
      <4>2. g[i] = h[i] /\ h[i] # Space BY <1>5, <1>7, <4>1
      <4> QED BY <3>1, <4>2
    <3> HIDE DEF ends
    <3> QED BY <1>1, <1>4, <1>5, <3>1, <3>2
  <2>4. Min(ends) = e
    <3>1. ends \in SUBSET Nat /\ ends # {} BY <2>2, <2>3
    <3> DEFINE x == Min(ends)
    <3> HIDE DEF ends
    <3>2. x \in ends /\ \A i \in ends : x =< i BY <3>1, MinOf
    <3>3. e =< x /\ x =< e /\ x \in Nat /\ e \in Nat BY <2>2, <2>3, <3>2
    <3> HIDE DEF x, e
    <3> QED BY <3>3 DEF x
  <2>5. ends # {} BY <2>2
  <2>6. Word(g) = [str |-> SubSeq(g, WordStart(g), Min(ends) - 1),
                   rest |-> SubSeq(g, IF utf THEN Min(ends) + 1 ELSE Min(ends), Len(g)),
                   eof |-> FALSE]
    BY <2>1, <2>5 DEF Word
  <2>7. Min(ends) - 1 = m + k BY <1>1, <2>4
  <2> HIDE DEF ends
  <2>8. SubSeq(g, m + 1, m + k) = w
    <3> DEFINE x == SubSeq(g, m + 1, m + k)
    <3>1. m + 1 \in Nat \ {0} /\ m + k \in 0..Len(g) BY <1>1, <1>4, <1>5
    <3>2. x \in Seq(Chars) /\ Len(x) = (IF m + 1 =< m + k THEN (m + k) - (m + 1) + 1 ELSE 0)
          /\ \A i \in 1..((m + k) - (m + 1) + 1) : x[i] = g[(m + 1) + i - 1]
      BY <1>5, <3>1, PartOf
    <3> HIDE DEF x
    <3>3. Len(x) = k /\ \A i \in 1..k : x[i] = w[i]
      <4>1. (m + k) - (m + 1) + 1 = k /\ m + 1 =< m + k BY <1>1
      <4>2. \A i \in 1..k : (m + 1) + i - 1 = m + i /\ m + i \in 1..(m + k) BY <1>1
      <4> QED BY <1>2, <1>5, <3>2, <4>1, <4>2, SMTT(30)
    <3>4. Len(x) = Len(w) /\ \A i \in 1..Len(x) : x[i] = w[i] BY <3>3
    <3>5. x = w BY <3>2, <3>4, SeqEqual
    <3> QED BY <3>5 DEF x
  <2>9. SubSeq(g, e, Len(g)) = y
    <3>1. SubSeq(h \o y, Len(h) + 1, Len(h \o y)) = y BY <1>2, <1>4, TakenApart
    <3> QED BY <1>2, <3>1 DEF g
  <2>10. SubSeq(g, e + 1, Len(g)) = r
    <3>1. g = (h \o z) \o r
      <4>1. (h \o z) \o r = h \o (z \o r)
        <5> DEFINE T == Seq(Chars)
        <5>1. h \in T /\ z \in T /\ r \in T BY <1>2, <1>3
        <5>2. \A b, c, d \in T : (b \o c) \o d = b \o (c \o d) BY InOneRow
        <5> HIDE DEF T
        <5> QED BY <5>1, <5>2, Zenon
      <4> QED BY <4>1 DEF g, y
    <3>2. h \o z \in Seq(Chars) /\ Len(h \o z) = e
      <4>1. h \o z \in Seq(Chars) /\ Len(h \o z) = Len(h) + Len(z)
        BY <1>2, <1>3, <1>r, Zenon
      <4> QED BY <1>2, <1>3, <4>1
    <3> DEFINE x == h \o z
    <3>3. SubSeq(x \o r, Len(x) + 1, Len(x \o r)) = r
      <4>1. x \in Seq(Chars) BY <3>2
      <4> HIDE DEF x
      <4> QED BY <4>1, TakenApart
    <3> QED BY <3>1, <3>2, <3>3
  <2> HIDE DEF e
  <2> QED BY <2>1, <2>4, <2>6, <2>7, <2>8, <2>9, <2>10
<1> QED BY <1>9, <1>10 DEF h, g, y, z

\* w is a word that is parsed to the number n.
IsWordOf(w, n) ==
  /\ w \in Seq(Chars) /\ w # <<>> /\ (\A i \in 1..Len(w) : w[i] # Space)
  /\ make_from_string(w) = Value(n)

\* The text s is the words w of the n entries e, a space before each but the first, and
\* perhaps one before that; t[i] is what is behind the i-th.
Chain(s, e, n, w, t) ==
  /\ w \in [1..n -> Seq(Chars)] /\ t \in [1..n -> Seq(Chars)]
  /\ \A i \in 1..n : IsWordOf(w[i], e[i].number)
  /\ \A i \in 2..n : t[i - 1] = <<Space>> \o (w[i] \o t[i])
  /\ \E a \in {<<>>, <<Space>>} : (utf => a = <<>>) /\ s = (a \o w[1]) \o t[1]

\* Behind the last word is nothing or a space.
Ends(s, n, t) ==
  /\ t[n] \in {<<>>, <<Space>>}
  /\ Last(s) = Space <=> t[n] = <<Space>>

\* The words of a text are the numbers inserted and not yet extracted, in order.
InOrder(s, e) ==
  \E w, t \in [1..Len(e) -> Seq(Chars)] : Chain(s, e, Len(e), w, t) /\ Ends(s, Len(e), t)

\* The last character of two texts in a row is that of the second.
LEMMA LastOfRow ==
  ASSUME NEW s \in Seq(Chars), NEW t \in Seq(Chars), t # <<>>
  PROVE  Last(s \o t) = Last(t) /\ s \o t # <<>>
<1> DEFINE r == s \o t
<1>1. Len(r) = Len(s) + Len(t) /\ Len(s) \in Nat /\ Len(t) \in Nat
      /\ \A i \in 1..Len(t) : r[Len(s) + i] = t[i]
  BY InARow
<1>2. Len(t) # 0 OBVIOUS
<1> HIDE DEF r
<1>3. Len(t) \in 1..Len(t) /\ Len(r) > 0 BY <1>1, <1>2
<1>4. r[Len(r)] = t[Len(t)] BY <1>1, <1>3
<1>5. Len(<<>>) = 0 OBVIOUS
<1>6. r # <<>> BY <1>3, <1>5
<1> QED BY <1>4, <1>6 DEF Last, r

\* Nothing around a text, and the text of one space.
LEMMA Around ==
  /\ \A s \in Seq(Chars) : <<>> \o s = s /\ s \o <<>> = s
  /\ <<Space>> \in Seq(Chars) /\ <<Space>> # <<>> /\ Last(<<Space>>) = Space
  /\ <<>> \in Seq(Chars)
<1>1. \A s \in Seq(Chars) : <<>> \o s = s /\ s \o <<>> = s BY ConcatEmptySeq
<1>2. <<Space>> \in Seq(Chars) /\ <<Space>> # <<>> /\ Last(<<Space>>) = Space
  BY DEF Space, Chars, Last
<1> QED BY <1>1, <1>2

\* What an extraction takes from such a text.
LEMMA FirstWord ==
  ASSUME NEW s, NEW e, NEW n \in Nat \ {0}, NEW w, NEW t, utf \in BOOLEAN,
         Chain(s, e, n, w, t), Ends(s, n, t)
  PROVE  /\ Word(s).str = w[1]
         /\ n > 1 => /\ ~ Word(s).eof
                     /\ Word(s).rest = IF utf THEN w[2] \o t[2] ELSE <<Space>> \o (w[2] \o t[2])
<1>1. PICK a \in {<<>>, <<Space>>} : (utf => a = <<>>) /\ s = (a \o w[1]) \o t[1]
  BY DEF Chain
<1>2. 1 \in 1..n OBVIOUS
<1>3. /\ w[1] \in Seq(Chars) /\ t[1] \in Seq(Chars) /\ w[1] # <<>>
      /\ \A i \in 1..Len(w[1]) : w[1][i] # Space
  BY <1>2 DEF Chain, IsWordOf
<1> DEFINE x == w[1]  z == <<Space>>
<1>4. z \in Seq(Chars) /\ a \in Seq(Chars) BY Around
<1>5. \A r \in Seq(Chars) :
        /\ Word(a \o x) = [str |-> x, rest |-> <<>>, eof |-> TRUE]
        /\ Word((a \o x) \o (z \o r)) =
             [str |-> x, rest |-> IF utf THEN r ELSE z \o r, eof |-> FALSE]
  BY <1>1, <1>3, <1>4, WordOf
<1>6. CASE n > 1
  <2> DEFINE r == w[2] \o t[2]
  <2>1. 2 \in 1..n /\ 2 \in 2..n /\ 2 - 1 = 1 BY <1>6
  <2>2. t[1] = z \o r BY <2>1 DEF Chain
  <2>3. r \in Seq(Chars)
    <3>1. w[2] \in Seq(Chars) /\ t[2] \in Seq(Chars) BY <2>1 DEF Chain
    <3> QED BY <3>1, InARow
  <2> HIDE DEF r, x
  <2>4. Word(s) = [str |-> x, rest |-> IF utf THEN r ELSE z \o r, eof |-> FALSE]
    BY <1>1, <1>5, <2>2, <2>3 DEF x
  <2> HIDE DEF z
  <2> QED BY <2>4 DEF x, r, z
<1>7. CASE n = 1
  <2>1. t[1] = <<>> \/ t[1] = z BY <1>7 DEF Ends
  <2> HIDE DEF x
  <2>2. CASE t[1] = <<>>
    <3>1. a \o x \in Seq(Chars) BY <1>3, <1>4, InARow DEF x
    <3>2. s = a \o x BY <1>1, <2>2, <3>1, Around DEF x
    <3>3. <<>> \in Seq(Chars) OBVIOUS
    <3> HIDE DEF z
    <3>4. Word(a \o x) = [str |-> x, rest |-> <<>>, eof |-> TRUE] BY <1>5, <3>3
    <3>5. Word(s).str = x BY <3>2, <3>4
    <3> QED BY <1>7, <3>5 DEF x
  <2>3. CASE t[1] = z
    <3>1. z \o <<>> = z /\ <<>> \in Seq(Chars) BY <1>4, Around
    <3>2. s = (a \o x) \o (z \o <<>>) BY <1>1, <2>3, <3>1 DEF x
    <3> HIDE DEF z
    <3>3. Word((a \o x) \o (z \o <<>>)) =
            [str |-> x, rest |-> IF utf THEN <<>> ELSE z \o <<>>, eof |-> FALSE]
      BY <1>5, <3>1
    <3>4. Word(s).str = x BY <3>2, <3>3
    <3> QED BY <1>7, <3>4 DEF x
  <2> QED BY <2>1, <2>2, <2>3
<1> QED BY <1>6, <1>7

\* What an extraction leaves is such a text again.
LEMMA RestInOrder ==
  ASSUME NEW s \in Seq(Chars), NEW e \in Seq(Entry), NEW w, NEW t, utf \in BOOLEAN,
         Len(e) > 1, Chain(s, e, Len(e), w, t), Ends(s, Len(e), t)
  PROVE  InOrder(Word(s).rest, Tail(e))
<1> DEFINE n == Len(e)  d == Tail(e)  r == Word(s).rest  z == <<Space>>  m == n - 1
           x == [i \in 1..m |-> w[i + 1]]  y == [i \in 1..m |-> t[i + 1]]  q == w[2] \o t[2]
<1>1. n \in Nat /\ n > 1 /\ d \in Seq(Entry) /\ Len(d) = m /\ m \in Nat /\ m >= 1
      /\ \A i \in 1..m : d[i] = e[i + 1]
  OBVIOUS
<1>2. /\ w \in [1..n -> Seq(Chars)] /\ t \in [1..n -> Seq(Chars)]
      /\ \A i \in 1..n : IsWordOf(w[i], e[i].number)
      /\ \A i \in 2..n : t[i - 1] = z \o (w[i] \o t[i])
      /\ \E a \in {<<>>, <<Space>>} : s = (a \o w[1]) \o t[1]
      /\ t[n] \in {<<>>, z} /\ (Last(s) = Space <=> t[n] = z)
  BY DEF Chain, Ends
<1>3. r = IF utf THEN q ELSE z \o q BY <1>1, FirstWord
<1> HIDE DEF n, d, r
<1>4. m \in 1..m /\ 1 \in 1..m /\ 1 \in 1..n /\ 2 \in 1..n /\ 2 \in 2..n /\ 2 - 1 = 1
      /\ \A i \in 1..m : i + 1 \in 1..n
  BY <1>1
<1>5. x \in [1..m -> Seq(Chars)] /\ y \in [1..m -> Seq(Chars)] BY <1>2, <1>4
<1>6. \A i \in 1..m : x[i] = w[i + 1] /\ y[i] = t[i + 1] OBVIOUS
<1>7. x[1] = w[2] /\ y[1] = t[2] /\ y[m] = t[n]
  <2>1. 1 + 1 = 2 /\ m + 1 = n BY <1>1
  <2> QED BY <1>4, <1>6, <2>1
<1> HIDE DEF x, y
<1>8. \A i \in 1..m : IsWordOf(x[i], d[i].number) BY <1>1, <1>2, <1>4, <1>6
<1>9. \A i \in 2..m : y[i - 1] = z \o (x[i] \o y[i])
  <2> TAKE i \in 2..m
  <2>1. i + 1 \in 2..n /\ (i + 1) - 1 = i /\ i - 1 \in 1..m /\ i \in 1..m /\ (i - 1) + 1 = i
    BY <1>1
  <2>2. t[(i + 1) - 1] = z \o (w[i + 1] \o t[i + 1]) BY <1>2, <2>1
  <2>3. y[i - 1] = t[i] /\ x[i] = w[i + 1] /\ y[i] = t[i + 1]
    <3>1. y[i - 1] = t[(i - 1) + 1] BY <1>6, <2>1
    <3> QED BY <1>6, <2>1, <3>1
  <2> QED BY <2>1, <2>2, <2>3
<1>10. w[2] \in Seq(Chars) /\ w[2] # <<>> /\ t[2] \in Seq(Chars) /\ z \in Seq(Chars)
  BY <1>2, <1>4, Around DEF IsWordOf
<1>11. \E a \in {<<>>, <<Space>>} : (utf => a = <<>>) /\ r = (a \o x[1]) \o y[1]
  <2>1. CASE utf
    <3>1. <<>> \o w[2] = w[2] BY <1>10, Around
    <3>2. r = (<<>> \o x[1]) \o y[1] BY <1>3, <1>7, <2>1, <3>1
    <3> QED BY <3>2
  <2>2. CASE ~ utf
    <3> HIDE DEF z
    <3>1. (z \o w[2]) \o t[2] = z \o (w[2] \o t[2]) BY <1>10, InOneRow
    <3>2. r = (z \o x[1]) \o y[1] BY <1>3, <1>7, <2>2, <3>1
    <3> QED BY <2>2, <3>2 DEF z
  <2> QED BY <2>1, <2>2
<1>12. Chain(r, d, m, x, y) BY <1>5, <1>8, <1>9, <1>11 DEF Chain
<1>13. q \in Seq(Chars) /\ q # <<>>
  <2> DEFINE a == w[2]  b == t[2]
  <2>1. a \in Seq(Chars) /\ b \in Seq(Chars) /\ a # <<>> BY <1>10
  <2> HIDE DEF a, b
  <2>2. a \o b \in Seq(Chars) /\ Len(a \o b) = Len(a) + Len(b) BY <2>1, InARow
  <2>3. Len(a) \in Nat /\ Len(b) \in Nat /\ Len(a) # 0 BY <2>1
  <2>4. a \o b # <<>>
    <3> SUFFICES ASSUME a \o b = <<>> PROVE FALSE OBVIOUS
    <3>1. Len(a \o b) = 0 OBVIOUS
    <3> QED BY <2>2, <2>3, <3>1
  <2> QED BY <2>2, <2>4 DEF a, b
<1> HIDE DEF q
<1>14. Last(z \o q) = Last(q) /\ z \o q # <<>> /\ z \o q \in Seq(Chars)
  <2> HIDE DEF z
  <2>1. z \o q \in Seq(Chars) BY <1>10, <1>13, InARow
  <2> QED BY <1>10, <1>13, <2>1, LastOfRow
<1>15. Last(s) = Last(q)
  <2>1. PICK a \in {<<>>, <<Space>>} : s = (a \o w[1]) \o t[1] BY <1>2
  <2>2. t[1] = z \o q BY <1>2, <1>4 DEF q
  <2>3. a \o w[1] \in Seq(Chars)
    <3>1. a \in Seq(Chars) /\ w[1] \in Seq(Chars) BY <1>2, <1>4, Around
    <3> QED BY <3>1, InARow
  <2> DEFINE h == a \o w[1]  g == z \o q
  <2>4. h \in Seq(Chars) /\ g \in Seq(Chars) /\ g # <<>> BY <1>14, <2>3
  <2>5. s = h \o g BY <2>1, <2>2
  <2>6. Last(g) = Last(q) BY <1>14
  <2> HIDE DEF h, g
  <2>7. Last(s) = Last(g) BY <2>4, <2>5, LastOfRow
  <2> QED BY <2>6, <2>7
<1>16. Last(r) = Last(s)
  <2> HIDE DEF z
  <2> QED BY <1>3, <1>14, <1>15
<1>17. Ends(r, m, y) BY <1>2, <1>7, <1>16 DEF Ends
<1>18. Len(d) = m BY <1>1
<1> HIDE DEF m
<1> QED BY <1>5, <1>12, <1>17, <1>18 DEF InOrder, d, r

\* Texts with the same text behind each.
Behind(n, t, x) == [i \in 1..n |-> t[i] \o x]

\* Characters behind such a text are behind each of its words.
LEMMA Extends ==
  ASSUME NEW s, NEW e, NEW n \in Nat \ {0}, NEW w, NEW t, NEW x \in Seq(Chars),
         Chain(s, e, n, w, t)
  PROVE  Chain(s \o x, e, n, w, Behind(n, t, x))
<1> DEFINE y == [i \in 1..n |-> t[i] \o x]  z == <<Space>>
<1>1. /\ w \in [1..n -> Seq(Chars)] /\ t \in [1..n -> Seq(Chars)]
      /\ \A i \in 1..n : IsWordOf(w[i], e[i].number)
      /\ \A i \in 2..n : t[i - 1] = z \o (w[i] \o t[i])
  BY DEF Chain
<1>2. \A i \in 1..n : t[i] \o x \in Seq(Chars)
  <2> TAKE i \in 1..n
  <2>1. t[i] \in Seq(Chars) BY <1>1
  <2> QED BY <2>1, InARow
<1>3. y \in [1..n -> Seq(Chars)] BY <1>2
<1>4. \A i \in 1..n : y[i] = t[i] \o x OBVIOUS
<1> HIDE DEF y
<1>5. z \in Seq(Chars) BY Around
<1> HIDE DEF z
<1>6. \A i \in 2..n : y[i - 1] = z \o (w[i] \o y[i])
  <2> TAKE i \in 2..n
  <2>1. i - 1 \in 1..n /\ i \in 1..n OBVIOUS
  <2>2. w[i] \in Seq(Chars) /\ t[i] \in Seq(Chars) BY <1>1, <2>1
  <2> DEFINE a == w[i]  b == t[i]
  <2>3. a \in Seq(Chars) /\ b \in Seq(Chars) BY <2>2
  <2>4. y[i - 1] = (z \o (a \o b)) \o x BY <1>1, <1>4, <2>1
  <2>5. y[i] = b \o x BY <1>4, <2>1
  <2> HIDE DEF a, b
  <2>6. a \o b \in Seq(Chars) BY <2>3, InARow
  <2>7. (z \o (a \o b)) \o x = z \o ((a \o b) \o x) BY <1>5, <2>6, InOneRow
  <2>8. (a \o b) \o x = a \o (b \o x) BY <2>3, InOneRow
  <2> QED BY <2>4, <2>5, <2>7, <2>8 DEF a, b
<1>7. \E a \in {<<>>, <<Space>>} : (utf => a = <<>>) /\ s \o x = (a \o w[1]) \o y[1]
  <2>1. PICK a \in {<<>>, <<Space>>} : (utf => a = <<>>) /\ s = (a \o w[1]) \o t[1]
    BY DEF Chain
  <2>2. 1 \in 1..n OBVIOUS
  <2>3. a \o w[1] \in Seq(Chars) /\ t[1] \in Seq(Chars)
    <3>1. a \in Seq(Chars) /\ w[1] \in Seq(Chars) /\ t[1] \in Seq(Chars)
      BY <1>1, <2>2, Around
    <3> QED BY <3>1, InARow
  <2> DEFINE h == a \o w[1]  b == t[1]
  <2>4. h \in Seq(Chars) /\ b \in Seq(Chars) /\ s = h \o b BY <2>1, <2>3
  <2>5. y[1] = b \o x BY <1>4, <2>2
  <2> HIDE DEF h, b
  <2>6. (h \o b) \o x = h \o (b \o x) BY <2>4, InOneRow
  <2>7. s \o x = h \o y[1] BY <2>4, <2>5, <2>6
  <2> QED BY <2>1, <2>7 DEF h
<1>8. Chain(s \o x, e, n, w, y) BY <1>1, <1>3, <1>6, <1>7 DEF Chain, z
<1> QED BY <1>8 DEF y, Behind

\* No number was inserted that cannot be read back.
AllReadable(e) == \A i \in DOMAIN e : e[i].readable

\* The inductive invariant of the numbers that are to come back: while the stream has
\* not failed, the readable ones lie in it in their order; one that is not is alone.
WordsInv ==
  /\ TypeOK
  /\ inserts = 0 => unread = <<>>
  /\ unread # <<>> => AllReadable(unread) \/ Len(unread) = 1
  /\ rdstate = {} /\ unread # <<>> /\ AllReadable(unread) => InOrder(stream, unread)

\* The first readable number, in an empty stream.
LEMMA FirstInOrder ==
  ASSUME NEW e \in Seq(Entry), NEW x, utf \in BOOLEAN, Len(e) = 1, IsWordOf(x, e[1].number)
  PROVE  InOrder(x, e)
<1> DEFINE w == [i \in 1..1 |-> x]  t == [i \in 1..1 |-> <<>>]
<1>1. x \in Seq(Chars) /\ x # <<>> /\ \A i \in 1..Len(x) : x[i] # Space BY DEF IsWordOf
<1>2. w \in [1..1 -> Seq(Chars)] /\ t \in [1..1 -> Seq(Chars)] BY <1>1
<1>3. w[1] = x /\ t[1] = <<>> OBVIOUS
<1> HIDE DEF w, t
<1>4. \A i \in 1..1 : IsWordOf(w[i], e[i].number) BY <1>3
<1>5. x = (<<>> \o w[1]) \o t[1] BY <1>1, <1>3, Around
<1>6. \A i \in 2..1 : t[i - 1] = <<Space>> \o (w[i] \o t[i]) OBVIOUS
<1>7. Chain(x, e, 1, w, t) BY <1>2, <1>4, <1>5, <1>6 DEF Chain
<1>8. Last(x) # Space
  <2>1. Len(x) \in Nat /\ Len(x) # 0 BY <1>1
  <2>2. Len(x) \in 1..Len(x) BY <2>1
  <2> QED BY <1>1, <2>2 DEF Last
<1>9. <<>> # <<Space>> OBVIOUS
<1>10. Ends(x, 1, t) BY <1>3, <1>8, <1>9 DEF Ends
<1> QED BY <1>2, <1>7, <1>10 DEF InOrder

\* One more number behind a space, ...
LEMMA NextInOrder ==
  ASSUME NEW s \in Seq(Chars), NEW e \in Seq(Entry), NEW d \in Entry, NEW x, utf \in BOOLEAN,
         e # <<>>, InOrder(s, e), Last(s) = Space, IsWordOf(x, d.number)
  PROVE  InOrder(s \o x, Append(e, d))
<1> DEFINE n == Len(e)  m == n + 1  g == Append(e, d)
<1>1. n \in Nat \ {0} /\ g \in Seq(Entry) /\ Len(g) = m /\ g[m] = d
      /\ \A i \in 1..n : g[i] = e[i]
  <2>1. n \in Nat /\ n # 0 OBVIOUS
  <2> QED BY <2>1
<1>2. x \in Seq(Chars) /\ x # <<>> /\ \A i \in 1..Len(x) : x[i] # Space BY DEF IsWordOf
<1>3. PICK w, t \in [1..n -> Seq(Chars)] : Chain(s, e, n, w, t) /\ Ends(s, n, t)
  BY DEF InOrder
<1> HIDE DEF n, g
<1>4. t[n] = <<Space>> BY <1>3 DEF Ends
<1> DEFINE y == Behind(n, t, x)
           w2 == [i \in 1..m |-> IF i = m THEN x ELSE w[i]]
           t2 == [i \in 1..m |-> IF i = m THEN <<>> ELSE y[i]]
<1>5. Chain(s \o x, e, n, w, y) BY <1>1, <1>2, <1>3, Extends
<1>6. /\ y \in [1..n -> Seq(Chars)]
      /\ \A i \in 1..n : IsWordOf(w[i], e[i].number)
      /\ \A i \in 2..n : y[i - 1] = <<Space>> \o (w[i] \o y[i])
      /\ \E a \in {<<>>, <<Space>>} : (utf => a = <<>>) /\ s \o x = (a \o w[1]) \o y[1]
  <2> HIDE DEF y
  <2> QED BY <1>5 DEF Chain
<1>7. y[n] = <<Space>> \o x
  <2>1. n \in 1..n BY <1>1
  <2>2. y[n] = t[n] \o x BY <2>1 DEF Behind
  <2> QED BY <1>4, <2>2
<1> HIDE DEF y
<1>8. w2 \in [1..m -> Seq(Chars)] /\ t2 \in [1..m -> Seq(Chars)]
  <2>1. \A i \in 1..m : i # m => i \in 1..n BY <1>1
  <2>2. \A i \in 1..n : w[i] \in Seq(Chars) /\ y[i] \in Seq(Chars) BY <1>3, <1>6
  <2>3. <<>> \in Seq(Chars) OBVIOUS
  <2> QED BY <1>2, <2>1, <2>2, <2>3
<1>9. /\ m \in 1..m /\ w2[m] = x /\ t2[m] = <<>>
      /\ \A i \in 1..n : i \in 1..m /\ w2[i] = w[i] /\ t2[i] = y[i]
  <2>1. m \in 1..m /\ \A i \in 1..n : i \in 1..m /\ i # m BY <1>1
  <2> QED BY <2>1
<1> HIDE DEF w2, t2
<1>10. \A i \in 1..m : IsWordOf(w2[i], g[i].number)
  <2> TAKE i \in 1..m
  <2>1. CASE i = m BY <1>1, <1>9, <2>1
  <2>2. CASE i # m
    <3>1. i \in 1..n BY <1>1, <2>2
    <3> QED BY <1>1, <1>6, <1>9, <3>1
  <2> QED BY <2>1, <2>2
<1>11. \A i \in 2..m : t2[i - 1] = <<Space>> \o (w2[i] \o t2[i])
  <2> TAKE i \in 2..m
  <2>1. CASE i = m
    <3>1. i - 1 = n /\ n \in 1..n BY <1>1, <2>1
    <3>2. x \o <<>> = x BY <1>2, Around
    <3>3. t2[i - 1] = y[n] BY <1>9, <3>1
    <3>4. w2[i] = x /\ t2[i] = <<>> BY <1>9, <2>1
    <3> QED BY <1>7, <3>2, <3>3, <3>4
  <2>2. CASE i # m
    <3>1. i \in 2..n /\ i \in 1..n /\ i - 1 \in 1..n BY <1>1, <2>2
    <3>2. t2[i - 1] = y[i - 1] /\ w2[i] = w[i] /\ t2[i] = y[i] BY <1>9, <3>1
    <3>3. y[i - 1] = <<Space>> \o (w[i] \o y[i]) BY <1>6, <3>1
    <3> QED BY <3>2, <3>3
  <2> QED BY <2>1, <2>2
<1>12. w2[1] = w[1] /\ t2[1] = y[1]
  <2>1. 1 \in 1..n BY <1>1
  <2> QED BY <1>9, <2>1
<1>13. \E a \in {<<>>, <<Space>>} : (utf => a = <<>>) /\ s \o x = (a \o w2[1]) \o t2[1]
  BY <1>6, <1>12
<1>14. Chain(s \o x, g, m, w2, t2) BY <1>8, <1>10, <1>11, <1>13 DEF Chain
<1>15. Last(s \o x) # Space
  <2>1. Len(x) \in Nat /\ Len(x) # 0 BY <1>2
  <2>2. Len(x) \in 1..Len(x) BY <2>1
  <2>3. Last(x) # Space BY <1>2, <2>2 DEF Last
  <2> QED BY <1>2, <2>3, LastOfRow
<1>16. <<>> # <<Space>> OBVIOUS
<1>17. Ends(s \o x, m, t2) BY <1>9, <1>15, <1>16 DEF Ends
<1> HIDE DEF m
<1> QED BY <1>1, <1>8, <1>14, <1>17 DEF InOrder, g

\* ... and the space.
LEMMA SpaceInOrder ==
  ASSUME NEW s \in Seq(Chars), NEW e \in Seq(Entry), utf \in BOOLEAN,
         e # <<>>, InOrder(s, e), Last(s) # Space
  PROVE  InOrder(Append(s, Space), e)
<1> DEFINE n == Len(e)  z == <<Space>>
<1>1. n \in Nat \ {0}
  <2>1. n \in Nat /\ n # 0 OBVIOUS
  <2> QED BY <2>1
<1>2. PICK w, t \in [1..n -> Seq(Chars)] : Chain(s, e, n, w, t) /\ Ends(s, n, t)
  BY DEF InOrder
<1> HIDE DEF n
<1>3. t[n] = <<>> BY <1>2 DEF Ends
<1> DEFINE y == Behind(n, t, z)
<1>4. Append(s, Space) = s \o z
  <2>1. Space \in Chars BY DEF Space, Chars
  <2> QED BY <2>1
<1>5. z \in Seq(Chars) /\ z # <<>> /\ Last(z) = Space BY Around
<1> HIDE DEF z
<1>6. Chain(s \o z, e, n, w, y) BY <1>1, <1>2, <1>5, Extends
<1>7. y[n] = z
  <2>1. <<>> \o z = z BY <1>5, Around
  <2>2. n \in 1..n BY <1>1
  <2>3. y[n] = t[n] \o z BY <2>2 DEF Behind
  <2> QED BY <1>3, <2>1, <2>3
<1>8. Last(s \o z) = Space BY <1>5, LastOfRow
<1>9. Ends(s \o z, n, y) BY <1>7, <1>8 DEF Ends, z
<1>10. y \in [1..n -> Seq(Chars)] BY <1>6 DEF Chain
<1> HIDE DEF y
<1> QED BY <1>2, <1>4, <1>6, <1>9, <1>10 DEF InOrder, n

\* Before an insertion there is nothing to keep in order.
LEMMA InitWords == Init => WordsInv
<1> SUFFICES ASSUME Init PROVE WordsInv OBVIOUS
<1>1. TypeOK BY InitTyped
<1>2. unread = <<>> BY DEF Init
<1> QED BY <1>1, <1>2 DEF WordsInv

\* An extraction while the numbers lie in their order reads the first of them.
LEMMA ExtractReads ==
  ASSUME WordsInv, ExtractWord, unread # <<>>, AllReadable(unread)
  PROVE  /\ Val(v') = Head(unread).number /\ ~ Failed(rdstate')
         /\ Len(unread) > 1 => InOrder(stream', Tail(unread))
<1> DEFINE word == Word(stream)  parsed == make_from_string(word.str)
           reads == word.str # <<>> /\ parsed.ends = "value"  n == Len(unread)
<1>1. TypeOK /\ InOrder(stream, unread) /\ utf \in BOOLEAN /\ unread \in Seq(Entry)
      /\ stream \in Seq(Chars)
  BY DEF WordsInv, ExtractWord, TypeOK
<1>2. n \in Nat \ {0} /\ 1 \in 1..n
  <2>1. n \in Nat /\ n # 0 BY <1>1
  <2> QED BY <2>1
<1>3. PICK w, t \in [1..n -> Seq(Chars)] : Chain(stream, unread, n, w, t) /\ Ends(stream, n, t)
  BY <1>1 DEF InOrder
<1>4. word.str = w[1] BY <1>1, <1>2, <1>3, FirstWord
<1>5. IsWordOf(w[1], unread[1].number) BY <1>2, <1>3 DEF Chain
<1>6. reads /\ parsed.number = unread[1].number
  BY <1>4, <1>5 DEF IsWordOf, Value
<1>7. /\ stream' = word.rest
      /\ reads => Val(v') = parsed.number
      /\ rdstate' = (IF word.eof THEN {"eofbit"} ELSE {}) \cup (IF reads THEN {} ELSE {"failbit"})
  BY <1>1, ExtractSteps
<1> HIDE DEF word, parsed, reads
<1>8. Val(v') = unread[1].number BY <1>6, <1>7
<1>9. Head(unread) = unread[1] BY <1>1, <1>2
<1>10. rdstate' \subseteq {"eofbit"} BY <1>6, <1>7
<1>11. ~ Failed(rdstate') BY <1>10 DEF Failed
<1>12. n > 1 => InOrder(stream', Tail(unread))
  <2> HAVE n > 1
  <2>1. InOrder(Word(stream).rest, Tail(unread)) BY <1>1, <1>3, RestInOrder
  <2> QED BY <1>7, <2>1 DEF word
<1> QED BY <1>8, <1>9, <1>11, <1>12

\* The order depends on the stream and the path only.
LEMMA SameOrder ==
  ASSUME utf' = utf, InOrder(stream', unread')
  PROVE  InOrder(stream, unread)'
BY DEF InOrder, Chain, Ends, IsWordOf

\* Every step keeps the numbers in their order.
LEMMA NextWords == WordsInv /\ [Next]_vars => WordsInv'
<1> SUFFICES ASSUME WordsInv, [Next]_vars PROVE WordsInv' OBVIOUS
<1>1. TypeOK /\ TypeOK' BY NextTyped DEF WordsInv
<1>2. /\ utf \in BOOLEAN /\ unread \in Seq(Entry) /\ stream \in Seq(Chars) /\ inserts \in Nat
      /\ inserts = 0 => unread = <<>>
      /\ unread # <<>> => AllReadable(unread) \/ Len(unread) = 1
      /\ rdstate = {} /\ unread # <<>> /\ AllReadable(unread) => InOrder(stream, unread)
  BY <1>1 DEF WordsInv, TypeOK
<1>3. ASSUME UNCHANGED streamvars PROVE WordsInv'
  <2>1. UNCHANGED <<utf, stream, rdstate, unread, inserts>> BY <1>3 DEF streamvars
  <2>2. (rdstate = {} /\ unread # <<>> /\ AllReadable(unread) => InOrder(stream, unread))'
    BY <1>2, <2>1, SameOrder
  <2> QED BY <1>1, <1>2, <2>1, <2>2 DEF WordsInv
<1>4. CASE MakeFromString BY <1>3, <1>4 DEF MakeFromString, Calls
<1>5. CASE ParseLiteral BY <1>3, <1>5 DEF ParseLiteral, Calls
<1>6. CASE ReadResult BY <1>3, <1>6 DEF ReadResult
<1>7. CASE Insert
  <2>1. PICK u \in U128, f \in FormatsOfTheCode :
          /\ InsertOne(u, f)
          /\ Inserted(u, f) \in Seq(Chars) /\ Inserted(u, f) # <<>>
          /\ stream' = stream \o Inserted(u, f)
          /\ unread' = Append(unread, [number |-> Val(u), format |-> f,
                                       readable |-> Readable(u, f)])
          /\ unread' \in Seq(Entry)
    BY <1>1, <1>7, InsertSteps
  <2> DEFINE d == [number |-> Val(u), format |-> f, readable |-> Readable(u, f)]
             x == Inserted(u, f)
  <2>2. /\ inserts > 0 => Readable(u, f) /\ AllReadable(unread)
        /\ inserts' = inserts + 1 /\ utf' = utf /\ rdstate' = rdstate
    BY <2>1 DEF InsertOne, AllReadable
  <2>3. rdstate = {} /\ (stream = <<>> \/ (unread # <<>> /\ Last(stream) = Space))
    BY <1>7 DEF Insert
  <2>4. d.number = Val(u) /\ d.readable = Readable(u, f) OBVIOUS
  <2>5. unread' = Append(unread, d) /\ stream' = stream \o x /\ x \in Seq(Chars) BY <2>1
  <2>6. Readable(u, f) => IsWordOf(x, d.number)
    BY <2>4, ReadableIsRead DEF IsWordOf
  <2> HIDE DEF d, x
  <2>7. Len(unread') = Len(unread) + 1 /\ unread'[Len(unread) + 1] = d
        /\ d \in Entry
    <3>1. Len(unread') = Len(unread) + 1 /\ unread'[Len(unread) + 1] = d BY <1>2, <2>5
    <3>2. Len(unread) \in Nat BY <1>2
    <3>3. Len(unread) + 1 \in 1..Len(unread') BY <3>1, <3>2
    <3>4. unread'[Len(unread) + 1] \in Entry BY <2>1, <3>3
    <3> QED BY <3>1, <3>4
  <2>8. inserts' # 0 BY <1>2, <2>2
  <2>9. CASE unread = <<>>
    <3>1. stream = <<>> BY <2>3, <2>9
    <3>2. stream' = x BY <2>5, <3>1, Around
    <3>3. Len(unread') = 1 /\ unread'[1] = d /\ DOMAIN unread' = 1..Len(unread')
      <4>1. Len(unread) = 0 BY <2>9
      <4> QED BY <2>1, <2>7, <4>1
    <3>4. AllReadable(unread') => InOrder(stream', unread')
      <4> HAVE AllReadable(unread')
      <4>1. d.readable BY <3>3 DEF AllReadable
      <4>2. IsWordOf(x, unread'[1].number) BY <2>4, <2>6, <3>3, <4>1
      <4> DEFINE e == unread'
      <4>3. e \in Seq(Entry) /\ Len(e) = 1 /\ IsWordOf(x, e[1].number) BY <2>1, <3>3, <4>2
      <4> HIDE DEF e
      <4>4. InOrder(x, e) BY <1>2, <4>3, FirstInOrder
      <4> QED BY <3>2, <4>4 DEF e
    <3>5. (rdstate = {} /\ unread # <<>> /\ AllReadable(unread) => InOrder(stream, unread))'
      BY <2>2, <3>4, SameOrder DEF AllReadable
    <3> QED BY <1>1, <2>8, <3>3, <3>5 DEF WordsInv
  <2>10. CASE unread # <<>>
    <3>1. inserts > 0 BY <1>2, <2>10
    <3>2. Readable(u, f) /\ AllReadable(unread) /\ InOrder(stream, unread)
      BY <1>2, <2>2, <2>3, <2>10, <3>1
    <3>3. stream # <<>>
      <4>1. PICK w, t \in [1..Len(unread) -> Seq(Chars)] :
              Chain(stream, unread, Len(unread), w, t)
        BY <3>2 DEF InOrder
      <4>2. PICK a \in {<<>>, <<Space>>} : stream = (a \o w[1]) \o t[1] BY <4>1 DEF Chain
      <4>3. 1 \in 1..Len(unread)
        <5>1. Len(unread) \in Nat /\ Len(unread) # 0 BY <1>2, <2>10
        <5> QED BY <5>1
      <4>4. w[1] \in Seq(Chars) /\ w[1] # <<>> /\ t[1] \in Seq(Chars) /\ a \in Seq(Chars)
        BY <4>1, <4>3, Around DEF Chain, IsWordOf
      <4> DEFINE h == a \o w[1]  b == t[1]
      <4>5. h \in Seq(Chars) /\ h # <<>> BY <4>4, LastOfRow, InARow
      <4>6. stream = h \o b /\ b \in Seq(Chars) BY <4>2, <4>4
      <4> HIDE DEF h, b
      <4> SUFFICES ASSUME stream = <<>> PROVE FALSE OBVIOUS
      <4>7. Len(h \o b) = Len(h) + Len(b) /\ Len(h) \in Nat /\ Len(b) \in Nat
        BY <4>5, <4>6, InARow
      <4>8. Len(h) # 0 BY <4>5
      <4>9. Len(h \o b) = Len(stream) BY <4>6
      <4>10. Len(stream) = 0 OBVIOUS
      <4> QED BY <4>7, <4>8, <4>9, <4>10
    <3>4. Last(stream) = Space BY <2>3, <3>3
    <3>5. InOrder(stream', unread')
      <4>1. IsWordOf(x, d.number) BY <2>6, <3>2
      <4>2. InOrder(stream \o x, Append(unread, d))
        BY <1>2, <2>7, <2>10, <3>2, <3>4, <4>1, NextInOrder
      <4> QED BY <2>5, <4>2
    <3>6. AllReadable(unread')
      <4>1. \A i \in DOMAIN unread' : i = Len(unread) + 1 \/ i \in DOMAIN unread
        BY <1>2, <2>5
      <4>2. \A i \in DOMAIN unread : unread'[i] = unread[i] BY <1>2, <2>5
      <4>3. d.readable BY <2>4, <3>2
      <4> QED BY <2>7, <3>2, <4>1, <4>2, <4>3 DEF AllReadable
    <3>7. InOrder(stream, unread)' BY <2>2, <3>5, SameOrder
    <3>8. AllReadable(unread)' BY <3>6 DEF AllReadable
    <3> QED BY <1>1, <2>8, <3>7, <3>8 DEF WordsInv
  <2> QED BY <2>9, <2>10
<1>8. CASE InsertSpace
  <2>1. /\ rdstate = {} /\ unread # <<>> /\ Last(stream) # Space
        /\ stream' = Append(stream, Space) /\ UNCHANGED <<utf, rdstate, unread, inserts>>
    BY <1>8 DEF InsertSpace
  <2>2. AllReadable(unread) => InOrder(stream', unread')
    <3> HAVE AllReadable(unread)
    <3>1. InOrder(stream, unread) BY <1>2, <2>1
    <3>2. InOrder(Append(stream, Space), unread) BY <1>2, <2>1, <3>1, SpaceInOrder
    <3> QED BY <2>1, <3>2
  <2>3. (rdstate = {} /\ unread # <<>> /\ AllReadable(unread) => InOrder(stream, unread))'
    BY <2>1, <2>2, SameOrder DEF AllReadable
  <2> QED BY <1>1, <1>2, <2>1, <2>3 DEF WordsInv, AllReadable
<1>9. CASE Extract
  <2>1. CASE ExtractFromFailed
    <3>1. rdstate' # {} /\ UNCHANGED <<utf, stream, unread, inserts>>
      BY <2>1 DEF ExtractFromFailed
    <3> QED BY <1>1, <1>2, <3>1 DEF WordsInv, AllReadable
  <2>2. CASE ExtractAtEnd
    <3>1. rdstate' # {} /\ UNCHANGED <<utf, stream, unread, inserts>>
      BY <2>2 DEF ExtractAtEnd
    <3> QED BY <1>1, <1>2, <3>1 DEF WordsInv, AllReadable
  <2>3. CASE ExtractWord
    <3>1. unread' = (IF unread = <<>> THEN <<>> ELSE Tail(unread)) /\ UNCHANGED <<utf, inserts>>
      BY <1>1, <2>3, ExtractSteps
    <3>2. CASE Len(unread) =< 1
      <4>1. unread' = <<>>
        <5>1. CASE unread = <<>> BY <3>1, <5>1
        <5>2. CASE unread # <<>>
          <6>1. Len(unread) = 1 /\ unread' = Tail(unread) /\ unread' \in Seq(Entry)
            <7>1. Len(unread) \in Nat /\ Len(unread) # 0 BY <1>2, <5>2
            <7>2. unread' \in Seq(Entry) BY <1>1 DEF TypeOK
            <7>3. unread' = Tail(unread) BY <3>1, <5>2
            <7>4. Len(unread) = 1
              <8> DEFINE k == Len(unread)
              <8>1. k \in Nat /\ k # 0 /\ k =< 1 BY <3>2, <7>1
              <8> HIDE DEF k
              <8>2. k = 1 BY <8>1
              <8> QED BY <8>2 DEF k
            <7> QED BY <7>2, <7>3, <7>4
          <6>2. Len(unread') = 0 BY <1>2, <6>1
          <6> QED BY <6>1, <6>2
        <5> QED BY <5>1, <5>2
      <4> QED BY <1>1, <3>1, <4>1 DEF WordsInv
    <3>3. CASE Len(unread) > 1
      <4>1. unread # <<>> /\ AllReadable(unread)
        <5>1. unread # <<>>
          <6> SUFFICES ASSUME unread = <<>> PROVE FALSE OBVIOUS
          <6>1. Len(unread) = 0 OBVIOUS
          <6> QED BY <3>3, <6>1
        <5> QED BY <1>2, <3>3, <5>1
      <4>2. InOrder(stream', unread') BY <2>3, <3>1, <3>3, <4>1, ExtractReads
      <4>3. AllReadable(unread')
        <5>1. unread' = Tail(unread) BY <3>1, <4>1
        <5>2. \A i \in DOMAIN unread' : i + 1 \in DOMAIN unread /\ unread'[i] = unread[i + 1]
          BY <1>2, <3>3, <5>1
        <5> QED BY <4>1, <5>2 DEF AllReadable
      <4>4. InOrder(stream, unread)' BY <3>1, <4>2, SameOrder
      <4>5. AllReadable(unread)' BY <4>3 DEF AllReadable
      <4>6. inserts' # 0 BY <1>2, <3>1, <4>1
      <4> QED BY <1>1, <4>4, <4>5, <4>6 DEF WordsInv
    <3>4. Len(unread) \in Nat BY <1>2
    <3> QED BY <3>2, <3>3, <3>4
  <2> QED BY <1>9, <2>1, <2>2, <2>3 DEF Extract
<1>10. CASE UNCHANGED vars BY <1>3, <1>10 DEF vars
<1> QED BY <1>4, <1>5, <1>6, <1>7, <1>8, <1>9, <1>10 DEF Next

\* Whatever numbers are inserted: while the stream has not failed, the readable ones lie
\* in it in their order.
THEOREM WordsStayInOrder == Spec => []WordsInv
BY InitWords, NextWords, PTL DEF Spec

\* For every width and numbers: they come back in their order, each as it was.
THEOREM ReadableNumbersReturn == Spec => ReadableNumbersComeBack
<1> DEFINE Step == Extract /\ unread # <<>> /\ (\A i \in DOMAIN unread : unread[i].readable)
                     /\ rdstate = {} =>
                     /\ Val(v') = Head(unread).number
                     /\ ~ Failed(rdstate')
<1>1. WordsInv => [Step]_vars
  <2> SUFFICES ASSUME WordsInv, Extract, unread # <<>>,
                      \A i \in DOMAIN unread : unread[i].readable, rdstate = {}
               PROVE  Val(v') = Head(unread).number /\ ~ Failed(rdstate')
    OBVIOUS
  <2>1. ExtractWord BY DEF Extract, ExtractFromFailed, ExtractAtEnd, Failed
  <2>2. AllReadable(unread) BY DEF AllReadable
  <2> QED BY <2>1, <2>2, ExtractReads
<1> QED BY <1>1, WordsStayInOrder, PTL DEF ReadableNumbersComeBack

-----------------------------------------------------------------------------
(* Literals *)

\* The states of the loop over the digits of a literal.
LiteralStates == [sum : U128, exp : U128]

\* What execute_literal_parse does with one digit.
LiteralStep(c, s, base) ==
  [sum |-> Plus(s.sum, Times(make_uint128(0, c), s.exp)),
   exp |-> Times(s.exp, make_uint128(0, base))]

\* A step of that loop stays in its states.
LEMMA LiteralStepKeeps ==
  ASSUME NEW c \in 0..15, NEW s \in LiteralStates, NEW base \in {10, 16}
  PROVE  LiteralStep(c, s, base) \in LiteralStates
<1>1. s.sum \in U128 /\ s.exp \in U128 BY DEF LiteralStates
<1>2. make_uint128(0, c) \in U128
  <2>1. c \in Nat /\ c < 256 OBVIOUS
  <2> QED BY <2>1, SmallNumber
<1>3. make_uint128(0, base) \in U128
  <2>1. base \in Nat /\ base < 256 OBVIOUS
  <2> QED BY <2>1, SmallNumber
<1>4. Times(make_uint128(0, c), s.exp) \in U128 BY <1>1, <1>2, TimesMultiplies
<1>5. Times(s.exp, make_uint128(0, base)) \in U128 BY <1>1, <1>3, TimesMultiplies
<1>6. Plus(s.sum, Times(make_uint128(0, c), s.exp)) \in U128 BY <1>1, <1>4, PlusAdds
<1> QED BY <1>5, <1>6 DEF LiteralStep, LiteralStates

\* The loop goes from digit to digit, from the last to the first.
LEMMA LiteralReadSteps ==
  ASSUME NEW t \in Seq(0..15), NEW base \in {10, 16}
  PROVE  LET r == LiteralRead(t, base)
         IN  /\ r \in [0..Len(t) -> LiteralStates]
             /\ r[0] = [sum |-> Zero, exp |-> One]
             /\ \A k \in 1..Len(t) : r[k] = LiteralStep(t[Len(t) + 1 - k], r[k - 1], base)
<1> DEFINE n == Len(t)
           start == [sum |-> Zero, exp |-> One]
           step == [k \in 1..n |-> [s \in LiteralStates |-> LiteralStep(t[n + 1 - k], s, base)]]
           Eq(h) == h = [k \in 0..n |-> IF k = 0 THEN start
                                        ELSE LiteralStep(t[n + 1 - k], h[k - 1], base)]
           u == CHOOSE u : Eq(u)
<1>1. n \in Nat /\ \A i \in 1..n : t[i] \in 0..15
  <2> DEFINE B == 0..15
  <2>1. t \in Seq(B) OBVIOUS
  <2> HIDE DEF B
  <2>2. \A i \in 1..n : t[i] \in B BY <2>1
  <2> QED BY <2>2 DEF B
<1>2. start \in LiteralStates BY ZeroAndOne DEF LiteralStates
<1>3. step \in [1..n -> [LiteralStates -> LiteralStates]]
  <2>1. \A k \in 1..n : n + 1 - k \in 1..n BY <1>1
  <2>2. \A k \in 1..n : t[n + 1 - k] \in 0..15 BY <1>1, <2>1
  <2>3. \A c \in 0..15 : \A s \in LiteralStates : LiteralStep(c, s, base) \in LiteralStates
    BY LiteralStepKeeps
  <2> HIDE DEF n
  <2> QED BY <2>2, <2>3
<1>4. \A k \in 1..n : \A s \in LiteralStates : step[k][s] = LiteralStep(t[n + 1 - k], s, base)
  OBVIOUS
<1> HIDE DEF step, start
<1>5. PICK g \in [0..n -> LiteralStates] :
        g[0] = start /\ \A k \in 1..n : g[k] = step[k][g[k - 1]]
  <2> HIDE DEF n
  <2> DEFINE T == LiteralStates
  <2> HIDE DEF T
  <2>1. HasRecursion(T) BY Recursions
  <2>2. step \in [1..n -> [T -> T]] /\ start \in T BY <1>2, <1>3 DEF T
  <2>3. \E g \in [0..n -> T] : g[0] = start /\ \A i \in 1..n : g[i] = step[i][g[i - 1]]
    BY <2>1, <2>2, <1>1 DEF HasRecursion
  <2> QED BY <2>3 DEF T
<1>6. \A k \in 1..n : k - 1 \in 0..n /\ k \in 0..n BY <1>1
<1>7. \A k \in 1..n : g[k] = LiteralStep(t[n + 1 - k], g[k - 1], base) BY <1>4, <1>5, <1>6
<1>8. Eq(g)
  <2>1. \A k \in 0..n : g[k] = IF k = 0 THEN start ELSE LiteralStep(t[n + 1 - k], g[k - 1], base)
    <3>1. \A k \in 0..n : k # 0 => k \in 1..n BY <1>1
    <3> QED BY <3>1, <1>5, <1>7
  <2>2. g = [k \in 0..n |-> g[k]] BY <1>5
  <2> HIDE DEF n
  <2> QED BY <2>1, <2>2
<1>9. Eq(u)
  <2> HIDE DEF Eq
  <2> QED BY <1>8
<1>10. LiteralRead(t, base) = u BY DEF LiteralRead, LiteralStep, start
<1> HIDE DEF u
<1>11. u[0] = start /\ \A k \in 1..n : u[k] = LiteralStep(t[n + 1 - k], u[k - 1], base)
  <2>1. \A k \in 0..n : u[k] = IF k = 0 THEN start ELSE LiteralStep(t[n + 1 - k], u[k - 1], base)
    BY <1>9
  <2>2. 0 \in 0..n /\ \A k \in 1..n : k \in 0..n /\ k # 0 BY <1>1
  <2> QED BY <2>1, <2>2
<1> DEFINE D == {k \in 0..n : u[k] = g[k]}
<1>12. \A k \in 0..n : k \in D
  <2>1. 0 \in D BY <1>1, <1>5, <1>11
  <2>2. \A k \in 0..(n - 1) : k \in D => k + 1 \in D
    <3> TAKE k \in 0..(n - 1)
    <3>1. k + 1 \in 1..n /\ (k + 1) - 1 = k BY <1>1
    <3> QED BY <3>1, <1>6, <1>7, <1>11
  <2> HIDE DEF D
  <2> QED BY <1>1, <2>1, <2>2, UpTo
<1>13. u \in [0..n -> LiteralStates]
  <2>1. u = [k \in 0..n |-> u[k]] BY <1>9
  <2>2. \A k \in 0..n : u[k] \in LiteralStates BY <1>5, <1>12
  <2> HIDE DEF n
  <2> QED BY <2>1, <2>2
<1> QED BY <1>10, <1>11, <1>13 DEF n, start

\* A digit adds itself times its power of the base.
LEMMA LiteralStepAdds ==
  ASSUME NEW c \in Nat, c < 256, NEW s \in LiteralStates, NEW b \in Nat, b < 256,
         NEW p \in Nat, NEW e \in Nat,
         Val(s.sum) = p % (Base * Base), Val(s.exp) = e % (Base * Base)
  PROVE  /\ Val(LiteralStep(c, s, b).sum) = (p + c * e) % (Base * Base)
         /\ Val(LiteralStep(c, s, b).exp) = (b * e) % (Base * Base)
<1> DEFINE sum == s.sum  exp == s.exp
<1>1. sum \in U128 /\ exp \in U128 BY DEF LiteralStates
<1>2. Val(sum) = p % (Base * Base) /\ Val(exp) = e % (Base * Base) OBVIOUS
<1>3. /\ LiteralStep(c, s, b).sum = Plus(sum, Times(make_uint128(0, c), exp))
      /\ LiteralStep(c, s, b).exp = Times(exp, make_uint128(0, b))
  BY DEF LiteralStep
<1> HIDE DEF sum, exp
<1>4. /\ Val(Plus(sum, Times(make_uint128(0, c), exp))) = (p + c * e) % (Base * Base)
      /\ Val(Times(exp, make_uint128(0, b))) = (b * e) % (Base * Base)
  BY <1>1, <1>2, DigitAdds
<1> QED BY <1>3, <1>4

\* What execute_literal_parse makes of digits is their number, modulo the width.
LEMMA LiteralAdds ==
  ASSUME NEW t \in Seq(0..15), NEW base \in {10, 16}
  PROVE  /\ execute_literal_parse(t, base) \in U128
         /\ Val(execute_literal_parse(t, base)) = Denoted(t, base) % (Base * Base)
<1> DEFINE n == Len(t)  M == Base * Base  r == LiteralRead(t, base)
<1>1. /\ r \in [0..n -> LiteralStates] /\ r[0] = [sum |-> Zero, exp |-> One]
      /\ \A k \in 1..n : r[k] = LiteralStep(t[n + 1 - k], r[k - 1], base)
  BY LiteralReadSteps
<1>2. execute_literal_parse(t, base) = r[n].sum BY DEF execute_literal_parse
<1> DEFINE Adds(a, z, b, q, e) ==
             /\ Val(LiteralStep(a, z, b).sum) = (q + a * e) % (Base * Base)
             /\ Val(LiteralStep(a, z, b).exp) = (b * e) % (Base * Base)
           Holds(z, q, e) == Val(z.sum) = q % (Base * Base) /\ Val(z.exp) = e % (Base * Base)
<1>3. \A a, b \in Nat : \A z \in LiteralStates : \A q, e \in Nat :
        a < 256 /\ b < 256 /\ Holds(z, q, e) => Adds(a, z, b, q, e)
  BY LiteralStepAdds
<1> HIDE DEF Adds, Holds
<1>0. M \in Nat /\ M > 1 BY TextWidths
<1>4. t \in Seq(Nat) /\ base \in Nat
  <2>1. 0..15 \subseteq Nat OBVIOUS
  <2>2. t \in Seq(Nat) BY <2>1, SeqMonotonic
  <2> QED BY <2>2
<1>5. PICK p \in [0..n -> Nat] :
        /\ p[0] = 0 /\ p[n] = Denoted(t, base)
        /\ \A k \in 1..n : p[k] = p[k - 1] + t[n + 1 - k] * Power(base, k - 1)
  BY <1>4, DenotedBackwards
<1>6. n \in Nat /\ \A i \in 1..n : t[i] \in 0..15
  <2> DEFINE B == 0..15
  <2>1. t \in Seq(B) OBVIOUS
  <2> HIDE DEF B
  <2>2. \A i \in 1..n : t[i] \in B BY <2>1
  <2> QED BY <2>2 DEF B
<1> HIDE DEF n, r, M
<1> DEFINE D == {k \in 0..n : Val(r[k].sum) = p[k] % M /\ Val(r[k].exp) = Power(base, k) % M}
<1>7. 0 \in D
  <2>1. r[0].sum = Zero /\ r[0].exp = One BY <1>1
  <2>2. Power(base, 0) = 1 BY <1>4, PowerSteps
  <2>3. 0 % M = 0 /\ 1 % M = 1 BY <1>0
  <2> QED BY <1>5, <1>6, <2>1, <2>2, <2>3, ZeroAndOne
<1>8. \A k \in 0..(n - 1) : k \in D => k + 1 \in D
  <2> TAKE k \in 0..(n - 1)
  <2> HAVE k \in D
  <2> DEFINE s == r[k]  c == t[n + 1 - (k + 1)]  q == p[k]  e == Power(base, k)
  <2>1. k + 1 \in 1..n /\ k + 1 \in 0..n /\ k \in 0..n /\ (k + 1) - 1 = k /\ k \in Nat
        /\ n + 1 - (k + 1) \in 1..n
    BY <1>6
  <2>2. s.sum \in U128 /\ s.exp \in U128 /\ Val(s.sum) = q % M /\ Val(s.exp) = e % M
    <3>1. s \in LiteralStates BY <1>1, <2>1
    <3> QED BY <3>1 DEF LiteralStates
  <2>3. q \in Nat /\ e \in Nat /\ c \in 0..15 BY <1>4, <1>5, <1>6, <2>1, PowerSteps
  <2>4. Power(base, k + 1) = base * e BY <1>4, <2>1, PowerSteps
  <2>5. p[k + 1] = q + c * e BY <1>5, <2>1
  <2>6. r[k + 1] = LiteralStep(c, s, base) BY <1>1, <2>1
  <2>7. s \in LiteralStates BY <1>1, <2>1
  <2>8. Holds(s, q, e) BY <2>2 DEF M, Holds
  <2>9. c \in Nat /\ c < 256
    <3> HIDE DEF c
    <3> QED BY <2>3
  <2>10. /\ Val(LiteralStep(c, s, base).sum) = (q + c * e) % (Base * Base)
         /\ Val(LiteralStep(c, s, base).exp) = (base * e) % (Base * Base)
    <3> DEFINE bb == base
    <3>1. bb \in Nat /\ bb < 256 OBVIOUS
    <3> HIDE DEF s, c, q, e, bb
    <3>2. Adds(c, s, bb, q, e) BY <2>3, <2>7, <2>8, <2>9, <3>1, <1>3
    <3> QED BY <3>2 DEF bb, Adds
  <2> HIDE DEF s, c, q, e
  <2>11. Val(r[k + 1].sum) = (q + c * e) % M /\ Val(r[k + 1].exp) = (base * e) % M
    BY <2>6, <2>10 DEF M
  <2> QED BY <2>1, <2>4, <2>5, <2>11
<1>9. n \in D
  <2>1. n \in 0..n BY <1>6
  <2> HIDE DEF D
  <2> QED BY <1>6, <1>7, <1>8, <2>1, UpTo
<1>10. r[n].sum \in U128
  <2>1. n \in 0..n BY <1>6
  <2>2. r[n] \in LiteralStates BY <1>1, <2>1
  <2> QED BY <2>2 DEF LiteralStates
<1> QED BY <1>2, <1>5, <1>9, <1>10 DEF M

\* Of two numbers of as many digits, that with the smaller first different one is smaller.
LEMMA FirstDifference ==
  ASSUME NEW b \in Nat \ {0}, NEW s \in Seq(0..(b - 1)), NEW t \in Seq(0..(b - 1)),
         Len(s) = Len(t), NEW i \in 1..Len(s), s[i] < t[i],
         \A j \in 1..(i - 1) : s[j] = t[j]
  PROVE  Denoted(s, b) < Denoted(t, b)
<1> DEFINE n == Len(s)
<1>1. n \in Nat /\ n = Len(t) /\ i \in 1..n
      /\ \A k \in 1..n : s[k] \in Nat /\ s[k] < b /\ t[k] \in Nat /\ t[k] < b
  OBVIOUS
<1>2. s \in Seq(Nat) /\ t \in Seq(Nat)
  <2> DEFINE B == 0..(b - 1)
  <2>1. B \subseteq Nat /\ s \in Seq(B) /\ t \in Seq(B) OBVIOUS
  <2> HIDE DEF B
  <2> QED BY <2>1, SeqMonotonic
<1>3. PICK x : Reads(x, s, b) BY <1>2, DenotedSteps
<1>4. PICK y : Reads(y, t, b) BY <1>2, DenotedSteps
<1>5. /\ x \in [0..n -> Nat] /\ x[0] = 0 /\ Denoted(s, b) = x[n]
      /\ \A k \in 1..n : x[k] = x[k - 1] * b + s[k]
  BY <1>3 DEF Reads
<1>6. /\ y \in [0..n -> Nat] /\ y[0] = 0 /\ Denoted(t, b) = y[n]
      /\ \A k \in 1..n : y[k] = y[k - 1] * b + t[k]
  <2>1. /\ y \in [0..Len(t) -> Nat] /\ y[0] = 0 /\ Denoted(t, b) = y[Len(t)]
        /\ \A k \in 1..Len(t) : y[k] = y[k - 1] * b + t[k]
    BY <1>4 DEF Reads
  <2> HIDE DEF n
  <2> QED BY <1>1, <2>1
<1> HIDE DEF n
<1> DEFINE D == {k \in 0..(i - 1) : x[k] = y[k]}
<1>7. i - 1 \in D
  <2>1. 0 \in D BY <1>1, <1>5, <1>6
  <2>2. \A k \in 0..((i - 1) - 1) : k \in D => k + 1 \in D
    <3> TAKE k \in 0..((i - 1) - 1)
    <3> HAVE k \in D
    <3>1. k + 1 \in 1..n /\ k + 1 \in 1..(i - 1) /\ k + 1 \in 0..(i - 1) /\ (k + 1) - 1 = k
      BY <1>1
    <3>2. x[k + 1] = x[k] * b + s[k + 1] /\ y[k + 1] = y[k] * b + t[k + 1] BY <1>5, <1>6, <3>1
    <3>3. s[k + 1] = t[k + 1] /\ x[k] = y[k] BY <3>1
    <3> QED BY <3>1, <3>2, <3>3
  <2>3. i - 1 \in Nat /\ i - 1 \in 0..(i - 1) BY <1>1
  <2> HIDE DEF D
  <2> QED BY <2>1, <2>2, <2>3, UpTo
<1> DEFINE E == {k \in 0..(n - i) : x[i + k] + 1 =< y[i + k]}
<1>8. n - i \in E
  <2>1. 0 \in E
    <3>1. i \in 1..n /\ i + 0 = i /\ 0 \in 0..(n - i) /\ i - 1 \in 0..n BY <1>1
    <3> DEFINE a == x[i - 1] * b
    <3>2. x[i] = a + s[i] /\ y[i] = a + t[i]
      <4>1. x[i - 1] = y[i - 1] BY <1>7
      <4>2. x[i] = x[i - 1] * b + s[i] /\ y[i] = y[i - 1] * b + t[i] BY <1>5, <1>6, <3>1
      <4> QED BY <4>1, <4>2
    <3>3. a \in Nat
      <4>1. x[i - 1] \in Nat BY <1>5, <3>1
      <4> QED BY <4>1
    <3> HIDE DEF a
    <3>4. s[i] \in Nat /\ t[i] \in Nat /\ s[i] < t[i] BY <1>1
    <3>5. x[i] + 1 =< y[i] BY <3>2, <3>3, <3>4
    <3> QED BY <3>1, <3>5
  <2>2. \A k \in 0..((n - i) - 1) : k \in E => k + 1 \in E
    <3> TAKE k \in 0..((n - i) - 1)
    <3> HAVE k \in E
    <3> DEFINE c == x[i + k]  d == y[i + k]
    <3>1. /\ i + (k + 1) \in 1..n /\ (i + (k + 1)) - 1 = i + k /\ i + k \in 0..n
          /\ k + 1 \in 0..(n - i)
      BY <1>1
    <3>2. x[i + (k + 1)] = c * b + s[i + (k + 1)] /\ y[i + (k + 1)] = d * b + t[i + (k + 1)]
      BY <1>5, <1>6, <3>1
    <3>3. c \in Nat /\ d \in Nat /\ c + 1 =< d BY <1>5, <1>6, <3>1
    <3>4. s[i + (k + 1)] + 1 =< b /\ s[i + (k + 1)] \in Nat /\ t[i + (k + 1)] \in Nat
      BY <1>1, <3>1, SMTT(30)
    <3> HIDE DEF c, d
    <3>5. c * b + b =< d * b
      <4>1. \A l, m, z \in Nat : l =< m => l * z =< m * z OBVIOUS
      <4>2. (c + 1) * b =< d * b BY <3>3, <4>1
      <4>3. (c + 1) * b = c * b + b BY <3>3
      <4> QED BY <4>2, <4>3
    <3>6. c * b \in Nat /\ d * b \in Nat BY <3>3
    <3>7. x[i + (k + 1)] + 1 =< y[i + (k + 1)]
      <4> DEFINE f == c * b  g == d * b  h == s[i + (k + 1)]  l == t[i + (k + 1)]
      <4>1. /\ x[i + (k + 1)] = f + h /\ y[i + (k + 1)] = g + l /\ f + b =< g
            /\ f \in Nat /\ g \in Nat /\ h \in Nat /\ l \in Nat /\ h + 1 =< b
        BY <3>2, <3>4, <3>5, <3>6
      <4> HIDE DEF f, g, h, l
      <4> QED BY <4>1
    <3> QED BY <3>1, <3>7
  <2>3. n - i \in Nat /\ n - i \in 0..(n - i) BY <1>1
  <2> HIDE DEF E
  <2> QED BY <2>1, <2>2, <2>3, UpTo
<1>9. x[n] + 1 =< y[n] /\ x[n] \in Nat /\ y[n] \in Nat
  <2>1. i + (n - i) = n /\ n \in 0..n BY <1>1
  <2> QED BY <1>5, <1>6, <1>8, <2>1
<1> QED BY <1>5, <1>6, <1>9

\* The largest number of the width has digits, and none more is needed.
LEMMA MaximumShows ==
  /\ get_max_decimal \in Seq(0..9) /\ Len(get_max_decimal) \in Nat \ {0}
  /\ Denoted(get_max_decimal, 10) = Base * Base - 1
  /\ Power(10, Len(get_max_decimal) - 1) =< Base * Base - 1
  /\ Base * Base - 1 < Power(10, Len(get_max_decimal))
<1> DEFINE N == Base * Base - 1  m == Base * Base
<1>1. m \in Nat /\ m > 1 /\ Base \in Nat /\ Base >= 4 /\ m = Pow2[Bits] BY Widths, TextWidths
<1>2. Val(numeric_limits_max) = N
  <2>1. (Base - 1) * Base = Base * Base - Base BY <1>1
  <2>2. /\ numeric_limits_max.high = Base - 1 /\ numeric_limits_max.low = Base - 1
    BY DEF numeric_limits_max, make_uint128
  <2>3. Val(numeric_limits_max) = (Base - 1) * Base + (Base - 1) BY <2>2 DEF Val
  <2> QED BY <1>1, <2>1, <2>3
<1>3. N \in Nat /\ N >= 1 /\ N < Pow2[Bits]
  <2> HIDE DEF m
  <2>1. N = m - 1 BY DEF m
  <2> QED BY <1>1, <2>1
<1>4. get_max_decimal = DigitsOf(N, 10) BY <1>2 DEF get_max_decimal
<1>5. MaxOf(N, 1) = N BY <1>3 DEF MaxOf
<1> HIDE DEF N
<1>6. 10 \in Nat /\ 10 >= 2 /\ 10 - 1 = 9 OBVIOUS
<1>7. /\ DigitsOf(N, 10) \in Seq(0..(10 - 1)) /\ Len(DigitsOf(N, 10)) \in 1..Bits
      /\ Denoted(DigitsOf(N, 10), 10) = N
      /\ N < Power(10, Len(DigitsOf(N, 10)))
      /\ Power(10, Len(DigitsOf(N, 10)) - 1) =< MaxOf(N, 1)
  BY <1>3, <1>6, DigitsShow
<1>8. get_max_decimal \in Seq(0..9) BY <1>4, <1>6, <1>7
<1>9. Len(get_max_decimal) \in Nat \ {0} BY <1>4, <1>7, Widths
<1> QED BY <1>4, <1>5, <1>7, <1>8, <1>9 DEF N

\* Whether digits are those of the maximum, or smaller at the first difference.
NotAbove(d, t) ==
  \/ d = t
  \/ \E i \in DOMAIN d : d[i] < t[i] /\ \A j \in 1..(i - 1) : d[j] = t[j]

\* Of as many digits, those that are not above the maximum denote a number that fits.
LEMMA AsManyDigits ==
  ASSUME NEW d \in Seq(0..9), Len(d) = Len(get_max_decimal)
  PROVE  NotAbove(d, get_max_decimal) <=> Fits(Denoted(d, 10))
<1> DEFINE t == get_max_decimal  m == Base * Base
<1>1. t \in Seq(0..9) /\ Len(d) = Len(t) /\ Denoted(t, 10) = m - 1 BY MaximumShows
<1>2. m \in Nat /\ m > 1 BY TextWidths
<1> HIDE DEF t
<1>3. Denoted(d, 10) \in Nat
  <2>1. 10 \in Nat \ {0} /\ 10 - 1 = 9 OBVIOUS
  <2>2. d \in Seq(0..(10 - 1)) BY <2>1
  <2> QED BY <2>1, <2>2, DenotedBounds
<1>4. \A x, y \in Seq(0..9) : \A i \in 1..Len(x) :
        Len(x) = Len(y) /\ x[i] < y[i] /\ (\A j \in 1..(i - 1) : x[j] = y[j]) =>
          Denoted(x, 10) < Denoted(y, 10)
  <2>1. 10 \in Nat \ {0} /\ 10 - 1 = 9 OBVIOUS
  <2> SUFFICES ASSUME NEW x \in Seq(0..9), NEW y \in Seq(0..9), NEW i \in 1..Len(x),
                      Len(x) = Len(y), x[i] < y[i], \A j \in 1..(i - 1) : x[j] = y[j]
               PROVE  Denoted(x, 10) < Denoted(y, 10)
    OBVIOUS
  <2>2. x \in Seq(0..(10 - 1)) /\ y \in Seq(0..(10 - 1)) BY <2>1
  <2> QED BY <2>1, <2>2, FirstDifference
<1>5. DOMAIN d = 1..Len(d) /\ Len(d) \in Nat /\ DOMAIN t = 1..Len(t) BY <1>1
<1>6. \A i \in 1..Len(d) : d[i] \in 0..9 /\ t[i] \in 0..9
  <2> DEFINE B == 0..9
  <2>1. d \in Seq(B) /\ t \in Seq(B) BY <1>1
  <2> HIDE DEF B
  <2>2. \A i \in 1..Len(d) : d[i] \in B /\ t[i] \in B BY <1>1, <2>1
  <2> QED BY <2>2 DEF B
<1> HIDE DEF m
<1>7. ASSUME d = t PROVE Denoted(d, 10) < m BY <1>1, <1>2, <1>7
<1>8. ASSUME NEW i \in DOMAIN d, d[i] < t[i], \A j \in 1..(i - 1) : d[j] = t[j]
      PROVE  Denoted(d, 10) < m
  <2>1. Denoted(d, 10) < Denoted(t, 10) BY <1>1, <1>4, <1>5, <1>8
  <2> QED BY <1>1, <1>2, <1>3, <2>1
<1>9. ASSUME ~ NotAbove(d, t) PROVE ~ (Denoted(d, 10) < m)
  <2> DEFINE S == {i \in 1..Len(d) : d[i] # t[i]}
  <2>1. S # {}
    <3>1. d # t BY <1>9 DEF NotAbove
    <3>2. (\A i \in 1..Len(d) : d[i] = t[i]) => d = t BY <1>1
    <3> QED BY <3>1, <3>2
  <2>2. S \in SUBSET Nat OBVIOUS
  <2>3. PICK i \in S : \A k \in S : i =< k
    <3> HIDE DEF S
    <3> QED BY <2>1, <2>2, Least
  <2>4. i \in 1..Len(d) /\ d[i] # t[i] OBVIOUS
  <2>5. \A j \in 1..(i - 1) : d[j] = t[j]
    <3> TAKE j \in 1..(i - 1)
    <3>1. j \in 1..Len(d) /\ j < i BY <1>5, <2>4
    <3>2. j \notin S
      <4> HIDE DEF S
      <4>1. j \in S => i =< j BY <2>3
      <4>2. i \in Nat /\ j \in Nat BY <2>4, <3>1
      <4> QED BY <3>1, <4>1, <4>2
    <3> QED BY <3>1, <3>2
  <2>6. ~ (d[i] < t[i]) BY <1>5, <1>9, <2>4, <2>5 DEF NotAbove
  <2>7. t[i] < d[i] BY <1>6, <2>4, <2>6
  <2>8. i \in 1..Len(t) /\ \A j \in 1..(i - 1) : t[j] = d[j] BY <1>1, <2>4, <2>5
  <2>9. Denoted(t, 10) < Denoted(d, 10) BY <1>1, <1>4, <2>7, <2>8
  <2> QED BY <1>1, <1>2, <1>3, <2>9
<1>10. NotAbove(d, t) => Denoted(d, 10) < m BY <1>7, <1>8 DEF NotAbove
<1> QED BY <1>9, <1>10 DEF Fits, m, t

\* What validate_decimal_size accepts of digits are those of a number that fits.
LEMMA DecimalSize ==
  ASSUME NEW d \in Seq(0..9), d # <<>>, d[1] # 0
  PROVE  Fits(Denoted(d, 10)) <=>
           \/ Len(d) < Len(get_max_decimal)
           \/ Len(d) = Len(get_max_decimal) /\ NotAbove(d, get_max_decimal)
<1> DEFINE L == Len(d)  l == Len(get_max_decimal)  m == Base * Base  n == Denoted(d, 10)
           P(j) == Power(10, j)
<1>1. m \in Nat /\ m > 1 BY TextWidths
<1>2. l \in Nat /\ l >= 1 /\ P(l - 1) =< m - 1 /\ m - 1 < P(l) BY MaximumShows
<1>3. L \in Nat /\ L >= 1
  <2>1. L \in Nat OBVIOUS
  <2>2. L # 0 OBVIOUS
  <2> QED BY <2>1, <2>2
<1>4. n \in Nat /\ n < P(L) /\ d[1] * P(L - 1) =< n
  <2>1. 10 \in Nat \ {0} /\ 10 - 1 = 9 OBVIOUS
  <2>2. d \in Seq(0..(10 - 1)) BY <2>1
  <2> QED BY <2>1, <2>2, DenotedBounds
<1>5. /\ \A j \in Nat : P(j) \in Nat
      /\ \A i, j \in Nat : i =< j => P(i) =< P(j)
  <2>1. 10 \in Nat \ {0} OBVIOUS
  <2> QED BY <2>1, PowerSteps, PowerGrows
<1>6. d[1] \in Nat /\ d[1] >= 1
  <2>1. 1 \in 1..Len(d) BY <1>3
  <2> DEFINE B == 0..9
  <2>2. d \in Seq(B) OBVIOUS
  <2> HIDE DEF B, L
  <2>3. d[1] \in B BY <2>1, <2>2
  <2> QED BY <2>3 DEF B
<1> DEFINE c == d[1]
<1>7. c \in Nat /\ c >= 1 /\ c * P(L - 1) =< n BY <1>4, <1>6
<1>8. L = l => (NotAbove(d, get_max_decimal) <=> n < m) BY AsManyDigits DEF Fits
<1> HIDE DEF L, l, n, m, P, c
<1>9. P(L - 1) =< n
  <2>1. L - 1 \in Nat BY <1>3
  <2>2. P(L - 1) \in Nat BY <1>5, <2>1
  <2>3. \A x, z \in Nat : x >= 1 => z =< x * z OBVIOUS
  <2>4. P(L - 1) =< c * P(L - 1) BY <1>7, <2>2, <2>3
  <2> QED BY <1>4, <1>7, <2>2, <2>4
<1>10. L < l => n < m
  <2> HAVE L < l
  <2>1. L =< l - 1 /\ l - 1 \in Nat BY <1>2, <1>3
  <2>2. P(L) =< P(l - 1) /\ P(L) \in Nat /\ P(l - 1) \in Nat BY <1>3, <1>5, <2>1
  <2> QED BY <1>1, <1>2, <1>4, <2>2
<1>11. L > l => ~ (n < m)
  <2> HAVE L > l
  <2>1. l =< L - 1 /\ L - 1 \in Nat BY <1>2, <1>3
  <2>2. P(l) =< P(L - 1) /\ P(l) \in Nat /\ P(L - 1) \in Nat BY <1>2, <1>5, <2>1
  <2> QED BY <1>1, <1>2, <1>4, <1>9, <2>2
<1>12. n < m <=> L < l \/ (L = l /\ NotAbove(d, get_max_decimal))
  BY <1>2, <1>3, <1>8, <1>10, <1>11
<1> QED BY <1>12 DEF Fits, L, l, n, m

\* Without its quotes a literal keeps its first digit.
LEMMA QuotesOut ==
  ASSUME NEW text \in Seq(Chars), NEW S, text # <<>>, text[1] # Quote,
         \A i \in 1..Len(text) : text[i] \in S \cup {Quote}
  PROVE  /\ Unquoted(text) \in Seq(S) /\ Unquoted(text) # <<>>
         /\ Unquoted(text)[1] = text[1]
<1> DEFINE d == Unquoted(text)  c == text[1]  rest == SubSeq(text, 2, Len(text))  C == {Quote}
<1>1. Len(text) \in Nat /\ Len(text) >= 1
  <2>1. Len(text) \in Nat OBVIOUS
  <2>2. Len(text) # 0 OBVIOUS
  <2> QED BY <2>1, <2>2
<1>2. d = Without(text, C) BY DEF Unquoted
<1>3. /\ d \in Seq(Chars)
      /\ \A j \in 1..Len(d) : d[j] \notin C /\ \E i \in 1..Len(text) : text[i] = d[j]
  <2> HIDE DEF d, C
  <2>1. /\ Without(text, C) \in Seq(Chars)
        /\ \A j \in 1..Len(Without(text, C)) :
             /\ Without(text, C)[j] \notin C
             /\ \E i \in 1..Len(text) : text[i] = Without(text, C)[j]
    BY WithoutElements
  <2> QED BY <1>2, <2>1
<1> HIDE DEF d
<1>4. \A j \in 1..Len(d) : d[j] \in S BY <1>3
<1>5. d \in Seq(S)
  <2>1. d = [j \in 1..Len(d) |-> d[j]] /\ Len(d) \in Nat BY <1>3
  <2> QED BY <1>4, <2>1
<1>6. c \in Chars
  <2>1. 1 \in 1..Len(text) BY <1>1
  <2> DEFINE B == Chars
  <2> HIDE DEF B
  <2>2. text \in Seq(B) BY DEF B
  <2>3. text[1] \in B BY <2>1, <2>2
  <2> QED BY <2>3 DEF B
<1>7. rest \in Seq(Chars) /\ text = <<c>> \o rest
  <2>1. 2 \in Nat \ {0} /\ Len(text) \in 0..Len(text) BY <1>1
  <2>2. /\ rest \in Seq(Chars) /\ Len(rest) = IF 2 =< Len(text) THEN Len(text) - 2 + 1 ELSE 0
        /\ \A i \in 1..(Len(text) - 2 + 1) : rest[i] = text[2 + i - 1]
    BY <2>1, PartOf
  <2> HIDE DEF rest, c
  <2>3. <<c>> \in Seq(Chars) /\ Len(<<c>>) = 1 /\ <<c>>[1] = c BY <1>6
  <2> DEFINE one == <<c>>
  <2>4. one \in Seq(Chars) /\ Len(one) = 1 /\ one[1] = c BY <2>3
  <2> HIDE DEF one
  <2> DEFINE r == one \o rest
  <2>5. /\ r \in Seq(Chars) /\ Len(r) = 1 + Len(rest)
        /\ (\A i \in 1..1 : r[i] = one[i]) /\ \A i \in 1..Len(rest) : r[1 + i] = rest[i]
    <3> DEFINE all == Seq(Chars)
    <3>1. \A x, y \in all :
            /\ x \o y \in all /\ Len(x \o y) = Len(x) + Len(y)
            /\ (\A i \in 1..Len(x) : (x \o y)[i] = x[i])
            /\ \A i \in 1..Len(y) : (x \o y)[Len(x) + i] = y[i]
      BY InARow
    <3>2. one \in all /\ rest \in all BY <2>2, <2>4
    <3> HIDE DEF all
    <3>3. /\ r \in all /\ Len(r) = Len(one) + Len(rest)
          /\ (\A i \in 1..Len(one) : r[i] = one[i])
          /\ \A i \in 1..Len(rest) : r[Len(one) + i] = rest[i]
      BY <3>1, <3>2
    <3> QED BY <2>4, <3>3 DEF all
  <2> HIDE DEF r
  <2>6. Len(rest) = Len(text) - 1
    <3> DEFINE k == Len(rest)  l == Len(text)
    <3>1. l \in Nat /\ l >= 1 /\ k = IF 2 =< l THEN l - 2 + 1 ELSE 0 BY <1>1, <2>2
    <3> HIDE DEF k, l
    <3>2. k = l - 1 BY <3>1
    <3> QED BY <3>2 DEF k, l
  <2>7. Len(r) = Len(text) BY <1>1, <2>5, <2>6
  <2>8. \A i \in 1..Len(text) : r[i] = text[i]
    <3> TAKE i \in 1..Len(text)
    <3>1. CASE i = 1
      <4>1. r[1] = c BY <2>4, <2>5
      <4> QED BY <3>1, <4>1 DEF c
    <3>2. CASE i # 1
      <4>1. i - 1 \in 1..Len(rest) /\ i - 1 \in 1..(Len(text) - 2 + 1)
            /\ 1 + (i - 1) = i /\ 2 + (i - 1) - 1 = i
        BY <1>1, <2>6, <3>2
      <4>2. r[1 + (i - 1)] = rest[i - 1] BY <2>5, <4>1
      <4>3. rest[i - 1] = text[2 + (i - 1) - 1] BY <2>2, <4>1
      <4> QED BY <4>1, <4>2, <4>3
    <3> QED BY <3>1, <3>2
  <2>9. r = text BY <2>5, <2>7, <2>8, SeqEqual
  <2> QED BY <2>2, <2>9 DEF r, one
<1> HIDE DEF c, rest
<1>8. d = <<c>> \o Without(rest, C)
  <2>1. <<c>> \in Seq(Chars) BY <1>6
  <2>2. Without(<<c>> \o rest, C) = Without(<<c>>, C) \o Without(rest, C)
    <3> DEFINE one == <<c>>  all == Seq(Chars)
    <3>1. \A x, y \in all : \A z : Without(x \o y, z) = Without(x, z) \o Without(y, z) BY Rows
    <3>2. one \in all /\ rest \in all BY <1>7, <2>1
    <3> HIDE DEF one, all
    <3>3. Without(one \o rest, C) = Without(one, C) \o Without(rest, C) BY <3>1, <3>2
    <3> QED BY <3>3 DEF one
  <2>3. \A i \in 1..Len(<<c>>) : <<c>>[i] \notin C BY DEF c
  <2>4. Without(<<c>>, C) = <<c>> BY <2>1, <2>3, WithoutNoneOrAll
  <2> QED BY <1>2, <1>7, <2>2, <2>4
<1>9. Without(rest, C) \in Seq(Chars) BY <1>7, WithoutElements
<1>10. Len(d) >= 1 /\ d[1] = c
  <2> DEFINE w == Without(rest, C)
  <2>1. w \in Seq(Chars) BY <1>9
  <2> HIDE DEF w
  <2>2. Len(<<c>> \o w) = 1 + Len(w) /\ (<<c>> \o w)[1] = c /\ Len(w) \in Nat BY <1>6, <2>1
  <2>3. d = <<c>> \o w BY <1>8 DEF w
  <2> QED BY <2>2, <2>3
<1>11. d # <<>> BY <1>10
<1> QED BY <1>5, <1>10, <1>11 DEF d, c

\* Digits of a base are counted by it.
LEMMA Counted ==
  ASSUME NEW b \in Nat, NEW d \in Seq(0..(b - 1))
  PROVE  CountOf(d, b) = Len(d)
<1> DEFINE B == 0..(b - 1)
<1>1. d \in Seq(B) OBVIOUS
<1>2. digit_lookup(b) = B BY DEF digit_lookup
<1> HIDE DEF B
<1>3. ToSet(d) \subseteq B BY <1>1 DEF ToSet
<1> QED BY <1>2, <1>3 DEF CountOf

\* Digits whose number fits are parsed to it.
LEMMA LiteralNumber ==
  ASSUME NEW d \in Seq(0..15), NEW base \in {10, 16}, Denoted(d, base) \in Nat,
         Denoted(d, base) < Base * Base
  PROVE  Parsed(execute_literal_parse(d, base)) = Value(Denoted(d, base))
<1> DEFINE m == Base * Base  n == Denoted(d, base)
<1>1. Val(execute_literal_parse(d, base)) = n % m BY LiteralAdds
<1>2. m \in Nat /\ n \in Nat /\ n < m BY TextWidths
<1> HIDE DEF m, n
<1>3. n % m = n BY <1>2
<1>4. Val(execute_literal_parse(d, base)) = n BY <1>1, <1>3
<1> QED BY <1>4 DEF Parsed, Value, n

\* A hexadecimal literal is its number, or has too many digits.
LEMMA HexLiteral ==
  ASSUME NEW text \in Seq(Chars), Len(text) > 2, text[1] = 0, text[2] = Tag, text[3] # Quote,
         \A i \in 3..Len(text) : text[i] \in 0..15 \cup {Quote}
  PROVE  LET digits == Without(text, {Quote, Tag})
         IN  parse_literal(text) = IF Len(digits) =< MaxHexDigits + 1
                                   THEN Value(Denoted(digits, 16)) ELSE Throws("nullopt")
<1> DEFINE u == Untagged(text)  d == Unquoted(u)  digits == Without(text, {Quote, Tag})
           tag == <<0, Tag>>  zero == <<0>>
<1>1. Len(text) \in Nat /\ Len(text) >= 3 OBVIOUS
<1>2. /\ u \in Seq(Chars) /\ Len(u) = Len(text) - 2
      /\ \A i \in 1..Len(u) : u[i] = text[i + 2]
  <2>1. 3 \in Nat \ {0} /\ Len(text) \in 0..Len(text) BY <1>1
  <2>2. /\ SubSeq(text, 3, Len(text)) \in Seq(Chars)
        /\ Len(SubSeq(text, 3, Len(text))) = IF 3 =< Len(text) THEN Len(text) - 3 + 1 ELSE 0
        /\ \A i \in 1..(Len(text) - 3 + 1) : SubSeq(text, 3, Len(text))[i] = text[3 + i - 1]
    BY <2>1, PartOf
  <2>3. u = SubSeq(text, 3, Len(text)) BY DEF Untagged
  <2> HIDE DEF u
  <2>4. Len(u) = Len(text) - 2 /\ Len(text) - 3 + 1 = Len(text) - 2 BY <1>1, <2>2, <2>3
  <2>5. \A i \in 1..Len(u) : u[i] = text[i + 2]
    <3> TAKE i \in 1..Len(u)
    <3>1. i \in 1..(Len(text) - 3 + 1) /\ 3 + i - 1 = i + 2 BY <1>1, <2>4
    <3> QED BY <2>2, <2>3, <3>1
  <2> QED BY <2>2, <2>3, <2>4, <2>5
<1> HIDE DEF u
<1>3. u # <<>> /\ u[1] # Quote /\ \A i \in 1..Len(u) : u[i] \in 0..15 \cup {Quote}
  <2>1. Len(u) >= 1 /\ Len(u) \in Nat BY <1>1, <1>2
  <2>2. u # <<>> BY <2>1
  <2>3. u[1] = text[3]
    <3>1. 1 \in 1..Len(u) /\ 1 + 2 = 3 BY <2>1
    <3> QED BY <1>2, <3>1
  <2>4. \A i \in 1..Len(u) : i + 2 \in 3..Len(text) BY <1>1, <1>2
  <2>5. \A i \in 1..Len(u) : u[i] \in 0..15 \cup {Quote} BY <1>2, <2>4
  <2> QED BY <2>2, <2>3, <2>5
<1>4. d \in Seq(0..15) /\ d # <<>>
  <2> DEFINE S == 0..15
  <2>1. \A i \in 1..Len(u) : u[i] \in S \cup {Quote} BY <1>3
  <2> HIDE DEF S, d
  <2>2. Unquoted(u) \in Seq(S) /\ Unquoted(u) # <<>> BY <1>2, <1>3, <2>1, QuotesOut
  <2> QED BY <2>2 DEF S, d
<1>5. text = tag \o u
  <2>1. tag \in Seq(Chars) /\ Len(tag) = 2 /\ tag[1] = 0 /\ tag[2] = Tag BY DEF Chars, Tag
  <2> HIDE DEF tag
  <2> DEFINE r == tag \o u
  <2>2. /\ r \in Seq(Chars) /\ Len(r) = 2 + Len(u)
        /\ (\A i \in 1..2 : r[i] = tag[i]) /\ \A i \in 1..Len(u) : r[2 + i] = u[i]
    <3> DEFINE all == Seq(Chars)
    <3>1. \A x, y \in all :
            /\ x \o y \in all /\ Len(x \o y) = Len(x) + Len(y)
            /\ (\A i \in 1..Len(x) : (x \o y)[i] = x[i])
            /\ \A i \in 1..Len(y) : (x \o y)[Len(x) + i] = y[i]
      BY InARow
    <3>2. tag \in all /\ u \in all BY <1>2, <2>1
    <3> HIDE DEF all
    <3>3. /\ r \in all /\ Len(r) = Len(tag) + Len(u)
          /\ (\A i \in 1..Len(tag) : r[i] = tag[i])
          /\ \A i \in 1..Len(u) : r[Len(tag) + i] = u[i]
      BY <3>1, <3>2
    <3> QED BY <2>1, <3>3 DEF all
  <2> HIDE DEF r
  <2>3. Len(r) = Len(text) BY <1>1, <1>2, <2>2
  <2>4. \A i \in 1..Len(text) : r[i] = text[i]
    <3> TAKE i \in 1..Len(text)
    <3>1. CASE i =< 2
      <4>1. i = 1 \/ i = 2 BY <3>1
      <4>2. r[1] = 0 /\ r[2] = Tag
        <5>1. 1 \in 1..2 /\ 2 \in 1..2 OBVIOUS
        <5> QED BY <2>1, <2>2, <5>1
      <4> QED BY <4>1, <4>2
    <3>2. CASE i > 2
      <4>1. i - 2 \in 1..Len(u) /\ 2 + (i - 2) = i /\ (i - 2) + 2 = i BY <1>1, <1>2, <3>2
      <4>2. r[2 + (i - 2)] = u[i - 2] BY <2>2, <4>1
      <4>3. u[i - 2] = text[(i - 2) + 2] BY <1>2, <4>1
      <4> QED BY <4>1, <4>2, <4>3
    <3> QED BY <1>1, <3>1, <3>2
  <2>5. r = text BY <2>2, <2>3, <2>4, SeqEqual
  <2> QED BY <2>5 DEF r
<1>6. digits = zero \o d
  <2> DEFINE all == Seq(Chars)  C == {Quote, Tag}  back == <<Tag>>
  <2>1. \A x, y \in all : \A z : Without(x \o y, z) = Without(x, z) \o Without(y, z) BY Rows
  <2>2. /\ zero \in all /\ back \in all /\ tag = zero \o back /\ tag \in all
        /\ Len(zero) = 1 /\ Len(back) = 1 /\ zero[1] = 0 /\ back[1] = Tag
    BY DEF Chars, Tag
  <2>3. u \in all BY <1>2
  <2>4. 0 \notin C /\ Tag \in C BY DEF Tag, Quote
  <2> HIDE DEF all, C, back, zero, tag
  <2>5. Without(zero, C) = zero
    <3>1. \A i \in 1..Len(zero) : zero[i] \notin C BY <2>2, <2>4
    <3> QED BY <2>2, <3>1, WithoutNoneOrAll DEF all
  <2>6. Without(back, C) = <<>>
    <3>1. \A i \in 1..Len(back) : back[i] \in C BY <2>2, <2>4
    <3> QED BY <2>2, <3>1, WithoutNoneOrAll DEF all
  <2>7. Without(tag, C) = zero
    <3>1. Without(zero \o back, C) = Without(zero, C) \o Without(back, C) BY <2>1, <2>2
    <3>2. zero \o <<>> = zero BY <2>2 DEF all
    <3> QED BY <2>2, <2>5, <2>6, <3>1, <3>2
  <2>8. Without(u, C) = d
    <3> DEFINE Q == {Quote}
    <3>1. \A i \in 1..Len(u) : u[i] \in C <=> u[i] \in Q BY <1>3, SMTT(30) DEF C, Tag, Quote
    <3> HIDE DEF Q
    <3>2. Without(u, C) = Without(u, Q) BY <2>3, <3>1, WithoutAgree DEF all
    <3> QED BY <3>2 DEF Q, Unquoted
  <2>9. Without(tag \o u, C) = Without(tag, C) \o Without(u, C) BY <2>1, <2>2, <2>3, SMTT(30)
  <2>10. Without(text, C) = zero \o d BY <1>5, <2>7, <2>8, <2>9
  <2> QED BY <2>10 DEF C
<1> HIDE DEF d, digits, zero
<1> DEFINE L == Len(d)  n == Denoted(d, 16)
<1>7. L \in Nat /\ L >= 1
  <2>1. L \in Nat BY <1>4
  <2>2. L # 0 BY <1>4
  <2> QED BY <2>1, <2>2
<1>8. Len(digits) = L + 1 /\ Denoted(digits, 16) = n /\ n \in Nat
  <2>1. d \in Seq(Nat) /\ zero \in Seq(Nat)
    <3>1. 0..15 \subseteq Nat OBVIOUS
    <3>2. d \in Seq(Nat) BY <1>4, <3>1, SeqMonotonic
    <3> QED BY <3>2 DEF zero
  <2>2. Len(zero) = 1 /\ zero[1] = 0 BY DEF zero
  <2>3. Denoted(zero, 16) = 0
    <3>1. \A i \in 1..Len(zero) : zero[i] = 0 BY <2>2
    <3> QED BY <2>1, <3>1, ZerosDenote
  <2>4. /\ Denoted(zero \o d, 16) = Denoted(zero, 16) * Power(16, L) + n
        /\ Denoted(d, 16) \in Nat
    BY <2>1, DenotedConcat
  <2>5. Power(16, L) \in Nat BY <1>7, PowerSteps
  <2>6. Len(zero \o d) = 1 + L /\ L \in Nat
    <3> DEFINE all == Seq(Nat)
    <3>1. \A x, y \in all : Len(x \o y) = Len(x) + Len(y) BY Rows
    <3>2. zero \in all /\ d \in all BY <2>1
    <3> HIDE DEF all
    <3>3. Len(zero \o d) = Len(zero) + Len(d) BY <3>1, <3>2
    <3> QED BY <1>7, <2>2, <3>3
  <2> HIDE DEF L, n
  <2>7. 0 * Power(16, L) + n = n /\ n \in Nat BY <2>4, <2>5 DEF n
  <2> QED BY <1>6, <2>3, <2>4, <2>6, <2>7
<1>9. MaxHexDigits \in Nat /\ Power(16, MaxHexDigits) = Base * Base
  <2>1. MaxHexDigits \in Nat /\ Bits = 4 * MaxHexDigits BY TextWidths
  <2> QED BY <2>1, PowersOf16, Widths
<1>10. n < Power(16, L)
  <2>1. 16 \in Nat \ {0} /\ 16 - 1 = 15 OBVIOUS
  <2>2. d \in Seq(0..(16 - 1)) BY <1>4, <2>1
  <2> QED BY <2>1, <2>2, DenotedBounds
<1>11. L =< MaxHexDigits => n < Base * Base
  <2> HAVE L =< MaxHexDigits
  <2>1. 16 \in Nat \ {0} OBVIOUS
  <2>2. Power(16, L) =< Power(16, MaxHexDigits) BY <1>7, <1>9, <2>1, PowerGrows
  <2>3. Power(16, L) \in Nat /\ Base * Base \in Nat BY <1>7, PowerSteps, TextWidths
  <2> HIDE DEF L, n
  <2> DEFINE p == Power(16, L)  m == Base * Base
  <2>4. p \in Nat /\ m \in Nat /\ p =< m /\ n < p /\ n \in Nat BY <1>8, <1>9, <1>10, <2>2, <2>3
  <2> HIDE DEF p, m
  <2>5. n < m BY <2>4
  <2> QED BY <2>5 DEF m
<1>12. L =< MaxHexDigits => Parsed(execute_literal_parse(d, 16)) = Value(n)
  <2> HAVE L =< MaxHexDigits
  <2>1. Denoted(d, 16) \in Nat /\ Denoted(d, 16) < Base * Base BY <1>8, <1>11
  <2> QED BY <1>4, <2>1, LiteralNumber
<1>13. get_lit_type(text) = "Hexadecimal"
  <2>1. ~ AllZero(text)
    <3>1. 2 \in DOMAIN text BY <1>1
    <3> QED BY <3>1 DEF AllZero, Tag
  <2>2. HasHexTag(text) BY <1>1 DEF HasHexTag
  <2>3. text[3] \in digit_lookup(16)
    <3>1. 3 \in 3..Len(text) BY <1>1
    <3>2. text[3] \in 0..15 BY <3>1
    <3> QED BY <3>2 DEF digit_lookup
  <2> QED BY <1>1, <2>1, <2>2, <2>3 DEF get_lit_type
<1>14. count_hex_chars(text) = L
  <2>1. CountOf(d, 16) = Len(d)
    <3>1. 16 \in Nat /\ 16 - 1 = 15 OBVIOUS
    <3>2. d \in Seq(0..(16 - 1)) BY <1>4, <3>1
    <3> QED BY <3>1, <3>2, Counted
  <2> QED BY <1>13, <2>1 DEF count_hex_chars, d, u
<1>15. parse_literal(text) = IF L \in 1..MaxHexDigits
                             THEN Parsed(execute_literal_parse(d, 16)) ELSE Throws("nullopt")
  BY <1>13, <1>14 DEF parse_literal, d, u
<1> HIDE DEF L, n
<1>16. Len(digits) =< MaxHexDigits + 1 <=> L =< MaxHexDigits BY <1>7, <1>8, <1>9
<1>17. L \in 1..MaxHexDigits <=> L =< MaxHexDigits BY <1>7, <1>9
<1> QED BY <1>8, <1>12, <1>15, <1>16, <1>17 DEF digits

\* A decimal literal is its number, or that does not fit.
LEMMA DecimalLiteral ==
  ASSUME NEW text \in Seq(Chars), text # <<>>, text[1] \in 0..9, text[1] # 0,
         \A i \in 1..Len(text) : text[i] \in 0..9 \cup {Quote}
  PROVE  LET n == Denoted(Without(text, {Quote, Tag}), 10)
         IN  parse_literal(text) = IF Fits(n) THEN Value(n) ELSE Throws("nullopt")
<1> DEFINE d == Unquoted(text)  n == Denoted(d, 10)  L == Len(d)  l == Len(get_max_decimal)
           max == get_max_decimal
<1>1. text[1] # Quote BY DEF Quote
<1>2. d \in Seq(0..9) /\ d # <<>> /\ d[1] = text[1]
  <2> DEFINE S == 0..9
  <2>1. \A i \in 1..Len(text) : text[i] \in S \cup {Quote} OBVIOUS
  <2> HIDE DEF S, d
  <2>2. Unquoted(text) \in Seq(S) /\ Unquoted(text) # <<>> /\ Unquoted(text)[1] = text[1]
    BY <1>1, <2>1, QuotesOut
  <2> QED BY <2>2 DEF S, d
<1>3. d = Without(text, {Quote, Tag})
  <2> DEFINE C == {Quote, Tag}  Q == {Quote}
  <2>1. \A i \in 1..Len(text) : text[i] \in C <=> text[i] \in Q BY DEF Tag, Quote
  <2> HIDE DEF C, Q
  <2>2. Without(text, C) = Without(text, Q) BY <2>1, WithoutAgree
  <2> QED BY <2>2 DEF C, Q, Unquoted
<1>4. get_lit_type(text) = "Decimal"
  <2>1. 1 \in DOMAIN text
    <3>1. Len(text) \in Nat /\ Len(text) # 0 OBVIOUS
    <3> QED BY <3>1
  <2>2. ~ AllZero(text) BY <2>1 DEF AllZero
  <2>3. ~ HasHexTag(text) BY DEF HasHexTag
  <2>4. text[1] \in digit_lookup(10) \ {0} BY DEF digit_lookup
  <2> QED BY <2>2, <2>3, <2>4 DEF get_lit_type
<1>5. count_decimal_chars(text) = L
  <2>1. CountOf(d, 10) = Len(d)
    <3>1. 10 \in Nat /\ 10 - 1 = 9 OBVIOUS
    <3>2. d \in Seq(0..(10 - 1)) BY <1>2, <3>1
    <3> HIDE DEF d
    <3> QED BY <3>1, <3>2, Counted
  <2> QED BY <2>1 DEF count_decimal_chars
<1> HIDE DEF d
<1>6. L \in Nat /\ l \in Nat BY <1>2, MaximumShows
<1>7. validate_decimal_size(text) <=> Fits(n)
  <2>1. validate_decimal_size(text) <=>
          /\ L \in 0..l
          /\ L < l \/ NotAbove(d, max)
    BY <1>4, <1>5 DEF validate_decimal_size, NotAbove, d
  <2>2. Fits(n) <=> L < l \/ (L = l /\ NotAbove(d, max)) BY <1>2, DecimalSize
  <2>3. d = max => L = l OBVIOUS
  <2> HIDE DEF L, l, n, max
  <2> QED BY <1>6, <2>1, <2>2, <2>3
<1>8. n \in Nat /\ d \in Seq(0..15)
  <2>1. 10 \in Nat \ {0} /\ 10 - 1 = 9 OBVIOUS
  <2>2. d \in Seq(0..(10 - 1)) BY <1>2, <2>1
  <2>3. Denoted(d, 10) \in Nat BY <2>1, <2>2, DenotedBounds
  <2>4. 0..9 \subseteq 0..15 OBVIOUS
  <2>5. d \in Seq(0..15) BY <1>2, <2>4, SeqMonotonic
  <2> QED BY <2>3, <2>5
<1>9. Fits(n) => Parsed(execute_literal_parse(d, 10)) = Value(n)
  <2> HAVE Fits(n)
  <2>1. Denoted(d, 10) \in Nat /\ Denoted(d, 10) < Base * Base BY <1>8 DEF Fits
  <2> QED BY <1>8, <2>1, LiteralNumber
<1>10. parse_literal(text) = IF validate_decimal_size(text)
                             THEN Parsed(execute_literal_parse(d, 10)) ELSE Throws("nullopt")
  BY <1>4 DEF parse_literal, d
<1> HIDE DEF n
<1>11. parse_literal(text) = IF Fits(n) THEN Value(n) ELSE Throws("nullopt")
  BY <1>7, <1>9, <1>10
<1> QED BY <1>3, <1>11 DEF n

\* What a literal is, by the rules of the language.
Literally(text, result) ==
  LET digits == Without(text, {Quote, Tag})
      isHex  == Len(text) > 1 /\ text[2] = Tag
      n      == Denoted(digits, IF isHex THEN 16 ELSE 10)
      legal  == \/ isHex /\ Len(digits) =< MaxHexDigits + 1
                \/ ~ isHex /\ text[1] # 0 /\ Fits(n)
                \/ \A i \in DOMAIN text : text[i] = 0
  IN  result = IF legal THEN Value(n) ELSE Throws("nullopt")

\* A literal is parsed by those rules.
LEMMA LiteralText ==
  ASSUME NEW text \in Seq(Chars), IsIntegerLiteral(text)
  PROVE  Literally(text, parse_literal(text))
<1> DEFINE digits == Without(text, {Quote, Tag})
           isHex  == Len(text) > 1 /\ text[2] = Tag
           n      == Denoted(digits, IF isHex THEN 16 ELSE 10)
           zeros  == \A i \in DOMAIN text : text[i] = 0
<1>1. text # <<>> /\ text[1] \in 0..9 BY DEF IsIntegerLiteral
<1>2. Len(text) \in Nat /\ Len(text) >= 1 /\ DOMAIN text = 1..Len(text)
  <2>1. Len(text) \in Nat /\ Len(text) # 0 BY <1>1
  <2> QED BY <2>1
<1>3. CASE isHex
  <2>1. 2 \in DOMAIN text BY <1>2, <1>3
  <2>2. /\ Len(text) > 2 /\ text[1] = 0 /\ text[3] # Quote
        /\ \A i \in 3..Len(text) : text[i] \in 0..15 \cup {Quote}
    <3>1. Tag \notin 0..9 \cup {Quote} BY DEF Tag, Quote
    <3> QED BY <1>3, <2>1, <3>1 DEF IsIntegerLiteral
  <2>3. ~ zeros BY <1>3, <2>1 DEF Tag
  <2>4. parse_literal(text) = IF Len(digits) =< MaxHexDigits + 1
                              THEN Value(Denoted(digits, 16)) ELSE Throws("nullopt")
    BY <1>3, <2>2, HexLiteral
  <2> HIDE DEF zeros, digits
  <2> QED BY <1>3, <2>3, <2>4 DEF Literally, zeros, digits
<1>4. CASE ~ isHex /\ zeros
  <2>1. AllZero(text) BY <1>1, <1>4 DEF AllZero
  <2>2. parse_literal(text) = Parsed(Zero)
    <3>1. text[1] = 0
      <4>1. 1 \in DOMAIN text BY <1>2
      <4> QED BY <1>4, <4>1
    <3>2. ~ HasHexTag(text) BY <1>2, <1>4 DEF HasHexTag
    <3>3. get_lit_type(text) = "Zero" BY <2>1, <3>1, <3>2 DEF get_lit_type
    <3> QED BY <3>3 DEF parse_literal
  <2>3. digits = text
    <3> DEFINE C == {Quote, Tag}
    <3>1. \A i \in 1..Len(text) : text[i] \notin C BY <1>2, <1>4 DEF Quote, Tag
    <3> HIDE DEF C
    <3>2. Without(text, C) = text BY <3>1, WithoutNoneOrAll
    <3> QED BY <3>2 DEF C
  <2>4. Denoted(text, 10) = 0
    <3>1. \A i \in 1..Len(text) : text[i] = 0 BY <1>2, <1>4
    <3>2. text \in Seq(Nat)
      <4>1. Chars \subseteq Nat BY DEF Chars
      <4> QED BY <4>1, SeqMonotonic
    <3> QED BY <3>1, <3>2, ZerosDenote
  <2>5. parse_literal(text) = Value(0) BY <2>2, ZeroAndOne DEF Parsed, Value
  <2>6. n = 0 BY <1>4, <2>3, <2>4
  <2> HIDE DEF n, zeros
  <2>7. parse_literal(text) = Value(n) BY <2>5, <2>6
  <2> QED BY <1>4, <2>7 DEF Literally, n, zeros
<1>5. CASE ~ isHex /\ ~ zeros /\ text[1] # 0
  <2>1. \A i \in 1..Len(text) : text[i] \in 0..9 \cup {Quote}
    BY <1>2, <1>5 DEF IsIntegerLiteral
  <2>2. parse_literal(text) = IF Fits(Denoted(digits, 10)) THEN Value(Denoted(digits, 10))
                              ELSE Throws("nullopt")
    BY <1>1, <1>5, <2>1, DecimalLiteral
  <2> HIDE DEF zeros, digits
  <2> QED BY <1>5, <2>2 DEF Literally, zeros, digits
<1>6. CASE ~ isHex /\ ~ zeros /\ text[1] = 0
  <2>1. ~ AllZero(text) BY <1>6 DEF AllZero
  <2>2. ~ HasHexTag(text) BY <1>2, <1>6 DEF HasHexTag
  <2>3. get_lit_type(text) = "Illegal" BY <1>6, <2>1, <2>2 DEF get_lit_type
  <2>4. parse_literal(text) = Throws("nullopt") BY <2>3 DEF parse_literal
  <2> HIDE DEF zeros
  <2> QED BY <1>6, <2>4 DEF Literally, zeros
<1> QED BY <1>3, <1>4, <1>5, <1>6

\* For every width and literal of the language: the number it denotes is returned, or
\* the literal is ill-formed, for its value if it is a decimal and for the number of its
\* digits if it is hexadecimal.
THEOREM LiteralsAreExact == Spec => LiteralIsExactOrIllFormed
<1> DEFINE Step == called'.op = "parse_literal" => Literally(called'.text, called'.result)
<1>1. TypeOK /\ [Next]_vars => [Step]_vars
  <2> SUFFICES ASSUME TypeOK, [Next]_vars, vars' # vars, called'.op = "parse_literal"
               PROVE  Literally(called'.text, called'.result)
    OBVIOUS
  <2>1. called = NoCall => called.op = "none" BY DEF NoCall
  <2>2. Next BY DEF vars
  <2>3. CASE MakeFromString BY <2>3 DEF MakeFromString, Calls
  <2>4. CASE ParseLiteral
    <3>1. PICK text \in Literals : called'.text = text /\ called'.result = parse_literal(text)
      BY <2>4 DEF ParseLiteral, Calls
    <3>2. text \in Seq(Chars) /\ IsIntegerLiteral(text) BY TextAssumption
    <3> QED BY <3>1, <3>2, LiteralText
  <2>5. CASE ReadResult BY <2>5 DEF ReadResult, NoCall
  <2>6. CASE Insert
    <3>1. called' = called BY <2>6 DEF Insert, InsertOne
    <3> QED BY <2>1, <2>6, <3>1 DEF Insert
  <2>7. CASE InsertSpace BY <2>1, <2>7 DEF InsertSpace
  <2>8. CASE Extract BY <2>1, <2>8 DEF Extract
  <2> QED BY <2>2, <2>3, <2>4, <2>5, <2>6, <2>7, <2>8 DEF Next
<1>2. [Step]_vars <=> [called'.op = "parse_literal" =>
       LET text   == called'.text
           digits == Without(text, {Quote, Tag})
           isHex  == Len(text) > 1 /\ text[2] = Tag
           n      == Denoted(digits, IF isHex THEN 16 ELSE 10)
           legal  == \/ isHex /\ Len(digits) =< MaxHexDigits + 1
                     \/ ~ isHex /\ text[1] # 0 /\ Fits(n)
                     \/ \A i \in DOMAIN text : text[i] = 0
       IN  called'.result = IF legal THEN Value(n) ELSE Throws("nullopt")]_vars
  BY DEF Literally
<1> QED BY <1>1, <1>2, TypeCorrect, PTL DEF Spec, LiteralIsExactOrIllFormed
=============================================================================
