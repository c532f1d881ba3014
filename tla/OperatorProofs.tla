---------------------------- MODULE OperatorProofs ----------------------------
(***************************************************************************)
(* What is built from the operators of uint128, for any width, any operands *)
(* and every mode.                                                          *)
(*   A variable implements arithmetic modulo 2^Bits: each call on the limbs *)
(* is the call on the number that they stand for; the carry functions where *)
(* the mode has the instructions.                                           *)
(*   A chain of words is exact up to the first word that its carry function *)
(* misjudges and no further.  Word by word it is shown that the function    *)
(* returns the word and the carry of the exact sum, or difference, unless   *)
(* the word is misjudged; the rest is that the weights add up.              *)
(*   A conversion from floating point truncates, because what a type takes  *)
(* apart has no more digits than the whole; one to floating point is next   *)
(* to the number although it rounds three times, because rounding never     *)
(* passes a value that the type has: what the limbs' parts round to is      *)
(* either exact or such a value already.                                    *)
(***************************************************************************)
EXTENDS Uint128Object, WordChain, FloatingPoint, Uint128Theorems

-----------------------------------------------------------------------------
(* The variable *)

\* The carry functions are exact with the instructions only (AddWithCarryCarries,
\* SubWithBorrowBorrows).
CarriesAreExact == Intrinsics(CalculationMode) \/ Operations \cap CarryOperations = {}

\* The variable holds two limbs.
LimbsOK == m_limbs \in U128

\* The residues are those of the two limbs.
LEMMA ResidueConstants ==
  /\ Residues!Pow2 = Pow2 /\ Residues!Modulus = Base * Base
  /\ Residues!Numbers = 0..(Base * Base - 1) /\ Residues!Positions = 0..(Bits - 1)
  /\ Residues!Silent = NoCall
<1>1. Residues!Pow2 = Pow2 BY DEF Residues!Pow2, Pow2
<1>2. Residues!Modulus = Base * Base BY <1>1, Widths DEF Residues!Modulus
<1> QED BY <1>1, <1>2 DEF Residues!Numbers, Residues!Positions, Residues!Silent, NoCall

\* A call that leaves the variable with the value that the residues say.
LEMMA AssignRefines ==
  ASSUME NEW op, NEW n, NEW u \in U128, NEW to,
         Assign(op, n, u), Val(u) = to % (Base * Base)
  PROVE  called = NoCall /\ Residues!Sets(op, n, to) /\ LimbsOK'
<1>1. m_limbs' = u /\ called = NoCall /\ called' = [op |-> op, operand |-> n, result |-> "done"]
  BY DEF Assign, Calls, Returns
<1>2. called'.op = op BY <1>1
<1>3. Val(m_limbs') = to % (Base * Base) BY <1>1
<1> QED BY <1>1, <1>2, <1>3, ResidueConstants DEF Residues!Sets, Residues!Says, LimbsOK

\* A value below the modulus is its own residue.
LEMMA SameResidue ==
  ASSUME NEW u \in U128
  PROVE  Val(u) = Val(u) % (Base * Base)
BY BelowDivisor, LimbsOf, Widths

\* The amounts of a shift fit a limb.
LEMMA AmountsFit == Bits =< Base
<1> DEFINE S == {n \in Nat : 2 * (n + 1) =< Pow2[n + 1]}
<1>1. 0 \in S
  <2>1. Pow2[0] = 1 /\ Pow2[0 + 1] = 2 * Pow2[0] BY PowSteps
  <2> QED BY <2>1
<1>2. ASSUME NEW n \in Nat, n \in S
      PROVE  n + 1 \in S
  <2>1. n + 1 \in Nat /\ Pow2[(n + 1) + 1] = 2 * Pow2[n + 1] /\ Pow2[n + 1] \in Nat
    BY PowSteps, PowPositive
  <2> QED BY <1>2, <2>1
<1> HIDE DEF S
<1>3. LimbBits - 1 \in S
  <2>1. LimbBits - 1 \in Nat BY Widths
  <2>2. \A k \in 0..((LimbBits - 1) - 1) : k \in S => k + 1 \in S BY <1>2
  <2>3. \A k \in 0..(LimbBits - 1) : k \in S BY <1>1, <2>1, <2>2, UpTo
  <2> QED BY <2>1, <2>3
<1>4. LimbBits \in Nat /\ LimbBits >= 2 /\ (LimbBits - 1) + 1 = LimbBits BY Widths
<1>5. 2 * LimbBits =< Pow2[LimbBits] BY <1>3, <1>4 DEF S
<1> QED BY <1>4, <1>5 DEF Bits, Base

-----------------------------------------------------------------------------
(* Addition, subtraction, multiplication, division *)

\* The value of a difference.
LEMMA MinusWraps ==
  ASSUME NEW a \in U128, NEW b \in U128
  PROVE  Minus(a, b) \in U128 /\ Val(Minus(a, b)) = (Val(a) - Val(b)) % (Base * Base)
<1> DEFINE u == Minus(a, b)  M == Base * Base
<1>1. u \in U128 /\ (Val(u) = Val(a) - Val(b) \/ Val(u) = Val(a) - Val(b) + M)
  BY MinusSubtracts
<1>2. Val(a) \in Nat /\ Val(b) \in Nat /\ M \in Nat BY LimbsOf, Widths
<1>3. Val(u) \in Nat BY <1>1, LimbsOf
<1> HIDE DEF u
<1>4. \E k \in Int : Val(a) - Val(b) = k * M + Val(u)
  <2> HIDE DEF M
  <2>1. CASE Val(u) = Val(a) - Val(b)
    <3>1. Val(a) - Val(b) = 0 * M + Val(u) BY <1>2, <2>1
    <3> QED BY <3>1
  <2>2. CASE Val(u) = Val(a) - Val(b) + M
    <3>1. Val(a) - Val(b) = (-1) * M + Val(u) BY <1>2, <1>3, <2>2
    <3> QED BY <3>1
  <2> QED BY <1>1, <2>1, <2>2 DEF M
<1>5. Val(a) - Val(b) \in Int BY <1>2
<1> QED BY <1>1, <1>4, <1>5, ResidueOf DEF u

\* operator+= adds modulo 2^Bits.
LEMMA AddRefines ==
  ASSUME LimbsOK, NEW b \in U128, AddAssign(b)
  PROVE  called = NoCall /\ Residues!Arithmetic(Val(b)) /\ LimbsOK'
<1>1. Plus(m_limbs, b) \in U128 /\ Val(Plus(m_limbs, b)) = (Val(m_limbs) + Val(b)) % (Base * Base)
  BY PlusAdds, PlusWraps DEF LimbsOK
<1> QED BY <1>1, AssignRefines DEF AddAssign, Residues!Arithmetic

\* operator-= subtracts modulo 2^Bits.
LEMMA SubtractRefines ==
  ASSUME LimbsOK, NEW b \in U128, SubtractAssign(b)
  PROVE  called = NoCall /\ Residues!Arithmetic(Val(b)) /\ LimbsOK'
<1>1. Minus(m_limbs, b) \in U128 /\ Val(Minus(m_limbs, b)) = (Val(m_limbs) - Val(b)) % (Base * Base)
  BY MinusWraps DEF LimbsOK
<1> QED BY <1>1, AssignRefines DEF SubtractAssign, Residues!Arithmetic

\* operator*= multiplies modulo 2^Bits.
LEMMA MultiplyRefines ==
  ASSUME LimbsOK, NEW b \in U128, MultiplyAssign(b)
  PROVE  called = NoCall /\ Residues!Arithmetic(Val(b)) /\ LimbsOK'
<1>1. Times(m_limbs, b) \in U128 /\ Val(Times(m_limbs, b)) = (Val(m_limbs) * Val(b)) % (Base * Base)
  BY TimesMultiplies DEF LimbsOK
<1> QED BY <1>1, AssignRefines DEF MultiplyAssign, Residues!Arithmetic

\* A zero divisor throws before anything is assigned.
LEMMA ThrowRefines ==
  ASSUME LimbsOK, NEW b \in U128, NEW op \in {"/=", "%="}, ThrowDomainError(op, b)
  PROVE  called = NoCall /\ Residues!Divide(Val(b)) /\ LimbsOK'
<1>1. Val(b) = 0 BY ZeroAndOne, ComparisonsCompare DEF ThrowDomainError
<1>2. /\ called = NoCall /\ m_limbs' = m_limbs
      /\ called' = [op |-> op, operand |-> Val(b), result |-> "domain_error"]
  BY DEF ThrowDomainError, Calls, Returns
<1>3. called'.op = op BY <1>2
<1>4. Residues!Says(op, Val(b), "domain_error") BY <1>2, <1>3 DEF Residues!Says
<1> QED BY <1>1, <1>2, <1>4 DEF Residues!Divide, LimbsOK

\* operator/= divides, or throws and changes nothing.
LEMMA DivideRefines ==
  ASSUME LimbsOK, NEW b \in U128, DivideAssign(b)
  PROVE  called = NoCall /\ Residues!Divide(Val(b)) /\ LimbsOK'
<1>1. CASE ThrowDomainError("/=", b) BY <1>1, ThrowRefines
<1>2. CASE ~ Equal(b, Zero) /\ Assign("/=", Val(b), unsafe_div_mod(m_limbs, b).quotient)
  <2> DEFINE q == unsafe_div_mod(m_limbs, b).quotient
  <2>1. Val(b) # 0 BY <1>2, ZeroAndOne, ComparisonsCompare
  <2>2. q \in U128 /\ Val(q) = Val(m_limbs) \div Val(b) BY <2>1, DivisionDivides DEF LimbsOK
  <2> HIDE DEF q
  <2>3. Val(q) = (Val(m_limbs) \div Val(b)) % (Base * Base) BY <2>2, SameResidue
  <2>4. Assign("/=", Val(b), q) BY <1>2 DEF q
  <2> QED BY <2>1, <2>2, <2>3, <2>4, AssignRefines DEF Residues!Divide
<1> QED BY <1>1, <1>2 DEF DivideAssign

\* operator%= leaves the remainder, or throws and changes nothing.
LEMMA ModulusRefines ==
  ASSUME LimbsOK, NEW b \in U128, ModulusAssign(b)
  PROVE  called = NoCall /\ Residues!Divide(Val(b)) /\ LimbsOK'
<1>1. CASE ThrowDomainError("%=", b) BY <1>1, ThrowRefines
<1>2. CASE ~ Equal(b, Zero) /\ Assign("%=", Val(b), unsafe_div_mod(m_limbs, b).remainder)
  <2> DEFINE r == unsafe_div_mod(m_limbs, b).remainder
  <2>1. Val(b) # 0 BY <1>2, ZeroAndOne, ComparisonsCompare
  <2>2. r \in U128 /\ Val(r) = Val(m_limbs) % Val(b) BY <2>1, DivisionDivides DEF LimbsOK
  <2> HIDE DEF r
  <2>3. Val(r) = (Val(m_limbs) % Val(b)) % (Base * Base) BY <2>2, SameResidue
  <2>4. Assign("%=", Val(b), r) BY <1>2 DEF r
  <2> QED BY <2>1, <2>2, <2>3, <2>4, AssignRefines DEF Residues!Divide
<1> QED BY <1>1, <1>2 DEF ModulusAssign

-----------------------------------------------------------------------------
(* Shifts *)

\* An amount, as the caller holds it and as it is converted.
LEMMA AmountValue ==
  ASSUME NEW n \in 0..(Bits - 1)
  PROVE  Val(make_uint128(0, n)) = n /\ AsInt(make_uint128(0, n)) = n
<1>1. n \in Nat /\ n < Base /\ 0 < Base /\ 0 * Base + n = n BY Widths, AmountsFit
<1> QED BY <1>1, MakeLimbs DEF AsInt

\* operator<<= multiplies by a power of two modulo 2^Bits.
LEMMA ShiftLeftRefines ==
  ASSUME LimbsOK, NEW n \in 0..(Bits - 1), ShiftLeftAssign(make_uint128(0, n))
  PROVE  called = NoCall /\ Residues!Shift(n) /\ LimbsOK'
<1>1. /\ ShiftLeft(m_limbs, n) \in U128
      /\ Val(ShiftLeft(m_limbs, n)) = (Val(m_limbs) * Pow2[n]) % (Base * Base)
  BY ShiftLeftMultiplies DEF LimbsOK
<1>2. Assign("<<=", n, ShiftLeft(m_limbs, n)) BY AmountValue DEF ShiftLeftAssign
<1> QED BY <1>1, <1>2, AssignRefines, ResidueConstants DEF Residues!Shift

\* operator>>= divides by a power of two.
LEMMA ShiftRightRefines ==
  ASSUME LimbsOK, NEW n \in 0..(Bits - 1), ShiftRightAssign(make_uint128(0, n))
  PROVE  called = NoCall /\ Residues!Shift(n) /\ LimbsOK'
<1> DEFINE u == ShiftRight(m_limbs, n)
<1>1. u \in U128 /\ Val(u) = Val(m_limbs) \div Pow2[n]
  BY ShiftRightDivides DEF LimbsOK
<1>2. Assign(">>=", n, u) BY AmountValue DEF ShiftRightAssign
<1> HIDE DEF u
<1>3. Val(u) = (Val(m_limbs) \div Pow2[n]) % (Base * Base) BY <1>1, SameResidue
<1> QED BY <1>1, <1>2, <1>3, AssignRefines, ResidueConstants DEF Residues!Shift

-----------------------------------------------------------------------------
(* Increments, unary operators, assignment of an integer *)

\* The prefix form returns the new value, the postfix form the old one.
LEMMA StepRefines ==
  ASSUME LimbsOK, PreIncrement \/ PostIncrement \/ PreDecrement \/ PostDecrement
  PROVE  called = NoCall /\ Residues!Step /\ LimbsOK'
<1>1. /\ Plus(m_limbs, One) \in U128
      /\ Val(Plus(m_limbs, One)) = (Val(m_limbs) + 1) % (Base * Base)
  BY ZeroAndOne, PlusAdds, PlusWraps DEF LimbsOK
<1>2. /\ Minus(m_limbs, One) \in U128
      /\ Val(Minus(m_limbs, One)) = (Val(m_limbs) - 1) % (Base * Base)
  BY ZeroAndOne, MinusWraps DEF LimbsOK
<1>3. ASSUME NEW op, NEW u, NEW out, Changed(op, u, out)
      PROVE  /\ m_limbs' = u /\ called = NoCall
             /\ Residues!Says(op, 1, out)
  <2>1. /\ m_limbs' = u /\ called = NoCall
        /\ called' = [op |-> op, operand |-> 1, result |-> out]
    BY <1>3 DEF Changed, Calls, Returns
  <2>2. called'.op = op BY <2>1
  <2> QED BY <2>1, <2>2 DEF Residues!Says
<1>4. CASE PreIncrement
  <2>1. m_limbs' = Plus(m_limbs, One) /\ called = NoCall /\ Residues!Says("++x", 1, Val(m_limbs'))
    BY <1>3, <1>4 DEF PreIncrement
  <2> QED BY <1>1, <2>1, ResidueConstants DEF LimbsOK, Residues!Step
<1>5. CASE PostIncrement
  <2>1. m_limbs' = Plus(m_limbs, One) /\ called = NoCall /\ Residues!Says("x++", 1, Val(m_limbs))
    BY <1>3, <1>5 DEF PostIncrement
  <2> QED BY <1>1, <2>1, ResidueConstants DEF LimbsOK, Residues!Step
<1>6. CASE PreDecrement
  <2>1. m_limbs' = Minus(m_limbs, One) /\ called = NoCall /\ Residues!Says("--x", 1, Val(m_limbs'))
    BY <1>3, <1>6 DEF PreDecrement
  <2> QED BY <1>2, <2>1, ResidueConstants DEF LimbsOK, Residues!Step
<1>7. CASE PostDecrement
  <2>1. m_limbs' = Minus(m_limbs, One) /\ called = NoCall /\ Residues!Says("x--", 1, Val(m_limbs))
    BY <1>3, <1>7 DEF PostDecrement
  <2> QED BY <1>2, <2>1, ResidueConstants DEF LimbsOK, Residues!Step
<1> QED BY <1>4, <1>5, <1>6, <1>7

\* Unary minus negates modulo 2^Bits.
LEMMA NegateRefines ==
  ASSUME LimbsOK, NegateAssign
  PROVE  called = NoCall /\ Residues!Unary /\ LimbsOK'
<1> DEFINE u == Negate(m_limbs)  x == Val(m_limbs)  M == Base * Base
<1>1. u \in U128 /\ Val(u) = (IF x = 0 THEN 0 ELSE M - x) BY NegateNegates DEF LimbsOK
<1>2. x \in Nat /\ M \in Nat BY LimbsOf, Widths DEF LimbsOK
<1> HIDE DEF u, x
<1>3. \E k \in Int : -x = k * M + Val(u)
  <2> HIDE DEF M
  <2>1. CASE x = 0
    <3>1. -x = 0 * M + Val(u) BY <1>1, <1>2, <2>1
    <3> QED BY <3>1
  <2>2. CASE x # 0
    <3>1. -x = (-1) * M + Val(u) BY <1>1, <1>2, <2>2
    <3> QED BY <3>1
  <2> QED BY <2>1, <2>2
<1>4. Val(u) = (-x) % M
  <2>1. -x \in Int BY <1>2
  <2> QED BY <1>1, <1>3, <2>1, ResidueOf
<1>5. Assign("-x", 0, u) BY DEF NegateAssign, u
<1> QED BY <1>1, <1>4, <1>5, AssignRefines DEF Residues!Unary, x

\* The complement is the distance to the largest number.
LEMMA ComplementRefines ==
  ASSUME LimbsOK, ComplementAssign
  PROVE  called = NoCall /\ Residues!Unary /\ LimbsOK'
<1> DEFINE u == Complement(m_limbs)
           h == m_limbs.high  l == m_limbs.low
<1>1. h \in Nat /\ h < Base /\ l \in Nat /\ l < Base /\ Val(m_limbs) = h * Base + l
      /\ Base \in Nat
  BY LimbsOf, Widths DEF LimbsOK
<1>2. u = make_uint128(Base - 1 - h, Base - 1 - l) BY DEF Complement, LimbNot
<1> HIDE DEF u, h, l
<1>3. Base - 1 - h \in Nat /\ Base - 1 - h < Base /\ Base - 1 - l \in Nat /\ Base - 1 - l < Base
  BY <1>1
<1>4. u \in U128 /\ Val(u) = (Base - 1 - h) * Base + (Base - 1 - l) BY <1>2, <1>3, MakeLimbs
<1>5. Val(u) = Base * Base - 1 - (h * Base + l) BY <1>1, <1>4, DigitComplement
<1>6. Val(u) = (Base * Base - 1) - Val(m_limbs)
  <2>1. h * Base + l \in Nat /\ Base * Base \in Nat BY <1>1
  <2> QED BY <1>1, <1>5, <2>1
<1>7. Val(u) = ((Base * Base - 1) - Val(m_limbs)) % (Base * Base) BY <1>4, <1>6, SameResidue
<1>8. Assign("~x", 0, u) BY DEF ComplementAssign, u
<1> QED BY <1>4, <1>7, <1>8, AssignRefines, ResidueConstants DEF Residues!Unary

\* A signed integer is taken modulo 2^Bits.
LEMMA AssignIntRefines ==
  ASSUME LimbsOK, NEW v \in (-(Base \div 2))..((Base \div 2) - 1), AssignInt(v)
  PROVE  called = NoCall /\ Residues!FromInt(v) /\ LimbsOK'
<1> DEFINE u == FromSigned(v)  M == Base * Base
<1>1. v \in Int /\ v < Base /\ v >= -Base /\ Base \in Nat /\ Base >= 4 BY Widths
<1>2. Wrap(v) = IF v < 0 THEN v + Base ELSE v BY <1>1, WrapOnce
<1>3. u \in U128 /\ \E k \in Int : v = k * M + Val(u)
  <2>1. CASE v < 0
    <3>1. u = make_uint128(Base - 1, v + Base) BY <1>2, <2>1 DEF FromSigned
    <3>2. Base - 1 \in Nat /\ Base - 1 < Base /\ v + Base \in Nat /\ v + Base < Base
      BY <1>1, <2>1
    <3> HIDE DEF u
    <3>3. u \in U128 /\ Val(u) = (Base - 1) * Base + (v + Base) BY <3>1, <3>2, MakeLimbs
    <3>4. v = (-1) * M + ((Base - 1) * Base + (v + Base))
      <4>1. (Base - 1) * Base = M - Base /\ M \in Nat BY <1>1
      <4> HIDE DEF M
      <4> QED BY <1>1, <4>1
    <3> QED BY <3>3, <3>4
  <2>2. CASE ~ (v < 0)
    <3>1. u = make_uint128(0, v) BY <1>2, <2>2 DEF FromSigned
    <3>2. 0 \in Nat /\ 0 < Base /\ v \in Nat BY <1>1, <2>2
    <3> HIDE DEF u
    <3>3. u \in U128 /\ Val(u) = 0 * Base + v BY <1>1, <3>1, <3>2, MakeLimbs
    <3>4. v = 0 * M + (0 * Base + v)
      <4>1. M \in Nat BY <1>1
      <4> HIDE DEF M
      <4> QED BY <1>1, <4>1
    <3> QED BY <3>3, <3>4
  <2> QED BY <2>1, <2>2
<1> HIDE DEF u
<1>4. Val(u) = v % M BY <1>1, <1>3, ResidueOf
<1>5. Assign("=", v, u) BY DEF AssignInt, u
<1> QED BY <1>3, <1>4, <1>5, AssignRefines DEF Residues!FromInt

-----------------------------------------------------------------------------
(* Comparison, the leading bit, the carry functions, the caller *)

\* The comparisons tell the order of the numbers.
LEMMA CompareRefines ==
  ASSUME LimbsOK, NEW b \in U128, Compare(b)
  PROVE  called = NoCall /\ Residues!Compare(Val(b)) /\ LimbsOK'
<1> DEFINE x == Val(m_limbs)  y == Val(b)
           lt == Less(m_limbs, b)  eq == Equal(m_limbs, b)  gt == Greater(m_limbs, b)
           z == ~ (m_limbs.low # 0 \/ m_limbs.high # 0)
           r == [less |-> lt, equal |-> eq, greater |-> gt, not |-> z]
<1>1. /\ lt \in BOOLEAN /\ eq \in BOOLEAN /\ gt \in BOOLEAN /\ z \in BOOLEAN
      /\ (x < y) \in BOOLEAN /\ (x = y) \in BOOLEAN /\ (x > y) \in BOOLEAN
      /\ (x = 0) \in BOOLEAN
  <2>1. (x < y) \in BOOLEAN /\ (x = y) \in BOOLEAN /\ (x > y) \in BOOLEAN /\ (x = 0) \in BOOLEAN
    OBVIOUS
  <2>2. lt \in BOOLEAN
    <3>1. CASE m_limbs.high = b.high BY <3>1 DEF Less
    <3>2. CASE m_limbs.high # b.high BY <3>2 DEF Less
    <3> QED BY <3>1, <3>2
  <2>3. gt \in BOOLEAN
    <3>1. CASE m_limbs.high = b.high BY <3>1 DEF Greater
    <3>2. CASE m_limbs.high # b.high BY <3>2 DEF Greater
    <3> QED BY <3>1, <3>2
  <2>4. eq \in BOOLEAN BY DEF Equal
  <2>5. z \in BOOLEAN OBVIOUS
  <2> QED BY <2>1, <2>2, <2>3, <2>4, <2>5
<1>2. /\ lt <=> x < y
      /\ eq <=> x = y
      /\ gt <=> x > y
  BY ComparisonsCompare DEF LimbsOK
<1>3. z <=> x = 0
  <2>1. Equal(m_limbs, Zero) <=> x = 0 BY ZeroAndOne, ComparisonsCompare DEF LimbsOK
  <2>2. z <=> Equal(m_limbs, Zero) BY DEF Equal, Zero, make_uint128
  <2> QED BY <2>1, <2>2
<1>4. called = NoCall /\ m_limbs' = m_limbs
      /\ called' = [op |-> "<=>", operand |-> y, result |-> r]
  BY DEF Compare, Calls, Returns
<1>5. lt = (x < y) /\ eq = (x = y) /\ gt = (x > y) /\ z = (x = 0)
  <2> HIDE DEF lt, eq, gt, z
  <2>1. \A p, q \in BOOLEAN : (p <=> q) => p = q OBVIOUS
  <2> QED BY <1>1, <1>2, <1>3, <2>1, Zenon
<1>6. r = [less |-> x < y, equal |-> x = y, greater |-> x > y, not |-> x = 0]
  <2> HIDE DEF lt, eq, gt, z, x, y
  <2> QED BY <1>5, Zenon
<1> HIDE DEF r
<1>7. called'.op = "<=>" BY <1>4
<1>8. Residues!Says("<=>", y, r) BY <1>4, <1>7 DEF Residues!Says
<1> QED BY <1>4, <1>6, <1>8, Zenon DEF Residues!Compare, LimbsOK

\* most_sign_set_bit returns the position of the leading bit.
LEMMA LeadingBitRefines ==
  ASSUME LimbsOK, most_sign_set_bit
  PROVE  called = NoCall /\ Residues!LeadingBit /\ LimbsOK'
<1> DEFINE k == fls(m_limbs)
<1>1. Val(m_limbs) # 0
  BY ZeroAndOne, ComparisonsCompare DEF LimbsOK, most_sign_set_bit
<1>2. k \in 0..(Bits - 1) /\ Pow2[k] =< Val(m_limbs) /\ Val(m_limbs) < Pow2[k + 1]
  BY <1>1, FlsFindsLeadingBit DEF LimbsOK
<1>3. called = NoCall /\ m_limbs' = m_limbs
      /\ called' = [op |-> "most_sign_set_bit", operand |-> 0, result |-> k]
  BY DEF most_sign_set_bit, Calls, Returns
<1> HIDE DEF k
<1>4. called'.op = "most_sign_set_bit" BY <1>3
<1>5. Residues!Says("most_sign_set_bit", 0, k) BY <1>3, <1>4 DEF Residues!Says
<1> QED BY <1>2, <1>3, <1>5, ResidueConstants DEF Residues!LeadingBit, LimbsOK

\* Where there are instructions, add_with_carry gives the exact sum and carry.
LEMMA CarryRefines ==
  ASSUME LimbsOK, Intrinsics(CalculationMode), NEW b \in U128, NEW c \in 0..1,
         AddCarrying(b, c)
  PROVE  called = NoCall /\ Residues!WithCarry(Val(b), c) /\ LimbsOK'
<1> DEFINE r == AddWithCarry(m_limbs, b, c)  x == Val(m_limbs)  y == Val(b)  M == Base * Base
<1>1. x \in Nat /\ y \in Nat /\ M \in Nat /\ c \in {0, 1} /\ x < M /\ y < M
  BY LimbsOf, Widths DEF LimbsOK
<1>2. /\ r.sum \in U128
      /\ Val(r.sum) = IF x + y + c < M THEN x + y + c ELSE x + y + c - M
      /\ r.carry = IF x + y + c < M THEN 0 ELSE 1
  BY <1>1, AddWithCarryCarries DEF LimbsOK
<1>3. /\ called = NoCall /\ m_limbs' = r.sum
      /\ called' = [op |-> "add_with_carry", operand |-> <<y, c>>, result |-> r.carry]
  BY DEF AddCarrying, Calls, Returns
<1> HIDE DEF r
<1>4. called'.op = "add_with_carry" BY <1>3
<1>5. Residues!Says("add_with_carry", <<y, c>>, r.carry) BY <1>3, <1>4 DEF Residues!Says
<1>6. Val(m_limbs') \in 0..(M - 1)
  <2>1. Val(r.sum) \in Nat /\ Val(r.sum) < M BY <1>2, LimbsOf
  <2> QED BY <1>1, <1>3, <2>1
<1>7. r.carry \in 0..1 /\ Val(m_limbs') + r.carry * M = x + y + c
  <2> HIDE DEF x, y, M
  <2>1. CASE x + y + c < M
    <3>1. Val(m_limbs') = x + y + c /\ r.carry = 0 BY <1>2, <1>3, <2>1
    <3> QED BY <1>1, <3>1
  <2>2. CASE ~ (x + y + c < M)
    <3>1. Val(m_limbs') = x + y + c - M /\ r.carry = 1 BY <1>2, <1>3, <2>2
    <3> QED BY <1>1, <3>1
  <2> QED BY <2>1, <2>2
<1> QED BY <1>2, <1>3, <1>5, <1>6, <1>7, ResidueConstants DEF Residues!WithCarry, LimbsOK

\* Where there are instructions, sub_with_borrow gives the exact difference and borrow.
LEMMA BorrowRefines ==
  ASSUME LimbsOK, Intrinsics(CalculationMode), NEW b \in U128, NEW c \in 0..1,
         SubtractBorrowing(b, c)
  PROVE  called = NoCall /\ Residues!WithBorrow(Val(b), c) /\ LimbsOK'
<1> DEFINE r == SubWithBorrow(m_limbs, b, c)  x == Val(m_limbs)  y == Val(b)  M == Base * Base
<1>1. x \in Nat /\ y \in Nat /\ M \in Nat /\ c \in {0, 1} /\ x < M /\ y < M
  BY LimbsOf, Widths DEF LimbsOK
<1>2. /\ r.difference \in U128
      /\ Val(r.difference) = IF x - y - c >= 0 THEN x - y - c ELSE x - y - c + M
      /\ r.borrow = IF x - y - c >= 0 THEN 0 ELSE 1
  BY <1>1, SubWithBorrowBorrows DEF LimbsOK
<1>3. /\ called = NoCall /\ m_limbs' = r.difference
      /\ called' = [op |-> "sub_with_borrow", operand |-> <<y, c>>, result |-> r.borrow]
  BY DEF SubtractBorrowing, Calls, Returns
<1> HIDE DEF r
<1>4. called'.op = "sub_with_borrow" BY <1>3
<1>5. Residues!Says("sub_with_borrow", <<y, c>>, r.borrow) BY <1>3, <1>4 DEF Residues!Says
<1>6. Val(m_limbs') \in 0..(M - 1)
  <2>1. Val(r.difference) \in Nat /\ Val(r.difference) < M BY <1>2, LimbsOf
  <2> QED BY <1>1, <1>3, <2>1
<1>7. r.borrow \in 0..1 /\ Val(m_limbs') - r.borrow * M = x - y - c
  <2> HIDE DEF x, y, M
  <2>1. CASE x - y - c >= 0
    <3>1. Val(m_limbs') = x - y - c /\ r.borrow = 0 BY <1>2, <1>3, <2>1
    <3> QED BY <1>1, <3>1
  <2>2. CASE ~ (x - y - c >= 0)
    <3>1. Val(m_limbs') = x - y - c + M /\ r.borrow = 1 BY <1>2, <1>3, <2>2
    <3> QED BY <1>1, <3>1
  <2> QED BY <2>1, <2>2
<1> QED BY <1>2, <1>3, <1>5, <1>6, <1>7, ResidueConstants DEF Residues!WithBorrow, LimbsOK

\* Reading a result leaves the number.
LEMMA ReadRefines ==
  ASSUME LimbsOK, ReadResult
  PROVE  Residues!Read /\ LimbsOK'
BY ResidueConstants DEF ReadResult, Residues!Read, LimbsOK

-----------------------------------------------------------------------------
(* The operators that work bit by bit *)

\* A quotient is divided again.
LEMMA DividedTwice ==
  ASSUME NEW n \in Nat, NEW a \in Nat \ {0}, NEW b \in Nat \ {0}
  PROVE  n \div (a * b) = (n \div a) \div b
<1> DEFINE q == n \div a  r == n % a  p == q \div b  t == q % b
<1>1. q \in Nat /\ r \in Nat /\ r < a /\ n = q * a + r BY DivisionParts
<1>2. p \in Nat /\ t \in Nat /\ t < b /\ q = p * b + t BY <1>1, DivisionParts
<1> HIDE DEF q, r, p, t
<1>3. n = p * (a * b) + (t * a + r)
  <2>1. (p * b + t) * a = p * (a * b) + t * a BY <1>2
  <2>2. p * (a * b) \in Nat /\ t * a \in Nat BY <1>2
  <2> QED BY <1>1, <1>2, <2>1, <2>2
<1>4. t * a + r < a * b /\ t * a + r \in Nat /\ a * b \in Nat \ {0}
  <2>1. t + 1 =< b BY <1>2
  <2>2. \A x, y, z \in Nat : x =< y => z * x =< z * y OBVIOUS
  <2>3. a * (t + 1) =< a * b BY <1>2, <2>1, <2>2
  <2>4. a * (t + 1) = t * a + a /\ t * a \in Nat BY <1>2
  <2>5. a * b \in Nat BY DEF q
  <2> QED BY <1>1, <1>2, <2>3, <2>4, <2>5
<1>5. n \div (a * b) = p BY <1>2, <1>3, <1>4, DivisionUnique
<1> QED BY <1>5 DEF q, p

\* The bits of the low limb, and above them those of the high one.
LEMMA BitsOfLimbs ==
  ASSUME NEW u \in U128, NEW k \in 0..(LimbBits - 1)
  PROVE  Bit(Val(u), k) = Bit(u.low, k) /\ Bit(Val(u), LimbBits + k) = Bit(u.high, k)
<1> DEFINE h == u.high  l == u.low
<1>1. h \in Nat /\ l \in Nat /\ l < Base /\ Val(u) = h * Base + l /\ Val(u) \in Nat
      /\ LimbBits \in Nat /\ k \in Nat /\ Base = Pow2[LimbBits]
  BY LimbsOf, Widths DEF Base
<1> HIDE DEF h, l
<1>2. Bit(Val(u), k) = Bit(l, k) BY <1>1, BitsBelow DEF Bit
<1>3. Val(u) \div Pow2[LimbBits + k] = h \div Pow2[k]
  <2>1. Pow2[LimbBits + k] = Base * Pow2[k] BY <1>1, PowSum
  <2>2. Base \in Nat \ {0} /\ Pow2[k] \in Nat \ {0} BY <1>1, PowPositive
  <2>3. Val(u) \div (Base * Pow2[k]) = (Val(u) \div Base) \div Pow2[k]
    BY <1>1, <2>2, DividedTwice
  <2>4. Val(u) \div Base = h BY <1>1, <2>2, DivisionUnique
  <2> QED BY <2>1, <2>3, <2>4
<1> QED BY <1>2, <1>3 DEF Bit, h, l

\* A position of the variable is one of its low limb or of its high limb.
LEMMA PositionsOfLimbs ==
  ASSUME NEW k \in 0..(Bits - 1)
  PROVE  \/ k \in 0..(LimbBits - 1)
         \/ \E j \in 0..(LimbBits - 1) : k = LimbBits + j
<1>1. LimbBits \in Nat /\ Bits = LimbBits + LimbBits BY Widths
<1>2. k < LimbBits => k \in 0..(LimbBits - 1) BY <1>1
<1>3. k >= LimbBits => k - LimbBits \in 0..(LimbBits - 1) /\ k = LimbBits + (k - LimbBits)
  BY <1>1
<1> QED BY <1>1, <1>2, <1>3

\* Two limbs made bit by bit: what holds of the bits of the limbs holds of those
\* of the variable.
LEMMA BitsRefine ==
  ASSUME LimbsOK, NEW b \in U128, NEW op, NEW h \in Limb, NEW l \in Limb,
         Assign(op, Val(b), make_uint128(h, l))
  PROVE  /\ called = NoCall /\ LimbsOK' /\ Residues!Says(op, Val(b), "done")
         /\ Val(m_limbs)' \in Residues!Numbers
         /\ \A k \in 0..(LimbBits - 1) :
              /\ Bit(Val(m_limbs'), k) = Bit(l, k)
              /\ Bit(Val(m_limbs'), LimbBits + k) = Bit(h, k)
<1> DEFINE u == make_uint128(h, l)
<1>1. h \in Nat /\ h < Base /\ l \in Nat /\ l < Base BY Widths DEF Limb
<1>2. u \in U128 /\ u.high = h /\ u.low = l /\ Val(u) = h * Base + l BY <1>1, MakeLimbs
<1>3. m_limbs' = u /\ called = NoCall
      /\ called' = [op |-> op, operand |-> Val(b), result |-> "done"]
  BY DEF Assign, Calls, Returns
<1> HIDE DEF u
<1>4. called'.op = op BY <1>3
<1>5. Residues!Says(op, Val(b), "done") BY <1>3, <1>4 DEF Residues!Says
<1>6. Val(u) \in 0..(Base * Base - 1) BY <1>2, LimbsOf, Widths
<1> QED BY <1>2, <1>3, <1>5, <1>6, BitsOfLimbs, ResidueConstants DEF LimbsOK

\* operator&= takes the bits that both numbers have.
LEMMA AndRefines ==
  ASSUME LimbsOK, NEW b \in U128, AndAssign(b)
  PROVE  called = NoCall /\ Residues!BitByBit(Val(b)) /\ LimbsOK'
<1> DEFINE a == m_limbs  h == And(a.high, b.high)  l == And(a.low, b.low)
<1>1. a \in U128 BY DEF LimbsOK
<1>2. /\ a.high \in Nat /\ a.low \in Nat /\ b.high \in Nat /\ b.low \in Nat BY <1>1, LimbsOf
<1>3. /\ h \in Limb /\ l \in Limb
      /\ \A k \in 0..(LimbBits - 1) : /\ Bit(h, k) = Bit(a.high, k) * Bit(b.high, k)
                                      /\ Bit(l, k) = Bit(a.low, k) * Bit(b.low, k)
  BY <1>2, AndOfLimbs
<1>4. Assign("&=", Val(b), make_uint128(h, l)) BY DEF AndAssign, BitAnd
<1> HIDE DEF h, l
<1>5. /\ called = NoCall /\ LimbsOK' /\ Residues!Says("&=", Val(b), "done")
      /\ Val(m_limbs)' \in Residues!Numbers
      /\ \A k \in 0..(LimbBits - 1) : /\ Bit(Val(m_limbs'), k) = Bit(l, k)
                                      /\ Bit(Val(m_limbs'), LimbBits + k) = Bit(h, k)
  BY <1>3, <1>4, BitsRefine
<1>6. \A k \in 0..(Bits - 1) : Bit(Val(m_limbs'), k) = Bit(Val(a), k) * Bit(Val(b), k)
  BY <1>1, <1>3, <1>5, BitsOfLimbs, PositionsOfLimbs
<1>7. \A k \in Residues!Positions :
        Residues!Bit(Val(m_limbs)', k)
          = Residues!Both(Residues!Bit(Val(m_limbs), k), Residues!Bit(Val(b), k))
  BY <1>6, ResidueConstants DEF Residues!Bit, Bit, Residues!Both
<1> QED BY <1>5, <1>7 DEF Residues!BitByBit, Residues!SetsBits

\* operator|= takes the bits that either number has.
LEMMA OrRefines ==
  ASSUME LimbsOK, NEW b \in U128, OrAssign(b)
  PROVE  called = NoCall /\ Residues!BitByBit(Val(b)) /\ LimbsOK'
<1> DEFINE a == m_limbs  h == Or(a.high, b.high)  l == Or(a.low, b.low)
<1>1. a \in U128 BY DEF LimbsOK
<1>2. /\ a.high \in Nat /\ a.low \in Nat /\ b.high \in Nat /\ b.low \in Nat BY <1>1, LimbsOf
<1>3. /\ h \in Limb /\ l \in Limb
      /\ \A k \in 0..(LimbBits - 1) : /\ Bit(h, k) = MaxOf(Bit(a.high, k), Bit(b.high, k))
                                      /\ Bit(l, k) = MaxOf(Bit(a.low, k), Bit(b.low, k))
  BY <1>2, OrOfLimbs
<1>4. Assign("|=", Val(b), make_uint128(h, l)) BY DEF OrAssign, BitOr
<1> HIDE DEF h, l
<1>5. /\ called = NoCall /\ LimbsOK' /\ Residues!Says("|=", Val(b), "done")
      /\ Val(m_limbs)' \in Residues!Numbers
      /\ \A k \in 0..(LimbBits - 1) : /\ Bit(Val(m_limbs'), k) = Bit(l, k)
                                      /\ Bit(Val(m_limbs'), LimbBits + k) = Bit(h, k)
  BY <1>3, <1>4, BitsRefine
<1>6. \A k \in 0..(Bits - 1) : Bit(Val(m_limbs'), k) = MaxOf(Bit(Val(a), k), Bit(Val(b), k))
  BY <1>1, <1>3, <1>5, BitsOfLimbs, PositionsOfLimbs
<1>7. \A k \in Residues!Positions :
        Residues!Bit(Val(m_limbs)', k)
          = Residues!Either(Residues!Bit(Val(m_limbs), k), Residues!Bit(Val(b), k))
  <2>1. \A x, y \in {0, 1} : MaxOf(x, y) = IF x + y > 0 THEN 1 ELSE 0 BY DEF MaxOf
  <2>2. \A k \in 0..(Bits - 1) : Bit(Val(a), k) \in {0, 1} /\ Bit(Val(b), k) \in {0, 1}
    BY <1>1, LimbsOf, Widths, BitIs
  <2> QED BY <1>6, <2>1, <2>2, ResidueConstants DEF Residues!Bit, Bit, Residues!Either
<1> QED BY <1>5, <1>7 DEF Residues!BitByBit, Residues!SetsBits

\* operator^= takes the bits that one of the numbers has.
LEMMA XorRefines ==
  ASSUME LimbsOK, NEW b \in U128, XorAssign(b)
  PROVE  called = NoCall /\ Residues!BitByBit(Val(b)) /\ LimbsOK'
<1> DEFINE a == m_limbs  h == ExclusiveOr(a.high, b.high)  l == ExclusiveOr(a.low, b.low)
<1>1. a \in U128 BY DEF LimbsOK
<1>2. /\ a.high \in Nat /\ a.low \in Nat /\ b.high \in Nat /\ b.low \in Nat BY <1>1, LimbsOf
<1>3. /\ h \in Limb /\ l \in Limb
      /\ \A k \in 0..(LimbBits - 1) : /\ Bit(h, k) = (Bit(a.high, k) + Bit(b.high, k)) % 2
                                      /\ Bit(l, k) = (Bit(a.low, k) + Bit(b.low, k)) % 2
  BY <1>2, ExclusiveOrOfLimbs
<1>4. Assign("^=", Val(b), make_uint128(h, l)) BY DEF XorAssign, BitXor
<1> HIDE DEF h, l
<1>5. /\ called = NoCall /\ LimbsOK' /\ Residues!Says("^=", Val(b), "done")
      /\ Val(m_limbs)' \in Residues!Numbers
      /\ \A k \in 0..(LimbBits - 1) : /\ Bit(Val(m_limbs'), k) = Bit(l, k)
                                      /\ Bit(Val(m_limbs'), LimbBits + k) = Bit(h, k)
  BY <1>3, <1>4, BitsRefine
<1>6. \A k \in 0..(Bits - 1) : Bit(Val(m_limbs'), k) = (Bit(Val(a), k) + Bit(Val(b), k)) % 2
  BY <1>1, <1>3, <1>5, BitsOfLimbs, PositionsOfLimbs
<1>7. \A k \in Residues!Positions :
        Residues!Bit(Val(m_limbs)', k)
          = Residues!OneOf(Residues!Bit(Val(m_limbs), k), Residues!Bit(Val(b), k))
  BY <1>6, ResidueConstants DEF Residues!Bit, Bit, Residues!OneOf
<1> QED BY <1>5, <1>7 DEF Residues!BitByBit, Residues!SetsBits

-----------------------------------------------------------------------------
(* The refinement *)

\* Every step of the variable is a step of the residues.
LEMMA NextRefines ==
  ASSUME ObjectAssumption, CarriesAreExact, LimbsOK, Next
  PROVE  Residues!Next /\ LimbsOK'
<1>1. \A b \in Operands : b \in U128 /\ Val(b) \in {Val(c) : c \in Operands}
  BY DEF ObjectAssumption
<1>2. \A v \in SignedInts : v \in (-(Base \div 2))..((Base \div 2) - 1)
  BY DEF ObjectAssumption
<1> DEFINE Silence == called = Residues!Silent
<1>3. called = NoCall => Silence BY ResidueConstants
<1>4. ASSUME NEW b \in Operands,
             \/ AddAssign(b) \/ SubtractAssign(b) \/ MultiplyAssign(b)
             \/ AndAssign(b) \/ OrAssign(b) \/ XorAssign(b)
             \/ DivideAssign(b) \/ ModulusAssign(b) \/ Compare(b)
      PROVE  Residues!Next /\ LimbsOK'
  <2>1. /\ called = NoCall /\ LimbsOK'
        /\ \/ Residues!Arithmetic(Val(b)) \/ Residues!BitByBit(Val(b))
           \/ Residues!Divide(Val(b)) \/ Residues!Compare(Val(b))
    BY <1>1, <1>4, AddRefines, SubtractRefines, MultiplyRefines, AndRefines, OrRefines,
       XorRefines, DivideRefines, ModulusRefines, CompareRefines
  <2> QED BY <1>1, <1>3, <2>1 DEF Residues!Next
<1>5. ASSUME NEW b \in Operands, NEW c \in 0..1, AddCarrying(b, c) \/ SubtractBorrowing(b, c)
      PROVE  Residues!Next /\ LimbsOK'
  <2>1. Intrinsics(CalculationMode)
    BY <1>5 DEF CarriesAreExact, CarryOperations, AddCarrying, SubtractBorrowing, Calls
  <2>2. /\ called = NoCall /\ LimbsOK'
        /\ Residues!WithCarry(Val(b), c) \/ Residues!WithBorrow(Val(b), c)
    BY <1>1, <1>5, <2>1, CarryRefines, BorrowRefines
  <2> QED BY <1>1, <1>3, <2>2 DEF Residues!Next
<1>6. ASSUME NEW n \in 0..(Bits - 1),
             ShiftLeftAssign(make_uint128(0, n)) \/ ShiftRightAssign(make_uint128(0, n))
      PROVE  Residues!Next /\ LimbsOK'
  <2>1. called = NoCall /\ Residues!Shift(n) /\ LimbsOK'
    BY <1>6, ShiftLeftRefines, ShiftRightRefines
  <2> QED BY <1>3, <2>1, ResidueConstants DEF Residues!Next
<1>7. CASE PreIncrement \/ PostIncrement \/ PreDecrement \/ PostDecrement
  BY <1>3, <1>7, StepRefines DEF Residues!Next
<1>8. CASE NegateAssign \/ ComplementAssign
  BY <1>3, <1>8, NegateRefines, ComplementRefines DEF Residues!Next
<1>9. CASE most_sign_set_bit
  BY <1>3, <1>9, LeadingBitRefines DEF Residues!Next
<1>10. ASSUME NEW v \in SignedInts, AssignInt(v)
       PROVE  Residues!Next /\ LimbsOK'
  BY <1>2, <1>3, <1>10, AssignIntRefines DEF Residues!Next
<1>11. CASE ReadResult
  BY <1>11, ReadRefines DEF Residues!Next
<1> QED BY <1>4, <1>5, <1>6, <1>7, <1>8, <1>9, <1>10, <1>11 DEF Next

\* Two limbs behave as one number modulo 2^Bits for any width, any operands and in
\* every mode: addition, subtraction, multiplication, division, the bitwise operators,
\* shifts, increments, comparisons and the scan for the leading bit, and, where the
\* mode has instructions for them, the carry functions (uint128.inl).
THEOREM ImplementsResiduesAlways ==
  ASSUME ObjectAssumption, CarriesAreExact
  PROVE  Spec => ImplementsResidues
<1>1. Init => Residues!Init /\ LimbsOK
  BY LimbsOf, Widths, ResidueConstants DEF Init, Residues!Init, LimbsOK
<1>2. LimbsOK /\ [Next]_vars => LimbsOK' /\ [Residues!Next]_<<Val(m_limbs), called>>
  <2> SUFFICES ASSUME LimbsOK, [Next]_vars
               PROVE  LimbsOK' /\ [Residues!Next]_<<Val(m_limbs), called>>
    OBVIOUS
  <2>1. CASE Next BY <2>1, NextRefines
  <2>2. CASE UNCHANGED vars BY <2>2 DEF vars, LimbsOK
  <2> QED BY <2>1, <2>2
<1> QED BY <1>1, <1>2, PTL DEF Spec, ImplementsResidues, Residues!Spec

-----------------------------------------------------------------------------
(* A chain of words *)

\* Words, whatever the function.
Word == 0..(WordBase - 1)

\* What NextWord keeps: the operands are words, the carries bits, and every word and
\* carry so far is what the function returned.
ChainInv ==
  /\ function \in Adding \cup Subtracting
  /\ function \in {"add_builtin", "sub_builtin"} => BuiltinU128 /\ ~ Intrinsics(CalculationMode)
  /\ lhs \in [1..NumWords -> Word] /\ rhs \in [1..NumWords -> Word]
  /\ result \in Seq(Word) /\ Len(result) =< NumWords
  /\ carries \in Seq({0, 1}) /\ Len(carries) = Len(result) + 1 /\ carries[1] = 0
  /\ \A k \in 1..Len(result) :
       LET r == Called(lhs[k], rhs[k], carries[k])
       IN  result[k] = r.word /\ carries[k + 1] = r.carry

\* A word has at least two bits.
LEMMA WordBaseIs == WordBase \in Nat /\ WordBase >= 4
<1>1. Base \in Nat /\ Base >= 4 BY Widths
<1>2. Base * Base \in Nat /\ Base * Base >= 4
  <2>1. \A n \in Nat : n >= 4 => n * n \in Nat /\ n * n >= 4
    <3> TAKE n \in Nat
    <3>1. \A a, b \in Nat : a >= 4 /\ b >= 1 => a * b >= a OBVIOUS
    <3> QED BY <3>1
  <2> QED BY <1>1, <2>1
<1> QED BY <1>1, <1>2 DEF WordBase

\* The weights are the powers of the word base.
LEMMA WeightSteps ==
  Weight[0] = 1 /\ \A k \in Nat : Weight[k] \in Nat \ {0} /\ Weight[k + 1] = WordBase * Weight[k]
<1> DEFINE P == Nat \ {0}
           step == [k \in Nat |-> [s \in P |-> WordBase * s]]
           Eq(h) == h = [k \in Nat |-> IF k = 0 THEN 1 ELSE WordBase * h[k - 1]]
<1>1. step \in [Nat -> [P -> P]] /\ \A k \in Nat, s \in P : step[k][s] = WordBase * s
  <2>1. \A a, b \in Nat \ {0} : a * b \in Nat \ {0} OBVIOUS
  <2>2. WordBase \in Nat \ {0} BY WordBaseIs
  <2> QED BY <2>1, <2>2
<1> HIDE DEF step
<1>2. PICK g : Follows(g, P, 1, step)
  <2>1. 1 \in P OBVIOUS
  <2> HIDE DEF P
  <2> QED BY <1>1, <2>1, Recursion
<1>3. g \in [Nat -> P] /\ g[0] = 1 /\ \A k \in Nat : g[k + 1] = WordBase * g[k]
  <2>1. g \in [Nat -> P] /\ g[0] = 1 /\ \A k \in Nat : g[k + 1] = step[k][g[k]]
    BY <1>2 DEF Follows
  <2> HIDE DEF P
  <2> QED BY <1>1, <2>1
<1>4. Eq(g)
  <2>1. \A k \in Nat : g[k] = IF k = 0 THEN 1 ELSE WordBase * g[k - 1]
    <3> TAKE k \in Nat
    <3>1. k # 0 => k - 1 \in Nat /\ (k - 1) + 1 = k OBVIOUS
    <3> QED BY <3>1, <1>3
  <2>2. g = [k \in Nat |-> g[k]] BY <1>3
  <2> QED BY <2>1, <2>2
<1>5. Weight = CHOOSE h : Eq(h) BY DEF Weight
<1> HIDE DEF Eq
<1>6. Eq(Weight) BY <1>4, <1>5
<1>7. \A k \in Nat : Weight[k] = IF k = 0 THEN 1 ELSE WordBase * Weight[k - 1]
  BY <1>6 DEF Eq
<1>8. Weight[0] = 1 BY <1>7
<1>9. \A k \in Nat : Weight[k + 1] = WordBase * Weight[k]
  <2> TAKE k \in Nat
  <2>1. k + 1 \in Nat /\ k + 1 # 0 /\ (k + 1) - 1 = k OBVIOUS
  <2> QED BY <2>1, <1>7
<1>10. \A k \in Nat : Weight[k] \in P
  <2> TAKE n \in Nat
  <2> DEFINE S == {k \in Nat : Weight[k] \in P}
  <2>1. 0 \in S BY <1>8
  <2>2. \A k \in 0..(n - 1) : k \in S => k + 1 \in S
    <3>1. \A a, b \in Nat \ {0} : a * b \in Nat \ {0} OBVIOUS
    <3>2. WordBase \in Nat \ {0} BY WordBaseIs
    <3> QED BY <3>1, <3>2, <1>9
  <2>3. n \in S
    <3>1. n \in 0..n OBVIOUS
    <3> HIDE DEF S
    <3> QED BY <3>1, <2>1, <2>2, UpTo
  <2> QED BY <2>3
<1> QED BY <1>8, <1>9, <1>10

\* A number grows by its next word at its weight.
LEMMA NumberSteps ==
  \A words : \A n \in Nat : (\A j \in 1..n : words[j] \in Nat) =>
    /\ Number(words, 0) = 0
    /\ \A k \in 0..n : Number(words, k) \in Nat
    /\ \A k \in 0..(n - 1) : Number(words, k + 1) = Number(words, k) + words[k + 1] * Weight[k]
<1> SUFFICES ASSUME NEW n \in Nat, NEW words, \A j \in 1..n : words[j] \in Nat
             PROVE  /\ Number(words, 0) = 0
                    /\ \A k \in 0..n : Number(words, k) \in Nat
                    /\ \A k \in 0..(n - 1) :
                         Number(words, k + 1) = Number(words, k) + words[k + 1] * Weight[k]
  OBVIOUS
<1> DEFINE F(k) == [j \in 1..k |-> words[j] * Weight[j - 1]]
<1>1. ASSUME NEW j \in 1..n
      PROVE  words[j] * Weight[j - 1] \in Nat
  <2>1. words[j] \in Nat /\ Weight[j - 1] \in Nat
    <3>1. j - 1 \in Nat OBVIOUS
    <3> QED BY <3>1, WeightSteps
  <2> QED BY <2>1
<1>2. ASSUME NEW k \in 0..n
      PROVE  /\ k \in Nat /\ Number(words, k) = Total(F(k), k)
             /\ \A j \in 1..k : F(k)[j] \in Nat /\ F(k)[j] = words[j] * Weight[j - 1]
  <2>1. \A j \in 1..k : j \in 1..n /\ F(k)[j] = words[j] * Weight[j - 1] OBVIOUS
  <2> QED BY <2>1, <1>1 DEF Number
<1> HIDE DEF F
<1>3. \A k \in 0..n : Number(words, k) \in Nat
  <2> TAKE k \in 0..n
  <2>1. k \in 0..k /\ k \in Nat OBVIOUS
  <2>2. \A j \in 1..k : F(k)[j] \in Nat BY <1>2
  <2>3. Total(F(k), k) \in Nat BY <2>1, <2>2, TotalSteps
  <2> QED BY <2>3, <1>2
<1>4. Number(words, 0) = 0
  <2>1. 0 \in 0..n OBVIOUS
  <2>2. \A j \in 1..0 : F(0)[j] \in Nat OBVIOUS
  <2>3. Total(F(0), 0) = 0 BY <2>2, TotalSteps
  <2> QED BY <2>1, <2>3, <1>2
<1>5. ASSUME NEW k \in 0..(n - 1)
      PROVE  Number(words, k + 1) = Number(words, k) + words[k + 1] * Weight[k]
  <2>1. k \in 0..n /\ k + 1 \in 0..n /\ k \in Nat /\ k + 1 \in Nat
        /\ k \in 0..((k + 1) - 1) /\ (k + 1) - 1 = k /\ k + 1 \in 1..(k + 1)
    OBVIOUS
  <2>2. Total(F(k + 1), k + 1) = Total(F(k + 1), k) + F(k + 1)[k + 1]
    BY <2>1, <1>2, TotalSteps
  <2>3. F(k + 1)[k + 1] = words[k + 1] * Weight[k] BY <2>1, <1>2
  <2>4. Total(F(k + 1), k) = Total(F(k), k)
    <3>1. \A j \in 1..k : F(k)[j] \in Nat /\ F(k)[j] = F(k + 1)[j]
      <4> TAKE j \in 1..k
      <4>1. j \in 1..(k + 1) OBVIOUS
      <4> QED BY <4>1, <2>1, <1>2
    <3> QED BY <3>1, <2>1, TotalsAgree
  <2> QED BY <2>1, <2>2, <2>3, <2>4, <1>2
<1> QED BY <1>3, <1>4, <1>5

-----------------------------------------------------------------------------
(* One call *)

\* An answer that is the exact sum or difference of the words and the carry.
Right(a, b, c, r) ==
  IF function \in Adding
  THEN r.word + r.carry * WordBase = (a + b) + c
  ELSE r.word - r.carry * WordBase = (a - b) - c

\* The word that a base m leaves of a number, and the carry that goes with it.
LEMMA OneCarry ==
  \A w, o : \A m \in Nat \ {0}, n \in Int :
    o \in {0, 1} =>
      /\ n \in 0..(2 * m - 1) /\ w = (IF n < m THEN n ELSE n - m) =>
           /\ w \in 0..(m - 1)
           /\ w + o * m = n <=> o = (IF n < m THEN 0 ELSE 1)
      /\ n \in (-m)..(m - 1) /\ w = (IF n >= 0 THEN n ELSE n + m) =>
           /\ w \in 0..(m - 1)
           /\ w - o * m = n <=> o = (IF n >= 0 THEN 0 ELSE 1)
<1> SUFFICES ASSUME NEW m \in Nat \ {0}, NEW n \in Int, NEW w, NEW o \in {0, 1}
             PROVE  /\ n \in 0..(2 * m - 1) /\ w = (IF n < m THEN n ELSE n - m) =>
                         /\ w \in 0..(m - 1)
                         /\ w + o * m = n <=> o = (IF n < m THEN 0 ELSE 1)
                    /\ n \in (-m)..(m - 1) /\ w = (IF n >= 0 THEN n ELSE n + m) =>
                         /\ w \in 0..(m - 1)
                         /\ w - o * m = n <=> o = (IF n >= 0 THEN 0 ELSE 1)
  OBVIOUS
<1>1. 0 * m = 0 /\ 1 * m = m OBVIOUS
<1>2. CASE o = 0 BY <1>1, <1>2
<1>3. CASE o = 1 BY <1>1, <1>3
<1> QED BY <1>2, <1>3

\* The limbs of a number are those of make_uint128.
LEMMA LimbsHold == \A n \in 0..(Base * Base - 1) : Limbs(n) \in U128 /\ Val(Limbs(n)) = n
<1> TAKE n \in 0..(Base * Base - 1)
<1>1. Base \in Nat \ {0} /\ n \in Nat /\ n < Base * Base BY Widths
<1>2. n \div Base \in Nat /\ n % Base \in Nat /\ n % Base < Base /\ n = (n \div Base) * Base + (n % Base)
  BY <1>1, DivisionParts
<1>3. n \div Base < Base
  <2>1. \A q, b \in Nat : q >= b => q * b >= b * b OBVIOUS
  <2> DEFINE q == n \div Base  r == n % Base
  <2>2. q \in Nat /\ r \in Nat /\ n = q * Base + r BY <1>2
  <2> HIDE DEF q, r
  <2>3. q * Base \in Nat BY <1>1, <2>2
  <2>4. q < Base BY <1>1, <2>1, <2>2, <2>3
  <2> QED BY <2>4 DEF q
<1> QED BY <1>2, <1>3, MakeLimbs DEF Limbs

\* One call of add_with_carry of int_part.
LEMMA AddLimbCall ==
  ASSUME function = "add_limb", NEW a \in Limb, NEW b \in Limb, NEW c \in {0, 1}
  PROVE  LET r == Called(a, b, c)
         IN  /\ r.word \in Word /\ r.carry \in {0, 1}
             /\ Right(a, b, c, r) <=>
                  Intrinsics(CalculationMode) \/ ~ (a = Base - 1 /\ b = Base - 1 /\ c = 1)
<1> DEFINE r == AddWithCarryLimb(a, b, c)
<1>1. Called(a, b, c) = Answer(r.sum, r.carry) BY DEF Called
<1>2. WordBase = Base /\ function \in Adding BY DEF WordBase, Wide, Adding
<1>3. /\ a \in Nat /\ b \in Nat /\ c \in Nat /\ Base \in Nat \ {0}
      /\ (a + b) + c \in Int /\ (a + b) + c \in 0..(2 * Base - 1)
  <2>1. Base \in Nat /\ Base >= 4 BY Widths
  <2>2. a \in 0..(Base - 1) /\ b \in 0..(Base - 1) BY DEF Limb
  <2> HIDE DEF r
  <2>3. c = 0 \/ c = 1 OBVIOUS
  <2> QED BY <2>1, <2>2, <2>3
<1>4. r.carry \in {0, 1} /\ r.sum = IF (a + b) + c < Base THEN (a + b) + c ELSE ((a + b) + c) - Base
  <2>1. r.sum = IF (a + b) + c < Base THEN (a + b) + c ELSE ((a + b) + c) - Base
    BY AddWithCarryLimbCarries
  <2>2. CASE Intrinsics(CalculationMode)
    <3>1. r.carry = IF (a + b) + c < Base THEN 0 ELSE 1 BY <2>2, AddWithCarryLimbCarries
    <3> QED BY <2>1, <3>1
  <2>3. CASE ~ Intrinsics(CalculationMode)
    <3>1. r.carry \in {0, 1} BY <2>3 DEF AddWithCarryLimb
    <3> QED BY <2>1, <3>1
  <2> QED BY <2>2, <2>3
<1>5. r.carry = (IF (a + b) + c < Base THEN 0 ELSE 1)
        <=> Intrinsics(CalculationMode) \/ ~ (a = Base - 1 /\ b = Base - 1 /\ c = 1)
  <2>1. r.carry = (IF a + b + c < Base THEN 0 ELSE 1)
          <=> Intrinsics(CalculationMode) \/ c = 0 \/ a # Base - 1 \/ b # Base - 1
    BY AddWithCarryLimbCarries
  <2> HIDE DEF r
  <2> QED BY <2>1
<1> HIDE DEF r
<1>6. r.sum \in 0..(Base - 1)
      /\ (r.sum + r.carry * Base = (a + b) + c <=> r.carry = (IF (a + b) + c < Base THEN 0 ELSE 1))
  BY <1>3, <1>4, OneCarry
<1> QED BY <1>1, <1>2, <1>4, <1>5, <1>6 DEF Answer, Right, Word

\* One call of sub_with_borrow of int_part.
LEMMA SubLimbCall ==
  ASSUME function = "sub_limb", NEW a \in Limb, NEW b \in Limb, NEW c \in {0, 1}
  PROVE  LET r == Called(a, b, c)
         IN  /\ r.word \in Word /\ r.carry \in {0, 1}
             /\ Right(a, b, c, r) <=> Intrinsics(CalculationMode) \/ (b = Base - 1 /\ c = 1)
<1> DEFINE r == SubWithBorrowLimb(a, b, c)
<1>1. Called(a, b, c) = Answer(r.difference, r.borrow) BY DEF Called
<1>2. WordBase = Base /\ function \notin Adding BY DEF WordBase, Wide, Adding
<1>3. /\ a \in Nat /\ b \in Nat /\ c \in Nat /\ Base \in Nat \ {0}
      /\ (a - b) - c \in Int /\ (a - b) - c \in (-Base)..(Base - 1)
  <2>1. Base \in Nat /\ Base >= 4 BY Widths
  <2>2. a \in 0..(Base - 1) /\ b \in 0..(Base - 1) BY DEF Limb
  <2> HIDE DEF r
  <2>3. c = 0 \/ c = 1 OBVIOUS
  <2> QED BY <2>1, <2>2, <2>3
<1>4. r.borrow \in {0, 1}
      /\ r.difference = IF (a - b) - c >= 0 THEN (a - b) - c ELSE ((a - b) - c) + Base
  <2>1. r.difference = IF (a - b) - c >= 0 THEN (a - b) - c ELSE ((a - b) - c) + Base
    BY SubWithBorrowLimbBorrows
  <2>2. r.borrow \in {0, 1} BY DEF SubWithBorrowLimb, SUBBORROW_64
  <2> QED BY <2>1, <2>2
<1>5. r.borrow = (IF (a - b) - c >= 0 THEN 0 ELSE 1)
        <=> Intrinsics(CalculationMode) \/ (b = Base - 1 /\ c = 1)
  <2>1. r.borrow = (IF a - b - c >= 0 THEN 0 ELSE 1)
          <=> Intrinsics(CalculationMode) \/ (c = 1 /\ b = Base - 1)
    BY SubWithBorrowLimbBorrows
  <2> HIDE DEF r
  <2> QED BY <2>1
<1> HIDE DEF r
<1>6. r.difference \in 0..(Base - 1)
      /\ (r.difference - r.borrow * Base = (a - b) - c
            <=> r.borrow = (IF (a - b) - c >= 0 THEN 0 ELSE 1))
  BY <1>3, <1>4, OneCarry
<1> QED BY <1>1, <1>2, <1>4, <1>5, <1>6 DEF Answer, Right, Word

\* One call of add_with_carry of uint128.
LEMMA AddWideCall ==
  ASSUME function = "add_uint128",
         NEW a \in 0..(Base * Base - 1), NEW b \in 0..(Base * Base - 1), NEW c \in {0, 1}
  PROVE  LET r == Called(a, b, c)
         IN  /\ r.word \in Word /\ r.carry \in {0, 1}
             /\ Right(a, b, c, r) <=>
                  Intrinsics(CalculationMode) \/ ~ (b = Base * Base - 1 /\ c = 1)
<1> DEFINE r == AddWithCarry(Limbs(a), Limbs(b), c)  M == Base * Base
<1>1. Called(a, b, c) = Answer(Val(r.sum), r.carry) BY DEF Called
<1>2. WordBase = M /\ function \in Adding BY DEF WordBase, Wide, Adding
<1>3. M \in Nat \ {0} BY Widths
<1>4. /\ Limbs(a) \in U128 /\ Val(Limbs(a)) = a
      /\ Limbs(b) \in U128 /\ Val(Limbs(b)) = b
  BY LimbsHold
<1>5. Val(r.sum) = IF (a + b) + c < M THEN (a + b) + c ELSE ((a + b) + c) - M
  <2>1. Val(AddWithCarry(Limbs(a), Limbs(b), c).sum)
          = IF Val(Limbs(a)) + Val(Limbs(b)) + c < M THEN Val(Limbs(a)) + Val(Limbs(b)) + c
            ELSE Val(Limbs(a)) + Val(Limbs(b)) + c - M
    BY <1>4, AddWithCarryCarries
  <2> HIDE DEF M
  <2>2. a \in Nat /\ b \in Nat /\ c \in Nat BY <1>3 DEF M
  <2>3. (a + b) + c - M = ((a + b) + c) - M BY <2>2, <1>3
  <2> QED BY <1>4, <2>1, <2>3
<1>6. r.carry = (IF (a + b) + c < M THEN 0 ELSE 1)
        <=> Intrinsics(CalculationMode) \/ c = 0 \/ b # M - 1
  BY <1>4, AddWithCarryCarries
<1>7. r.carry \in {0, 1}
  <2>1. CASE Intrinsics(CalculationMode) BY <1>6, <2>1
  <2>2. CASE ~ Intrinsics(CalculationMode) BY <2>2 DEF AddWithCarry
  <2> QED BY <2>1, <2>2
<1>8. a \in 0..(M - 1) /\ b \in 0..(M - 1) OBVIOUS
<1> HIDE DEF r, M
<1>9. (a + b) + c \in 0..(2 * M - 1) /\ (a + b) + c \in Int BY <1>3, <1>8
<1>10. /\ Val(r.sum) \in 0..(M - 1)
       /\ Val(r.sum) + r.carry * M = (a + b) + c <=> r.carry = (IF (a + b) + c < M THEN 0 ELSE 1)
  BY <1>3, <1>5, <1>7, <1>9, OneCarry
<1>11. Right(a, b, c, Answer(Val(r.sum), r.carry)) <=> Val(r.sum) + r.carry * M = (a + b) + c
  BY <1>2 DEF Right, Answer
<1>12. Right(a, b, c, Answer(Val(r.sum), r.carry)) <=>
         Intrinsics(CalculationMode) \/ ~ (b = M - 1 /\ c = 1)
  BY <1>6, <1>10, <1>11
<1> QED BY <1>1, <1>2, <1>7, <1>10, <1>12 DEF Answer, Word, M

\* One call of sub_with_borrow of uint128.
LEMMA SubWideCall ==
  ASSUME function = "sub_uint128",
         NEW a \in 0..(Base * Base - 1), NEW b \in 0..(Base * Base - 1), NEW c \in {0, 1}
  PROVE  LET r == Called(a, b, c)
         IN  /\ r.word \in Word /\ r.carry \in {0, 1}
             /\ Right(a, b, c, r) <=>
                  Intrinsics(CalculationMode) \/ ~ (b = Base * Base - 1 /\ c = 1)
<1> DEFINE r == SubWithBorrow(Limbs(a), Limbs(b), c)  M == Base * Base
<1>1. Called(a, b, c) = Answer(Val(r.difference), r.borrow) BY DEF Called
<1>2. WordBase = M /\ function \notin Adding BY DEF WordBase, Wide, Adding
<1>3. M \in Nat \ {0} BY Widths
<1>4. /\ Limbs(a) \in U128 /\ Val(Limbs(a)) = a
      /\ Limbs(b) \in U128 /\ Val(Limbs(b)) = b
  BY LimbsHold
<1>5. Val(r.difference) = IF (a - b) - c >= 0 THEN (a - b) - c ELSE ((a - b) - c) + M
  <2>1. Val(SubWithBorrow(Limbs(a), Limbs(b), c).difference)
          = IF Val(Limbs(a)) - Val(Limbs(b)) - c >= 0 THEN Val(Limbs(a)) - Val(Limbs(b)) - c
            ELSE Val(Limbs(a)) - Val(Limbs(b)) - c + M
    BY <1>4, SubWithBorrowBorrows
  <2> HIDE DEF M
  <2>2. a \in Nat /\ b \in Nat /\ c \in Nat BY <1>3 DEF M
  <2>3. (a - b) - c + M = ((a - b) - c) + M BY <2>2, <1>3
  <2> QED BY <1>4, <2>1, <2>3
<1>6. r.borrow = (IF (a - b) - c >= 0 THEN 0 ELSE 1)
        <=> Intrinsics(CalculationMode) \/ c = 0 \/ b # M - 1
  BY <1>4, SubWithBorrowBorrows
<1>7. r.borrow \in {0, 1}
  <2>1. CASE Intrinsics(CalculationMode) BY <1>6, <2>1
  <2>2. CASE ~ Intrinsics(CalculationMode) BY <2>2 DEF SubWithBorrow
  <2> QED BY <2>1, <2>2
<1>8. a \in 0..(M - 1) /\ b \in 0..(M - 1) OBVIOUS
<1> HIDE DEF r, M
<1>9. (a - b) - c \in (-M)..(M - 1) /\ (a - b) - c \in Int BY <1>3, <1>8
<1>10. /\ Val(r.difference) \in 0..(M - 1)
       /\ Val(r.difference) - r.borrow * M = (a - b) - c
            <=> r.borrow = (IF (a - b) - c >= 0 THEN 0 ELSE 1)
  BY <1>3, <1>5, <1>7, <1>9, OneCarry
<1>11. Right(a, b, c, Answer(Val(r.difference), r.borrow))
         <=> Val(r.difference) - r.borrow * M = (a - b) - c
  BY <1>2 DEF Right, Answer
<1>12. Right(a, b, c, Answer(Val(r.difference), r.borrow)) <=>
         Intrinsics(CalculationMode) \/ ~ (b = M - 1 /\ c = 1)
  BY <1>6, <1>10, <1>11
<1> QED BY <1>1, <1>2, <1>7, <1>10, <1>12 DEF Answer, Word, M

\* One call of add_with_carry of the compiler's integer.
LEMMA AddBuiltinCall ==
  ASSUME function = "add_builtin",
         NEW a \in 0..(Base * Base - 1), NEW b \in 0..(Base * Base - 1), NEW c \in {0, 1}
  PROVE  LET r == Called(a, b, c)
         IN  /\ r.word \in Word /\ r.carry \in {0, 1}
             /\ Right(a, b, c, r) <=> ~ (b = Base * Base - 1 /\ c = 1)
<1> DEFINE r == builtin_add_with_carry(a, b, c)  M == Base * Base
<1>1. Called(a, b, c) = Answer(r.sum, r.carry) BY DEF Called
<1>2. WordBase = M /\ function \in Adding BY DEF WordBase, Wide, Adding
<1>3. M \in Nat \ {0} BY Widths
<1>4. r.sum = ((a + c) + b) % M /\ r.carry = IF r.sum < a THEN 1 ELSE 0
  BY DEF builtin_add_with_carry
<1>5. a \in 0..(M - 1) /\ b \in 0..(M - 1) OBVIOUS
<1> HIDE DEF r, M
<1>6. (a + b) + c \in 0..(2 * M - 1) /\ (a + b) + c \in Int /\ (a + c) + b = (a + b) + c
  BY <1>3, <1>5
<1>7. r.sum = IF (a + b) + c < M THEN (a + b) + c ELSE ((a + b) + c) - M
  <2>1. \A n \in 0..(2 * M - 1) : n % M = IF n < M THEN n ELSE n - M BY <1>3
  <2> QED BY <2>1, <1>4, <1>6
<1>8. r.carry \in {0, 1} /\ (r.carry = (IF (a + b) + c < M THEN 0 ELSE 1) <=> ~ (b = M - 1 /\ c = 1))
  BY <1>3, <1>4, <1>5, <1>7
<1>10. /\ r.sum \in 0..(M - 1)
       /\ r.sum + r.carry * M = (a + b) + c <=> r.carry = (IF (a + b) + c < M THEN 0 ELSE 1)
  BY <1>3, <1>6, <1>7, <1>8, OneCarry
<1>11. Right(a, b, c, Answer(r.sum, r.carry)) <=> r.sum + r.carry * M = (a + b) + c
  BY <1>2 DEF Right, Answer
<1> QED BY <1>1, <1>2, <1>8, <1>10, <1>11 DEF Answer, Word, M

\* One call of sub_with_borrow of the compiler's integer.
LEMMA SubBuiltinCall ==
  ASSUME function = "sub_builtin",
         NEW a \in 0..(Base * Base - 1), NEW b \in 0..(Base * Base - 1), NEW c \in {0, 1}
  PROVE  LET r == Called(a, b, c)
         IN  /\ r.word \in Word /\ r.carry \in {0, 1}
             /\ Right(a, b, c, r) <=> ~ (b = Base * Base - 1 /\ c = 1)
<1> DEFINE r == builtin_sub_with_borrow(a, b, c)  M == Base * Base
<1>1. Called(a, b, c) = Answer(r.difference, r.borrow) BY DEF Called
<1>2. WordBase = M /\ function \notin Adding BY DEF WordBase, Wide, Adding
<1>3. M \in Nat \ {0} BY Widths
<1>4. r.difference = ((a - c) - b) % M /\ r.borrow = IF r.difference > a THEN 1 ELSE 0
  BY DEF builtin_sub_with_borrow
<1>5. a \in 0..(M - 1) /\ b \in 0..(M - 1) OBVIOUS
<1> HIDE DEF r, M
<1>6. (a - b) - c \in (-M)..(M - 1) /\ (a - b) - c \in Int /\ (a - c) - b = (a - b) - c
  BY <1>3, <1>5
<1>7. r.difference = IF (a - b) - c >= 0 THEN (a - b) - c ELSE ((a - b) - c) + M
  <2>1. \A n \in (-M)..(M - 1) : n % M = IF n >= 0 THEN n ELSE n + M BY <1>3
  <2> QED BY <2>1, <1>4, <1>6
<1>8. r.borrow \in {0, 1}
      /\ (r.borrow = (IF (a - b) - c >= 0 THEN 0 ELSE 1) <=> ~ (b = M - 1 /\ c = 1))
  BY <1>3, <1>4, <1>5, <1>7
<1>10. /\ r.difference \in 0..(M - 1)
       /\ r.difference - r.borrow * M = (a - b) - c
            <=> r.borrow = (IF (a - b) - c >= 0 THEN 0 ELSE 1)
  BY <1>3, <1>6, <1>7, <1>8, OneCarry
<1>11. Right(a, b, c, Answer(r.difference, r.borrow)) <=> r.difference - r.borrow * M = (a - b) - c
  BY <1>2 DEF Right, Answer
<1> QED BY <1>1, <1>2, <1>8, <1>10, <1>11 DEF Answer, Word, M

\* One call of add_with_carry of the limb containers, in its three forms.
LEMMA AddContainerCall ==
  ASSUME function = "add_container", Intrinsics(CalculationMode) => LittleEndian,
         NEW a \in Limb, NEW b \in Limb, NEW c \in {0, 1}
  PROVE  LET r == Called(a, b, c)
         IN  /\ r.word \in Word /\ r.carry \in {0, 1}
             /\ Right(a, b, c, r) <=>
                  Intrinsics(CalculationMode) \/ BuiltinU128 \/ c = 0
<1> DEFINE r == container_add_with_carry(a, b, c)  w == get_sum(r)  o == get_carry_out(r)
<1>1. Called(a, b, c) = Answer(w, o) BY DEF Called
<1>2. WordBase = Base /\ function \in Adding BY DEF WordBase, Wide, Adding
<1>3. /\ a \in Nat /\ b \in Nat /\ c \in Nat /\ Base \in Nat \ {0} /\ a < Base /\ b < Base
      /\ (a + b) + c \in Int /\ (a + b) + c \in 0..(2 * Base - 1)
      /\ a + b \in Int /\ a + b \in 0..(2 * Base - 1)
  <2>1. Base \in Nat /\ Base >= 4 BY Widths
  <2>2. a \in 0..(Base - 1) /\ b \in 0..(Base - 1) BY DEF Limb
  <2>3. c = 0 \/ c = 1 OBVIOUS
  <2> HIDE DEF r, w, o
  <2> QED BY <2>1, <2>2, <2>3
<1>4. \A s, t : get_sum(add_carry_result_t(s, t)) = s /\ get_carry_out(add_carry_result_t(s, t)) = t
  BY DEF get_sum, get_carry_out, add_carry_result_t
<1>5. \A n \in 0..(2 * Base - 1) :
        /\ Wrap(n) = IF n < Base THEN n ELSE n - Base
        /\ n \div Base = IF n < Base THEN 0 ELSE 1
  <2> HIDE DEF r, w, o
  <2>1. \A n \in 0..(2 * Base - 1) : n \in Nat /\ n < Base + Base BY <1>3
  <2> QED BY <2>1, WrapOnce
<1>6. CASE Intrinsics(CalculationMode) \/ BuiltinU128
  <2>1. w = Wrap((a + b) + c) /\ o = IF (a + b) + c < Base THEN 0 ELSE 1
    <3>1. CASE Intrinsics(CalculationMode)
      <4>1. ADDCARRY64(c, a, b).sum = Wrap((a + b) + c)
            /\ ADDCARRY64(c, a, b).carry = ((a + b) + c) \div Base
        BY DEF ADDCARRY64
      <4>2. w = ADDCARRY64(c, a, b).sum /\ o = ADDCARRY64(c, a, b).carry
        BY <3>1, <1>4 DEF container_add_with_carry
      <4> HIDE DEF w, o
      <4> QED BY <4>1, <4>2, <1>3, <1>5
    <3>2. CASE ~ Intrinsics(CalculationMode) /\ BuiltinU128
      <4>1. w = Wrap((a + b) + c) /\ o = IF (a + b) + c > Base - 1 THEN 1 ELSE 0
        BY <3>2, <1>4 DEF container_add_with_carry
      <4> HIDE DEF w, o
      <4> QED BY <4>1, <1>3
    <3> QED BY <1>6, <3>1, <3>2
  <2> HIDE DEF r, w, o
  <2>2. w = IF (a + b) + c < Base THEN (a + b) + c ELSE ((a + b) + c) - Base
    BY <2>1, <1>3, <1>5
  <2>3. o \in {0, 1} BY <2>1
  <2>4. w \in 0..(Base - 1) /\ w + o * Base = (a + b) + c
    BY <2>1, <2>2, <2>3, <1>3, OneCarry
  <2> QED BY <1>1, <1>2, <1>6, <2>3, <2>4 DEF Answer, Word, Right
<1>7. CASE ~ (Intrinsics(CalculationMode) \/ BuiltinU128)
  <2>1. w = Wrap(a + b) /\ o = IF w < a THEN 1 ELSE 0
    BY <1>7, <1>4 DEF container_add_with_carry
  <2> HIDE DEF r, w, o
  <2>2. w = (IF a + b < Base THEN a + b ELSE (a + b) - Base)
    BY <2>1, <1>3, <1>5
  <2>3. o \in {0, 1} /\ o = (IF a + b < Base THEN 0 ELSE 1) BY <2>1, <2>2, <1>3
  <2>4. w \in 0..(Base - 1) /\ w + o * Base = a + b
    BY <2>2, <2>3, <1>3, OneCarry
  <2>5. Right(a, b, c, Answer(w, o)) <=> w + o * Base = (a + b) + c
    BY <1>2 DEF Right, Answer
  <2>6. Right(a, b, c, Answer(w, o)) <=> c = 0
    BY <2>4, <2>5, <1>3
  <2> QED BY <1>1, <1>2, <1>7, <2>3, <2>4, <2>6 DEF Answer, Word
<1> QED BY <1>6, <1>7

\* Whatever the function, its answer is a word and a bit, and is right but for the
\* words that it misjudges (uint128.inl, fixed_uint_container_math.hpp).
THEOREM MisjudgedOrRight ==
  ASSUME ChainAssumption, ChainInv, NEW k \in 1..NumWords, k =< Len(result) + 1
  PROVE  LET r == Called(lhs[k], rhs[k], carries[k])
         IN  /\ r.word \in Word /\ r.carry \in {0, 1}
             /\ Right(lhs[k], rhs[k], carries[k], r) <=> ~ Misjudged(k)
<1> DEFINE a == lhs[k]  b == rhs[k]  c == carries[k]
<1>1. a \in Word /\ b \in Word BY DEF ChainInv
<1>2. c \in {0, 1}
  <2>1. NumWords \in Nat BY DEF ChainAssumption
  <2>2. carries \in Seq({0, 1}) /\ Len(carries) = Len(result) + 1 BY DEF ChainInv
  <2> QED BY <2>1, <2>2
<1>3. Misjudged(k) <=>
        ~ Intrinsics(CalculationMode) /\
        CASE function = "add_limb" -> a = WordBase - 1 /\ b = WordBase - 1 /\ c = 1
          [] function \in Wide -> b = WordBase - 1 /\ c = 1
          [] function = "sub_limb" -> ~ (b = WordBase - 1 /\ c = 1)
          [] function = "add_container" -> ~ BuiltinU128 /\ c = 1
  BY Zenon DEF Misjudged
<1>4. function \in Wide => WordBase = Base * Base BY DEF WordBase
<1>5. function \notin Wide => WordBase = Base /\ Word = Limb BY DEF WordBase, Word, Limb
<1>6. function \in Wide => Word = 0..(Base * Base - 1) BY <1>4 DEF Word
<1> HIDE DEF a, b, c
<1> SUFFICES LET r == Called(a, b, c)
             IN  /\ r.word \in Word /\ r.carry \in {0, 1}
                 /\ Right(a, b, c, r) <=> ~ Misjudged(k)
  BY DEF a, b, c
<1>7. CASE function = "add_limb"
  <2>1. function \notin Wide BY <1>7 DEF Wide
  <2>2. Misjudged(k) <=> ~ Intrinsics(CalculationMode) /\ a = Base - 1 /\ b = Base - 1 /\ c = 1
    BY <1>3, <1>5, <1>7, <2>1
  <2> QED BY <1>1, <1>2, <1>5, <1>7, <2>1, <2>2, AddLimbCall
<1>8. CASE function = "sub_limb"
  <2>1. function \notin Wide BY <1>8 DEF Wide
  <2>2. Misjudged(k) <=> ~ Intrinsics(CalculationMode) /\ ~ (b = Base - 1 /\ c = 1)
    BY <1>3, <1>5, <1>8, <2>1
  <2> QED BY <1>1, <1>2, <1>5, <1>8, <2>1, <2>2, SubLimbCall
<1>9. ASSUME function \in Wide
      PROVE  Misjudged(k) <=> ~ Intrinsics(CalculationMode) /\ b = Base * Base - 1 /\ c = 1
  <2>1. function # "add_limb" /\ function # "sub_limb" /\ function # "add_container"
    BY <1>9 DEF Wide
  <2> QED BY <1>3, <1>4, <1>9, <2>1
<1>10. CASE function = "add_uint128"
  <2>1. function \in Wide BY <1>10 DEF Wide
  <2> QED BY <1>1, <1>2, <1>6, <1>9, <1>10, <2>1, AddWideCall
<1>11. CASE function = "sub_uint128"
  <2>1. function \in Wide BY <1>11 DEF Wide
  <2> QED BY <1>1, <1>2, <1>6, <1>9, <1>11, <2>1, SubWideCall
<1>12. CASE function = "add_builtin"
  <2>1. function \in Wide BY <1>12 DEF Wide
  <2>2. ~ Intrinsics(CalculationMode) BY <1>12 DEF ChainInv
  <2> QED BY <1>1, <1>2, <1>6, <1>9, <1>12, <2>1, <2>2, AddBuiltinCall
<1>13. CASE function = "sub_builtin"
  <2>1. function \in Wide BY <1>13 DEF Wide
  <2>2. ~ Intrinsics(CalculationMode) BY <1>13 DEF ChainInv
  <2> QED BY <1>1, <1>2, <1>6, <1>9, <1>13, <2>1, <2>2, SubBuiltinCall
<1>14. CASE function = "add_container"
  <2>1. function \notin Wide BY <1>14 DEF Wide
  <2>2. Misjudged(k) <=> ~ Intrinsics(CalculationMode) /\ ~ BuiltinU128 /\ c = 1
    BY <1>3, <1>14, <2>1
  <2>3. Intrinsics(CalculationMode) => LittleEndian BY DEF ChainAssumption
  <2> QED BY <1>1, <1>2, <1>5, <1>14, <2>1, <2>2, <2>3, AddContainerCall
<1> QED BY <1>7, <1>8, <1>10, <1>11, <1>12, <1>13, <1>14 DEF ChainInv, Adding, Subtracting

-----------------------------------------------------------------------------
(* The chain *)

\* A word more leaves the chain exact if and only if it is not misjudged.
LEMMA OneWordMore ==
  ASSUME ChainAssumption, ChainInv, NEW k \in 0..(Len(result) - 1), Exact(k)
  PROVE  Exact(k + 1) <=> ~ Misjudged(k + 1)
<1> DEFINE L == Len(result)  n == NumWords
<1>1. L \in Nat /\ n \in Nat /\ L =< n BY DEF ChainInv, ChainAssumption
<1>2. /\ k \in Nat /\ k + 1 \in 1..L /\ k + 1 \in 1..n /\ k + 1 =< L + 1
      /\ (k + 1) + 1 \in 1..(L + 1) /\ k + 1 \in 1..(L + 1) /\ k \in 0..(n - 1)
  BY <1>1
<1>3. \A w \in Word : w \in Nat BY WordBaseIs DEF Word
<1>4. /\ \A j \in 1..n : lhs[j] \in Nat /\ rhs[j] \in Nat
      /\ \A j \in 1..L : result[j] \in Nat
  <2>1. lhs \in [1..n -> Word] /\ rhs \in [1..n -> Word] /\ result \in Seq(Word) BY DEF ChainInv
  <2>2. \A j \in 1..L : result[j] \in Word BY <2>1
  <2> QED BY <2>1, <2>2, <1>3
<1>5. \A j \in 1..(L + 1) : carries[j] \in {0, 1}
  <2>1. carries \in Seq({0, 1}) /\ Len(carries) = L + 1 BY DEF ChainInv
  <2> QED BY <2>1
<1> DEFINE W == Weight[k]  M == WordBase
           a == lhs[k + 1]  b == rhs[k + 1]  c == carries[k + 1]
           w == result[k + 1]  o == carries[(k + 1) + 1]
           A == Number(lhs, k)  B == Number(rhs, k)  R == Number(result, k)
           A2 == Number(lhs, k + 1)  B2 == Number(rhs, k + 1)  R2 == Number(result, k + 1)
<1>6. W \in Nat \ {0} /\ Weight[k + 1] = M * W BY <1>2, WeightSteps
<1>7. A \in Nat /\ A2 = A + a * W
  <2>1. n \in Nat /\ k \in 0..n /\ k \in 0..(n - 1) BY <1>1, <1>2
  <2>2. \A j \in 1..n : lhs[j] \in Nat BY <1>4
  <2>3. /\ \A i \in 0..n : Number(lhs, i) \in Nat
        /\ \A i \in 0..(n - 1) : Number(lhs, i + 1) = Number(lhs, i) + lhs[i + 1] * Weight[i]
    BY <2>1, <2>2, NumberSteps
  <2> QED BY <2>1, <2>3
<1>8. B \in Nat /\ B2 = B + b * W
  <2>1. n \in Nat /\ k \in 0..n /\ k \in 0..(n - 1) BY <1>1, <1>2
  <2>2. \A j \in 1..n : rhs[j] \in Nat BY <1>4
  <2>3. /\ \A i \in 0..n : Number(rhs, i) \in Nat
        /\ \A i \in 0..(n - 1) : Number(rhs, i + 1) = Number(rhs, i) + rhs[i + 1] * Weight[i]
    BY <2>1, <2>2, NumberSteps
  <2> QED BY <2>1, <2>3
<1>9. R \in Nat /\ R2 = R + w * W
  <2>1. L \in Nat /\ k \in 0..L /\ k \in 0..(L - 1) BY <1>1, <1>2
  <2>2. \A j \in 1..L : result[j] \in Nat BY <1>4
  <2>3. /\ \A i \in 0..L : Number(result, i) \in Nat
        /\ \A i \in 0..(L - 1) : Number(result, i + 1) = Number(result, i) + result[i + 1] * Weight[i]
    BY <2>1, <2>2, NumberSteps
  <2> QED BY <2>1, <2>3
<1>10. /\ a \in Nat /\ b \in Nat /\ w \in Nat /\ M \in Nat
       /\ c \in {0, 1} /\ o \in {0, 1}
  BY <1>2, <1>4, <1>5, WordBaseIs
<1>11. (IF function \in Adding THEN w + o * M = (a + b) + c ELSE w - o * M = (a - b) - c)
         <=> ~ Misjudged(k + 1)
  <2> DEFINE r == Called(a, b, c)
  <2>1. w = r.word /\ o = r.carry BY <1>2 DEF ChainInv
  <2>2. Right(a, b, c, r) <=> ~ Misjudged(k + 1) BY <1>2, MisjudgedOrRight
  <2> HIDE DEF r
  <2>3. Right(a, b, c, r) <=>
          IF function \in Adding THEN w + o * M = (a + b) + c ELSE w - o * M = (a - b) - c
    <3> HIDE DEF a, b, c, w, o
    <3> QED BY <2>1 DEF Right
  <2> QED BY <2>2, <2>3
<1>12. IF function \in Adding THEN R + c * W = A + B ELSE R - c * W = A - B
  BY DEF Exact
<1>13. Exact(k + 1) <=>
         IF function \in Adding THEN R2 + o * (M * W) = A2 + B2 ELSE R2 - o * (M * W) = A2 - B2
  BY <1>6 DEF Exact
<1> HIDE DEF W, M, a, b, c, w, o, A, B, R, A2, B2, R2
<1>14. \A x, y \in Int : x * W = y * W <=> x = y BY <1>6
<1>15. c \in Nat /\ o \in Nat BY <1>10
<1>16. /\ a * W \in Nat /\ b * W \in Nat /\ c * W \in Nat /\ w * W \in Nat
       /\ o * M \in Nat /\ M * W \in Nat /\ o * (M * W) \in Nat
  BY <1>6, <1>10, <1>15
<1>17. CASE function \in Adding
  <2>1. (w + o * M) * W = w * W + o * (M * W) BY <1>6, <1>10, <1>15
  <2>2. ((a + b) + c) * W = (a * W + b * W) + c * W BY <1>6, <1>10, <1>15
  <2>3. R2 + o * (M * W) = A2 + B2 <=> w * W + o * (M * W) = (a * W + b * W) + c * W
    <3> DEFINE aW == a * W  bW == b * W  cW == c * W  wW == w * W  oMW == o * (M * W)
    <3>1. /\ aW \in Nat /\ bW \in Nat /\ cW \in Nat /\ wW \in Nat /\ oMW \in Nat
          /\ A2 = A + aW /\ B2 = B + bW /\ R2 = R + wW /\ R + cW = A + B
          /\ A \in Nat /\ B \in Nat /\ R \in Nat
      BY <1>7, <1>8, <1>9, <1>12, <1>16, <1>17
    <3> HIDE DEF aW, bW, cW, wW, oMW
    <3>2. R2 + oMW = A2 + B2 <=> wW + oMW = (aW + bW) + cW BY <3>1
    <3> QED BY <3>2 DEF aW, bW, cW, wW, oMW
  <2>4. w + o * M \in Int /\ (a + b) + c \in Int BY <1>10, <1>15, <1>16
  <2>5. R2 + o * (M * W) = A2 + B2 <=> w + o * M = (a + b) + c
    BY <2>1, <2>2, <2>3, <2>4, <1>14
  <2> QED BY <2>5, <1>11, <1>13, <1>17
<1>18. CASE function \notin Adding
  <2>1. (w - o * M) * W = w * W - o * (M * W) BY <1>6, <1>10, <1>15
  <2>2. ((a - b) - c) * W = (a * W - b * W) - c * W BY <1>6, <1>10, <1>15
  <2>3. R2 - o * (M * W) = A2 - B2 <=> w * W - o * (M * W) = (a * W - b * W) - c * W
    <3> DEFINE aW == a * W  bW == b * W  cW == c * W  wW == w * W  oMW == o * (M * W)
    <3>1. /\ aW \in Nat /\ bW \in Nat /\ cW \in Nat /\ wW \in Nat /\ oMW \in Nat
          /\ A2 = A + aW /\ B2 = B + bW /\ R2 = R + wW /\ R - cW = A - B
          /\ A \in Nat /\ B \in Nat /\ R \in Nat
      BY <1>7, <1>8, <1>9, <1>12, <1>16, <1>18
    <3> HIDE DEF aW, bW, cW, wW, oMW
    <3>2. R2 - oMW = A2 - B2 <=> wW - oMW = (aW - bW) - cW BY <3>1
    <3> QED BY <3>2 DEF aW, bW, cW, wW, oMW
  <2>4. w - o * M \in Int /\ (a - b) - c \in Int BY <1>10, <1>15, <1>16
  <2>5. R2 - o * (M * W) = A2 - B2 <=> w - o * M = (a - b) - c
    BY <2>1, <2>2, <2>3, <2>4, <1>14
  <2> QED BY <2>5, <1>11, <1>13, <1>18
<1> QED BY <1>17, <1>18

\* Before the first word nothing has been added.
LEMMA ExactAtFirst == ASSUME ChainAssumption, ChainInv PROVE Exact(0)
<1>1. carries[0 + 1] * Weight[0] = 0
  <2>1. carries[0 + 1] = 0 BY DEF ChainInv
  <2> QED BY <2>1, WeightSteps
<1>2. Number(lhs, 0) = 0 /\ Number(rhs, 0) = 0 /\ Number(result, 0) = 0
  <2>1. \A words : \A j \in 1..0 : words[j] \in Nat OBVIOUS
  <2> QED BY <2>1, NumberSteps
<1> QED BY <1>1, <1>2 DEF Exact

\* A chain that keeps ChainInv is exact up to the first misjudged word and no further.
LEMMA ExactAsFar == ASSUME ChainAssumption, ChainInv PROVE ExactUntilMisjudged
<1> DEFINE L == Len(result)
<1>1. L \in Nat BY DEF ChainInv
<1>2. ASSUME \A k \in 1..L : ~ Misjudged(k)
      PROVE  \A k \in 1..L : Exact(k)
  <2> DEFINE S == {k \in 0..L : Exact(k)}
  <2>1. 0 \in S BY <1>1, ExactAtFirst
  <2>2. \A k \in 0..(L - 1) : k \in S => k + 1 \in S
    <3> SUFFICES ASSUME NEW k \in 0..(L - 1), Exact(k) PROVE k + 1 \in 0..L /\ Exact(k + 1)
      OBVIOUS
    <3>1. k + 1 \in 1..L /\ k + 1 \in 0..L BY <1>1
    <3> QED BY <3>1, <1>2, OneWordMore
  <2>3. \A k \in 0..L : k \in S
    <3> HIDE DEF S, L
    <3> QED BY <1>1, <2>1, <2>2, UpTo
  <2>4. \A k \in 1..L : k \in 0..L BY <1>1
  <2> QED BY <2>3, <2>4
<1>3. ASSUME \A k \in 1..L : Exact(k)
      PROVE  \A k \in 1..L : ~ Misjudged(k)
  <2> TAKE k \in 1..L
  <2>1. k - 1 \in 0..(L - 1) /\ (k - 1) + 1 = k /\ (k - 1 = 0 \/ k - 1 \in 1..L) BY <1>1
  <2>2. Exact(k - 1) BY <2>1, <1>3, ExactAtFirst
  <2>3. Exact(k) BY <1>3
  <2>4. Exact((k - 1) + 1) <=> ~ Misjudged((k - 1) + 1) BY <2>1, <2>2, OneWordMore
  <2> QED BY <2>1, <2>3, <2>4
<1> QED BY <1>2, <1>3 DEF ExactUntilMisjudged

\* A chain starts with its operands, no word and no carry.
LEMMA ChainStarts == ASSUME ChainAssumption PROVE ChainInit => ChainInv
<1> SUFFICES ASSUME ChainInit PROVE ChainInv OBVIOUS
<1>1. lhs \in [1..NumWords -> Word] /\ rhs \in [1..NumWords -> Word]
  <2>1. PICK words : /\ words = IF function \in Wide THEN WideWords ELSE LimbWords
                     /\ lhs \in [1..NumWords -> words] /\ rhs \in [1..NumWords -> words]
    BY DEF ChainInit
  <2>2. words \subseteq Word
    BY <2>1 DEF ChainAssumption, Word, WordBase, Limb
  <2> QED BY <2>1, <2>2
<1>2. /\ result \in Seq(Word) /\ Len(result) = 0
      /\ carries \in Seq({0, 1}) /\ Len(carries) = 1 /\ carries[1] = 0
  BY DEF ChainInit
<1>3. NumWords \in Nat BY DEF ChainAssumption
<1> QED BY <1>1, <1>2, <1>3 DEF ChainInit, ChainInv

\* The next word of a chain is what the carry function returns for it.
LEMMA ChainKeeps == ASSUME ChainAssumption PROVE ChainInv /\ [NextWord]_chainVars => ChainInv'
<1> SUFFICES ASSUME ChainInv, [NextWord]_chainVars PROVE ChainInv' OBVIOUS
<1>1. CASE NextWord
  <2> DEFINE k == Len(result) + 1
             r == Called(lhs[k], rhs[k], carries[k])
  <2>1. Len(result) \in Nat /\ k \in 1..NumWords /\ k =< Len(result) + 1
    BY <1>1 DEF NextWord, ChainInv, ChainAssumption
  <2>2. /\ result' = Append(result, r.word) /\ carries' = Append(carries, r.carry)
        /\ function' = function /\ lhs' = lhs /\ rhs' = rhs
    BY <1>1 DEF NextWord
  <2>3. r.word \in Word /\ r.carry \in {0, 1} BY <2>1, MisjudgedOrRight
  <2>4. Word' = Word /\ \A x, y, z : Called(x, y, z)' = Called(x, y, z)
    BY <2>2 DEF Word, WordBase, Called
  <2>5. /\ result \in Seq(Word) /\ carries \in Seq({0, 1})
        /\ Len(carries) = Len(result) + 1 /\ carries[1] = 0
    BY DEF ChainInv
  <2> HIDE DEF r
  <2>6. /\ result' \in Seq(Word) /\ Len(result') = k
        /\ result'[k] = r.word /\ \A j \in 1..Len(result) : result'[j] = result[j]
    BY <2>2, <2>3, <2>5
  <2>7. /\ carries' \in Seq({0, 1}) /\ Len(carries') = k + 1
        /\ carries'[k + 1] = r.carry /\ \A j \in 1..k : carries'[j] = carries[j]
    BY <2>1, <2>2, <2>3, <2>5
  <2>8. carries'[1] = 0 BY <2>1, <2>5, <2>7
  <2>9. ASSUME NEW j \in 1..Len(result')
        PROVE  LET s == Called(lhs[j], rhs[j], carries'[j])
               IN  result'[j] = s.word /\ carries'[j + 1] = s.carry
    <3>1. CASE j = k BY <3>1, <2>1, <2>6, <2>7 DEF r
    <3>2. CASE j # k
      <4>1. j \in 1..Len(result) /\ j \in 1..k /\ j + 1 \in 1..k BY <3>2, <2>1, <2>6
      <4>2. carries'[j] = carries[j] /\ carries'[j + 1] = carries[j + 1] /\ result'[j] = result[j]
        BY <4>1, <2>6, <2>7
      <4> QED BY <4>1, <4>2 DEF ChainInv
    <3> QED BY <3>1, <3>2
  <2>10. \A j \in 1..Len(result') :
           LET s == Called(lhs[j], rhs[j], carries[j])'
           IN  result'[j] = s.word /\ carries'[j + 1] = s.carry
    BY <2>2, <2>4, <2>9
  <2> HIDE DEF k
  <2>11. k =< NumWords BY <2>1
  <2> QED BY <2>2, <2>4, <2>6, <2>7, <2>8, <2>10, <2>11 DEF ChainInv
<1>2. CASE UNCHANGED chainVars
  BY <1>2 DEF ChainInv, chainVars, Word, WordBase, Called
<1> QED BY <1>1, <1>2

\* A chain of any number of words, of any width and in any mode, is exact up to the
\* first word that its carry function misjudges, and no further.
THEOREM ChainsAreExact == ASSUME ChainAssumption PROVE ChainSpec => []ExactUntilMisjudged
<1>1. ChainInit => ChainInv BY ChainStarts
<1>2. ChainInv /\ [NextWord]_chainVars => ChainInv' BY ChainKeeps
<1>3. ChainInv => ExactUntilMisjudged BY ExactAsFar
<1> QED BY <1>1, <1>2, <1>3, PTL DEF ChainSpec

-----------------------------------------------------------------------------
(* Rounding to a number of digits *)

\* The numbers that d digits can hold, at whatever weight.
Grid(d) == {m * Pow2[k] : m \in 0..(Pow2[d] - 1), k \in Nat}

\* e is the weight of the last of d digits of n.
Weighs(d, n, e) == e \in Nat /\ n < Pow2[d + e] /\ (e > 0 => n >= Pow2[d + e - 1])

\* The multiple of s nearest to n; of two, the even one.
Nearest(n, s) ==
  LET down == (n \div s) * s
      over == 2 * (n - down)
  IN  IF over > s \/ (over = s /\ (n \div s) % 2 = 1) THEN down + s ELSE down

\* n rounded to d digits is r.
Rounds(d, n, r) == \E e \in Nat : Weighs(d, n, e) /\ r = Nearest(n, Pow2[e])

\* What is nearest to q steps and t.
LEMMA NearestIs ==
  ASSUME NEW q \in Nat, NEW s \in Nat \ {0}, NEW t \in Nat, t < s
  PROVE  Nearest(q * s + t, s) =
           IF 2 * t > s \/ (2 * t = s /\ q % 2 = 1) THEN (q + 1) * s ELSE q * s
<1> DEFINE n == q * s + t
<1>1. n \div s = q BY DivisionUnique
<1>2. q * s \in Nat /\ (q + 1) * s = q * s + s OBVIOUS
<1>3. n - q * s = t BY <1>2
<1> HIDE DEF n
<1> QED BY <1>1, <1>2, <1>3 DEF Nearest, n

\* A number below 2^(d + k) has a weight.
LEMMA WeightExists ==
  ASSUME NEW d \in Nat \ {0}, NEW n \in Nat, NEW k \in Nat, n < Pow2[d + k]
  PROVE  \E e \in 0..k : Weighs(d, n, e)
<1> DEFINE S == {e \in Nat : n < Pow2[d + e]}
<1>1. k \in S /\ S \in SUBSET Nat /\ S # {} OBVIOUS
<1>2. PICK e \in S : \A j \in S : e =< j BY <1>1, Least
<1>3. e \in Nat /\ e =< k /\ n < Pow2[d + e] BY <1>1, <1>2
<1>4. e > 0 => n >= Pow2[d + e - 1]
  <2> SUFFICES ASSUME e > 0 PROVE n >= Pow2[d + e - 1] OBVIOUS
  <2>1. e - 1 \in Nat /\ e - 1 \notin S BY <1>2, <1>3
  <2>2. d + (e - 1) = d + e - 1 /\ d + e - 1 \in Nat BY <1>3
  <2>3. Pow2[d + e - 1] \in Nat BY <2>2, PowPositive
  <2> QED BY <2>1, <2>2, <2>3
<1> QED BY <1>3, <1>4 DEF Weighs

\* What d digits hold and what is no less than n is a multiple of n's weight.
LEMMA GridMultiple ==
  ASSUME NEW d \in Nat \ {0}, NEW g \in Grid(d), NEW e \in Nat, e > 0 => g >= Pow2[d + e - 1]
  PROVE  \E q \in Nat : g = q * Pow2[e]
<1>1. PICK m \in 0..(Pow2[d] - 1), k \in Nat : g = m * Pow2[k] BY DEF Grid
<1>2. Pow2[d] \in Nat \ {0} /\ Pow2[k] \in Nat \ {0} /\ Pow2[e] \in Nat \ {0} /\ m \in Nat
  BY <1>1, PowPositive
<1>3. CASE e =< k
  <2>1. k - e \in Nat /\ (k - e) + e = k BY <1>1, <1>3
  <2>2. Pow2[k] = Pow2[k - e] * Pow2[e] /\ Pow2[k - e] \in Nat BY <2>1, PowSum, PowPositive
  <2>3. g = (m * Pow2[k - e]) * Pow2[e] /\ m * Pow2[k - e] \in Nat BY <1>1, <1>2, <2>2
  <2> QED BY <2>3
<1>4. CASE e > k
  <2>1. e > 0 /\ g >= Pow2[d + e - 1] BY <1>4
  <2>2. d + e - 1 \in Nat /\ d + k \in Nat /\ d + k =< d + e - 1 BY <1>1, <1>4
  <2>3. Pow2[d + k] =< Pow2[d + e - 1] /\ Pow2[d + k] = Pow2[d] * Pow2[k] BY <1>1, <2>2, PowSum, PowMonotone
  <2>4. \A a, p, b \in Nat : a < p /\ b > 0 => a * b < p * b OBVIOUS
  <2>5. m * Pow2[k] < Pow2[d] * Pow2[k] BY <1>1, <1>2, <2>4
  <2>6. Pow2[d + k] \in Nat /\ Pow2[d + e - 1] \in Nat BY <2>2, PowPositive
  <2> QED BY <1>1, <2>1, <2>3, <2>5, <2>6
<1> QED BY <1>1, <1>3, <1>4

\* What d digits hold is a natural number, and rounds to itself.
LEMMA GridRounds ==
  ASSUME NEW d \in Nat \ {0}, NEW g \in Grid(d)
  PROVE  /\ g \in Nat /\ Rounds(d, g, g)
         /\ \A r : Rounds(d, g, r) => r = g
<1>1. PICK m \in 0..(Pow2[d] - 1), k \in Nat : g = m * Pow2[k] BY DEF Grid
<1>2. Pow2[d] \in Nat \ {0} /\ Pow2[k] \in Nat \ {0} /\ m \in Nat
  BY <1>1, PowPositive
<1>3. g \in Nat BY <1>1, <1>2
<1>4. ASSUME NEW e \in Nat, Weighs(d, g, e)
      PROVE  Nearest(g, Pow2[e]) = g
  <2>1. PICK q \in Nat : g = q * Pow2[e] BY <1>4, GridMultiple DEF Weighs
  <2>2. Pow2[e] \in Nat \ {0} /\ q * Pow2[e] \in Nat BY <1>3, <2>1, PowPositive
  <2>3. q * Pow2[e] + 0 = q * Pow2[e] /\ 0 < Pow2[e] /\ ~ (2 * 0 > Pow2[e]) /\ 2 * 0 # Pow2[e]
    BY <2>2
  <2>4. Nearest(q * Pow2[e] + 0, Pow2[e]) = q * Pow2[e] BY <2>2, <2>3, NearestIs
  <2> QED BY <2>1, <2>3, <2>4
<1>5. \E e \in Nat : Weighs(d, g, e)
  <2>1. \A a, p, b \in Nat : a < p /\ b > 0 => a * b < p * b OBVIOUS
  <2>2. g < Pow2[d] * Pow2[k] BY <1>1, <1>2, <2>1
  <2>3. g < Pow2[d + k] BY <2>2, PowSum
  <2>4. PICK e \in 0..k : Weighs(d, g, e) BY <1>3, <2>3, WeightExists
  <2> QED BY <2>4
<1> QED BY <1>3, <1>4, <1>5 DEF Rounds

\* What a number rounds to is held by d digits.
LEMMA RoundsToGrid ==
  ASSUME NEW d \in Nat \ {0}, NEW n \in Nat, NEW r, Rounds(d, n, r)
  PROVE  r \in Grid(d) /\ r \in Nat
<1>1. PICK e \in Nat : Weighs(d, n, e) /\ r = Nearest(n, Pow2[e]) BY DEF Rounds
<1> DEFINE s == Pow2[e]  q == n \div s  t == n % s  P == Pow2[d]
<1>2. s \in Nat \ {0} /\ P \in Nat \ {0} BY PowPositive
<1>3. q \in Nat /\ t \in Nat /\ t < s /\ n = q * s + t BY <1>2, DivisionParts
<1>4. n < P * s BY <1>1, PowSum DEF Weighs
<1> HIDE DEF s, q, t, P
<1>5. q < P
  <2>1. \A a, b, c \in Nat : a >= b => a * c >= b * c OBVIOUS
  <2>2. q * s \in Nat /\ P * s \in Nat BY <1>2, <1>3
  <2> QED BY <1>2, <1>3, <1>4, <2>1, <2>2
<1>6. r = q * s \/ r = (q + 1) * s BY <1>1, <1>2, <1>3, NearestIs DEF s
<1>7. CASE r = q * s
  <2>1. q \in 0..(P - 1) BY <1>2, <1>3, <1>5
  <2> QED BY <1>7, <2>1, <1>2, <1>3 DEF Grid, P, s
<1>8. CASE r = (q + 1) * s
  <2>1. CASE q + 1 < P
    <3>1. q + 1 \in 0..(P - 1) BY <1>2, <1>3, <2>1
    <3> QED BY <1>8, <3>1, <1>2, <1>3 DEF Grid, P, s
  <2>2. CASE q + 1 >= P
    <3> DEFINE H == Pow2[d - 1]
    <3>1. d - 1 \in Nat /\ (d - 1) + 1 = d OBVIOUS
    <3>2. P = 2 * H /\ H \in Nat \ {0} BY <3>1, PowSteps, PowPositive DEF P
    <3>3. Pow2[e + 1] = 2 * s BY PowSteps DEF s
    <3> HIDE DEF H
    <3>4. q + 1 = 2 * H BY <1>2, <1>3, <1>5, <2>2, <3>2
    <3>5. (2 * H) * s = H * (2 * s) BY <1>2, <3>2
    <3>6. r = H * Pow2[e + 1] BY <1>8, <3>3, <3>4, <3>5
    <3>7. H \in 0..(P - 1) BY <3>2
    <3> QED BY <3>6, <3>7, <1>2, <1>8, <1>3 DEF Grid, P
  <2> QED BY <1>2, <1>3, <2>1, <2>2
<1> QED BY <1>6, <1>7, <1>8

\* Rounding keeps the order.
LEMMA RoundingMonotone ==
  ASSUME NEW d \in Nat \ {0}, NEW a \in Nat, NEW b \in Nat, a =< b,
         NEW x, NEW y, Rounds(d, a, x), Rounds(d, b, y)
  PROVE  x =< y
<1>1. PICK e \in Nat : Weighs(d, a, e) /\ x = Nearest(a, Pow2[e]) BY DEF Rounds
<1>2. PICK f \in Nat : Weighs(d, b, f) /\ y = Nearest(b, Pow2[f]) BY DEF Rounds
<1> DEFINE s == Pow2[e]  q == a \div s  t == a % s
           w == Pow2[f]  p == b \div w  u == b % w
           P == Pow2[d]
<1>3. s \in Nat \ {0} /\ w \in Nat \ {0} /\ P \in Nat \ {0} BY PowPositive
<1>4. q \in Nat /\ t \in Nat /\ t < s /\ a = q * s + t BY <1>3, DivisionParts
<1>5. p \in Nat /\ u \in Nat /\ u < w /\ b = p * w + u BY <1>3, DivisionParts
<1>6. a < P * s BY <1>1, PowSum DEF Weighs
<1>0. x = Nearest(a, s) /\ y = Nearest(b, w) BY <1>1, <1>2
<1>9. f >= e
  <2> SUFFICES ASSUME f < e PROVE FALSE OBVIOUS
  <2>1. d + f \in Nat /\ d + e - 1 \in Nat /\ d + f =< d + e - 1 /\ e > 0 OBVIOUS
  <2>2. Pow2[d + f] =< Pow2[d + e - 1] /\ Pow2[d + f] \in Nat /\ Pow2[d + e - 1] \in Nat
    BY <2>1, PowMonotone, PowPositive
  <2>3. b < Pow2[d + f] /\ a >= Pow2[d + e - 1] BY <1>1, <1>2, <2>1 DEF Weighs
  <2> QED BY <2>2, <2>3
<1>10. \A i, j, c \in Nat : i =< j => i * c =< j * c OBVIOUS
<1>11. \A i, c \in Nat : i * c \in Nat /\ (i + 1) * c = i * c + c OBVIOUS
<1> HIDE DEF s, q, t, w, p, u, P
<1>7. x = IF 2 * t > s \/ (2 * t = s /\ q % 2 = 1) THEN (q + 1) * s ELSE q * s
  <2>1. Nearest(q * s + t, s) = IF 2 * t > s \/ (2 * t = s /\ q % 2 = 1) THEN (q + 1) * s ELSE q * s
    BY <1>3, <1>4, NearestIs
  <2> QED BY <1>0, <1>4, <2>1
<1>8. y = IF 2 * u > w \/ (2 * u = w /\ p % 2 = 1) THEN (p + 1) * w ELSE p * w
  <2>1. Nearest(p * w + u, w) = IF 2 * u > w \/ (2 * u = w /\ p % 2 = 1) THEN (p + 1) * w ELSE p * w
    BY <1>3, <1>5, NearestIs
  <2> QED BY <1>0, <1>5, <2>1
<1>12. CASE f = e
  <2>1. w = s BY <1>12 DEF w, s
  <2>2. q =< p
    <3> SUFFICES ASSUME p < q PROVE FALSE BY <1>4, <1>5
    <3>1. p + 1 =< q /\ p + 1 \in Nat BY <1>4, <1>5
    <3>2. (p + 1) * s =< q * s BY <3>1, <1>3, <1>4, <1>10
    <3>3. (p + 1) * s = p * s + s /\ p * s \in Nat /\ q * s \in Nat BY <1>3, <1>4, <1>5, <1>11
    <3> QED BY <3>2, <3>3, <2>1, <1>3, <1>4, <1>5
  <2>3. CASE q = p
    <3>1. p * s \in Nat BY <1>3, <1>5, <1>11
    <3>2. t =< u BY <2>1, <2>3, <1>3, <1>4, <1>5, <3>1
    <3>3. (p + 1) * s = p * s + s BY <1>3, <1>5, <1>11
    <3> QED BY <2>1, <2>3, <3>1, <3>2, <3>3, <1>3, <1>4, <1>5, <1>7, <1>8
  <2>4. CASE q < p
    <3>1. q + 1 =< p /\ q + 1 \in Nat BY <2>4, <1>4, <1>5
    <3>2. (q + 1) * s =< p * s BY <3>1, <1>3, <1>5, <1>10
    <3>3. /\ (q + 1) * s = q * s + s /\ q * s \in Nat
          /\ (p + 1) * s = p * s + s /\ p * s \in Nat
      BY <1>3, <1>4, <1>5, <1>11
    <3>4. (x = q * s \/ x = (q + 1) * s) /\ (y = p * s \/ y = (p + 1) * s) BY <2>1, <1>7, <1>8
    <3> QED BY <3>2, <3>3, <3>4, <1>3
  <2> QED BY <2>2, <2>3, <2>4, <1>4, <1>5
<1>13. CASE f > e
  <2> DEFINE H == Pow2[d - 1]
  <2>1. d - 1 \in Nat /\ (d - 1) + 1 = d /\ (d - 1) + f = d + f - 1 OBVIOUS
  <2>2. P = 2 * H /\ H \in Nat \ {0} BY <2>1, PowSteps, PowPositive DEF P
  <2>3. Pow2[d + f - 1] = H * w BY <2>1, PowSum DEF w
  <2>4. Pow2[d + e] =< Pow2[d + f - 1]
    <3>1. d + e \in Nat /\ d + f - 1 \in Nat /\ d + e =< d + f - 1 BY <1>13
    <3> QED BY <3>1, PowMonotone
  <2>5. Pow2[d + e] = P * s BY PowSum DEF P, s
  <2>6. b >= H * w BY <1>2, <1>13, <2>3 DEF Weighs
  <2> HIDE DEF H
  <2>7. H =< p
    <3> SUFFICES ASSUME p < H PROVE FALSE BY <1>5, <2>2
    <3>1. p + 1 =< H /\ p + 1 \in Nat BY <1>5, <2>2
    <3>2. (p + 1) * w =< H * w BY <3>1, <1>3, <2>2, <1>10
    <3>3. (p + 1) * w = p * w + w /\ p * w \in Nat /\ H * w \in Nat BY <1>3, <1>5, <2>2, <1>11
    <3> QED BY <3>2, <3>3, <2>6, <1>3, <1>5
  <2>8. H * w =< p * w BY <2>2, <2>7, <1>3, <1>5, <1>10
  <2>9. q + 1 =< P
    <3> SUFFICES ASSUME P =< q PROVE FALSE BY <1>3, <1>4
    <3>1. P * s =< q * s BY <1>3, <1>4, <1>10
    <3>2. P * s \in Nat /\ q * s \in Nat BY <1>3, <1>4, <1>11
    <3> QED BY <3>1, <3>2, <1>4, <1>6
  <2>10. (q + 1) * s =< P * s
    <3>1. q + 1 \in Nat BY <1>4
    <3> QED BY <2>9, <3>1, <1>3, <1>10
  <2>11. /\ (q + 1) * s = q * s + s /\ q * s \in Nat
         /\ (p + 1) * w = p * w + w /\ p * w \in Nat
         /\ P * s \in Nat /\ H * w \in Nat
    BY <1>3, <1>4, <1>5, <2>2, <1>11
  <2>12. (x = q * s \/ x = (q + 1) * s) /\ (y = p * w \/ y = (p + 1) * w) BY <1>7, <1>8
  <2>13. P * s =< H * w BY <2>3, <2>4, <2>5
  <2> QED BY <2>8, <2>10, <2>11, <2>12, <2>13, <1>3
<1> QED BY <1>9, <1>12, <1>13

\* So no number that d digits hold lies between a number and what it rounds to.
LEMMA GridBounds ==
  ASSUME NEW d \in Nat \ {0}, NEW g \in Grid(d), NEW n \in Nat, NEW r, Rounds(d, n, r)
  PROVE  (n =< g => r =< g) /\ (g =< n => g =< r)
BY GridRounds, RoundingMonotone

\* A number rounds in one way.
LEMMA RoundsOnce ==
  ASSUME NEW d \in Nat \ {0}, NEW n \in Nat, NEW x, NEW y, Rounds(d, n, x), Rounds(d, n, y)
  PROVE  x = y
<1>1. x \in Nat /\ y \in Nat BY RoundsToGrid
<1>2. n =< n OBVIOUS
<1>3. x =< y /\ y =< x BY <1>2, RoundingMonotone
<1> QED BY <1>1, <1>3

\* Rounding does not depend on the weight of the first digit.
LEMMA RoundingScales ==
  ASSUME NEW d \in Nat \ {0}, NEW n \in Nat, NEW k \in Nat, NEW x, NEW y,
         Rounds(d, n, x), Rounds(d, n * Pow2[k], y)
  PROVE  y = x * Pow2[k]
<1>1. PICK e \in Nat : Weighs(d, n, e) /\ x = Nearest(n, Pow2[e]) BY DEF Rounds
<1> DEFINE c == Pow2[k]  s == Pow2[e]  q == n \div s  t == n % s
<1>2. c \in Nat \ {0} /\ s \in Nat \ {0} BY PowPositive
<1>3. n * c \in Nat BY <1>2
<1>4. CASE e = 0
  <2>1. n < Pow2[d] /\ Pow2[d] \in Nat /\ d + 0 = d BY <1>1, <1>4, PowPositive DEF Weighs
  <2>2. n \in 0..(Pow2[d] - 1) BY <2>1
  <2>3. n * Pow2[0] = n BY PowSteps
  <2>4. n \in Grid(d) /\ n * c \in Grid(d) BY <2>2, <2>3 DEF Grid
  <2> HIDE DEF c
  <2>5. x = n BY <2>4, GridRounds
  <2>6. Rounds(d, n * c, y) BY DEF c
  <2>7. y = n * c BY <2>4, <2>6, GridRounds
  <2> QED BY <2>5, <2>7 DEF c
<1>5. CASE e > 0
  <2>1. e + k \in Nat /\ e + k > 0 /\ d + (e + k) \in Nat /\ d + (e + k) = (d + e) + k
        /\ d + (e + k) - 1 = (d + e - 1) + k /\ d + e \in Nat /\ d + e - 1 \in Nat
    BY <1>5
  <2>2. Pow2[d + (e + k)] = Pow2[d + e] * c /\ Pow2[d + (e + k) - 1] = Pow2[d + e - 1] * c
        /\ Pow2[e + k] = s * c
    BY <2>1, PowSum
  <2>3. n < Pow2[d + e] /\ n >= Pow2[d + e - 1] BY <1>1, <1>5 DEF Weighs
  <2>4. Pow2[d + e] \in Nat /\ Pow2[d + e - 1] \in Nat BY <2>1, PowPositive
  <2>5. n * c < Pow2[d + e] * c /\ n * c >= Pow2[d + e - 1] * c
    <3>1. \A i, j, m \in Nat : m > 0 => (i < j => i * m < j * m) /\ (i >= j => i * m >= j * m) OBVIOUS
    <3> QED BY <1>2, <2>3, <2>4, <3>1
  <2>6. Weighs(d, n * c, e + k) BY <2>1, <2>2, <2>5 DEF Weighs
  <2>7. q \in Nat /\ t \in Nat /\ t < s /\ n = q * s + t BY <1>2, DivisionParts
  <2>0. x = Nearest(n, s) BY <1>1
  <2> HIDE DEF c, s, q, t
  <2>8. s * c \in Nat \ {0} /\ t * c \in Nat /\ t * c < s * c /\ n * c = q * (s * c) + t * c
    <3>1. \A i, j, m \in Nat : m > 0 /\ i < j => i * m < j * m OBVIOUS
    <3>2. s * c \in Nat \ {0} /\ t * c \in Nat BY <1>2, <2>7
    <3>3. (q * s + t) * c = q * (s * c) + t * c BY <1>2, <2>7
    <3> QED BY <3>1, <3>2, <3>3, <1>2, <2>7
  <2>9. (2 * (t * c) > s * c <=> 2 * t > s) /\ (2 * (t * c) = s * c <=> 2 * t = s)
    <3>1. \A i, j, m \in Nat : m > 0 => (i * m > j * m <=> i > j) /\ (i * m = j * m <=> i = j) OBVIOUS
    <3>2. 2 * (t * c) = (2 * t) * c /\ 2 * t \in Nat BY <1>2, <2>7
    <3> QED BY <3>1, <3>2, <1>2
  <2>10. x = IF 2 * t > s \/ (2 * t = s /\ q % 2 = 1) THEN (q + 1) * s ELSE q * s
    <3>1. Nearest(q * s + t, s) = IF 2 * t > s \/ (2 * t = s /\ q % 2 = 1) THEN (q + 1) * s ELSE q * s
      BY <1>2, <2>7, NearestIs
    <3> QED BY <2>0, <2>7, <3>1
  <2>11. Nearest(n * c, s * c) =
           IF 2 * t > s \/ (2 * t = s /\ q % 2 = 1) THEN (q + 1) * (s * c) ELSE q * (s * c)
    <3>1. Nearest(q * (s * c) + t * c, s * c) =
            IF 2 * (t * c) > s * c \/ (2 * (t * c) = s * c /\ q % 2 = 1)
            THEN (q + 1) * (s * c) ELSE q * (s * c)
      BY <2>7, <2>8, NearestIs
    <3> QED BY <2>8, <2>9, <3>1
  <2>12. (q + 1) * (s * c) = ((q + 1) * s) * c /\ q * (s * c) = (q * s) * c BY <1>2, <2>7
  <2>13. Nearest(n * c, s * c) = x * c BY <2>10, <2>11, <2>12
  <2>14. Rounds(d, n * c, x * c) BY <2>1, <2>2, <2>6, <2>13 DEF Rounds
  <2> QED BY <1>3, <2>14, RoundsOnce DEF c
<1> QED BY <1>4, <1>5

\* A small number t is lost when it is added to a number that rounds up to r: r is as
\* near, and if t is just half of the weight then r is even.
LEMMA UpIsKept ==
  ASSUME NEW d \in Nat \ {0}, NEW b \in Nat, NEW e \in Nat, e > b, NEW h \in Nat,
         Weighs(d, h * Pow2[b], e), NEW r, r = Nearest(h * Pow2[b], Pow2[e]), r > h * Pow2[b],
         NEW t \in 0..Pow2[b], NEW z, Rounds(d, r + t, z)
  PROVE  z = r
<1> DEFINE B == Pow2[b]  c == Pow2[e - b]  H == Pow2[e - b - 1]  s == Pow2[e]  D == Pow2[d]
           K == Pow2[d - 1]  X == h * B  q == X \div s  x == X % s  p == h - q * c
<1>1. /\ B \in Nat \ {0} /\ c \in Nat \ {0} /\ H \in Nat \ {0} /\ s \in Nat \ {0}
      /\ D \in Nat \ {0} /\ K \in Nat \ {0} /\ c = 2 * H /\ D = 2 * K /\ s = c * B
  <2>1. e - b \in Nat /\ e - b - 1 \in Nat /\ (e - b - 1) + 1 = e - b /\ (e - b) + b = e
        /\ d - 1 \in Nat /\ (d - 1) + 1 = d
    OBVIOUS
  <2>2. c = 2 * H /\ D = 2 * K BY <2>1, PowSteps
  <2>3. s = c * B BY <2>1, PowSum
  <2> QED BY <2>1, <2>2, <2>3, PowPositive
<1>2. X \in Nat /\ X < D * s /\ X >= K * s
  <2>1. d + e - 1 = (d - 1) + e /\ d - 1 \in Nat /\ e > 0 OBVIOUS
  <2>2. Pow2[d + e] = D * s /\ Pow2[d + e - 1] = K * s BY <2>1, PowSum
  <2>3. X \in Nat BY <1>1
  <2> QED BY <2>1, <2>2, <2>3 DEF Weighs
<1>3. r = Nearest(X, s) /\ r > X OBVIOUS
<1>5. t \in Nat /\ t =< B BY <1>1
<1>0. h * B = X OBVIOUS
<1> HIDE DEF B, c, H, s, D, K, X
<1>4. q \in Nat /\ x \in Nat /\ x < s /\ X = q * s + x BY <1>1, <1>2, DivisionParts
<1> HIDE DEF q, x
<1>6. q * c \in Nat /\ q * s = (q * c) * B BY <1>1, <1>4
<1>7. p \in Nat /\ p * B = x /\ h = q * c + p
  <2> DEFINE a == q * c
  <2>1. a \in Nat /\ h * B = a * B + x BY <1>0, <1>4, <1>6
  <2> HIDE DEF a
  <2>2. a =< h
    <3>1. \A i, j, m \in Nat : m > 0 /\ i < j => i * m < j * m OBVIOUS
    <3>2. h * B \in Nat /\ a * B \in Nat BY <1>1, <2>1
    <3> QED BY <3>1, <3>2, <1>1, <1>4, <2>1
  <2>3. h - a \in Nat /\ (h - a) * B = h * B - a * B BY <1>1, <2>1, <2>2
  <2>4. h * B \in Nat /\ a * B \in Nat BY <1>1, <2>1
  <2>5. (h - a) * B = x BY <2>1, <2>3, <2>4, <1>4
  <2> QED BY <2>1, <2>3, <2>5 DEF a
<1> HIDE DEF p
<1>8. p < c
  <2>1. \A i, j, m \in Nat : i >= j => i * m >= j * m OBVIOUS
  <2>2. p * B \in Nat /\ c * B \in Nat BY <1>1, <1>7
  <2> QED BY <2>1, <2>2, <1>1, <1>4, <1>7
<1>9. (2 * (p * B) > s <=> 2 * p > c) /\ (2 * (p * B) = s <=> 2 * p = c)
  <2>1. \A i, j, m \in Nat : m > 0 => (i * m > j * m <=> i > j) /\ (i * m = j * m <=> i = j) OBVIOUS
  <2>2. 2 * (p * B) = (2 * p) * B /\ 2 * p \in Nat BY <1>1, <1>7
  <2> QED BY <2>1, <2>2, <1>1
<1>10. r = IF 2 * p > c \/ (2 * p = c /\ q % 2 = 1) THEN (q + 1) * s ELSE q * s
  <2>1. p * B \in Nat /\ p * B < s /\ X = q * s + p * B BY <1>4, <1>7
  <2>2. Nearest(q * s + p * B, s) =
          IF 2 * (p * B) > s \/ (2 * (p * B) = s /\ q % 2 = 1) THEN (q + 1) * s ELSE q * s
    <3> DEFINE u == p * B
    <3>1. u \in Nat /\ u < s /\ q \in Nat /\ s \in Nat \ {0} BY <1>1, <1>4, <2>1
    <3> HIDE DEF u
    <3>2. Nearest(q * s + u, s) =
            IF 2 * u > s \/ (2 * u = s /\ q % 2 = 1) THEN (q + 1) * s ELSE q * s
      BY <3>1, NearestIs
    <3> QED BY <3>2 DEF u
  <2> QED BY <1>3, <1>9, <2>1, <2>2
<1>11. q * s \in Nat /\ (q + 1) * s = q * s + s /\ q + 1 \in Nat BY <1>1, <1>4
<1>12. q * s =< X BY <1>4, <1>11
<1>13. (2 * p > c \/ (2 * p = c /\ q % 2 = 1)) /\ r = (q + 1) * s
  BY <1>2, <1>3, <1>10, <1>11, <1>12
<1>14. r \in Nat /\ r + t \in Nat /\ r + t > X BY <1>2, <1>3, <1>5, <1>11, <1>13
<1>15. 2 * B =< s /\ t < s /\ 2 * t =< s
  <2>1. 2 * B =< (2 * H) * B
    <3>1. \A i, m \in Nat : i >= 1 => 2 * m =< (2 * i) * m OBVIOUS
    <3> QED BY <1>1, <3>1
  <2> QED BY <2>1, <1>1, <1>5
<1>16. q + 1 =< D
  <2> SUFFICES ASSUME D =< q PROVE FALSE BY <1>1, <1>4
  <2>1. \A i, j, m \in Nat : i =< j => i * m =< j * m OBVIOUS
  <2>2. D * s =< q * s /\ D * s \in Nat BY <1>1, <1>4, <2>1
  <2> QED BY <2>2, <1>2, <1>11, <1>12
<1>17. PICK f \in Nat : Weighs(d, r + t, f) /\ z = Nearest(r + t, Pow2[f]) BY DEF Rounds
<1>18. f >= e
  <2> SUFFICES ASSUME f < e PROVE FALSE OBVIOUS
  <2>1. d + f \in Nat /\ d + e - 1 \in Nat /\ d + f =< d + e - 1 /\ e > 0 OBVIOUS
  <2>2. Pow2[d + f] =< Pow2[d + e - 1] /\ Pow2[d + f] \in Nat /\ Pow2[d + e - 1] \in Nat
    BY <2>1, PowMonotone, PowPositive
  <2>3. r + t < Pow2[d + f] /\ X >= Pow2[d + e - 1] BY <1>17, <2>1 DEF Weighs, X, B
  <2> QED BY <2>2, <2>3, <1>2, <1>14
<1>19. CASE f = e
  <2>1. z = Nearest((q + 1) * s + t, s) BY <1>13, <1>17, <1>19 DEF s
  <2>2. z = IF 2 * t > s \/ (2 * t = s /\ (q + 1) % 2 = 1) THEN (q + 1 + 1) * s ELSE (q + 1) * s
    <3> DEFINE Q == q + 1
    <3>1. Q \in Nat /\ s \in Nat \ {0} /\ t \in Nat /\ t < s BY <1>1, <1>5, <1>11, <1>15
    <3> HIDE DEF Q
    <3>2. Nearest(Q * s + t, s) = IF 2 * t > s \/ (2 * t = s /\ Q % 2 = 1) THEN (Q + 1) * s ELSE Q * s
      BY <3>1, NearestIs
    <3> QED BY <2>1, <3>2 DEF Q
  <2>3. ~ (2 * t > s) BY <1>1, <1>5, <1>15
  <2>4. ASSUME 2 * t = s PROVE (q + 1) % 2 # 1
    <3>1. t = B /\ 2 * B = s BY <2>4, <1>1, <1>5, <1>15
    <3>2. c = 2
      <4>1. \A i, j, m \in Nat : m > 0 /\ i * m = j * m => i = j OBVIOUS
      <4> QED BY <3>1, <4>1, <1>1
    <3>3. p = 1 /\ q % 2 = 1 BY <3>2, <1>7, <1>8, <1>13
    <3> QED BY <3>3, <1>4
  <2> QED BY <2>2, <2>3, <2>4, <1>13
<1>20. CASE f > e
  <2>1. Pow2[d + f - 1] =< r + t BY <1>17, <1>20 DEF Weighs
  <2>2. d + e =< d + f - 1 /\ d + e \in Nat /\ d + f - 1 \in Nat BY <1>20
  <2>3. Pow2[d + e] = D * s /\ Pow2[d + e] =< Pow2[d + f - 1] /\ Pow2[d + f - 1] \in Nat
    BY <2>2, PowSum, PowMonotone, PowPositive DEF D, s
  <2>4. D * s \in Nat /\ D * s =< r + t BY <1>1, <1>14, <2>1, <2>3
  <2>5. q + 1 = D
    <3> SUFFICES ASSUME q + 1 < D PROVE FALSE BY <1>1, <1>4, <1>16
    <3>1. \A i, j, m \in Nat : i =< j => i * m =< j * m OBVIOUS
    <3>2. (q + 1) + 1 =< D /\ (q + 1) + 1 \in Nat BY <1>1, <1>4
    <3>3. ((q + 1) + 1) * s =< D * s BY <1>1, <3>1, <3>2
    <3>4. ((q + 1) + 1) * s = (q + 1) * s + s BY <1>1, <1>4
    <3> QED BY <3>3, <3>4, <2>4, <1>1, <1>5, <1>11, <1>13, <1>15
  <2>6. r = D * s BY <2>5, <1>13
  <2>7. f = e + 1
    <3> SUFFICES ASSUME f > e + 1 PROVE FALSE BY <1>20
    <3>1. d + e + 1 =< d + f - 1 /\ d + e + 1 \in Nat /\ (d + e) + 1 = d + e + 1 BY <2>2
    <3>2. Pow2[d + e + 1] =< Pow2[d + f - 1] BY <2>2, <3>1, PowMonotone
    <3>3. Pow2[d + e + 1] = 2 * (D * s) BY <2>2, <2>3, <3>1, PowSteps
    <3>4. D * s >= s
      <4>1. \A i, m \in Nat : i >= 1 => i * m >= m OBVIOUS
      <4> QED BY <4>1, <1>1
    <3> QED BY <3>2, <3>3, <3>4, <2>1, <2>3, <2>4, <2>6, <1>1, <1>5, <1>15
  <2>8. Pow2[f] = 2 * s BY <2>7, PowSteps DEF s
  <2>9. r = K * (2 * s) BY <2>6, <1>1
  <2>10. t < 2 * s /\ ~ (2 * t > 2 * s) /\ 2 * t # 2 * s /\ 2 * s \in Nat \ {0} BY <1>1, <1>5, <1>15
  <2>11. Nearest(K * (2 * s) + t, 2 * s) = K * (2 * s)
    <3> DEFINE w == 2 * s
    <3>1. t < w /\ ~ (2 * t > w) /\ 2 * t # w /\ w \in Nat \ {0} BY <2>10
    <3> HIDE DEF w
    <3>2. Nearest(K * w + t, w) = K * w BY <1>1, <1>5, <3>1, NearestIs
    <3> QED BY <3>2 DEF w
  <2> QED BY <2>8, <2>9, <2>11, <1>17
<1> QED BY <1>18, <1>19, <1>20

\* A multiple of a power of two rounds to a multiple of it.
LEMMA RoundsMultiple ==
  ASSUME NEW d \in Nat \ {0}, NEW b \in Nat, NEW h \in Nat, NEW e \in Nat
  PROVE  /\ e =< b => Nearest(h * Pow2[b], Pow2[e]) = h * Pow2[b]
         /\ \E j \in Nat : Nearest(h * Pow2[b], Pow2[e]) = j * Pow2[b]
<1> DEFINE B == Pow2[b]  s == Pow2[e]  X == h * B  q == X \div s  x == X % s
<1>1. B \in Nat \ {0} /\ s \in Nat \ {0} BY PowPositive
<1>2. X \in Nat BY <1>1
<1>3. ASSUME e =< b PROVE Nearest(X, s) = X
  <2> DEFINE i == h * Pow2[b - e]
  <2>1. b - e \in Nat /\ (b - e) + e = b BY <1>3
  <2>2. B = Pow2[b - e] * s /\ Pow2[b - e] \in Nat BY <2>1, PowSum, PowPositive
  <2>3. i \in Nat /\ X = i * s BY <1>1, <2>2
  <2> HIDE DEF i, s, X
  <2>4. i * s \in Nat /\ i * s + 0 = i * s /\ 0 < s /\ ~ (2 * 0 > s) /\ 2 * 0 # s BY <1>1, <2>3
  <2>5. Nearest(i * s + 0, s) = i * s BY <1>1, <2>3, <2>4, NearestIs
  <2> QED BY <2>3, <2>4, <2>5
<1>4. CASE e =< b BY <1>3, <1>4
<1>5. CASE e > b
  <2> DEFINE c == Pow2[e - b]
  <2>1. e - b \in Nat /\ (e - b) + b = e BY <1>5
  <2>2. s = c * B /\ c \in Nat BY <2>1, PowSum, PowPositive
  <2> HIDE DEF c, B, s, X
  <2>3. q \in Nat /\ x \in Nat /\ x < s /\ X = q * s + x BY <1>1, <1>2, DivisionParts
  <2> HIDE DEF q, x
  <2>4. Nearest(X, s) = q * s \/ Nearest(X, s) = (q + 1) * s
    <3>1. q \in Nat /\ x \in Nat /\ x < s /\ s \in Nat \ {0} BY <1>1, <2>3
    <3>2. Nearest(q * s + x, s) = q * s \/ Nearest(q * s + x, s) = (q + 1) * s BY <3>1, NearestIs
    <3> QED BY <2>3, <3>2
  <2>5. q * s = (q * c) * B /\ (q + 1) * s = ((q + 1) * c) * B /\ q * c \in Nat /\ (q + 1) * c \in Nat
    BY <1>1, <2>2, <2>3
  <2>6. \E j \in Nat : Nearest(X, s) = j * B BY <2>4, <2>5
  <2> QED BY <2>6, <1>5 DEF X, s, B
<1> QED BY <1>4, <1>5

\* A number in two parts, the lower below 2^b and the upper a multiple of it, whose parts
\* are rounded, and then their sum: no number of d digits lies between the number and
\* what becomes of it.
LEMMA SumBounds ==
  ASSUME NEW d \in Nat \ {0}, NEW b \in Nat, NEW h \in Nat, NEW y \in 0..(Pow2[b] - 1),
         NEW rx, NEW ry, NEW z, Rounds(d, h * Pow2[b], rx), Rounds(d, y, ry), Rounds(d, rx + ry, z),
         NEW g \in Grid(d)
  PROVE  /\ g >= h * Pow2[b] + y => z =< g
         /\ g =< h * Pow2[b] + y => g =< z
<1>1. PICK e \in Nat : Weighs(d, h * Pow2[b], e) /\ rx = Nearest(h * Pow2[b], Pow2[e]) BY DEF Rounds
<1> DEFINE B == Pow2[b]  s == Pow2[e]  X == h * B  D == Pow2[d]
<1> SUFFICES (g >= X + y => z =< g) /\ (g =< X + y => g =< z) OBVIOUS
<1>2. B \in Nat \ {0} /\ s \in Nat \ {0} /\ D \in Nat /\ D >= 2
  <2>1. Pow2[1] = 2
    <3>1. 0 + 1 = 1 BY PowSteps
    <3> QED BY <3>1, PowSteps
  <2>2. Pow2[1] =< D BY PowMonotone
  <2> QED BY <2>1, <2>2, PowPositive
<1>3. X \in Nat /\ y \in Nat /\ y < B BY <1>2
<1>4. rx \in Nat /\ ry \in Nat /\ z \in Nat /\ rx + ry \in Nat /\ g \in Nat
  <2>1. rx \in Nat /\ ry \in Nat BY <1>3, RoundsToGrid
  <2>2. rx + ry \in Nat BY <2>1
  <2> QED BY <2>1, <2>2, RoundsToGrid, GridRounds
<1>5. (rx + ry =< g => z =< g) /\ (g =< rx + ry => g =< z) BY <1>4, GridBounds
<1>6. (X =< g => rx =< g) /\ (g =< X => g =< rx) BY <1>3, GridBounds
<1>7. ry =< B
  <2>1. B = 1 * Pow2[b] /\ 1 \in 0..(Pow2[d] - 1) BY <1>2
  <2>2. B \in Grid(d) BY <2>1 DEF Grid
  <2>3. y =< B BY <1>2, <1>3
  <2> QED BY <1>3, <2>2, <2>3, GridBounds
<1>8. \A v \in Grid(d) : (y =< v => ry =< v) /\ (v =< y => v =< ry) BY <1>3, GridBounds
<1>9. X =< g => \E j \in Nat : g = j * s
  <2>1. ASSUME X =< g, e > 0 PROVE g >= Pow2[d + e - 1]
    <3>1. d + e - 1 \in Nat OBVIOUS
    <3>2. Pow2[d + e - 1] \in Nat /\ X >= Pow2[d + e - 1] BY <1>1, <2>1, <3>1, PowPositive DEF Weighs
    <3> QED BY <3>2, <2>1, <1>3, <1>4
  <2> QED BY <2>1, GridMultiple
<1>10. X < D * s BY <1>1, PowSum DEF Weighs
<1>11. \A i, j, m \in Nat : (i =< j => i * m =< j * m) /\ (i < j /\ m > 0 => i * m < j * m) OBVIOUS
<1>12. CASE e =< b
  <2>1. rx = X BY <1>1, <1>12, RoundsMultiple
  <2>2. CASE g < X BY <2>1, <2>2, <1>3, <1>4, <1>5
  <2>3. CASE X =< g
    <3>1. PICK j \in Nat : g = j * s BY <2>3, <1>9
    <3> DEFINE i == h * Pow2[b - e]  w == j - i
    <3>2. i \in Nat /\ X = i * s
      <4>1. b - e \in Nat /\ (b - e) + e = b BY <1>12
      <4>2. B = Pow2[b - e] * s /\ Pow2[b - e] \in Nat BY <4>1, PowSum, PowPositive
      <4> QED BY <4>2, <1>2
    <3> HIDE DEF i, X, s, B, D
    <3>3. w \in Nat /\ g = X + w * s /\ w * s \in Nat
      <4>1. i =< j
        <5> SUFFICES ASSUME j < i PROVE FALSE BY <3>2
        <5>1. j * s < i * s BY <3>2, <1>2, <1>11
        <5> QED BY <5>1, <3>1, <3>2, <2>3, <1>3, <1>4
      <4>2. j - i \in Nat /\ (j - i) * s = j * s - i * s /\ (j - i) * s \in Nat BY <4>1, <3>2, <1>2
      <4> QED BY <4>2, <3>1, <3>2, <1>3, <1>4
    <3> HIDE DEF w
    <3>4. CASE w < D
      <4>1. w \in 0..(D - 1) BY <3>3, <3>4, <1>2
      <4>2. w * s \in Grid(d) BY <4>1, <1>2 DEF Grid, D, s
      <4> QED BY <4>2, <3>3, <2>1, <1>3, <1>4, <1>5, <1>8
    <3>5. CASE w >= D
      <4>1. w * s >= D * s /\ D * s \in Nat BY <3>3, <3>5, <1>2, <1>11
      <4>2. CASE h = 0
        <5>1. X = 0 BY <4>2, <1>2 DEF X
        <5> QED BY <5>1, <2>1, <1>3, <1>4, <1>5, <1>8
      <4>3. CASE h # 0
        <5>1. 1 =< h /\ 1 * B = B BY <4>3, <1>2
        <5>2. B =< X BY <5>1, <1>2, <1>11 DEF X
        <5> QED BY <5>2, <4>1, <3>3, <2>1, <1>2, <1>3, <1>4, <1>5, <1>7, <1>10
      <4> QED BY <4>2, <4>3
    <3> QED BY <3>3, <3>4, <3>5, <1>2
  <2> QED BY <2>2, <2>3, <1>3, <1>4
<1>13. CASE e > b
  <2> DEFINE c == Pow2[e - b]  q == X \div s  x == X % s
  <2>1. s = c * B /\ c \in Nat
    <3>1. e - b \in Nat /\ (e - b) + b = e BY <1>13
    <3> QED BY <3>1, PowSum, PowPositive
  <2>2. q \in Nat /\ x \in Nat /\ x < s /\ X = q * s + x BY <1>2, <1>3, DivisionParts
  <2>3. rx = Nearest(X, s) /\ X = h * B BY <1>1
  <2>4. CASE X < rx
    <3>1. ry \in 0..Pow2[b] BY <1>2, <1>4, <1>7
    <3>2. z = rx
      <4>1. rx > h * Pow2[b] /\ e > b BY <2>4, <1>3, <1>4, <1>13
      <4> HIDE DEF X, B, s, c, q, x
      <4>2. \A f \in Nat : \A r, t, v :
              /\ f > b /\ Weighs(d, h * Pow2[b], f) /\ r = Nearest(h * Pow2[b], Pow2[f])
              /\ r > h * Pow2[b] /\ t \in 0..Pow2[b] /\ Rounds(d, r + t, v)
              => v = r
        BY UpIsKept, Zenon
      <4> QED BY <1>1, <3>1, <4>1, <4>2, Zenon
    <3>3. X + y < rx
      <4>1. PICK j \in Nat : rx = j * B BY <2>3, RoundsMultiple
      <4> HIDE DEF X, B, s
      <4>2. h < j
        <5> SUFFICES ASSUME j =< h PROVE FALSE OBVIOUS
        <5>1. j * B =< h * B BY <1>2, <1>11
        <5> QED BY <5>1, <4>1, <2>3, <2>4, <1>3, <1>4
      <4>3. h + 1 =< j /\ h + 1 \in Nat BY <4>2
      <4>4. (h + 1) * B =< j * B /\ (h + 1) * B = h * B + B BY <4>3, <1>2, <1>11
      <4> QED BY <4>1, <4>4, <2>3, <1>2, <1>3, <1>4
    <3> QED BY <3>2, <3>3, <1>3, <1>4, <1>6
  <2>5. CASE rx =< X
    <3> HIDE DEF X, B, s, c, q, x
    <3>1. rx = q * s
      <4>1. rx = q * s \/ rx = (q + 1) * s
        <5>1. q \in Nat /\ x \in Nat /\ x < s /\ s \in Nat \ {0} BY <1>2, <2>2
        <5>2. Nearest(q * s + x, s) = q * s \/ Nearest(q * s + x, s) = (q + 1) * s BY <5>1, NearestIs
        <5> QED BY <2>2, <2>3, <5>2
      <4>2. (q + 1) * s = q * s + s /\ q * s \in Nat BY <1>2, <2>2
      <4> QED BY <4>1, <4>2, <2>2, <2>5, <1>2
    <3>2. q * s \in Nat /\ (q + 1) * s = q * s + s /\ q * s =< X /\ q + 1 \in Nat
      BY <1>2, <2>2
    <3>3. X + B =< q * s + s
      <4> DEFINE i == (q + 1) * c
      <4>1. i \in Nat /\ (q + 1) * s = i * B BY <1>2, <2>1, <2>2
      <4> HIDE DEF i
      <4>2. h < i
        <5> SUFFICES ASSUME i =< h PROVE FALSE BY <4>1
        <5>1. i * B =< h * B BY <4>1, <1>2, <1>11
        <5> QED BY <5>1, <4>1, <3>2, <2>2, <2>3, <1>2, <1>3
      <4>3. h + 1 =< i /\ h + 1 \in Nat BY <4>1, <4>2
      <4>4. (h + 1) * B =< i * B /\ (h + 1) * B = h * B + B BY <4>1, <4>3, <1>2, <1>11
      <4> QED BY <4>1, <4>4, <3>2, <2>3, <1>2, <1>3
    <3>4. ASSUME g >= X + y PROVE z =< g
      <4>1. CASE g >= q * s + s
        <5>1. B =< s
          <6>1. X + B =< X + s BY <3>1, <3>2, <3>3, <2>2, <1>2, <1>3
          <6> QED BY <6>1, <1>2, <1>3
        <5> QED BY <4>1, <5>1, <3>1, <3>2, <1>2, <1>4, <1>5, <1>7
      <4>2. CASE g < q * s + s
        <5>1. X =< g BY <3>4, <1>3, <1>4
        <5>2. PICK j \in Nat : g = j * s BY <5>1, <1>9
        <5>3. j = q
          <6>1. ~ (j < q)
            <7> SUFFICES ASSUME j < q PROVE FALSE OBVIOUS
            <7>1. j * s < q * s BY <2>2, <1>2, <1>11
            <7> QED BY <7>1, <5>1, <5>2, <3>2, <1>3, <1>4
          <6>2. ~ (q + 1 =< j)
            <7> SUFFICES ASSUME q + 1 =< j PROVE FALSE OBVIOUS
            <7>1. (q + 1) * s =< j * s BY <3>2, <1>2, <1>11
            <7> QED BY <7>1, <5>2, <4>2, <3>2, <1>2, <1>4
          <6> QED BY <6>1, <6>2, <2>2
        <5>4. y = 0 /\ g = rx BY <5>1, <5>2, <5>3, <3>1, <3>2, <3>4, <1>3, <1>4
        <5>5. 0 * Pow2[0] = 0 /\ 0 \in 0..(D - 1) BY <1>2, PowSteps
        <5>6. 0 \in Grid(d) BY <5>5 DEF Grid, D
        <5>7. ry =< 0 BY <5>4, <5>6, <1>8
        <5> QED BY <5>4, <5>7, <1>4, <1>5
      <4> QED BY <4>1, <4>2, <3>2, <1>2, <1>4
    <3>5. ASSUME g =< X + y PROVE g =< z
      <4>1. g =< X
        <5> SUFFICES ASSUME X < g PROVE FALSE BY <1>3, <1>4
        <5>1. PICK j \in Nat : g = j * s BY <1>9, <1>3, <1>4
        <5>2. j * s > q * s /\ j * s < (q + 1) * s BY <5>1, <3>2, <3>3, <3>5, <1>2, <1>3, <1>4
        <5>3. ~ (j =< q)
          <6> SUFFICES ASSUME j =< q PROVE FALSE OBVIOUS
          <6>1. j * s =< q * s BY <2>2, <1>2, <1>11
          <6> QED BY <6>1, <5>1, <5>2, <3>2, <1>4
        <5>4. ~ (q + 1 =< j)
          <6> SUFFICES ASSUME q + 1 =< j PROVE FALSE OBVIOUS
          <6>1. (q + 1) * s =< j * s BY <3>2, <1>2, <1>11
          <6> QED BY <6>1, <5>1, <5>2, <3>2, <1>2, <1>4
        <5> QED BY <5>3, <5>4, <2>2
      <4> QED BY <4>1, <1>4, <1>5, <1>6
    <3> QED BY <3>4, <3>5
  <2> QED BY <2>4, <2>5, <1>3, <1>4
<1> QED BY <1>12, <1>13

-----------------------------------------------------------------------------
(* The conversions *)

\* What the types have: at least one digit, and room for a uint128.
LEMMA TypeSizes ==
  ASSUME FloatAssumption, NEW T \in FloatTypes
  PROVE  /\ T.digits \in Nat \ {0} /\ T.max_exponent \in Nat /\ T.max_exponent >= Bits
         /\ Pow2[T.max_exponent + 4] =< Pow2[T.digits + 2 * T.max_exponent]
         /\ Pow2[T.max_exponent + 4] \in Nat
         /\ Quarters * Pow2[T.max_exponent] = Pow2[T.max_exponent + 2]
<1> DEFINE d == T.digits  x == T.max_exponent
<1>1. d \in Nat \ {0} /\ x \in Nat /\ x >= Bits BY DEF FloatAssumption
<1> HIDE DEF d, x
<1>2. Bits \in Nat /\ Bits >= 4 BY Widths
<1>3. x + 4 \in Nat /\ d + 2 * x \in Nat /\ x + 4 =< d + 2 * x BY <1>1, <1>2
<1>4. Pow2[x + 4] =< Pow2[d + 2 * x] /\ Pow2[x + 4] \in Nat BY <1>3, PowMonotone, PowPositive
<1>5. Quarters * Pow2[x] = Pow2[x + 2]
  <2>1. (x + 1) + 1 = x + 2 /\ x + 1 \in Nat BY <1>1
  <2>2. Pow2[x + 2] = 2 * Pow2[x + 1] /\ Pow2[x + 1] = 2 * Pow2[x] /\ Pow2[x] \in Nat
    BY <1>1, <2>1, PowSteps, PowPositive
  <2> QED BY <2>2 DEF Quarters
<1> QED BY <1>1, <1>4, <1>5 DEF d, x

\* Rounded rounds to the digits of the type.
LEMMA RoundedRounds ==
  ASSUME FloatAssumption, NEW T \in FloatTypes, NEW n \in Nat, n < Pow2[T.max_exponent + 4]
  PROVE  Rounds(T.digits, n, Rounded(T, n))
<1> DEFINE d == T.digits  x == T.max_exponent
           Fits(e) == n < Pow2[d + e] /\ (e > 0 => n >= Pow2[d + e - 1])
           E == CHOOSE e \in 0..(2 * x) : Fits(e)
<1>1. d \in Nat \ {0} /\ x \in Nat /\ Pow2[x + 4] =< Pow2[d + 2 * x] /\ Pow2[x + 4] \in Nat
  BY TypeSizes
<1>2. n < Pow2[d + 2 * x]
  <2>1. d + 2 * x \in Nat BY <1>1
  <2>2. Pow2[d + 2 * x] \in Nat BY <2>1, PowPositive
  <2> QED BY <1>1, <2>2
<1>3. Rounded(T, n) = Nearest(n, Pow2[E]) BY DEF Rounded, Nearest
<1>4. \E e \in 0..(2 * x) : Fits(e)
  <2>1. 2 * x \in Nat BY <1>1
  <2> HIDE DEF d, x
  <2>2. PICK e \in 0..(2 * x) : Weighs(d, n, e) BY <1>1, <1>2, <2>1, WeightExists
  <2> QED BY <2>2 DEF Weighs
<1> HIDE DEF Fits
<1>5. E \in 0..(2 * x) /\ Fits(E) BY <1>4
<1>6. E \in Nat /\ Weighs(d, n, E) BY <1>1, <1>5 DEF Weighs, Fits
<1> HIDE DEF E
<1> QED BY <1>3, <1>6 DEF Rounds

\* The values of a type are what its digits hold.
LEMMA FiniteInGrid ==
  ASSUME FloatAssumption, NEW T \in FloatTypes, NEW v \in Finite(T)
  PROVE  v \in Grid(T.digits) /\ v \in Nat /\ v < Quarters * Pow2[T.max_exponent]
<1>1. PICK m \in 0..(Pow2[T.digits] - 1), e \in 0..(T.max_exponent + 2) : v = m * Pow2[e]
  BY DEF Finite
<1>2. e \in Nat BY <1>1, TypeSizes
<1>3. v \in 0..(Quarters * Pow2[T.max_exponent] - 1) BY DEF Finite
<1>4. Quarters * Pow2[T.max_exponent] \in Nat
  <2>1. T.max_exponent + 2 \in Nat BY TypeSizes
  <2> QED BY <2>1, TypeSizes, PowPositive
<1> QED BY <1>1, <1>2, <1>3, <1>4 DEF Grid

\* Both parts of what some digits hold are held by as many.
LEMMA GridSplits ==
  ASSUME NEW d \in Nat \ {0}, NEW g \in Grid(d), NEW a \in Nat
  PROVE  g \div Pow2[a] \in Grid(d) /\ g % Pow2[a] \in Grid(d)
<1>1. PICK m \in 0..(Pow2[d] - 1), k \in Nat : g = m * Pow2[k] BY DEF Grid
<1> DEFINE D == Pow2[d]  A == Pow2[a]
<1>2. D \in Nat \ {0} /\ A \in Nat \ {0} /\ m \in Nat /\ m < D BY <1>1, PowPositive
<1>3. \A i \in Nat : i =< m => i \in 0..(D - 1) BY <1>2
<1>4. CASE k >= a
  <2> DEFINE q == m * Pow2[k - a]
  <2>1. k - a \in Nat /\ (k - a) + a = k BY <1>1, <1>4
  <2>2. Pow2[k] = Pow2[k - a] * A /\ Pow2[k - a] \in Nat BY <2>1, PowSum, PowPositive
  <2>3. q \in Nat /\ g = q * A BY <1>1, <1>2, <2>2
  <2>4. q \in Grid(d) BY <2>1, <1>1 DEF Grid
  <2>5. 0 \in Grid(d)
    <3>1. 0 \in 0..(D - 1) /\ 0 * Pow2[0] = 0 BY <1>2, PowSteps
    <3> QED BY <3>1 DEF Grid
  <2> HIDE DEF q, A, D
  <2>6. (q * A + 0) \div A = q /\ (q * A + 0) % A = 0
    <3>1. 0 < A BY <1>2
    <3> QED BY <3>1, <1>2, <2>3, DivisionUnique
  <2>7. q * A + 0 = g BY <1>2, <2>3
  <2> QED BY <2>4, <2>5, <2>6, <2>7 DEF A
<1>5. CASE k < a
  <2> DEFINE C == Pow2[a - k]  K == Pow2[k]  q == m \div C  x == m % C
  <2>1. a - k \in Nat /\ (a - k) + k = a BY <1>1, <1>5
  <2>2. A = C * K /\ C \in Nat \ {0} /\ K \in Nat \ {0} BY <1>1, <2>1, PowSum, PowPositive
  <2>3. q \in Nat /\ x \in Nat /\ x < C /\ m = q * C + x BY <1>2, <2>2, DivisionParts
  <2> HIDE DEF C, q, x, A, D, K
  <2>4. x * K \in Nat /\ x * K < A /\ g = q * A + x * K
    <3>1. \A i, j, n \in Nat : n > 0 /\ i < j => i * n < j * n OBVIOUS
    <3>2. (q * C + x) * K = q * (C * K) + x * K /\ x * K \in Nat BY <2>2, <2>3
    <3>3. g = m * K BY <1>1 DEF K
    <3> QED BY <3>1, <3>2, <3>3, <2>2, <2>3
  <2>5. g \div A = q /\ g % A = x * K BY <2>3, <2>4, <1>2, DivisionUnique
  <2>6. q =< m /\ x =< m
    <3>1. \A i, j \in Nat : j >= 1 => i =< i * j /\ i * j \in Nat OBVIOUS
    <3> QED BY <3>1, <2>2, <2>3
  <2>7. q \in 0..(D - 1) /\ x \in 0..(D - 1) BY <2>3, <2>6, <1>3
  <2>8. x * K \in Grid(d) BY <2>7, <1>1 DEF Grid, D, K
  <2>9. q \in Grid(d)
    <3>1. q * Pow2[0] = q BY <2>3, PowSteps
    <3> QED BY <3>1, <2>7 DEF Grid, D
  <2> QED BY <2>5, <2>8, <2>9 DEF A
<1> QED BY <1>1, <1>4, <1>5

\* Quarters, whole numbers and what is left of them.
LEMMA InQuarters ==
  /\ Quarters \in Nat \ {0} /\ Quarters = 4
  /\ \A n \in Nat : /\ n \div Quarters \in Nat /\ n % Quarters \in 0..3
                     /\ n = Quarters * (n \div Quarters) + (n % Quarters)
  /\ \A q \in Nat, r \in 0..3 : (Quarters * q + r) \div Quarters = q
BY DEF Quarters

\* A value that fits is truncated on the path for two halves ...
LEMMA HalvesTruncate ==
  ASSUME FloatAssumption, NEW T \in FloatTypes, NEW v \in Grid(T.digits), v \in Nat,
         v < Quarters * Pow2[Bits], v < Quarters * Pow2[T.max_exponent]
  PROVE  Val(FromHalves(T, v)) = v \div Quarters
<1> DEFINE B4 == Pow2[LimbBits + 2]  hi == v \div B4  x == v % B4  lo == x \div Quarters
<1>1. Base \in Nat \ {0} /\ B4 = Quarters * Base /\ B4 \in Nat \ {0}
  <2>1. LimbBits \in Nat /\ (LimbBits + 1) + 1 = LimbBits + 2 BY Widths
  <2>2. B4 = 2 * Pow2[LimbBits + 1] /\ Pow2[LimbBits + 1] = 2 * Base BY <2>1, PowSteps DEF Base
  <2>3. Base \in Nat \ {0} BY Widths
  <2> QED BY <2>2, <2>3 DEF Quarters
<1>2. hi \in Nat /\ x \in Nat /\ x < B4 /\ v = hi * B4 + x BY <1>1, DivisionParts
<1>3. lo \in Nat /\ x % Quarters \in 0..3 /\ x = 4 * lo + (x % Quarters)
  <2> HIDE DEF x
  <2> QED BY <1>2, InQuarters
<1>4. T.digits \in Nat \ {0} /\ LimbBits + 2 \in Nat BY TypeSizes, Widths
<1>5. hi \in Grid(T.digits) /\ x \in Grid(T.digits)  BY <1>4, GridSplits
<1>6. v < Pow2[T.max_exponent + 4]
  <2>1. T.max_exponent + 2 \in Nat /\ T.max_exponent + 4 \in Nat /\ T.max_exponent + 2 =< T.max_exponent + 4
    BY TypeSizes
  <2>2. v < Pow2[T.max_exponent + 2] /\ Pow2[T.max_exponent + 2] =< Pow2[T.max_exponent + 4]
        /\ Pow2[T.max_exponent + 2] \in Nat /\ Pow2[T.max_exponent + 4] \in Nat
    BY <2>1, TypeSizes, PowMonotone, PowPositive
  <2> QED BY <2>2
<1> HIDE DEF B4
<1>7. v \div Base \in Nat /\ (v \div Base) \div Quarters = hi
  <2>1. v \div (Base * Quarters) = (v \div Base) \div Quarters BY <1>1, DividedTwice DEF Quarters
  <2>2. Base * Quarters = B4 BY <1>1 DEF Quarters
  <2>3. v \div Base \in Nat BY <1>1, DivisionParts
  <2> QED BY <2>1, <2>2, <2>3
<1>8. hi < Base
  <2>1. v < B4 * Base
    <3>1. Pow2[Bits] = Base * Base BY Widths
    <3>2. Quarters * (Base * Base) = (Quarters * Base) * Base BY <1>1 DEF Quarters
    <3> QED BY <3>1, <3>2, <1>1
  <2> HIDE DEF hi, x
  <2>2. \A i, j, n \in Nat : i >= j => i * n >= j * n /\ j * n \in Nat OBVIOUS
  <2>3. hi * B4 \in Nat /\ Base * B4 = B4 * Base BY <1>1, <1>2
  <2> QED BY <2>1, <2>2, <2>3, <1>1, <1>2
<1> HIDE DEF hi, x, lo
<1>9. lo < Base
  <2> HIDE DEF lo
  <2> QED BY <1>1, <1>2, <1>3, InQuarters
<1>10. hi * B4 \in Nat /\ hi * B4 = 4 * (hi * Base) /\ hi * Base \in Nat
  BY <1>1, <1>2, InQuarters
<1>11. v \div Quarters = hi * Base + lo
  <2> DEFINE q == hi * Base + lo  w == x % Quarters
  <2>1. q \in Nat /\ w \in 0..3 /\ v = 4 * q + w BY <1>2, <1>3, <1>10
  <2> HIDE DEF q, w
  <2>2. (Quarters * q + w) \div Quarters = q BY <2>1, InQuarters
  <2> QED BY <2>1, <2>2, InQuarters DEF q
<1>12. CASE v >= Quarters * Base
  <2>1. Truncated(v \div Base) = hi BY <1>7 DEF Truncated, hi
  <2>2. hi < Pow2[T.max_exponent + 4] /\ x < Pow2[T.max_exponent + 4]
    <3>1. hi =< v /\ x =< v
      <4>1. \A i, j \in Nat : j >= 1 => i =< i * j /\ i * j \in Nat OBVIOUS
      <4> QED BY <4>1, <1>1, <1>2
    <3> QED BY <3>1, <1>2, <1>6, TypeSizes
  <2>3. Rounded(T, hi) = hi /\ Rounded(T, x) = x
    <3>1. Rounds(T.digits, hi, Rounded(T, hi)) BY <1>2, <2>2, RoundedRounds
    <3>2. Rounds(T.digits, x, Rounded(T, x)) BY <1>2, <2>2, RoundedRounds
    <3> QED BY <3>1, <3>2, <1>4, <1>5, GridRounds
  <2>4. v - Quarters * Base * hi = x
    <3>1. Quarters * Base * hi = hi * B4 BY <1>1, <1>2
    <3> QED BY <3>1, <1>2, <1>10
  <2>5. Truncated(x) = lo BY <1>2 DEF Truncated, lo
  <2>6. FromHalves(T, v) = make_uint128(hi, lo) BY <1>12, <2>1, <2>3, <2>4, <2>5 DEF FromHalves
  <2> QED BY <2>6, <1>2, <1>3, <1>8, <1>9, <1>11, MakeLimbs
<1>13. CASE ~ (v >= Quarters * Base)
  <2>1. FromHalves(T, v) = make_uint128(0, v \div Quarters) BY <1>13 DEF FromHalves, Truncated
  <2>2. hi = 0
    <3>1. v < B4 BY <1>1, <1>13 DEF Quarters
    <3>2. \A i, j \in Nat : i >= 1 => j =< i * j OBVIOUS
    <3> QED BY <3>1, <3>2, <1>1, <1>2, <1>10
  <2>3. hi * Base + lo = lo BY <2>2, <1>1, <1>3
  <2>4. 0 * Base + lo = lo /\ 0 < Base BY <1>1, <1>3
  <2> QED BY <2>1, <2>3, <2>4, <1>3, <1>9, <1>11, MakeLimbs
<1> QED BY <1>12, <1>13

\* Dividing by one number and by another can be done in either order.
LEMMA DividedEitherWay ==
  ASSUME NEW n \in Nat, NEW a \in Nat \ {0}, NEW b \in Nat \ {0}
  PROVE  (n \div a) \div b = (n \div b) \div a
<1>1. a * b = b * a OBVIOUS
<1> QED BY <1>1, DividedTwice

\* ... and on the path of pieces.
LEMMA PiecesTruncate ==
  ASSUME FloatAssumption, NEW v \in Nat, v < Quarters * Pow2[Bits]
  PROVE  Val(FromPieces(v)) = v \div Quarters
<1> DEFINE P == PieceBits  Q == Pow2[P]  S == Pow2[2 * P]  n == v \div Quarters
           w0 == n \div S  x == n % S  w1 == x \div Q  w2 == x % Q
<1>1. P \in Nat /\ P < LimbBits /\ 3 * P >= Bits /\ 2 * P \in 0..(Bits - 1) /\ P \in 0..(Bits - 1)
      /\ LimbBits \in Nat /\ Bits \in Nat
  BY Widths DEF FloatAssumption
<1>2. Q \in Nat \ {0} /\ S \in Nat \ {0} /\ S = Q * Q /\ Q =< Base /\ Pow2[Bits] =< S * Q
  <2>1. 2 * P = P + P /\ 2 * P + P = 3 * P /\ 2 * P \in Nat /\ 3 * P \in Nat BY <1>1
  <2>2. S = Q * Q /\ Pow2[3 * P] = S * Q BY <1>1, <2>1, PowSum
  <2>3. Q =< Base BY <1>1, PowMonotone DEF Base
  <2>4. Pow2[Bits] =< Pow2[3 * P] BY <1>1, <2>1, PowMonotone
  <2> QED BY <1>1, <2>1, <2>2, <2>3, <2>4, PowPositive
<1>3. n \in Nat /\ v % Quarters \in 0..3 /\ v = 4 * n + (v % Quarters) /\ n < Pow2[Bits]
  <2>1. n \in Nat /\ v % Quarters \in 0..3 /\ v = 4 * n + (v % Quarters) BY InQuarters
  <2>2. Pow2[Bits] \in Nat BY <1>1, PowPositive
  <2> HIDE DEF n
  <2> QED BY <2>1, <2>2, InQuarters
<1> HIDE DEF P, Q, S
<1>4. w0 \in Nat /\ x \in Nat /\ x < S /\ n = w0 * S + x BY <1>2, <1>3, DivisionParts
<1>5. w1 \in Nat /\ w2 \in Nat /\ w2 < Q /\ x = w1 * Q + w2 BY <1>2, <1>4, DivisionParts
<1> HIDE DEF n, w0, x, w1, w2
<1>6. \A i, j, m \in Nat : i >= j => i * m >= j * m /\ j * m \in Nat OBVIOUS
<1>7. w0 < Q
  <2>1. n < Q * S BY <1>1, <1>2, <1>3, PowPositive
  <2>2. w0 * S \in Nat BY <1>2, <1>4
  <2> QED BY <2>1, <2>2, <1>2, <1>4, <1>6
<1>8. w1 < Q
  <2>1. w1 * Q \in Nat BY <1>2, <1>5
  <2> QED BY <2>1, <1>2, <1>4, <1>5, <1>6
<1>9. Truncated(v \div S) = w0
  <2>1. (v \div S) \div Quarters = (v \div Quarters) \div S BY <1>2, InQuarters, DividedEitherWay
  <2>2. v \div S \in Nat BY <1>2, DivisionParts
  <2> QED BY <2>1, <2>2 DEF Truncated, w0, n
<1> DEFINE y == v % Quarters  v1 == 4 * x + y  v2 == 4 * w2 + y
<1>10. y \in 0..3 /\ v1 \in Nat /\ v2 \in Nat BY <1>3, <1>4, <1>5
<1>11. v - Quarters * w0 * S = v1
  <2> HIDE DEF y
  <2>1. Quarters * w0 * S = 4 * (w0 * S) /\ w0 * S \in Nat BY <1>2, <1>4, InQuarters
  <2> DEFINE t == w0 * S
  <2> HIDE DEF t
  <2>2. v = 4 * n + y /\ n = t + x /\ t \in Nat BY <2>1, <1>3, <1>4 DEF t, y
  <2>3. v - 4 * t = 4 * x + y BY <2>2, <1>3, <1>4, <1>10
  <2> QED BY <2>1, <2>3 DEF t
<1>12. Truncated(v1 \div Q) = w1
  <2> HIDE DEF y
  <2>1. v1 \div Quarters = x BY <1>4, <1>10, InQuarters
  <2> HIDE DEF v1
  <2>2. (v1 \div Q) \div Quarters = (v1 \div Quarters) \div Q BY <1>2, <1>10, InQuarters, DividedEitherWay
  <2>3. v1 \div Q \in Nat BY <1>2, <1>10, DivisionParts
  <2> QED BY <2>1, <2>2, <2>3 DEF Truncated, w1
<1>13. v1 - Quarters * w1 * Q = v2
  <2> HIDE DEF y
  <2>1. Quarters * w1 * Q = 4 * (w1 * Q) /\ w1 * Q \in Nat BY <1>2, <1>5, InQuarters
  <2> DEFINE t == w1 * Q
  <2> HIDE DEF t
  <2>2. x = t + w2 /\ t \in Nat BY <2>1, <1>5 DEF t
  <2>3. (4 * x + y) - 4 * t = 4 * w2 + y BY <2>2, <1>5, <1>10
  <2> QED BY <2>1, <2>3 DEF t
<1>14. Truncated(v2) = w2
  <2> HIDE DEF y
  <2>1. v2 \div Quarters = w2 BY <1>5, <1>10, InQuarters
  <2> HIDE DEF v2
  <2> QED BY <2>1, <1>10 DEF Truncated
<1> HIDE DEF y, v1, v2
<1> DEFINE Piece(w, k) == ShiftLeft(make_uint128(0, w), k)
           M == Base * Base
<1>15. FromPieces(v) = Plus(Plus(Piece(w0, 2 * P), Piece(w1, P)), make_uint128(0, w2))
  BY <1>9, <1>11, <1>12, <1>13, <1>14 DEF FromPieces, P, Q, S
<1>16. M \in Nat \ {0} /\ n < M BY <1>3, Widths
<1>17. ASSUME NEW w \in Nat, w < Q
       PROVE  make_uint128(0, w) \in U128 /\ Val(make_uint128(0, w)) = w
  <2>1. w < Base /\ 0 < Base /\ 0 * Base + w = w BY <1>2, <1>17, Widths
  <2> QED BY <2>1, MakeLimbs
<1>18. ASSUME NEW w \in Nat, w < Q, NEW k \in 0..(Bits - 1), w * Pow2[k] =< n
       PROVE  Piece(w, k) \in U128 /\ Val(Piece(w, k)) = w * Pow2[k]
  <2>1. Piece(w, k) \in U128 /\ Val(Piece(w, k)) = (w * Pow2[k]) % M
    BY <1>17, <1>18, ShiftLeftMultiplies
  <2>2. w * Pow2[k] \in Nat /\ w * Pow2[k] < M
    <3>1. k \in Nat BY <1>1
    <3>2. Pow2[k] \in Nat BY <3>1, PowPositive
    <3>3. w * Pow2[k] \in Nat BY <3>2
    <3> HIDE DEF M
    <3> QED BY <3>3, <1>3, <1>16, <1>18
  <2> HIDE DEF M, Piece
  <2>3. (w * Pow2[k]) % M = w * Pow2[k] BY <2>2, <1>16, BelowDivisor
  <2> QED BY <2>1, <2>3
<1>19. ASSUME NEW a \in U128, NEW b \in U128, Val(a) + Val(b) =< n
       PROVE  Plus(a, b) \in U128 /\ Val(Plus(a, b)) = Val(a) + Val(b)
  <2>1. Plus(a, b) \in U128 /\ Val(Plus(a, b)) = (Val(a) + Val(b)) % M BY PlusAdds, PlusWraps
  <2>2. Val(a) \in Nat /\ Val(b) \in Nat BY LimbsOf
  <2> HIDE DEF M
  <2>3. Val(a) + Val(b) \in Nat /\ Val(a) + Val(b) < M BY <2>2, <1>3, <1>16, <1>19
  <2> QED BY <2>1, <2>3, <1>16, BelowDivisor
<1> HIDE DEF Piece, M
<1>20. w0 * S \in Nat /\ w1 * Q \in Nat /\ w0 * S + w1 * Q + w2 = n BY <1>2, <1>4, <1>5
<1>21. Piece(w0, 2 * P) \in U128 /\ Val(Piece(w0, 2 * P)) = w0 * S
  BY <1>1, <1>4, <1>5, <1>7, <1>18, <1>20 DEF S
<1>22. Piece(w1, P) \in U128 /\ Val(Piece(w1, P)) = w1 * Q
  BY <1>1, <1>4, <1>5, <1>8, <1>18, <1>20 DEF Q
<1>23. make_uint128(0, w2) \in U128 /\ Val(make_uint128(0, w2)) = w2 BY <1>5, <1>17
<1> DEFINE a == Plus(Piece(w0, 2 * P), Piece(w1, P))
<1>24. a \in U128 /\ Val(a) = w0 * S + w1 * Q
  <2>1. w0 * S + w1 * Q =< n BY <1>5, <1>20
  <2> QED BY <2>1, <1>19, <1>21, <1>22
<1> HIDE DEF a
<1>25. Val(Plus(a, make_uint128(0, w2))) = n
  <2>1. Val(a) + Val(make_uint128(0, w2)) = n BY <1>20, <1>23, <1>24
  <2>2. Val(a) + Val(make_uint128(0, w2)) =< n BY <2>1, <1>3
  <2> QED BY <2>1, <2>2, <1>19, <1>23, <1>24
<1> QED BY <1>15, <1>25 DEF a, n

\* Both paths take a value between -1 and 0 for 0.
LEMMA NegativeTruncates ==
  ASSUME FloatAssumption, NEW T \in FloatTypes, NEW v \in Int, v < 0
  PROVE  Val(FromHalves(T, v)) = 0 /\ Val(FromPieces(v)) = 0
<1>1. \A s \in Nat \ {0} : v \div s < 0 /\ v \div s \in Int OBVIOUS
<1>2. \A s \in Nat \ {0} : Truncated(v \div s) = 0 /\ Truncated(0 \div s) = 0
  <2>1. \A s \in Nat \ {0} : 0 \div s = 0 OBVIOUS
  <2>2. Truncated(0) = 0 BY InQuarters DEF Truncated
  <2> QED BY <1>1, <2>1, <2>2 DEF Truncated
<1>3. Truncated(v) = 0 /\ Truncated(0) = 0 BY InQuarters DEF Truncated
<1>4. PieceBits \in Nat /\ 2 * PieceBits \in Nat BY DEF FloatAssumption
<1> DEFINE S == Pow2[2 * PieceBits]  Q == Pow2[PieceBits]
<1>5. S \in Nat \ {0} /\ Q \in Nat \ {0} BY <1>4, PowPositive
<1> HIDE DEF S, Q
<1>6. FromPieces(v) = FromPieces(0)
  <2>1. v - Quarters * 0 * S = v /\ v - Quarters * 0 * Q = v
        /\ 0 - Quarters * 0 * S = 0 /\ 0 - Quarters * 0 * Q = 0
    BY <1>5, InQuarters
  <2> QED BY <1>2, <1>3, <1>5, <2>1 DEF FromPieces, S, Q
<1>7. Val(FromPieces(0)) = 0
  <2>1. 0 < Quarters * Pow2[Bits]
    <3>1. Pow2[Bits] \in Nat \ {0} BY Widths, PowPositive
    <3> QED BY <3>1, InQuarters
  <2>2. 0 \div Quarters = 0 BY InQuarters
  <2> QED BY <2>1, <2>2, PiecesTruncate
<1>8. FromHalves(T, v) = make_uint128(0, 0)
  <2>1. ~ (v >= Quarters * Base) BY Widths, InQuarters
  <2> QED BY <2>1, <1>3 DEF FromHalves
<1>9. Val(make_uint128(0, 0)) = 0
  <2>1. 0 < Base /\ 0 * Base + 0 = 0 BY Widths
  <2> QED BY <2>1, MakeLimbs
<1> QED BY <1>6, <1>7, <1>8, <1>9

\* What is converted is truncated.
LEMMA ConversionTruncates ==
  ASSUME FloatAssumption, NEW T \in FloatTypes, NEW v \in Finite(T) \cup Negative(T),
         Convertible(T, v)
  PROVE  Val(make_from_floating_point(T, v)) = Truncated(v)
<1>1. CASE v < 0
  <2>1. v \in Int BY FiniteInGrid DEF Negative
  <2> QED BY <2>1, <1>1, NegativeTruncates DEF Truncated, make_from_floating_point
<1>2. CASE ~ (v < 0)
  <2>1. v \in Finite(T)
    <3>1. SUFFICES ASSUME NEW w \in Finite(T), v = -w PROVE v \in Finite(T) BY DEF Negative
    <3>2. w \in Nat BY FiniteInGrid
    <3>3. v = w BY <1>2, <3>1, <3>2
    <3> QED BY <3>3
  <2>2. v \in Grid(T.digits) /\ v \in Nat /\ v < Quarters * Pow2[T.max_exponent] BY <2>1, FiniteInGrid
  <2>3. v < Quarters * Pow2[Bits]
    <3>1. CASE T.max_exponent =< Bits
      <4>1. T.max_exponent = Bits BY <3>1, TypeSizes, Widths
      <4> QED BY <4>1, <2>2
    <3> QED BY <3>1 DEF Convertible
  <2>4. Truncated(v) = v \div Quarters BY <1>2 DEF Truncated
  <2> QED BY <2>2, <2>3, <2>4, HalvesTruncate, PiecesTruncate DEF make_from_floating_point
<1> QED BY <1>1, <1>2

\* A power of two has one digit.
LEMMA PowerInGrid ==
  ASSUME NEW d \in Nat \ {0}, NEW k \in Nat
  PROVE  Pow2[k] \in Grid(d) /\ 0 \in Grid(d)
<1>1. d - 1 \in Nat /\ (d - 1) + 1 = d OBVIOUS
<1>2. Pow2[d] = 2 * Pow2[d - 1] /\ Pow2[d - 1] \in Nat \ {0} BY <1>1, PowSteps, PowPositive
<1>3. 0 \in 0..(Pow2[d] - 1) /\ 1 \in 0..(Pow2[d] - 1) BY <1>2
<1>4. Pow2[k] = 1 * Pow2[k] /\ 0 = 0 * Pow2[k] BY PowPositive
<1> QED BY <1>3, <1>4 DEF Grid

\* The limbs in quarters.
LEMMA QuarterWeights ==
  ASSUME FloatAssumption, NEW T \in FloatTypes
  PROVE  LET B4 == Pow2[LimbBits + 2]
             top == Quarters * Pow2[T.max_exponent]
         IN  /\ LimbBits + 2 \in Nat
             /\ Base \in Nat \ {0} /\ B4 = 4 * Base /\ B4 \in Nat \ {0}
             /\ top = Pow2[T.max_exponent + 2] /\ T.max_exponent + 2 \in Nat /\ top \in Nat
             /\ B4 < top /\ B4 * Base \in Nat /\ B4 * Base =< top
             /\ Pow2[T.max_exponent + 4] = 4 * top
<1> DEFINE mx == T.max_exponent
<1>1. LimbBits \in Nat /\ LimbBits >= 2 /\ Bits = LimbBits + LimbBits /\ Base \in Nat \ {0} BY Widths
<1>2. mx \in Nat /\ mx >= Bits /\ Quarters * Pow2[mx] = Pow2[mx + 2] BY TypeSizes
<1> HIDE DEF mx
<1>3. LimbBits + 2 \in Nat /\ (LimbBits + 1) + 1 = LimbBits + 2 /\ LimbBits + 1 \in Nat
      /\ mx + 2 \in Nat /\ mx + 3 \in Nat /\ mx + 4 \in Nat /\ (mx + 2) + 1 = mx + 3
      /\ (mx + 3) + 1 = mx + 4 /\ Bits + 2 \in Nat /\ (LimbBits + 2) + LimbBits = Bits + 2
      /\ Bits + 2 =< mx + 2 /\ LimbBits + 3 =< mx + 2 /\ (LimbBits + 2) + 1 = LimbBits + 3
      /\ LimbBits + 3 \in Nat
  BY <1>1, <1>2
<1>4. Pow2[LimbBits + 2] = 2 * Pow2[LimbBits + 1] /\ Pow2[LimbBits + 1] = 2 * Base
      /\ Pow2[mx + 4] = 2 * Pow2[mx + 3] /\ Pow2[mx + 3] = 2 * Pow2[mx + 2]
      /\ Pow2[LimbBits + 3] = 2 * Pow2[LimbBits + 2]
  BY <1>1, <1>3, PowSteps DEF Base
<1>5. Pow2[LimbBits + 2] * Base = Pow2[Bits + 2] BY <1>1, <1>3, PowSum DEF Base
<1>6. Pow2[Bits + 2] =< Pow2[mx + 2] /\ Pow2[LimbBits + 3] =< Pow2[mx + 2] /\ Pow2[mx + 2] \in Nat
      /\ Pow2[Bits + 2] \in Nat
  BY <1>3, PowMonotone, PowPositive
<1>7. Pow2[LimbBits + 2] = 4 * Base BY <1>1, <1>4
<1>8. Pow2[LimbBits + 2] \in Nat \ {0} /\ Pow2[LimbBits + 2] < Pow2[mx + 2] BY <1>1, <1>4, <1>6, <1>7
<1>9. Pow2[mx + 4] = 4 * Pow2[mx + 2] BY <1>4, <1>6
<1> QED BY <1>1, <1>2, <1>3, <1>5, <1>6, <1>7, <1>8, <1>9 DEF mx

\* The conversion rounds the part of each limb, and then their sum.
LEMMA ToFloatingRounds ==
  ASSUME FloatAssumption, NEW T \in FloatTypes, NEW u \in U128
  PROVE  \E rx, ry, z \in Nat :
           /\ Rounds(T.digits, u.high * Pow2[LimbBits + 2], rx)
           /\ Rounds(T.digits, 4 * u.low, ry) /\ ry =< Pow2[LimbBits + 2]
           /\ Rounds(T.digits, rx + ry, z)
           /\ ToFloating(T, u) = Ranged(T, z)
<1> DEFINE d == T.digits  b == LimbBits + 2  B4 == Pow2[b]  top == Quarters * Pow2[T.max_exponent]
           h == u.high  l == u.low  a == Rounded(T, l)  c == Rounded(T, h)
           W == Pow2[T.max_exponent + 4]
<1>1. /\ d \in Nat \ {0} /\ b \in Nat /\ Base \in Nat \ {0} /\ B4 = 4 * Base /\ B4 \in Nat \ {0}
      /\ top = Pow2[T.max_exponent + 2] /\ T.max_exponent + 2 \in Nat /\ top \in Nat
      /\ B4 < top /\ B4 * Base \in Nat /\ B4 * Base =< top /\ W = 4 * top
  BY TypeSizes, QuarterWeights
<1>2. h \in Nat /\ h < Base /\ l \in Nat /\ l < Base BY LimbsOf
<1>3. B4 \in Grid(d) /\ top \in Grid(d) BY <1>1, PowerInGrid
<1>4. ASSUME NEW n \in Nat, n < W PROVE Rounds(d, n, Rounded(T, n)) BY <1>4, RoundedRounds
<1>5. ASSUME NEW n \in Nat, NEW r, Rounds(d, n, r)
      PROVE  r \in Nat /\ (n =< B4 => r =< B4) /\ (n =< top => r =< top) /\ (top =< n => top =< r)
  <2>1. r \in Nat BY <1>1, <1>5, RoundsToGrid
  <2> QED BY <2>1, <1>1, <1>3, <1>5, GridBounds
<1> HIDE DEF top, W, d
<1>6. 4 * l \in Nat /\ 4 * l =< B4 /\ 4 * l < W /\ l < W /\ h < W BY <1>1, <1>2
<1>7. h * B4 \in Nat /\ h * B4 =< top /\ h * B4 < W
  <2>1. \A i, j, m \in Nat : i =< j => m * i =< m * j /\ m * i \in Nat /\ m * i = i * m OBVIOUS
  <2> QED BY <2>1, <1>1, <1>2
<1>8. a \in Nat /\ Rounds(d, l, a) /\ c \in Nat /\ Rounds(d, h, c) BY <1>2, <1>4, <1>5, <1>6
<1> HIDE DEF a, c
<1>9. Rounds(d, 4 * l, 4 * a) /\ 4 * a =< B4
  <2>1. Rounds(d, 4 * l, Rounded(T, 4 * l)) BY <1>4, <1>6
  <2>2. Pow2[2] = 4
    <3>1. Pow2[0 + 1] = 2 * Pow2[0] /\ Pow2[1 + 1] = 2 * Pow2[1] /\ Pow2[0] = 1 BY PowSteps
    <3> QED BY <3>1
  <2>3. l * Pow2[2] = 4 * l /\ a * Pow2[2] = 4 * a BY <2>2, <1>2, <1>8
  <2>4. Rounded(T, 4 * l) = a * Pow2[2]
    <3>1. Rounds(d, l * Pow2[2], Rounded(T, 4 * l)) BY <2>1, <2>3
    <3> QED BY <3>1, <1>1, <1>2, <1>8, RoundingScales
  <2> QED BY <2>1, <2>3, <2>4, <1>5, <1>6
<1> DEFINE rx == c * B4  ry == 4 * a
<1>10. Rounds(d, h * B4, rx) /\ rx \in Nat /\ rx =< top
  <2>1. Rounds(d, h * B4, Rounded(T, h * B4)) BY <1>4, <1>7
  <2> HIDE DEF B4
  <2>2. Rounded(T, h * B4) = c * B4
    <3> QED BY <2>1, <1>1, <1>2, <1>8, RoundingScales DEF B4
  <2> QED BY <2>1, <2>2, <1>5, <1>7
<1>11. Quarters * c * Base = rx
  <2>1. \A i, j \in Nat : 4 * i * j = i * (4 * j) OBVIOUS
  <2> QED BY <2>1, <1>1, <1>8, InQuarters
<1>12. ToFloating(T, u) = Sum(T, Ranged(T, ry), Ranged(T, rx))
  BY <1>11, InQuarters DEF ToFloating, a, c
<1>13. ry \in Nat /\ ry =< B4 /\ Ranged(T, ry) = ry BY <1>1, <1>8, <1>9 DEF Ranged, top
<1> HIDE DEF rx, ry
<1> DEFINE z == Rounded(T, rx + ry)
<1>14. rx + ry \in Nat /\ rx + ry < W /\ rx + ry = ry + rx BY <1>1, <1>10, <1>13
<1>15. z \in Nat /\ Rounds(d, rx + ry, z) /\ (top =< rx + ry => top =< z) BY <1>4, <1>5, <1>14
<1>16. ToFloating(T, u) = Ranged(T, z)
  <2>1. Infinity \notin Int BY DEF FloatAssumption
  <2>2. CASE rx >= top
    <3>1. Ranged(T, rx) = Infinity BY <2>2 DEF Ranged, top
    <3>2. top =< z BY <2>2, <1>1, <1>10, <1>13, <1>15
    <3>3. z >= top BY <3>2, <1>1, <1>15
    <3> HIDE DEF z
    <3>4. Ranged(T, z) = Infinity BY <3>3 DEF Ranged, top
    <3> QED BY <3>1, <3>4, <1>12 DEF Sum
  <2>3. CASE ~ (rx >= top)
    <3>1. Ranged(T, rx) = rx BY <2>3 DEF Ranged, top
    <3> QED BY <3>1, <2>1, <1>10, <1>12, <1>13, <1>14 DEF Sum
  <2> QED BY <2>2, <2>3
<1> HIDE DEF z
<1> QED BY <1>9, <1>10, <1>13, <1>15, <1>16 DEF d, h, l, B4, b, ry

\* No value of the type is between the number and what it became.
LEMMA NothingBetween ==
  ASSUME FloatAssumption, NEW T \in FloatTypes, NEW u \in U128, NEW v \in Finite(T)
  PROVE  LET n == Quarters * Val(u)
         IN  /\ v >= n => AtMost(ToFloating(T, u), v)
             /\ v =< n => AtMost(v, ToFloating(T, u))
<1> DEFINE d == T.digits  b == LimbBits + 2  B4 == Pow2[b]  top == Quarters * Pow2[T.max_exponent]
           h == u.high  y == 4 * u.low  n == Quarters * Val(u)
<1>1. d \in Nat \ {0} /\ b \in Nat /\ Base \in Nat \ {0} /\ B4 = 4 * Base /\ top \in Nat
  BY TypeSizes, QuarterWeights
<1>2. h \in Nat /\ u.low \in Nat /\ u.low < Base /\ Val(u) = h * Base + u.low BY LimbsOf
<1>3. y \in 0..(B4 - 1) BY <1>1, <1>2
<1>4. n = h * B4 + y
  <2>1. \A i, j, m \in Nat : 4 * (i * j + m) = i * (4 * j) + 4 * m OBVIOUS
  <2> QED BY <2>1, <1>1, <1>2, InQuarters
<1>5. v \in Grid(d) /\ v \in Nat /\ v < top BY FiniteInGrid
<1>6. PICK rx, ry, z \in Nat : Rounds(d, h * B4, rx) /\ Rounds(d, y, ry)
        /\ Rounds(d, rx + ry, z) /\ ToFloating(T, u) = Ranged(T, z)
  BY ToFloatingRounds
<1> HIDE DEF n, d, b, h, y
<1>7. (v >= h * B4 + y => z =< v) /\ (v =< h * B4 + y => v =< z)
  BY <1>1, <1>2, <1>3, <1>5, <1>6, SumBounds
<1>8. Infinity \notin Int BY DEF FloatAssumption
<1> HIDE DEF B4
<1>9. ASSUME v >= n PROVE AtMost(ToFloating(T, u), v)
  <2>1. z =< v BY <1>4, <1>7, <1>9
  <2>2. ~ (z >= top) BY <2>1, <1>1, <1>5
  <2>3. Ranged(T, z) = z BY <2>2 DEF Ranged
  <2> QED BY <2>1, <2>3, <1>6, <1>8 DEF AtMost
<1>10. ASSUME v =< n PROVE AtMost(v, ToFloating(T, u))
  <2>1. v =< z BY <1>4, <1>7, <1>10
  <2>2. v # Infinity BY <1>5, <1>8
  <2> QED BY <2>1, <2>2, <1>6 DEF AtMost, Ranged
<1> QED BY <1>9, <1>10 DEF n

\* The limbs of the next number.
LEMMA NextLimbs ==
  ASSUME NEW u \in U128, u # make_uint128(Base - 1, Base - 1)
  PROVE  LET w == Plus(u, One)
         IN  /\ w \in U128
             /\ \/ w.high = u.high /\ w.low = u.low + 1
                \/ w.high = u.high + 1 /\ w.low = 0 /\ u.low = Base - 1
<1> DEFINE w == Plus(u, One)  h == u.high  l == u.low
<1>1. Base \in Nat \ {0} /\ Base >= 4 BY Widths
<1>2. h \in Nat /\ h < Base /\ l \in Nat /\ l < Base /\ Val(u) = h * Base + l BY LimbsOf
<1>3. w \in U128 /\ Val(w) = (Val(u) + 1) % (Base * Base) BY PlusAdds, PlusWraps, ZeroAndOne
<1>4. ~ (h = Base - 1 /\ l = Base - 1)
  <2>1. u = [high |-> h, low |-> l] BY DEF U128
  <2> QED BY <2>1 DEF make_uint128
<1>5. w.high \in Nat /\ w.low \in Nat /\ w.low < Base /\ Val(w) = w.high * Base + w.low BY <1>3, LimbsOf
<1> HIDE DEF w, h, l
<1>6. h * Base \in Nat /\ Base * Base \in Nat \ {0} BY <1>1, <1>2
<1>7. Val(u) + 1 < Base * Base
  <2>1. CASE h < Base - 1
    <3>1. \A i, j \in Nat : i + 1 < j => (i + 2) * j =< j * j /\ (i + 2) * j = i * j + 2 * j OBVIOUS
    <3> QED BY <3>1, <2>1, <1>1, <1>2, <1>6
  <2>2. CASE ~ (h < Base - 1)
    <3>1. h = Base - 1 BY <2>2, <1>1, <1>2
    <3>2. l + 1 < Base BY <3>1, <1>1, <1>2, <1>4
    <3>3. h * Base = Base * Base - Base BY <3>1, <1>1
    <3> QED BY <3>2, <3>3, <1>1, <1>2, <1>6
  <2> QED BY <2>1, <2>2
<1>8. Val(w) = h * Base + (l + 1)
  <2>1. Val(u) + 1 \in Nat BY <1>2, <1>6
  <2>2. Val(w) = Val(u) + 1 BY <2>1, <1>3, <1>6, <1>7, BelowDivisor
  <2> QED BY <2>2, <1>2, <1>6
<1>9. CASE l + 1 < Base
  <2>1. w.high = h /\ w.low = l + 1
    <3>1. (w.high * Base + w.low) \div Base = w.high /\ (w.high * Base + w.low) % Base = w.low
      BY <1>1, <1>5, DivisionUnique
    <3>2. l + 1 \in Nat BY <1>2
    <3>3. (h * Base + (l + 1)) \div Base = h /\ (h * Base + (l + 1)) % Base = l + 1
      BY <3>2, <1>1, <1>2, <1>9, DivisionUnique
    <3> QED BY <3>1, <3>3, <1>5, <1>8
  <2> QED BY <2>1, <1>3 DEF w, h, l
<1>10. CASE ~ (l + 1 < Base)
  <2>1. l = Base - 1 BY <1>10, <1>1, <1>2
  <2>2. Val(w) = (h + 1) * Base + 0
    <3>1. (h + 1) * Base = h * Base + Base BY <1>1, <1>2
    <3> QED BY <3>1, <2>1, <1>1, <1>6, <1>8
  <2>3. w.high = h + 1 /\ w.low = 0
    <3>1. (w.high * Base + w.low) \div Base = w.high /\ (w.high * Base + w.low) % Base = w.low
      BY <1>1, <1>5, DivisionUnique
    <3>2. h + 1 \in Nat /\ 0 \in Nat /\ 0 < Base BY <1>1, <1>2
    <3>3. ((h + 1) * Base + 0) \div Base = h + 1 /\ ((h + 1) * Base + 0) % Base = 0
      BY <3>2, <1>1, DivisionUnique
    <3> QED BY <3>1, <3>3, <1>5, <2>2
  <2> QED BY <2>1, <2>3, <1>3 DEF w, h, l
<1> QED BY <1>9, <1>10

\* A larger number does not become a smaller value.
LEMMA ConversionMonotone ==
  ASSUME FloatAssumption, NEW T \in FloatTypes, NEW u \in U128,
         u # make_uint128(Base - 1, Base - 1)
  PROVE  AtMost(ToFloating(T, u), ToFloating(T, Plus(u, One)))
<1> DEFINE d == T.digits  b == LimbBits + 2  B4 == Pow2[b]  top == Quarters * Pow2[T.max_exponent]
           w == Plus(u, One)  h == u.high  y == 4 * u.low  k == w.high  v == 4 * w.low
<1>1. d \in Nat \ {0} /\ b \in Nat /\ Base \in Nat \ {0} /\ B4 = 4 * Base /\ B4 \in Nat \ {0} /\ top \in Nat
  BY TypeSizes, QuarterWeights
<1>2. h \in Nat /\ u.low \in Nat /\ u.low < Base BY LimbsOf
<1>3. w \in U128 /\ \/ k = h /\ w.low = u.low + 1
                    \/ k = h + 1 /\ w.low = 0 /\ u.low = Base - 1
  BY NextLimbs
<1>4. PICK rx, ry, z \in Nat : Rounds(d, h * B4, rx) /\ Rounds(d, y, ry) /\ ry =< B4
        /\ Rounds(d, rx + ry, z) /\ ToFloating(T, u) = Ranged(T, z)
  BY ToFloatingRounds
<1>5. PICK sx, sy, t \in Nat : Rounds(d, k * B4, sx) /\ Rounds(d, v, sy)
        /\ Rounds(d, sx + sy, t) /\ ToFloating(T, w) = Ranged(T, t)
  BY <1>3, ToFloatingRounds
<1>6. y \in 0..(B4 - 1) /\ y \in Nat BY <1>1, <1>2
<1> HIDE DEF d, h, w, k
<1>7. h * B4 \in Nat /\ (h + 1) * B4 = h * B4 + B4 /\ (h + 1) * B4 \in Nat BY <1>1, <1>2
<1>8. z =< t
  <2>1. CASE k = h /\ w.low = u.low + 1
    <3>1. rx = sx BY <2>1, <1>1, <1>4, <1>5, <1>7, RoundsOnce
    <3>2. ry =< sy
      <4>1. v \in Nat /\ y =< v BY <2>1, <1>2
      <4> QED BY <4>1, <1>1, <1>4, <1>5, <1>6, RoundingMonotone
    <3>3. rx + ry \in Nat /\ sx + sy \in Nat /\ rx + ry =< sx + sy BY <3>1, <3>2
    <3> QED BY <3>3, <1>1, <1>4, <1>5, RoundingMonotone
  <2>2. CASE k = h + 1 /\ w.low = 0 /\ u.low = Base - 1
    <3>1. t = sx
      <4>1. v = 0 BY <2>2
      <4>2. sy = 0 BY <4>1, <1>1, <1>5, PowerInGrid, GridRounds
      <4>3. sx + sy = sx BY <4>2
      <4>4. k * B4 \in Nat BY <2>2, <1>7
      <4>5. sx \in Grid(d) BY <4>4, <1>1, <1>5, RoundsToGrid
      <4> QED BY <4>3, <4>5, <1>1, <1>5, GridRounds
    <3>2. CASE rx =< h * B4
      <4> DEFINE X1 == (h + 1) * B4
      <4>1. rx + ry \in Nat /\ X1 \in Nat /\ rx + ry =< X1 BY <3>2, <1>1, <1>4, <1>7
      <4>2. Rounds(d, X1, sx) BY <2>2, <1>5
      <4> HIDE DEF X1
      <4> QED BY <3>1, <4>1, <4>2, <1>1, <1>4, RoundingMonotone
    <3>3. CASE ~ (rx =< h * B4)
      <4>1. PICK e \in Nat : rx = Nearest(h * B4, Pow2[e]) BY <1>4 DEF Rounds
      <4>2. PICK j \in Nat : rx = j * B4
        <5>1. \E j \in Nat : Nearest(h * B4, Pow2[e]) = j * B4
          <6> HIDE DEF b
          <6>1. \A n \in Nat \ {0}, i, j, m \in Nat :
                  \E x \in Nat : Nearest(j * Pow2[i], Pow2[m]) = x * Pow2[i]
            BY RoundsMultiple
          <6> QED BY <6>1, <1>1, <1>2, Zenon
        <5> QED BY <5>1, <4>1
      <4>3. rx >= h * B4 + B4
        <5>1. j >= h + 1
          <6>1. \A i, m, n \in Nat : i =< m => i * n =< m * n OBVIOUS
          <6>2. ~ (j =< h) BY <3>3, <4>2, <6>1, <1>1, <1>2
          <6> QED BY <6>2, <1>2
        <5>2. \A i, m, n \in Nat : i >= m => i * n >= m * n OBVIOUS
        <5>3. h + 1 \in Nat BY <1>2
        <5> QED BY <5>1, <5>2, <5>3, <4>2, <1>1, <1>7
      <4>4. rx >= h * B4 + y BY <4>3, <1>1, <1>6, <1>7
      <4>5. rx \in Grid(d) BY <1>1, <1>4, <1>7, RoundsToGrid
      <4>6. z =< rx
        <5> HIDE DEF y
        <5> QED BY <4>4, <4>5, <1>1, <1>2, <1>4, <1>6, SumBounds
      <4>7. rx =< sx
        <5> DEFINE X0 == h * B4  X1 == (h + 1) * B4
        <5>1. X0 \in Nat /\ X1 \in Nat /\ X0 =< X1 BY <1>1, <1>7
        <5>2. Rounds(d, X0, rx) /\ Rounds(d, X1, sx) BY <2>2, <1>4, <1>5
        <5> HIDE DEF X0, X1
        <5> QED BY <5>1, <5>2, <1>1, RoundingMonotone
      <4> QED BY <3>1, <4>6, <4>7
    <3> QED BY <3>2, <3>3
  <2> QED BY <2>1, <2>2, <1>3
<1>9. Infinity \notin Int BY DEF FloatAssumption
<1>10. CASE t >= top
  BY <1>5, <1>10 DEF AtMost, Ranged, w
<1>11. CASE ~ (t >= top)
  <2>1. ~ (z >= top) BY <1>1, <1>8, <1>11
  <2>2. Ranged(T, z) = z /\ Ranged(T, t) = t BY <2>1, <1>11 DEF Ranged
  <2> QED BY <2>2, <1>4, <1>5, <1>8, <1>9 DEF AtMost, w
<1> QED BY <1>10, <1>11

\* A conversion starts from a value of the type, or from a number, and its reply is
\* the function's.
FloatInv ==
  /\ type \in FloatTypes
  /\ \/ from = "floating" /\ operand \in Finite(type) \cup Negative(type) \cup Special
     \/ from = "uint128" /\ operand \in U128
  /\ \/ reply = NoReply
     \/ /\ from = "floating" /\ Convertible(type, operand)
        /\ reply = Result(make_from_floating_point(type, operand))
     \/ /\ from = "floating" /\ ~ Convertible(type, operand)
        /\ reply \in [kind : {"nullopt", "invalid_argument"}]
     \/ from = "uint128" /\ reply = Result(ToFloating(type, operand))

\* The conversions start with the invariant, and keep it.
LEMMA FloatStarts == FloatInit => FloatInv
BY DEF FloatInit, FloatInv

LEMMA FloatKeeps == FloatInv /\ [FloatNext]_floatVars => FloatInv'
<1> SUFFICES ASSUME FloatInv, [FloatNext]_floatVars PROVE FloatInv' OBVIOUS
<1> USE DEF FloatInv, Finite, Negative, Special, Convertible, Result, NoReply
<1>1. CASE safe_from_floating BY <1>1 DEF safe_from_floating
<1>2. CASE to_floating BY <1>2 DEF to_floating
<1>3. CASE UNCHANGED floatVars BY <1>3 DEF floatVars
<1> QED BY <1>1, <1>2, <1>3 DEF FloatNext

\* Which values are converted, of those a type has.
LEMMA ConvertibleIs ==
  ASSUME FloatAssumption, NEW T \in FloatTypes,
         NEW v \in Finite(T) \cup Negative(T) \cup Special
  PROVE  Convertible(T, v) <=>
           v \notin Special /\ ~ (v =< -Quarters) /\ ~ (v >= Quarters * Pow2[Bits])
<1>1. CASE v \in Special BY <1>1 DEF Convertible
<1>2. CASE v \notin Special
  <2>1. v \in Int /\ v < Quarters * Pow2[T.max_exponent]
    <3>1. CASE v \in Finite(T) BY <3>1, FiniteInGrid
    <3>2. CASE v \in Negative(T)
      <4>1. PICK w \in Finite(T) : v = -w BY <3>2 DEF Negative
      <4>2. w \in Nat BY FiniteInGrid
      <4>3. Pow2[T.max_exponent] \in Nat \ {0} BY TypeSizes, PowPositive
      <4> QED BY <4>1, <4>2, <4>3, InQuarters
    <3> QED BY <3>1, <3>2, <1>2
  <2>2. Bits \in Nat /\ T.max_exponent \in Nat /\ T.max_exponent >= Bits BY Widths, TypeSizes
  <2>3. Pow2[Bits] \in Nat BY <2>2, PowPositive
  <2>4. T.max_exponent =< Bits => v < Quarters * Pow2[Bits]
    <3>1. T.max_exponent =< Bits => T.max_exponent = Bits BY <2>2
    <3> QED BY <2>1, <3>1
  <2>5. (v > -Quarters <=> ~ (v =< -Quarters))
        /\ (v < Quarters * Pow2[Bits] <=> ~ (v >= Quarters * Pow2[Bits]))
    BY <2>1, <2>3, InQuarters
  <2> QED BY <1>2, <2>4, <2>5 DEF Convertible
<1> QED BY <1>1, <1>2

\* The invariant makes them faithful.
LEMMA FloatIsFaithful == ASSUME FloatAssumption, FloatInv PROVE FloatsAreFaithful
<1> SUFFICES ASSUME reply # NoReply
             PROVE  IF from = "floating" THEN Truncates ELSE Neighbours
  BY DEF FloatsAreFaithful
<1>1. type \in FloatTypes BY DEF FloatInv
<1>2. CASE from = "floating"
  <2>1. operand \in Finite(type) \cup Negative(type) \cup Special BY <1>2 DEF FloatInv
  <2>2. CASE Convertible(type, operand)
    <3>1. reply = Result(make_from_floating_point(type, operand)) BY <1>2, <2>2 DEF FloatInv
    <3>2. operand \notin Special /\ ~ (operand =< -Quarters) /\ ~ (operand >= Quarters * Pow2[Bits])
      BY <1>1, <2>1, <2>2, ConvertibleIs
    <3>3. operand \in Finite(type) \cup Negative(type) BY <2>1, <3>2
    <3>4. Val(make_from_floating_point(type, operand)) = Truncated(operand)
      BY <1>1, <2>2, <3>3, ConversionTruncates
    <3> QED BY <1>2, <3>1, <3>2, <3>4 DEF Truncates, Result
  <2>3. CASE ~ Convertible(type, operand)
    <3>1. reply \in [kind : {"nullopt", "invalid_argument"}] BY <1>2, <2>3 DEF FloatInv
    <3>2. reply.kind # "result" BY <3>1
    <3>3. operand \in Special \/ operand =< -Quarters \/ operand >= Quarters * Pow2[Bits]
      BY <1>1, <2>1, <2>3, ConvertibleIs
    <3> QED BY <1>2, <3>2, <3>3 DEF Truncates
  <2> QED BY <2>2, <2>3
<1>3. CASE from # "floating"
  <2>1. operand \in U128 /\ reply = Result(ToFloating(type, operand)) BY <1>3 DEF FloatInv
  <2>2. reply.value = ToFloating(type, operand) BY <2>1 DEF Result
  <2> QED BY <1>1, <1>3, <2>1, <2>2, NothingBetween, ConversionMonotone DEF Neighbours
<1> QED BY <1>2, <1>3

\* For any limbs and any binary type that reaches 2^Bits, a conversion from floating
\* point truncates exactly or refuses, on either path, and one to floating point gives
\* a value next to the number and keeps the order (make_from_floating_point, operator
\* float, double and long double).
THEOREM ConversionsAreFaithful == ASSUME FloatAssumption PROVE FloatSpec => []FloatsAreFaithful
<1>1. FloatInv => FloatsAreFaithful BY FloatIsFaithful
<1> QED BY <1>1, FloatStarts, FloatKeeps, PTL DEF FloatSpec
=============================================================================
