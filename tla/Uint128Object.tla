---------------------------- MODULE Uint128Object ----------------------------
(***************************************************************************)
(* A uint128 variable and the calls that change it: compound assignments,   *)
(* increments, the unary operators, assignment of a signed integer and the  *)
(* carry functions, each of which works on the two limbs.  A division by    *)
(* zero throws and leaves the variable as it was.                           *)
(***************************************************************************)
EXTENDS Uint128

CONSTANTS
  Operands,     \* values of the right operands in this instance
  SignedInts,   \* signed integers assigned in this instance
  Operations    \* operations this instance explores

CarryOperations == {"add_with_carry", "sub_with_borrow"}
AllOperations ==
  {"+=", "-=", "*=", "&=", "|=", "^=", "/=", "%=", "<<=", ">>=",
   "++x", "x++", "--x", "x--", "-x", "~x", "=", "<=>",
   "most_sign_set_bit"} \cup CarryOperations

\* What the instances of this module assume of its constants.
ObjectAssumption ==
  /\ Operands \subseteq U128
  /\ SignedInts \subseteq (-(Base \div 2))..((Base \div 2) - 1)
  /\ Operations \subseteq AllOperations

VARIABLES m_limbs,  \* the two limbs of the variable
          called    \* the last call and its result, until the caller has read it

vars == <<m_limbs, called>>

NoCall == [op |-> "none"]

Init == m_limbs \in U128 /\ called = NoCall

\* The guard of every call, and how it ends: the operand it had and the result
\* it returned, "done" when that is the variable itself.
Calls(op) == op \in Operations /\ called = NoCall
Returns(op, operand, result) ==
  called' = [op |-> op, operand |-> operand, result |-> result]

-----------------------------------------------------------------------------

\* *this = *this op other
Assign(op, operand, u) == Calls(op) /\ m_limbs' = u /\ Returns(op, operand, "done")

AddAssign(b)      == Assign("+=", Val(b), Plus(m_limbs, b))
SubtractAssign(b) == Assign("-=", Val(b), Minus(m_limbs, b))
MultiplyAssign(b) == Assign("*=", Val(b), Times(m_limbs, b))
AndAssign(b)      == Assign("&=", Val(b), BitAnd(m_limbs, b))
OrAssign(b)       == Assign("|=", Val(b), BitOr(m_limbs, b))
XorAssign(b)      == Assign("^=", Val(b), BitXor(m_limbs, b))

\* "/" and "%" throw domain_error for a zero divisor, before the assignment.
ThrowDomainError(op, b) ==
  /\ Calls(op)
  /\ Equal(b, Zero)
  /\ Returns(op, Val(b), "domain_error")
  /\ UNCHANGED m_limbs

DivideAssign(b) ==
  \/ ~ Equal(b, Zero) /\ Assign("/=", Val(b), unsafe_div_mod(m_limbs, b).quotient)
  \/ ThrowDomainError("/=", b)

ModulusAssign(b) ==
  \/ ~ Equal(b, Zero) /\ Assign("%=", Val(b), unsafe_div_mod(m_limbs, b).remainder)
  \/ ThrowDomainError("%=", b)

\* An amount may be a uint128, which is converted to int; the amounts below Bits:
\* others fail an assertion.
AsInt(amount) == amount.low

ShiftLeftAssign(amount) ==
  Assign("<<=", Val(amount), ShiftLeft(m_limbs, AsInt(amount)))
ShiftRightAssign(amount) ==
  Assign(">>=", Val(amount), ShiftRight(m_limbs, AsInt(amount)))

\* The prefix form returns the variable, the postfix form the copy made before.
Changed(op, u, result) == Calls(op) /\ m_limbs' = u /\ Returns(op, 1, result)

PreIncrement  == Changed("++x", Plus(m_limbs, One), Val(m_limbs'))
PreDecrement  == Changed("--x", Minus(m_limbs, One), Val(m_limbs'))
PostIncrement == Changed("x++", Plus(m_limbs, One), Val(m_limbs))
PostDecrement == Changed("x--", Minus(m_limbs, One), Val(m_limbs))

NegateAssign     == Assign("-x", 0, Negate(m_limbs))
ComplementAssign == Assign("~x", 0, Complement(m_limbs))

\* The high limb of a negative integer is filled with its sign.
FromSigned(v) == make_uint128(IF v < 0 THEN Base - 1 ELSE 0, Wrap(v))
AssignInt(v)  == Assign("=", v, FromSigned(v))

Compare(b) ==
  /\ Calls("<=>")
  /\ Returns("<=>", Val(b),
             [less |-> Less(m_limbs, b), equal |-> Equal(m_limbs, b),
              greater |-> Greater(m_limbs, b),
              not |-> ~ (m_limbs.low # 0 \/ m_limbs.high # 0)])
  /\ UNCHANGED m_limbs

\* Zero has no leading bit: it fails an assertion.
most_sign_set_bit ==
  /\ Calls("most_sign_set_bit")
  /\ ~ Equal(m_limbs, Zero)
  /\ Returns("most_sign_set_bit", 0, fls(m_limbs))
  /\ UNCHANGED m_limbs

AddCarrying(b, carry_in) ==
  /\ Calls("add_with_carry")
  /\ LET r == AddWithCarry(m_limbs, b, carry_in)
     IN  m_limbs' = r.sum /\ Returns("add_with_carry", <<Val(b), carry_in>>, r.carry)

SubtractBorrowing(b, borrow_in) ==
  /\ Calls("sub_with_borrow")
  /\ LET r == SubWithBorrow(m_limbs, b, borrow_in)
     IN  /\ m_limbs' = r.difference
         /\ Returns("sub_with_borrow", <<Val(b), borrow_in>>, r.borrow)

\* The caller reads the result.
ReadResult ==
  /\ called # NoCall
  /\ called' = NoCall
  /\ UNCHANGED m_limbs

Next ==
  \/ \E b \in Operands :
       \/ AddAssign(b) \/ SubtractAssign(b) \/ MultiplyAssign(b)
       \/ AndAssign(b) \/ OrAssign(b) \/ XorAssign(b)
       \/ DivideAssign(b) \/ ModulusAssign(b)
       \/ Compare(b)
       \/ \E c \in 0..1 : AddCarrying(b, c) \/ SubtractBorrowing(b, c)
  \/ \E n \in 0..(Bits - 1) :
       \/ ShiftLeftAssign(make_uint128(0, n))
       \/ ShiftRightAssign(make_uint128(0, n))
  \/ PreIncrement \/ PostIncrement \/ PreDecrement \/ PostDecrement
  \/ most_sign_set_bit
  \/ NegateAssign \/ ComplementAssign
  \/ \E v \in SignedInts : AssignInt(v)
  \/ ReadResult

Spec == Init /\ [][Next]_vars

-----------------------------------------------------------------------------
(* Properties *)

Residues ==
  INSTANCE ResidueArithmetic WITH
    Width   <- Bits,
    Amounts <- {Val(b) : b \in Operands},
    number  <- Val(m_limbs),
    said    <- called

\* Two limbs behave as one number modulo 2^Bits: no carry, borrow, cross
\* product or shifted bit is lost between them, a division is exact, and one
\* that throws leaves the variable alone.
ImplementsResidues == Residues!Spec

\* The carry out of add_with_carry tells whether the sum overflowed.
CarryOutTellsOverflow ==
  [][called'.op = "add_with_carry" =>
       LET sum == Val(m_limbs) + called'.operand[1] + called'.operand[2]
       IN  called'.result # 0 <=> sum >= Base * Base]_vars
=============================================================================
