------------------------------- MODULE Uint128 -------------------------------
(***************************************************************************)
(* The arithmetic of cjm::numerics::uint128 (uint128.inl): an unsigned      *)
(* integer kept in two limbs, with the carries, borrows, cross products and *)
(* bits that move between the limbs.  The width is a parameter; every limb  *)
(* operation wraps modulo Base as uint64_t does.                            *)
(*                                                                          *)
(* CalculationMode names the path that the operators take.  The portable    *)
(* path "default_eval" is also the one of constant evaluation in every      *)
(* build; the msvc paths use the compiler's carry, product, shift, scan and *)
(* division instructions, which are external and modelled by what they do.  *)
(***************************************************************************)
EXTENDS PowersOfTwo

CONSTANTS HalfBits,         \* int_part_bottom_half_bits: 32 in the library
          CalculationMode   \* the path taken by the operators

ASSUME WidthAssumption == HalfBits \in Nat \ {0}

ASSUME ModeAssumption ==
  CalculationMode \in {"default_eval", "msvc_x64", "msvc_x64_clang_or_intel_llvm"}

LimbBits == 2 * HalfBits
Bits     == 2 * LimbBits
HalfBase == Pow2[HalfBits]
Base     == Pow2[LimbBits]
Limb     == 0..(Base - 1)
U128     == [high : Limb, low : Limb]

make_uint128(h, l) == [high |-> h, low |-> l]
Zero == make_uint128(0, 0)
One  == make_uint128(0, 1)

\* The number that the two limbs stand for.
Val(u) == u.high * Base + u.low

\* The modes whose operators use the instructions.
Intrinsics(mode) == mode \in {"msvc_x64", "msvc_x64_clang_or_intel_llvm"}

-----------------------------------------------------------------------------
(* int_part, that is uint64_t, arithmetic of the language *)

Wrap(n)            == n % Base
LimbNot(a)         == Base - 1 - a
LimbShiftLeft(a, n)  == Wrap(a * Pow2[n])
LimbShiftRight(a, n) == a \div Pow2[n]

(* The instructions behind CJM_ADDCARRY64, CJM_SUBBORROW_64, CJM_UMUL128,   *)
(* CJM_LSHIFT128, CJM_RSHIFT128, CJM_UDIV128, CJM_BITSCAN_REV_64, and       *)
(* std::countl_zero.                                                        *)

ADDCARRY64(c, a, b)  == [sum |-> Wrap(a + b + c), carry |-> (a + b + c) \div Base]
SUBBORROW_64(c, a, b) == [difference |-> Wrap(a - b - c), borrow |-> IF a < b + c THEN 1 ELSE 0]
UMUL128(a, b)        == make_uint128((a * b) \div Base, Wrap(a * b))
LSHIFT128(l, h, n)   == Wrap(((h * Base + l) * Pow2[n]) \div Base)
RSHIFT128(l, h, n)   == Wrap((h * Base + l) \div Pow2[n])
UDIV128(h, l, d)     == [quotient |-> (h * Base + l) \div d, remainder |-> (h * Base + l) % d]
BITSCAN_REV_64(n)    == CHOOSE p \in 0..(LimbBits - 1) : Pow2[p] =< n /\ n < Pow2[p + 1]
countl_zero(n)       == CHOOSE z \in 0..(LimbBits - 1) :
                          Pow2[LimbBits - 1 - z] =< n /\ n < Pow2[LimbBits - z]

-----------------------------------------------------------------------------
(* The operators that work on each bit by itself *)

MaxOf(a, b) == IF a > b THEN a ELSE b

Bit(n, k) == (n \div Pow2[k]) % 2

\* The limb whose bits are made of those of two limbs.
LimbBitwise(Of(_, _), a, b) ==
  Total([k \in 1..LimbBits |-> Of(Bit(a, k - 1), Bit(b, k - 1)) * Pow2[k - 1]], LimbBits)

And(a, b)         == LimbBitwise(LAMBDA x, y : x * y, a, b)
Or(a, b)          == LimbBitwise(MaxOf, a, b)
ExclusiveOr(a, b) == LimbBitwise(LAMBDA x, y : (x + y) % 2, a, b)

BitAnd(a, b) == make_uint128(And(a.high, b.high), And(a.low, b.low))
BitOr(a, b)  == make_uint128(Or(a.high, b.high), Or(a.low, b.low))
BitXor(a, b) == make_uint128(ExclusiveOr(a.high, b.high), ExclusiveOr(a.low, b.low))

-----------------------------------------------------------------------------
(* Comparisons *)

Equal(lhs, rhs) == lhs.high = rhs.high /\ lhs.low = rhs.low

Greater(lhs, rhs) ==
  IF lhs.high = rhs.high THEN lhs.low > rhs.low ELSE lhs.high > rhs.high

Less(lhs, rhs) ==
  IF lhs.high = rhs.high THEN lhs.low < rhs.low ELSE lhs.high < rhs.high

GreaterOrEqual(lhs, rhs) == ~ Less(lhs, rhs)

-----------------------------------------------------------------------------
(* Addition, subtraction, negation *)

\* Mutant of Plus: the carry test compares with <=.
PlusCarryOnEqual(lhs, rhs) ==
  LET low == Wrap(lhs.low + rhs.low)
  IN  make_uint128(Wrap(lhs.high + rhs.high + (IF low =< lhs.low THEN 1 ELSE 0)), low)

Plus(lhs, rhs) ==
  IF Intrinsics(CalculationMode)
  THEN LET low  == ADDCARRY64(0, lhs.low, rhs.low)
           high == ADDCARRY64(low.carry, lhs.high, rhs.high)
       IN  make_uint128(high.sum, low.sum)
  ELSE LET low  == Wrap(lhs.low + rhs.low)
           high == Wrap(lhs.high + rhs.high)
       IN  make_uint128(IF low < lhs.low THEN Wrap(high + 1) ELSE high, low)

Minus(lhs, rhs) ==
  IF Intrinsics(CalculationMode)
  THEN LET low  == SUBBORROW_64(0, lhs.low, rhs.low)
           high == SUBBORROW_64(low.borrow, lhs.high, rhs.high)
       IN  make_uint128(high.difference, low.difference)
  ELSE LET low  == Wrap(lhs.low - rhs.low)
           high == Wrap(lhs.high - rhs.high)
       IN  make_uint128(IF lhs.low < rhs.low THEN Wrap(high - 1) ELSE high, low)

Complement(u) == make_uint128(LimbNot(u.high), LimbNot(u.low))

Negate(u) ==
  IF Intrinsics(CalculationMode)
  THEN Plus(Complement(u), One)
  ELSE LET low == Wrap(LimbNot(u.low) + 1)
       IN  make_uint128(IF low = 0 THEN Wrap(LimbNot(u.high) + 1) ELSE LimbNot(u.high), low)

-----------------------------------------------------------------------------
(* Shifts by 0..Bits-1 (asserted).  Where two limbs are or-ed, one operand  *)
(* has only bits that the other has shifted out, so that "|" is "+".        *)

rshift_msvc_x64(lhs, amount) ==
  IF amount >= LimbBits
  THEN make_uint128(0, LimbShiftRight(lhs.high, amount - LimbBits))
  ELSE make_uint128(LimbShiftRight(lhs.high, amount), RSHIFT128(lhs.low, lhs.high, amount))

ShiftRight(lhs, amount) ==
  IF Intrinsics(CalculationMode) THEN rshift_msvc_x64(lhs, amount)
  ELSE CASE amount >= LimbBits ->
              make_uint128(0, LimbShiftRight(lhs.high, amount - LimbBits))
         [] amount \in 1..(LimbBits - 1) ->
              make_uint128(LimbShiftRight(lhs.high, amount),
                           LimbShiftRight(lhs.low, amount)
                             + LimbShiftLeft(lhs.high, LimbBits - amount))
         [] amount = 0 -> lhs

lshift_msvc_x64(lhs, amount) ==
  IF amount >= LimbBits
  THEN make_uint128(LimbShiftLeft(lhs.low, amount - LimbBits), 0)
  ELSE make_uint128(LSHIFT128(lhs.low, lhs.high, amount), LimbShiftLeft(lhs.low, amount))

ShiftLeft(lhs, amount) ==
  IF Intrinsics(CalculationMode) THEN lshift_msvc_x64(lhs, amount)
  ELSE CASE amount >= LimbBits ->
              make_uint128(LimbShiftLeft(lhs.low, amount - LimbBits), 0)
         [] amount \in 1..(LimbBits - 1) ->
              make_uint128(LimbShiftLeft(lhs.high, amount)
                             + LimbShiftRight(lhs.low, LimbBits - amount),
                           LimbShiftLeft(lhs.low, amount))
         [] amount = 0 -> lhs

\* u |= 1
SetLowBit(u) == make_uint128(u.high, (u.low + 1) - (u.low % 2))

-----------------------------------------------------------------------------
(* Multiplication: the portable path adds the products of half limbs *)

TimesHalves(lhs, rhs) ==
  LET a32 == lhs.low \div HalfBase
      a00 == lhs.low % HalfBase
      b32 == rhs.low \div HalfBase
      b00 == rhs.low % HalfBase
      high == Wrap(lhs.high * rhs.low + lhs.low * rhs.high + a32 * b32)
      outer == make_uint128(high, Wrap(a00 * b00))
      cross == Plus(outer, ShiftLeft(make_uint128(0, Wrap(a32 * b00)), HalfBits))
  IN  Plus(cross, ShiftLeft(make_uint128(0, Wrap(a00 * b32)), HalfBits))

Times(lhs, rhs) ==
  IF Intrinsics(CalculationMode)
  THEN LET product == UMUL128(lhs.low, rhs.low)
       IN  make_uint128(Wrap(lhs.low * rhs.high + lhs.high * rhs.low + product.high),
                        product.low)
  ELSE TimesHalves(lhs, rhs)

-----------------------------------------------------------------------------
(* Division: shift and subtract, with a short path of the msvc build for a  *)
(* divisor of one limb                                                      *)

fls_int_part(n) == IF Intrinsics(CalculationMode) THEN BITSCAN_REV_64(n) ELSE LimbBits - 1 - countl_zero(n)

\* Position of the most significant set bit; asserts u # 0.
fls(u) == IF u.high # 0 THEN fls_int_part(u.high) + LimbBits ELSE fls_int_part(u.low)

DivResult(q, r) == [quotient |-> q, remainder |-> r]

\* What the loop works on: the dividend (which becomes the remainder), the
\* quotient so far and the shifted divisor.
Aligned(dividend, divisor) ==
  [dividend |-> dividend, quotient |-> Zero,
   denominator |-> ShiftLeft(divisor, fls(dividend) - fls(divisor))]

\* Mutant of LoopBody: the denominator is subtracted only when it is smaller.
LoopBodyStrict(s) ==
  LET doubled   == ShiftLeft(s.quotient, 1)
      subtracts == Greater(s.dividend, s.denominator)
  IN  [dividend    |-> IF subtracts THEN Minus(s.dividend, s.denominator) ELSE s.dividend,
       quotient    |-> IF subtracts THEN SetLowBit(doubled) ELSE doubled,
       denominator |-> ShiftRight(s.denominator, 1)]

\* One iteration of the loop of unsafe_constexpr_div_mod_impl.
LoopBody(s) ==
  LET doubled   == ShiftLeft(s.quotient, 1)
      subtracts == GreaterOrEqual(s.dividend, s.denominator)
  IN  [dividend    |-> IF subtracts THEN Minus(s.dividend, s.denominator) ELSE s.dividend,
       quotient    |-> IF subtracts THEN SetLowBit(doubled) ELSE doubled,
       denominator |-> ShiftRight(s.denominator, 1)]

\* The loop's state after each number of iterations.
Iterated(start) ==
  LET after[k \in 0..Bits] == IF k = 0 THEN start ELSE LoopBody(after[k - 1])
  IN  after

unsafe_constexpr_div_mod_impl(dividend, divisor) ==
  IF Greater(divisor, dividend) THEN DivResult(Zero, dividend)
  ELSE IF Equal(divisor, dividend) THEN DivResult(One, Zero)
  ELSE LET shift == fls(dividend) - fls(divisor)
           last  == Iterated(Aligned(dividend, divisor))[shift + 1]
       IN  DivResult(last.quotient, last.dividend)

\* The optimised path for a divisor of one limb: two divisions of a limb pair
\* by a limb, the first of which makes the second one's quotient fit.
DivideByLimb(dividend, d) ==
  LET first  == IF dividend.high < d
                THEN DivResult(0, dividend.high)
                ELSE DivResult(dividend.high \div d, dividend.high % d)
      second == UDIV128(first.remainder, dividend.low, d)
  IN  DivResult(make_uint128(first.quotient, second.quotient),
                make_uint128(0, second.remainder))

div_mod_msc_x64_impl(dividend, divisor) ==
  IF Greater(divisor, dividend) THEN DivResult(Zero, dividend)
  ELSE IF divisor.high = 0 THEN DivideByLimb(dividend, divisor.low)
  ELSE unsafe_constexpr_div_mod_impl(dividend, divisor)

\* unsafe_div_mod, for a divisor that is not zero.
unsafe_div_mod(dividend, divisor) ==
  IF CalculationMode = "msvc_x64"
  THEN div_mod_msc_x64_impl(dividend, divisor)
  ELSE unsafe_constexpr_div_mod_impl(dividend, divisor)

-----------------------------------------------------------------------------
(* Addition with carry and subtraction with borrow, for chains of words *)

\* Mutant of AddWithCarryLimb: the portable test of the sum in every mode.
AddWithCarryLimbByTest(a, b, carry_in) ==
  LET sum == Wrap(Wrap(a + carry_in) + b)
  IN  [sum |-> sum, carry |-> IF sum < MaxOf(a, b) THEN 1 ELSE 0]

\* add_with_carry of int_part: the portable path compares the wrapped sum
\* with the larger addend.
AddWithCarryLimb(a, b, carry_in) ==
  IF Intrinsics(CalculationMode)
  THEN ADDCARRY64(carry_in, a, b)
  ELSE LET sum == Wrap(Wrap(a + carry_in) + b)
       IN  [sum |-> sum, carry |-> IF sum < MaxOf(a, b) THEN 1 ELSE 0]

\* add_with_carry of uint128: the portable path compares with the first addend.
AddWithCarry(a, b, carry_in) ==
  IF Intrinsics(CalculationMode)
  THEN LET low  == AddWithCarryLimb(a.low, b.low, carry_in)
           high == AddWithCarryLimb(a.high, b.high, low.carry)
       IN  [sum |-> make_uint128(high.sum, low.sum), carry |-> high.carry]
  ELSE LET started == IF carry_in = 1 THEN Plus(a, One) ELSE a
           sum     == Plus(started, b)
       IN  [sum |-> sum, carry |-> IF Less(sum, a) THEN 1 ELSE 0]

\* sub_with_borrow of int_part.
SubWithBorrowLimb(a, b, borrow_in) ==
  IF Intrinsics(CalculationMode)
  THEN SUBBORROW_64(borrow_in, a, b)
  ELSE LET difference == Wrap(Wrap(a - borrow_in) - b)
       IN  [difference |-> difference, borrow |-> IF difference > a THEN 0 ELSE 1]

\* sub_with_borrow of uint128.
SubWithBorrow(a, b, borrow_in) ==
  IF Intrinsics(CalculationMode)
  THEN LET low  == SubWithBorrowLimb(a.low, b.low, borrow_in)
           high == SubWithBorrowLimb(a.high, b.high, low.borrow)
       IN  [difference |-> make_uint128(high.difference, low.difference),
            borrow |-> high.borrow]
  ELSE LET started    == IF borrow_in = 1 THEN Minus(a, One) ELSE a
           difference == Minus(started, b)
       IN  [difference |-> difference, borrow |-> IF Greater(difference, a) THEN 1 ELSE 0]
=============================================================================
