---------------------------- MODULE FloatingPoint ----------------------------
(***************************************************************************)
(* The conversions between uint128 and the floating-point types             *)
(* (uint128.inl).  A finite value of a type is written here as a whole      *)
(* number of quarters, so that values between -1 and 1 exist; the           *)
(* operations of the type round to the nearest value, ties to even.         *)
(***************************************************************************)
EXTENDS Uint128

CONSTANTS
  FloatTypes,  \* types explored: digits, max_exponent, and the path they take
  PieceBits,   \* bits that the path for long double converts at a time: 50
  Infinity,    \* the values of a type that are no numbers
  NaN

FloatAssumption ==
  /\ \A T \in FloatTypes :
       T.digits \in Nat \ {0} /\ T.max_exponent \in Nat /\ T.max_exponent >= Bits
  /\ PieceBits \in Nat /\ PieceBits < LimbBits /\ 3 * PieceBits >= Bits
  /\ Infinity \notin Int

VARIABLES
  type,     \* the floating-point type
  from,     \* "floating" or "uint128", what is converted
  operand,  \* its value
  reply     \* the conversion's result, as [kind, value]

floatVars == <<type, from, operand, reply>>

NoReply == [kind |-> "none"]
Result(v) == [kind |-> "result", value |-> v]

Quarters == 4
Special == {NaN, Infinity}

\* The finite values of a type that are not negative, in quarters.
Finite(T) ==
  {m * Pow2[e] : m \in 0..(Pow2[T.digits] - 1), e \in 0..(T.max_exponent + 2)}
    \cap 0..(Quarters * Pow2[T.max_exponent] - 1)

Negative(T) == {-v : v \in Finite(T)}

\* The nearest multiple of the weight that the last of the digits has.
Rounded(T, n) ==
  LET step == Pow2[CHOOSE e \in 0..(2 * T.max_exponent) :
                     n < Pow2[T.digits + e] /\ (e > 0 => n >= Pow2[T.digits + e - 1])]
      down == (n \div step) * step
      over == 2 * (n - down)
  IN  IF over > step \/ (over = step /\ (n \div step) % 2 = 1) THEN down + step ELSE down

-----------------------------------------------------------------------------
(* make_from_floating_point, for finite values above -1 that fit *)

\* static_cast to an integer, which truncates.
Truncated(v) == IF v < 0 THEN 0 ELSE v \div Quarters

\* PieceBits at a time, from the top.  What is or-ed together has no bit in common.
FromPieces(v) ==
  LET w0   == Truncated(v \div Pow2[2 * PieceBits])
      v1   == v - Quarters * w0 * Pow2[2 * PieceBits]
      w1   == Truncated(v1 \div Pow2[PieceBits])
      w2   == Truncated(v1 - Quarters * w1 * Pow2[PieceBits])
      Piece(w, n) == ShiftLeft(make_uint128(0, w), n)
  IN  Plus(Plus(Piece(w0, 2 * PieceBits), Piece(w1, PieceBits)), make_uint128(0, w2))

\* Mutant of FromHalves: 2^LimbBits itself is taken for the low limb.
FromHalvesAbove(T, v) ==
  IF v > Quarters * Base
  THEN LET hi == Truncated(v \div Base)
       IN  make_uint128(hi, Truncated(v - Quarters * Base * hi))
  ELSE make_uint128(0, Wrap(Truncated(v)))

\* The high limb, and what the type gives for the difference.
FromHalves(T, v) ==
  IF v >= Quarters * Base
  THEN LET hi == Truncated(v \div Base)
           lo == Truncated(Rounded(T, v - Quarters * Base * Rounded(T, hi)))
       IN  make_uint128(hi, lo)
  ELSE make_uint128(0, Truncated(v))

make_from_floating_point(T, v) == IF T.pieces THEN FromPieces(v) ELSE FromHalves(T, v)

\* The test of safe_from_floating and of the constructor's assertion; a type
\* whose values all fit is not compared with 2^Bits.
Convertible(T, v) ==
  /\ v \notin Special
  /\ v > -Quarters
  /\ \/ ~ T.pieces /\ T.max_exponent =< Bits
     \/ v < Quarters * Pow2[Bits]

-----------------------------------------------------------------------------
(* operator float, double and long double *)

\* A value of the type, or infinity if it has none that large.
Ranged(T, v) == IF v >= Quarters * Pow2[T.max_exponent] THEN Infinity ELSE v

Sum(T, v, w) ==
  IF v = Infinity \/ w = Infinity THEN Infinity ELSE Ranged(T, Rounded(T, v + w))

\* Each limb is rounded, and so is their sum.
ToFloating(T, u) ==
  Sum(T, Ranged(T, Quarters * Rounded(T, u.low)),
         Ranged(T, Quarters * Rounded(T, u.high) * Base))

-----------------------------------------------------------------------------

FloatInit ==
  /\ type \in FloatTypes
  /\ \/ from = "floating" /\ operand \in Finite(type) \cup Negative(type) \cup Special
     \/ from = "uint128" /\ operand \in U128
  /\ reply = NoReply

\* safe_from_floating and its throwing form, which differ in how they refuse.
safe_from_floating ==
  /\ reply = NoReply /\ from = "floating"
  /\ \/ /\ Convertible(type, operand)
        /\ reply' = Result(make_from_floating_point(type, operand))
     \/ /\ ~ Convertible(type, operand)
        /\ reply' \in [kind : {"nullopt", "invalid_argument"}]
  /\ UNCHANGED <<type, from, operand>>

to_floating ==
  /\ reply = NoReply /\ from = "uint128"
  /\ reply' = Result(ToFloating(type, operand))
  /\ UNCHANGED <<type, from, operand>>

FloatNext == safe_from_floating \/ to_floating

FloatSpec == FloatInit /\ [][FloatNext]_floatVars

-----------------------------------------------------------------------------
(* Properties *)

\* x =< y where infinity is above every number.
AtMost(x, y) == y = Infinity \/ (x # Infinity /\ x =< y)

\* A value between -1 and Pow2[Bits] is truncated, exactly, on either path, and every
\* other one is refused.
Truncates ==
  IF operand \in Special \/ operand =< -Quarters \/ operand >= Quarters * Pow2[Bits]
  THEN reply.kind # "result"
  ELSE Val(reply.value) = Truncated(operand)

\* No value of the type lies between the number and what it became, so a number
\* that the type has is kept; and a larger number does not become a smaller value.
Neighbours ==
  LET n == Quarters * Val(operand)
  IN  /\ \A v \in Finite(type) :
           (v >= n => AtMost(reply.value, v)) /\ (v =< n => AtMost(v, reply.value))
      /\ operand # make_uint128(Base - 1, Base - 1) =>
           AtMost(reply.value, ToFloating(type, Plus(operand, One)))

\* Conversions from floating point are exact truncations, on either path, and
\* refuse every other value; those to it, although they round three times, give
\* one of the two values next to the number.
FloatsAreFaithful ==
  reply # NoReply => IF from = "floating" THEN Truncates ELSE Neighbours
=============================================================================
