----------------------- MODULE ExtendedMultiplication -----------------------
(***************************************************************************)
(* umult (uint128_test_app/src/headers/umult.hpp): the full product of two  *)
(* integers.  Each is split into halves, the four products of halves are    *)
(* moved to their places, and they are added one after the other: in a      *)
(* wider integer where there is one (multiplicands of 16 and 32 bits), in a *)
(* pair of words with a carry between them for 64 bits.                     *)
(***************************************************************************)
EXTENDS Uint128, Sequences

VARIABLES
  running,   \* whether umult has been entered
  helper,    \* "wide" for the integers with a wider one, "pair" for 64 bits
  factors,   \* the two factors
  products,  \* the adjusted products, those still to be added
  sum,       \* the sum so far: a number, or a pair of words
  overflow   \* carry_out of the high word, asserted to be zero

multVars == <<running, helper, factors, products, sum, overflow>>

split_up(n) == [high |-> n \div HalfBase, low |-> n % HalfBase]

-----------------------------------------------------------------------------
(* uint_ext_mult_helper<std::uint64_t> *)

\* The amounts are LimbBits and half of it: the bits that leave the low word
\* come into the high one.
lshift(val, amount) ==
  CASE amount = LimbBits -> make_uint128(val.low, 0)
    [] amount \in 1..(LimbBits - 1) ->
         make_uint128(LimbShiftLeft(val.high, amount)
                        + LimbShiftRight(val.low, LimbBits - amount),
                      LimbShiftLeft(val.low, amount))
    [] amount = 0 -> val

\* A sum below its first addend has wrapped; with a carry in and a second addend
\* that is all ones it wraps to that addend unnoticed.
add_with_carry(lhs, rhs, carry_in) ==
  LET s == Wrap(lhs + rhs + carry_in)
  IN  [sum |-> s, carry |-> IF s < lhs THEN 1 ELSE 0]

\* Mutant of add: the carry of the low words is not passed on.
add_uncarried(lhs, rhs) ==
  LET low  == add_with_carry(lhs.low, rhs.low, 0)
      high == add_with_carry(lhs.high, rhs.high, 0)
  IN  [sum |-> make_uint128(high.sum, low.sum), carry |-> high.carry]

add(lhs, rhs) ==
  LET low  == add_with_carry(lhs.low, rhs.low, 0)
      high == add_with_carry(lhs.high, rhs.high, low.carry)
  IN  [sum |-> make_uint128(high.sum, low.sum), carry |-> high.carry]

-----------------------------------------------------------------------------

\* The products of the halves, each of which fits a word.
HalfProducts(l, r) == <<l.low * r.low, l.high * r.low, l.low * r.high, l.high * r.high>>

uint64_t_mult_helper(low) == make_uint128(0, low)

\* The products at their places, in pairs of words ...
adjusted_pairs(p) ==
  LET pair == [n \in 1..4 |-> uint64_t_mult_helper(p[n])]
  IN  <<pair[1], lshift(pair[2], HalfBits), lshift(pair[3], HalfBits), lshift(pair[4], LimbBits)>>

\* ... or in the wider integer.
adjusted_wide(p) == <<p[1], p[2] * HalfBase, p[3] * HalfBase, p[4] * Base>>

get_adjusted_products(l, r) ==
  IF helper = "pair" THEN adjusted_pairs(HalfProducts(l, r)) ELSE adjusted_wide(HalfProducts(l, r))

Init ==
  /\ running = FALSE
  /\ helper \in {"wide", "pair"}
  /\ factors \in Limb \X Limb
  /\ products = << >>
  /\ sum = IF helper = "pair" THEN Zero ELSE 0
  /\ overflow = 0

\* The products are computed and the first one is taken.
Multiply ==
  /\ ~ running /\ running' = TRUE
  /\ \E all \in {get_adjusted_products(split_up(factors[1]), split_up(factors[2]))} :
       sum' = Head(all) /\ products' = Tail(all)
  /\ UNCHANGED <<helper, factors, overflow>>

AddPair ==
  /\ helper = "pair" /\ products # << >>
  /\ LET r == add(sum, Head(products)) IN sum' = r.sum /\ overflow' = r.carry
  /\ products' = Tail(products)
  /\ UNCHANGED <<running, helper, factors>>

\* The accumulator is a std::uint64_t, twice as wide as the factors.
AddWide ==
  /\ helper = "wide" /\ products # << >>
  /\ sum' = (sum + Head(products)) % (Base * Base)
  /\ products' = Tail(products)
  /\ UNCHANGED <<running, helper, factors, overflow>>

Next == Multiply \/ AddPair \/ AddWide

Spec == Init /\ [][Next]_multVars

-----------------------------------------------------------------------------
(* Properties *)

Amount(s) == IF helper = "pair" THEN Val(s) ELSE s

\* Nothing is lost on the way although the carry test of the pair is not exact
\* for every pair of words: what has been added and what is left to add are at
\* every step the product of the factors, and the assertion that the high word
\* never carries holds.
ProductIsExact ==
  /\ overflow = 0
  /\ running =>
       Amount(sum) + Total([n \in DOMAIN products |-> Amount(products[n])], Len(products))
         = factors[1] * factors[2]
=============================================================================
