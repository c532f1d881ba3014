------------------------------ MODULE WordChain ------------------------------
(***************************************************************************)
(* The carry functions of the library in the use they are made for: numbers *)
(* of several words are added or subtracted word by word, the carry of one  *)
(* word going into the next.  There are four families: those of int_part,  *)
(* of uint128 and of the compiler's integer of 128 bits (uint128.inl), and  *)
(* the addition of fixed_uint_container_math.hpp, whose result is an array  *)
(* in the order of the machine's bytes.                                     *)
(***************************************************************************)
EXTENDS Uint128, Sequences

CONSTANTS
  NumWords,      \* words of a number
  LimbWords,     \* words explored where a word is a limb
  WideWords,     \* words explored where a word is a uint128
  BuiltinU128,   \* whether the compiler has an integer of 128 bits
  LittleEndian   \* the order of the machine's bytes

ChainAssumption ==
  /\ NumWords \in Nat \ {0}
  /\ LimbWords \subseteq Limb
  /\ WideWords \subseteq 0..(Base * Base - 1)
  /\ BuiltinU128 \in BOOLEAN
  /\ LittleEndian \in BOOLEAN
  /\ Intrinsics(CalculationMode) => LittleEndian   \* the machines that have them are x64

VARIABLES
  function,  \* the carry function in use
  lhs, rhs,  \* the operands, the word of least weight first
  result,    \* the words of the result so far
  carries    \* the carry into each word, and the one out of the last word done

chainVars == <<function, lhs, rhs, result, carries>>

\* The functions that add and those that subtract.
Adding == {"add_limb", "add_uint128", "add_container", "add_builtin"}
Subtracting == {"sub_limb", "sub_uint128", "sub_builtin"}
Wide == {"add_uint128", "sub_uint128", "add_builtin", "sub_builtin"}

WordBase == IF function \in Wide THEN Base * Base ELSE Base

-----------------------------------------------------------------------------
(* fixed_uint_container::add_with_carry *)

add_carry_result_t(sum, carry_out) ==
  IF LittleEndian THEN <<sum, carry_out>> ELSE <<carry_out, sum>>

get_sum(ac_res) == IF LittleEndian THEN ac_res[1] ELSE ac_res[2]
get_carry_out(ac_res) == IF LittleEndian THEN ac_res[2] ELSE ac_res[1]

\* The carry that comes in counts where there is an instruction or a wider
\* integer for it, and nowhere else: not in constant evaluation either.
container_add_with_carry(first_addend, second_addend, carry_in) ==
  IF Intrinsics(CalculationMode) /\ LittleEndian
  THEN LET added == ADDCARRY64(carry_in, first_addend, second_addend)
       IN  add_carry_result_t(added.sum, added.carry)
  ELSE IF BuiltinU128
  THEN LET sum == first_addend + second_addend + carry_in
       IN  add_carry_result_t(Wrap(sum), IF sum > Base - 1 THEN 1 ELSE 0)
  ELSE LET sum == Wrap(first_addend + second_addend)
       IN  add_carry_result_t(sum, IF sum < first_addend THEN 1 ELSE 0)

-----------------------------------------------------------------------------
(* internal::add_with_carry and internal::sub_with_borrow of the compiler's *)
(* integer of 128 bits                                                      *)

builtin_add_with_carry(first_addend, second_addend, carry_in) ==
  LET ret == (first_addend + carry_in + second_addend) % (Base * Base)
  IN  [sum |-> ret, carry |-> IF ret < first_addend THEN 1 ELSE 0]

builtin_sub_with_borrow(minuend, subtrahend, borrow_in) ==
  LET ret == (minuend - borrow_in - subtrahend) % (Base * Base)
  IN  [difference |-> ret, borrow |-> IF ret > minuend THEN 1 ELSE 0]

-----------------------------------------------------------------------------

Limbs(n) == make_uint128(n \div Base, n % Base)

Answer(word, carry) == [word |-> word, carry |-> carry]

\* One call: the word and the carry, or borrow, that it returns.
Called(a, b, c) ==
  CASE function = "add_limb" ->
         LET r == AddWithCarryLimb(a, b, c) IN Answer(r.sum, r.carry)
    [] function = "sub_limb" ->
         LET r == SubWithBorrowLimb(a, b, c) IN Answer(r.difference, r.borrow)
    [] function = "add_uint128" ->
         LET r == AddWithCarry(Limbs(a), Limbs(b), c) IN Answer(Val(r.sum), r.carry)
    [] function = "sub_uint128" ->
         LET r == SubWithBorrow(Limbs(a), Limbs(b), c) IN Answer(Val(r.difference), r.borrow)
    [] function = "add_container" ->
         LET r == container_add_with_carry(a, b, c) IN Answer(get_sum(r), get_carry_out(r))
    [] function = "add_builtin" ->
         LET r == builtin_add_with_carry(a, b, c) IN Answer(r.sum, r.carry)
    [] function = "sub_builtin" ->
         LET r == builtin_sub_with_borrow(a, b, c) IN Answer(r.difference, r.borrow)

ChainInit ==
  /\ function \in Adding \cup Subtracting
  /\ function \in {"add_builtin", "sub_builtin"} =>
       BuiltinU128 /\ ~ Intrinsics(CalculationMode)
  /\ \E words \in {IF function \in Wide THEN WideWords ELSE LimbWords} :
       lhs \in [1..NumWords -> words] /\ rhs \in [1..NumWords -> words]
  /\ result = << >>
  /\ carries = <<0>>

NextWord ==
  /\ Len(result) < NumWords
  /\ LET k == Len(result) + 1
         r == Called(lhs[k], rhs[k], carries[k])
     IN  result' = Append(result, r.word) /\ carries' = Append(carries, r.carry)
  /\ UNCHANGED <<function, lhs, rhs>>

ChainSpec == ChainInit /\ [][NextWord]_chainVars

-----------------------------------------------------------------------------
(* Properties *)

\* The weights of the words ...
Weight ==
  LET power[k \in Nat] == IF k = 0 THEN 1 ELSE WordBase * power[k - 1]
  IN  power

\* ... and the number that the first k words of a sequence stand for.
Number(words, k) == Total([j \in 1..k |-> words[j] * Weight[j - 1]], k)

\* The first k words and the carry out of them are the exact sum or difference.
Exact(k) ==
  LET out == carries[k + 1] * Weight[k]
  IN  IF function \in Adding
      THEN Number(result, k) + out = Number(lhs, k) + Number(rhs, k)
      ELSE Number(result, k) - out = Number(lhs, k) - Number(rhs, k)

\* The words at which a function without instructions gives a wrong carry, or,
\* in the container, a wrong word: addition loses the carry of an addend that is
\* all ones together with a carry in, the borrow of a limb is the wrong way
\* round, and the container ignores the carry in.
Misjudged(k) ==
  LET a == lhs[k]  b == rhs[k]  c == carries[k]  top == WordBase - 1
  IN  ~ Intrinsics(CalculationMode) /\
      CASE function = "add_limb" -> a = top /\ b = top /\ c = 1
        [] function \in Wide -> b = top /\ c = 1
        [] function = "sub_limb" -> ~ (b = top /\ c = 1)
        [] function = "add_container" -> ~ BuiltinU128 /\ c = 1

\* A chain is exact as far as no word is misjudged, and not one word further: a
\* long addition is right in one build and wrong in another at these words only.
ExactUntilMisjudged ==
  LET done == 1..Len(result)
  IN  (\A k \in done : ~ Misjudged(k)) <=> (\A k \in done : Exact(k))
=============================================================================
