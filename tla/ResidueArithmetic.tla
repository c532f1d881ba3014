-------------------------- MODULE ResidueArithmetic --------------------------
(***************************************************************************)
(* What an unsigned integer type promises: an object is a number below      *)
(* Modulus = 2^Width, and every call leaves the number that arithmetic      *)
(* modulo Modulus gives, or refuses a zero divisor and leaves it alone.     *)
(***************************************************************************)
EXTENDS PowersOfTwo

CONSTANTS
  Width,       \* bits
  Amounts,     \* right operands explored
  SignedInts   \* signed integers explored

VARIABLES number,  \* the object
          said     \* the last call and its result, until the caller has read it

Modulus   == Pow2[Width]
Numbers   == 0..(Modulus - 1)
Positions == 0..(Width - 1)
Bit(n, k) == (n \div Pow2[k]) % 2
Silent    == [op |-> "none"]

\* A call with one operand, and what it returned ("done" for the object itself).
Says(op, n, result) ==
  /\ said'.op = op
  /\ said' = [op |-> op, operand |-> n, result |-> result]

Init == number \in Numbers /\ said = Silent

Sets(op, n, to) == Says(op, n, "done") /\ number' = to % Modulus

Arithmetic(n) ==
  \/ Sets("+=", n, number + n)
  \/ Sets("-=", n, number - n)
  \/ Sets("*=", n, number * n)

\* Bit k of the new number is Of(bit k of the old one, bit k of n).
SetsBits(op, n, Of(_, _)) ==
  /\ Says(op, n, "done")
  /\ number' \in Numbers
  /\ \A k \in Positions : Bit(number', k) = Of(Bit(number, k), Bit(n, k))

Both(a, b)    == a * b
Either(a, b)  == IF a + b > 0 THEN 1 ELSE 0
OneOf(a, b)   == (a + b) % 2

BitByBit(n) == SetsBits("&=", n, Both) \/ SetsBits("|=", n, Either) \/ SetsBits("^=", n, OneOf)

Divide(n) ==
  \/ n # 0 /\ Sets("/=", n, number \div n)
  \/ n # 0 /\ Sets("%=", n, number % n)
  \/ /\ n = 0
     /\ \E op \in {"/=", "%="} : Says(op, n, "domain_error")
     /\ UNCHANGED number

Shift(k) == Sets("<<=", k, number * Pow2[k]) \/ Sets(">>=", k, number \div Pow2[k])

\* The prefix forms return the new number, the postfix forms the old one.
Step ==
  \/ number' = (number + 1) % Modulus /\ (Says("++x", 1, number') \/ Says("x++", 1, number))
  \/ number' = (number - 1) % Modulus /\ (Says("--x", 1, number') \/ Says("x--", 1, number))

Unary == Sets("-x", 0, -number) \/ Sets("~x", 0, (Modulus - 1) - number)

\* A signed integer is taken modulo 2^Width, as the language does.
FromInt(v) == Sets("=", v, v)

Compare(n) ==
  /\ Says("<=>", n, [less |-> number < n, equal |-> number = n, greater |-> number > n,
                     not |-> number = 0])
  /\ UNCHANGED number

\* The position of the highest bit that is set, of a number that has one.
LeadingBit ==
  /\ \E k \in Positions : /\ Pow2[k] =< number /\ number < Pow2[k + 1]
                           /\ Says("most_sign_set_bit", 0, k)
  /\ UNCHANGED number

\* Sum and carry, difference and borrow: together they are exact.
WithCarry(n, c) ==
  \E out \in 0..1 :
    /\ Says("add_with_carry", <<n, c>>, out)
    /\ number' \in Numbers
    /\ number' + out * Modulus = number + n + c

WithBorrow(n, c) ==
  \E out \in 0..1 :
    /\ Says("sub_with_borrow", <<n, c>>, out)
    /\ number' \in Numbers
    /\ number' - out * Modulus = number - n - c

Read == said # Silent /\ said' = Silent /\ UNCHANGED number

Next ==
  \/ /\ said = Silent
     /\ \/ \E n \in Amounts :
             \/ Arithmetic(n) \/ BitByBit(n) \/ Divide(n) \/ Compare(n)
             \/ \E c \in 0..1 : WithCarry(n, c) \/ WithBorrow(n, c)
        \/ \E k \in Positions : Shift(k)
        \/ Step
        \/ Unary
        \/ LeadingBit
        \/ \E v \in SignedInts : FromInt(v)
  \/ Read

Spec == Init /\ [][Next]_<<number, said>>
=============================================================================
