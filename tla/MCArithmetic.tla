---------------------------- MODULE MCArithmetic ----------------------------
(***************************************************************************)
(* The arithmetic of the library for TLC: in the initial state one of its   *)
(* machines is chosen, in one of the builds it has, and it alone moves.     *)
(*   division     ShiftSubtractDivision, portable (this module extends it)  *)
(*                and Microsoft                                             *)
(*   object       Uint128Object, in the same two builds                     *)
(*   chain        WordChain, portable with and without a builtin integer of *)
(*                128 bits, and Microsoft                                   *)
(*   umult        ExtendedMultiplication                                    *)
(*   container    LimbContainer                                             *)
(*   floating     FloatingPoint                                             *)
(*   configuration  BuildConfiguration, whose builds do not move            *)
(***************************************************************************)
EXTENDS ShiftSubtractDivision, Sequences

CONSTANTS Infinity, NaN

VARIABLES
  machine, build,                                    \* what runs
  m_limbs, called,                                   \* object
  function, lhs, rhs, result, carries,               \* chain
  running, helper, factors, products, sum, overflow, \* umult
  littleEndian, split, m_value,                      \* container
  type, from, operand, converted,                    \* floating
  macros, pointers64                                 \* configuration

-----------------------------------------------------------------------------
(* What the instances of OperatorProofs, the module with the theorems about  *)
(* the variable, the chains and the conversions, have in common             *)

\* Limbs at the edges, where carries start and end.
Edges == {0, 1, (Base \div 2) - 1, Base \div 2, Base - 1}
Operands == [high : Edges, low : Edges]
SignedInts == (-(Base \div 2))..((Base \div 2) - 1)
Others == {"+=", "-=", "*=", "&=", "|=", "^=", "/=", "%=", "<<=", ">>=",
           "++x", "x++", "--x", "x--", "-x", "~x", "=", "<=>",
           "most_sign_set_bit"}

\* Numbers of three words, each of them 0, 1 or all ones.
Ends(b) == {0, 1, b - 1}
NumWords == 3
LimbWords == Ends(Base)
WideWords == Ends(Base * Base)

\* As float, double and long double are to the limb of 64 bits: digits fewer than
\* a limb's, as many, or more; a largest value of 2^Bits, or above.
FloatTypes ==
  {[digits |-> 2, max_exponent |-> Bits,     pieces |-> FALSE],
   [digits |-> 3, max_exponent |-> Bits + 1, pieces |-> FALSE],
   [digits |-> 4, max_exponent |-> Bits + 2, pieces |-> FALSE],
   [digits |-> 4, max_exponent |-> Bits + 2, pieces |-> TRUE],
   [digits |-> 7, max_exponent |-> Bits + 2, pieces |-> TRUE]}
PieceBits == LimbBits - 1

-----------------------------------------------------------------------------
(* The instances *)

MsvcDivision == INSTANCE ShiftSubtractDivision WITH CalculationMode <- "msvc_x64"

Portable == INSTANCE OperatorProofs WITH
  Operations <- Others, BuiltinU128 <- FALSE, LittleEndian <- TRUE, reply <- converted

Builtin == INSTANCE OperatorProofs WITH
  CalculationMode <- "default_eval",
  Operations <- Others, BuiltinU128 <- TRUE, LittleEndian <- FALSE, reply <- converted

Msvc == INSTANCE OperatorProofs WITH
  CalculationMode <- "msvc_x64",
  Operations <- Others \cup {"add_with_carry", "sub_with_borrow"},
  BuiltinU128 <- FALSE, LittleEndian <- TRUE, reply <- converted

Multiplication == INSTANCE ExtendedMultiplication

Container == INSTANCE LimbContainer WITH ContainerLimbs <- Edges

Build == INSTANCE BuildConfiguration WITH
  Predefined <- {"__clang__", "__SIZEOF_INT128__", "_MSC_VER", "_M_X64", "__GNUC__", "__ICL",
                 "__INTEL_LLVM_COMPILER", "__ADX__", "__AVX2__", "__BMI2__"}

ASSUME MCAssumption ==
  /\ Portable!ObjectAssumption /\ Msvc!ObjectAssumption
  /\ Portable!ChainAssumption /\ Builtin!ChainAssumption
  /\ Container!ContainerAssumption
  /\ Portable!FloatAssumption

-----------------------------------------------------------------------------

objectVars == <<m_limbs, called>>
chainVars == <<function, lhs, rhs, result, carries>>
multVars == <<running, helper, factors, products, sum, overflow>>
containerVars == <<littleEndian, split, m_value>>
floatVars == <<type, from, operand, converted>>
configurationVars == <<macros, pointers64>>
choice == <<machine, build, configurationVars>>
allVars == <<choice, vars, objectVars, chainVars, multVars, containerVars, floatVars>>

Builds == [division  |-> {"portable", "msvc"},
           object    |-> {"portable", "msvc"},
           chain     |-> {"portable", "builtin", "msvc"},
           umult     |-> {"portable"},
           container |-> {"portable"},
           floating  |-> {"portable"},
           configuration |-> {"any"}]

\* A machine that was not chosen stays where it is.
MCInit ==
  /\ machine \in DOMAIN Builds
  /\ build \in Builds[machine]
  /\ Init
  /\ IF machine = "object" THEN Portable!Init ELSE m_limbs = Zero /\ called = Portable!NoCall
  /\ IF machine = "chain"
     THEN CASE build = "portable" -> Portable!ChainInit
            [] build = "builtin" -> Builtin!ChainInit
            [] build = "msvc" -> Msvc!ChainInit
     ELSE function = "" /\ lhs = 0 /\ rhs = 0 /\ result = 0 /\ carries = 0
  /\ IF machine = "umult" THEN Multiplication!Init
     ELSE running = 0 /\ helper = "" /\ factors = 0 /\ products = 0 /\ sum = 0 /\ overflow = 0
  /\ IF machine = "container" THEN Container!Init
     ELSE littleEndian = 0 /\ split = 0 /\ m_value = 0
  /\ IF machine = "floating" THEN Portable!FloatInit
     ELSE type = 0 /\ from = "" /\ operand = 0 /\ converted = 0
  /\ IF machine = "configuration" THEN Build!Init ELSE macros = {} /\ pointers64 = FALSE

\* Every pair of operands is tried at try_div_mod on the portable path; on the
\* other one every divisor of one limb; divisors at the edges at every entry point.
Tried ==
  \/ call'.divisor \in Operands
  \/ call'.kind = "try_div_mod" /\ (build = "portable" \/ call'.divisor.high = 0)

DivisionStep ==
  /\ machine = "division"
  /\ \/ build = "portable" /\ Next
     \/ build = "msvc" /\ MsvcDivision!Next
  /\ pc = "idle" => Tried
  /\ UNCHANGED <<choice, objectVars, chainVars, multVars, containerVars, floatVars>>

ObjectStep ==
  /\ machine = "object"
  /\ \/ build = "portable" /\ Portable!Next
     \/ build = "msvc" /\ Msvc!Next
  /\ UNCHANGED <<choice, vars, chainVars, multVars, containerVars, floatVars>>

ChainStep ==
  /\ machine = "chain"
  /\ \/ build = "portable" /\ Portable!NextWord
     \/ build = "builtin" /\ Builtin!NextWord
     \/ build = "msvc" /\ Msvc!NextWord
  /\ UNCHANGED <<choice, vars, objectVars, multVars, containerVars, floatVars>>

MultiplicationStep ==
  /\ machine = "umult" /\ Multiplication!Next
  /\ UNCHANGED <<choice, vars, objectVars, chainVars, containerVars, floatVars>>

ContainerStep ==
  /\ machine = "container" /\ Container!Next
  /\ UNCHANGED <<choice, vars, objectVars, chainVars, multVars, floatVars>>

FloatingStep ==
  /\ machine = "floating" /\ Portable!FloatNext
  /\ UNCHANGED <<choice, vars, objectVars, chainVars, multVars, containerVars>>

\* A chain, a product or a conversion is computed once, a build configured once.
Computed ==
  /\ \/ machine = "chain" /\ Len(result) = 3
     \/ machine = "umult" /\ running /\ products = << >>
     \/ machine = "floating" /\ converted # Portable!NoReply
     \/ machine = "configuration"
  /\ UNCHANGED allVars

MCNext ==
  \/ DivisionStep \/ ObjectStep \/ ChainStep
  \/ MultiplicationStep \/ ContainerStep \/ FloatingStep
  \/ Computed

MCSpec == MCInit /\ [][MCNext]_allVars

-----------------------------------------------------------------------------
(* Properties, besides those of ShiftSubtractDivision *)

\* Two limbs behave as one number modulo 2^Bits in both builds: no carry, borrow,
\* cross product or shifted bit is lost, a division is exact, and one that throws
\* leaves the variable alone (the operators of uint128).
ImplementsResidues == Msvc!ImplementsResidues

\* A chain of words is exact up to the first word that its carry function, without
\* instructions, misjudges, and no further (add_with_carry, sub_with_borrow).
ExactUntilMisjudged ==
  machine = "chain" =>
    CASE build = "portable" -> Portable!ExactUntilMisjudged
      [] build = "builtin" -> Builtin!ExactUntilMisjudged
      [] build = "msvc" -> Msvc!ExactUntilMisjudged

\* umult loses nothing on the way to the full product.
ProductIsExact == machine = "umult" => Multiplication!ProductIsExact

\* Both limb containers hold and show the same number on machines of either order
\* of bytes, and conversions to integer types that can hold it keep it.
ContainersAgree == machine = "container" => Container!ContainersAgree

\* Conversions from floating point truncate exactly or refuse; those to floating
\* point give a value next to the number.
FloatsAreFaithful == machine = "floating" => Portable!FloatsAreFaithful

\* A build has the instructions that it executes and divides, except on Windows for
\* 64-bit processors that are no x64 or with a compiler that claims to be GNU's.
BuildIsComplete == machine = "configuration" => Build!BuildIsComplete
=============================================================================
