---------------------------- MODULE LimbContainer ----------------------------
(***************************************************************************)
(* uint128_limb_container (fixed_uint_container.hpp), which holds the two    *)
(* limbs of a uint128: in two members, in the order of the machine's bytes,  *)
(* or in an integer of the compiler.  The two kinds are filled here by the   *)
(* same calls, on a machine of either byte order, and read by the            *)
(* conversions that they and uint128 (uint128.inl) offer.                    *)
(***************************************************************************)
EXTENDS Uint128, Sequences

CONSTANT ContainerLimbs   \* limbs explored

ContainerAssumption == ContainerLimbs \subseteq Limb

VARIABLES
  littleEndian,  \* the order of the machine's bytes
  split,         \* the members m_high and m_low
  m_value        \* the same in a builtin integer

containerVars == <<littleEndian, split, m_value>>

\* std::uint32_t, of which a limb holds two.
HalfLimb == 0..(HalfBase - 1)
SignedLimb == {v \in (-(Base \div 2))..((Base \div 2) - 1) : v % Base \in ContainerLimbs}

\* Both are value-initialised.
Init ==
  /\ littleEndian \in BOOLEAN
  /\ split = Zero
  /\ m_value = 0

Fill(limbs, value) ==
  /\ split' = limbs
  /\ m_value' = value
  /\ UNCHANGED littleEndian

-----------------------------------------------------------------------------
(* Construction and assignment *)

\* The builtin integer shifts the high limb up and ors the low one in.
FromLimbs(high, low) == Fill(make_uint128(high, low), high * Base + low)

\* std::uint64_t, and std::uint32_t, which is widened.
FromUnsigned(val) == Fill(make_uint128(0, val), val)

\* Mutant of sign_extended: the high limb of a negative number stays zero.
zero_extended(v) == make_uint128(0, Wrap(v))

sign_extended(v) == make_uint128(IF v < 0 THEN Base - 1 ELSE 0, Wrap(v))

\* std::int64_t: the language converts to the builtin integer modulo its width.
FromInt64(v) == Fill(sign_extended(v), v % (Base * Base))

\* An array of two limbs in the machine's order.
SplitFromArray(arr) ==
  IF littleEndian THEN make_uint128(arr[2], arr[1]) ELSE make_uint128(arr[1], arr[2])

from_native_array(arr) ==
  IF littleEndian THEN arr[2] * Base + arr[1] ELSE arr[1] * Base + arr[2]

FromArray(arr) == Fill(SplitFromArray(arr), from_native_array(arr))

Next ==
  \/ \E a, b \in ContainerLimbs : FromLimbs(a, b) \/ FromArray(<<a, b>>)
  \/ \E n \in ContainerLimbs \cup HalfLimb : FromUnsigned(n)
  \/ \E v \in SignedLimb : FromInt64(v)

Spec == Init /\ [][Next]_containerVars

-----------------------------------------------------------------------------
(* Reading *)

get_low  == [split |-> split.low, builtin |-> Wrap(m_value)]
get_high == [split |-> split.high, builtin |-> m_value \div Base]

\* operator std::array, which bit_cast also gives at run time.
SplitToArray ==
  IF littleEndian THEN <<split.low, split.high>> ELSE <<split.high, split.low>>

to_native_array ==
  IF littleEndian THEN <<get_low.builtin, get_high.builtin>>
                  ELSE <<get_high.builtin, get_low.builtin>>

\* Both convert to std::uint64_t and std::uint32_t, a limb and half of one.
SplitTo(bits)   == split.low % Pow2[bits]
BuiltinTo(bits) == m_value % Pow2[bits]

\* The conversions of uint128 to an integer of some bits take them from the low
\* limb, and a signed type gives the highest of them its negative weight.
ToInteger(bits, signed) ==
  LET n == split.low % Pow2[bits]
  IN  IF signed /\ n >= Pow2[bits - 1] THEN n - Pow2[bits] ELSE n

ToBool == split.low # 0 \/ split.high # 0

-----------------------------------------------------------------------------
(* Properties *)

\* However they were filled, the two containers hold the same number and show the
\* same limbs, integers and array on either machine, a container filled from the
\* array of another holds what that one does, and a number that an integer type
\* can hold comes back from the conversion to it as the number it was.
ContainersAgree ==
  /\ Val(split) = m_value
  /\ \A get \in {get_low, get_high} : get.split = get.builtin
  /\ \A bits \in {HalfBits, LimbBits} : SplitTo(bits) = BuiltinTo(bits)
  /\ SplitToArray = to_native_array
  /\ from_native_array(SplitToArray) = m_value
  /\ SplitFromArray(to_native_array) = split
  /\ ToBool <=> m_value # 0
  /\ \A bits \in 1..LimbBits :
       /\ m_value < Pow2[bits] => ToInteger(bits, FALSE) = m_value
       /\ \A v \in (-Pow2[bits - 1])..(Pow2[bits - 1] - 1) :
            m_value = v % (Base * Base) => ToInteger(bits, TRUE) = v
=============================================================================
