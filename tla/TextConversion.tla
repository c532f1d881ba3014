--------------------------- MODULE TextConversion ---------------------------
(***************************************************************************)
(* From text to uint128 and back: make_from_string, the literals, the byte  *)
(* arrays that hexadecimal text goes through, and to_string.                *)
(*                                                                          *)
(* A character is the value of the hexadecimal digit it stands for, or one  *)
(* of the codes below; a text is a sequence of characters.                  *)
(***************************************************************************)
EXTENDS Uint128, SequencesExt

Tag       == 16   \* x or X after a leading zero
Separator == 17   \* , or _
Quote     == 18   \* the separator of literals
Space     == 19
Other     == 20   \* any other character
WideDigit == 21   \* not a digit, but a cast to char makes one of it
Chars     == 0..21

IsDecimalDigit(c) == c \in 0..9
IsHexDigit(c)     == c \in 0..15

\* get_format tests characters that were cast to char.
LooksDecimal(c)      == c \in 0..9 \cup {WideDigit}
is_legal_hex_char(c) == c \in 0..15 \cup {WideDigit}

CharBit   == 8
ByteCount == Bits \div CharBit
MaxHexDigits == Bits \div 4
Ten == make_uint128(0, 10)

\* How parsing ends: with a number, or with the exception it throws.
Parsed(u) == [ends |-> "value", number |-> Val(u)]
Throws(e) == [ends |-> e, number |-> 0]

-----------------------------------------------------------------------------
(* Byte arrays on a machine of either order of bytes ("little", or big), as *)
(* the loops of constant evaluation make them; at run time, and with a      *)
(* constexpr bit_cast, they are the bytes of the object.                    *)

\* The number of bytes of less weight than the i-th of an object.
Below(little, i) == IF little THEN i - 1 ELSE ByteCount - i

\* The byte shifted by the amount that the loop computes from its index, or-ed.
OrShifted(little, unit, bytes) ==
  LET ret[i \in 0..ByteCount] ==
        IF i = 0 THEN Zero
        ELSE BitOr(ret[i - 1], ShiftLeft(make_uint128(0, bytes[i]), Below(little, i) * unit))
  IN  ret[ByteCount]

\* Mutant of make_from_bytes_native: on both machines the byte is shifted by bytes.
make_from_bytes_native_by_index(little, bytes) ==
  OrShifted(little, 1, bytes)

\* On a big-endian machine the amount is a number of bytes and not of bits.
make_from_bytes_native(little, bytes) ==
  OrShifted(little, IF little THEN CharBit ELSE 1, bytes)

to_bytes_native(little, u) ==
  [i \in 1..ByteCount |-> ShiftRight(u, Below(little, i) * CharBit).low % Pow2[CharBit]]

ReversedUnless(native, bytes) == IF native THEN bytes ELSE Reverse(bytes)

make_from_bytes_little_endian(little, bytes) ==
  make_from_bytes_native(little, ReversedUnless(little, bytes))
make_from_bytes_big_endian(little, bytes) ==
  make_from_bytes_native(little, ReversedUnless(~ little, bytes))

to_little_endian_arr(little, u) == ReversedUnless(little, to_bytes_native(little, u))
to_big_endian_arr(little, u)    == ReversedUnless(~ little, to_bytes_native(little, u))

-----------------------------------------------------------------------------
(* make_from_string *)

\* The text that is left when the characters of C are taken out.
Without(text, C) ==
  LET left[i \in 0..Len(text)] ==
        IF i = 0 THEN <<>>
        ELSE left[i - 1] \o IF text[i] \in C THEN <<>> ELSE <<text[i]>>
  IN  left[Len(text)]

Trim(text) ==
  LET kept == {i \in DOMAIN text : text[i] # Space}
  IN  IF kept = {} THEN <<>> ELSE SubSeq(text, Min(kept), Max(kept))

\* The separators go after the spaces, so that a space behind one stays.
trim_and_strip(text) == Without(Trim(text), {Separator})

AllZero(t)   == t # <<>> /\ \A i \in DOMAIN t : t[i] = 0
HasHexTag(t) == Len(t) >= 2 /\ t[1] = 0 /\ t[2] = Tag

get_format(t) ==
  CASE AllZero(t) -> "Zero"
    [] t # <<>> /\ t[1] # 0 /\ (\A i \in DOMAIN t : LooksDecimal(t[i])) -> "Decimal"
    [] Len(t) >= 3 /\ HasHexTag(t) /\ (\A i \in 3..Len(t) : is_legal_hex_char(t[i])) ->
         "Hexadecimal"
    [] OTHER -> "Illegal"

\* Mutant of Accumulate: a digit zero, which leaves the sum as it is, overflows.
AccumulateStrict(s, sum) ==
  IF Greater(sum, s.sum)
  THEN [s EXCEPT !.sum = sum, !.exp = Times(s.exp, Ten)]
  ELSE [s EXCEPT !.ends = "overflow_error"]

\* An overflow is noticed when the sum falls, not when the product of the digit and
\* its power of ten wraps, or the power itself.
Accumulate(s, sum) ==
  IF Greater(s.sum, sum)
  THEN [s EXCEPT !.ends = "overflow_error"]
  ELSE [s EXCEPT !.sum = sum, !.exp = Times(s.exp, Ten)]

\* Mutant of AddDigit: get_value_dec does not throw.
AddDigitUnchecked(c, s) ==
  IF s.ends # "value" THEN s
  ELSE Accumulate(s, Plus(s.sum, Times(make_uint128(0, c), s.exp)))

\* One iteration of parse_decimal_str.
AddDigit(c, s) ==
  IF s.ends # "value" THEN s
  ELSE IF ~ IsDecimalDigit(c) THEN [s EXCEPT !.ends = "invalid_argument"]
  ELSE Accumulate(s, Plus(s.sum, Times(make_uint128(0, c), s.exp)))

\* The states of the loop, which goes from the last digit to the first.
DigitsRead(t) ==
  LET after[k \in 0..Len(t)] ==
        IF k = 0 THEN [sum |-> Zero, exp |-> One, ends |-> "value"]
        ELSE AddDigit(t[Len(t) + 1 - k], after[k - 1])
  IN  after

parse_decimal_str(t) ==
  LET read == DigitsRead(t)[Len(t)]
  IN  IF read.ends = "value" THEN Parsed(read.sum) ELSE Throws(read.ends)

\* Mutant of PairByte: the digits of a pair are swapped.
PairByteSwapped(digits, i) ==
  CASE 2 * i =< Len(digits)    -> 16 * digits[2 * i] + digits[2 * i - 1]
    [] 2 * i - 1 = Len(digits) -> digits[2 * i - 1]
    [] OTHER                   -> 0

\* The i-th byte read: a pair of digits, or a digit that is left over alone.
PairByte(digits, i) ==
  CASE 2 * i =< Len(digits)    -> 16 * digits[2 * i - 1] + digits[2 * i]
    [] 2 * i - 1 = Len(digits) -> digits[2 * i - 1]
    [] OTHER                   -> 0

\* The bytes are filled from the front and the number, made on a little-endian
\* machine, is shifted down to its place.
parse_hex_str(t) ==
  LET digits == SubSeq(t, 3, Len(t))
      arr    == [i \in 1..ByteCount |-> PairByte(digits, i)]
  IN  IF Len(digits) > MaxHexDigits \/ \E i \in DOMAIN digits : ~ IsHexDigit(digits[i])
      THEN Throws("invalid_argument")
      ELSE Parsed(ShiftRight(make_from_bytes_big_endian(TRUE, arr),
                             (MaxHexDigits - Len(digits)) * 4))

ParseAs(format, t) ==
  CASE format = "Illegal"     -> Throws("invalid_argument")
    [] format = "Zero"        -> Parsed(Zero)
    [] format = "Decimal"     -> parse_decimal_str(t)
    [] format = "Hexadecimal" -> parse_hex_str(t)

ParseTrimmed(t)        == ParseAs(get_format(t), t)
make_from_string(text) == ParseTrimmed(trim_and_strip(text))

-----------------------------------------------------------------------------
(* Digits, as the inserter of a stream writes those of an int_part *)

DigitsOf(n, base) ==
  LET count == CHOOSE k \in 1..Bits : Power(base, k - 1) =< MaxOf(n, 1) /\ n < Power(base, k)
  IN  [i \in 1..count |-> (n \div Power(base, count - i)) % base]

Padded(digits, width, c) == [i \in 1..(width - Len(digits)) |-> c] \o digits

-----------------------------------------------------------------------------
(* Literals.  The compiler hands over integer literals of the language only. *)

\* The characters that the table for a base has a value for.
digit_lookup(base) == 0..(base - 1)

get_lit_type(t) ==
  CASE AllZero(t) -> "Zero"
    [] HasHexTag(t) /\ Len(t) >= 3 /\ t[3] \in digit_lookup(16) -> "Hexadecimal"
    [] t[1] \in digit_lookup(10) \ {0} -> "Decimal"
    [] OTHER -> "Illegal"

nullopt == -1   \* an optional without a value

Unquoted(t)  == Without(t, {Quote})
Untagged(t)  == SubSeq(t, 3, Len(t))

\* How many digits of the base a literal has, if it has nothing else.
CountOf(digits, base) ==
  IF ToSet(digits) \subseteq digit_lookup(base) THEN Len(digits) ELSE nullopt

count_decimal_chars(t) == CountOf(Unquoted(t), 10)

count_hex_chars(t) ==
  IF get_lit_type(t) = "Hexadecimal" THEN CountOf(Unquoted(Untagged(t)), 16) ELSE nullopt

numeric_limits_max == make_uint128(Base - 1, Base - 1)
get_max_decimal    == DigitsOf(Val(numeric_limits_max), 10)

\* Mutant of validate_decimal_size: one digit below that of the maximum is enough.
validate_decimal_size_anywhere(t) ==
  LET count == count_decimal_chars(t)  digits == Unquoted(t)
  IN  /\ get_lit_type(t) = "Decimal" /\ count \in 0..Len(get_max_decimal)
      /\ \/ count < Len(get_max_decimal) \/ digits = get_max_decimal
         \/ \E i \in DOMAIN digits : digits[i] < get_max_decimal[i]

\* Fewer digits than the maximum, or as many and the first that differs is smaller.
validate_decimal_size(t) ==
  LET count == count_decimal_chars(t)  digits == Unquoted(t)
  IN  /\ get_lit_type(t) = "Decimal" /\ count \in 0..Len(get_max_decimal)
      /\ \/ count < Len(get_max_decimal) \/ digits = get_max_decimal
         \/ \E i \in DOMAIN digits :
              /\ digits[i] < get_max_decimal[i]
              /\ \A j \in 1..(i - 1) : digits[j] = get_max_decimal[j]

\* From the last digit to the first, without a test: the size is known to fit.
LiteralRead(digits, base) ==
  LET after[k \in 0..Len(digits)] ==
        IF k = 0 THEN [sum |-> Zero, exp |-> One]
        ELSE LET c == digits[Len(digits) + 1 - k]  s == after[k - 1]
             IN  [sum |-> Plus(s.sum, Times(make_uint128(0, c), s.exp)),
                  exp |-> Times(s.exp, make_uint128(0, base))]
  IN  after

execute_literal_parse(digits, base) == LiteralRead(digits, base)[Len(digits)].sum

\* "nullopt" makes the literal ill-formed.
parse_literal(t) ==
  LET type == get_lit_type(t)
  IN  CASE type = "Zero" -> Parsed(Zero)
        [] type = "Decimal" /\ validate_decimal_size(t) ->
             Parsed(execute_literal_parse(Unquoted(t), 10))
        [] type = "Hexadecimal" /\ count_hex_chars(t) \in 1..MaxHexDigits ->
             Parsed(execute_literal_parse(Unquoted(Untagged(t)), 16))
        [] OTHER -> Throws("nullopt")

-----------------------------------------------------------------------------
(* to_string *)

\* 19, 15 and 21 in the library: the digits whose numbers are all below a limb.
DivBaseLog(base) == CHOOSE k \in 0..LimbBits : Power(base, k) < Base /\ Power(base, k + 1) >= Base

ShowBase(base) == CASE base = 16 -> <<0, Tag>> [] base = 8 -> <<0>> [] base = 10 -> <<>>

\* The number in three chunks of digits, by two divisions by the same power.
ThreeChunks(first, second) ==
  [high |-> second.quotient.low, mid |-> second.remainder.low, low |-> first.remainder.low]
SecondDivision(first, div) == ThreeChunks(first, unsafe_div_mod(first.quotient, div))
Chunks(u, div) == SecondDivision(unsafe_div_mod(u, div), div)

\* Mutant of Joined: the middle digits are not padded.
JoinedRagged(c, base, log) ==
  CASE c.high # 0 -> DigitsOf(c.high, base) \o DigitsOf(c.mid, base)
                       \o Padded(DigitsOf(c.low, base), log, 0)
    [] c.high = 0 /\ c.mid # 0 -> DigitsOf(c.mid, base) \o Padded(DigitsOf(c.low, base), log, 0)
    [] c.high = 0 /\ c.mid = 0 -> DigitsOf(c.low, base)

\* What is written of the chunks: the first that is not zero as it is, the others padded.
Joined(c, base, log) ==
  CASE c.high # 0 -> DigitsOf(c.high, base) \o Padded(DigitsOf(c.mid, base), log, 0)
                       \o Padded(DigitsOf(c.low, base), log, 0)
    [] c.high = 0 /\ c.mid # 0 -> DigitsOf(c.mid, base) \o Padded(DigitsOf(c.low, base), log, 0)
    [] c.high = 0 /\ c.mid = 0 -> DigitsOf(c.low, base)

\* The chunk written first shows the base, unless it is zero.  Both overloads: that
\* of the UTF characters computes the same chunks on Windows, and elsewhere takes the
\* narrow text character by character.
to_string(u, base, showbase) ==
  (IF showbase /\ ~ Equal(u, Zero) THEN ShowBase(base) ELSE <<>>)
    \o Joined(Chunks(u, make_uint128(0, Power(base, DivBaseLog(base)))), base, DivBaseLog(base))
=============================================================================
