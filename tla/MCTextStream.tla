---------------------------- MODULE MCTextStream ----------------------------
(* TextStream for TLC with numbers of 16 bits: four hexadecimal digits, two   *)
(* bytes, five digits in the largest decimal, 65535.                          *)
EXTENDS TextStream

UpTo(n, S) == UNION {[1..k -> S] : k \in 0..n}

\* Texts of every kind, decimals up to one digit more than the largest has, and
\* hexadecimals up to one digit more than fit.
AnyTexts     == UpTo(4, {0, 1, 6, 10, Tag, Separator, Space, Other, WideDigit})
DecimalTexts == [1..5 -> {0, 3, 5, 6}] \cup [1..6 -> {0, 1, 6, 9}]
HexTexts     == {<<0, Tag>> \o t : t \in UpTo(5, {0, 1, 10, 15})}
MCHexTexts   == {t \in HexTexts : Len(t) =< 6}
WideTexts    == {<<WideDigit>> \o t : t \in DecimalTexts}
MCTexts      == AnyTexts \cup DecimalTexts \cup WideTexts \cup HexTexts

\* Decimal (no leading zero), octal, hexadecimal and binary literals with quotes between
\* digits.
Quoted(S) ==
  {t \in S : \A i \in DOMAIN t :
     t[i] = Quote => /\ i > 1 /\ t[i - 1] # Quote /\ t[i - 1] # Tag
                     /\ i < Len(t) /\ t[i + 1] # Quote}
MCLiterals ==
  {t \in Quoted(UpTo(6, {0, 3, 5, 6, Quote})) : t # <<>>} \cup
  {<<0, Tag>> \o t : t \in Quoted(UpTo(5, {0, 1, 15, Quote})) \ {<<>>}} \cup
  {<<0, 11>> \o t : t \in Quoted(UpTo(3, {0, 1, Quote})) \ {<<>>}}

\* Numbers at the boundaries of the chunks of to_string (100 in base 10, 16, 64) and
\* of the limbs and bytes.
MCNumbers ==
  {make_uint128(n \div Base, n % Base) :
     n \in {0, 7, 10, 15, 16, 63, 64, 99, 100, 255, 256, 4095, 4096, 9999, 10000, 10100,
            43690, 65535}}

Plain(base, showbase) ==
  [base |-> base, showbase |-> showbase, adjust |-> "right", width |-> 0]
MCFormats ==
  {Plain(base, showbase) : base \in {8, 10, 16}, showbase \in BOOLEAN} \cup
  [base : {10, 16}, showbase : {TRUE}, adjust : {"left", "internal", "right"}, width : {7}]
=============================================================================
