----------------------------- MODULE TextStream -----------------------------
(***************************************************************************)
(* A string stream that uint128 numbers are inserted into and extracted     *)
(* from, and the calls of make_from_string and of literals on texts.  The   *)
(* stream starts with a text somebody else wrote, or empty.                 *)
(***************************************************************************)
EXTENDS TextConversion

CONSTANTS
  Texts,      \* texts to parse
  Literals,   \* integer literals of the language
  Numbers,    \* numbers to insert
  Formats,    \* flags and widths to insert them with
  MaxInserts  \* bound on the numbers inserted into a stream

FormatsOfTheCode ==
  [base : {8, 10, 16}, showbase : BOOLEAN, adjust : {"left", "internal", "right"}, width : Nat]

\* Decimal or octal, or with the tag of a hexadecimal or a binary literal.
IsIntegerLiteral(t) ==
  /\ t # <<>> /\ t[1] \in 0..9
  /\ \/ \A i \in DOMAIN t : t[i] \in 0..9 \cup {Quote}
     \/ /\ Len(t) > 2 /\ t[1] = 0 /\ t[2] \in {Tag, 11} /\ t[3] # Quote
        /\ \A i \in 3..Len(t) : t[i] \in 0..15 \cup {Quote}

ASSUME TextAssumption ==
  /\ LimbBits % CharBit = 0
  /\ Texts \cup Literals \subseteq Seq(Chars)
  /\ \A t \in Literals : IsIntegerLiteral(t)
  /\ Numbers \subseteq U128
  /\ Formats \subseteq FormatsOfTheCode
  /\ MaxInserts \in Nat

VARIABLES utf,      \* a stream of char8_t, char16_t or char32_t, not on Windows
          stream,   \* the characters in it that are still to be extracted
          rdstate,  \* its error bits
          v,        \* the variable that numbers are extracted to
          unread,   \* history: what was inserted and not yet extracted
          inserts,  \* history: how many numbers were inserted
          called    \* the last call of a parser and its result

streamvars == <<utf, stream, rdstate, v, unread, inserts>>
vars == <<streamvars, called>>

NoCall == [op |-> "none"]
Failed(bits) == bits \cap {"failbit", "badbit"} # {}

Init ==
  /\ utf \in BOOLEAN
  /\ stream \in Texts \cup {<<>>}
  /\ rdstate = {}
  /\ v = One
  /\ unread = <<>> /\ inserts = 0
  /\ called = NoCall

-----------------------------------------------------------------------------
(* Parsers, called with a text *)

Calls(op, text, result) ==
  /\ called' = [op |-> op, text |-> text, result |-> result]
  /\ UNCHANGED streamvars

\* The string behind the stream, before anything was extracted.
MakeFromString ==
  /\ called = NoCall
  /\ v = One /\ rdstate = {} /\ inserts = 0
  /\ Calls("make_from_string", stream, make_from_string(stream))

ParseLiteral ==
  /\ called = NoCall
  /\ stream = <<>> /\ v = One /\ rdstate = {} /\ inserts = 0
  /\ \E text \in Literals : Calls("parse_literal", text, parse_literal(text))

\* The caller reads the result.
ReadResult ==
  /\ called # NoCall
  /\ called' = NoCall
  /\ UNCHANGED streamvars

-----------------------------------------------------------------------------
(* Insertion *)

Fill(n) == [i \in 1..n |-> Space]

\* With internal adjustment two more fill characters than the width asks for go
\* between the base and the digits.
InField(rep, missing, u, f) ==
  CASE missing =< 0 -> rep
    [] missing > 0 /\ f.adjust = "left" -> rep \o Fill(missing)
    [] missing > 0 /\ f.adjust = "internal" /\ f.showbase /\ f.base = 16 /\ ~ Equal(u, Zero) ->
         SubSeq(rep, 1, 2) \o Fill(missing + 2) \o SubSeq(rep, 3, Len(rep))
    [] OTHER -> Fill(missing) \o rep

Widened(rep, u, f) == InField(rep, f.width - Len(rep), u, f)

\* The characters that os << u writes.
Inserted(u, f) == Widened(to_string(u, f.base, f.showbase), u, f)

\* What can be read back: decimal, and hexadecimal with its tag and pairs of digits,
\* without filling.
Readable(u, f) ==
  /\ f.width = 0
  /\ \/ f.base = 10
     \/ f.base = 16 /\ f.showbase /\ Len(DigitsOf(Val(u), 16)) % 2 = 0

\* A number is inserted into a stream that holds nothing else but such numbers,
\* and spaces; a second one only if it and the others are readable.
InsertOne(u, f) ==
  /\ inserts > 0 => Readable(u, f) /\ \A i \in DOMAIN unread : unread[i].readable
  /\ stream' = stream \o Inserted(u, f)
  /\ unread' = Append(unread, [number |-> Val(u), format |-> f, readable |-> Readable(u, f)])
  /\ inserts' = inserts + 1
  /\ UNCHANGED <<utf, rdstate, v, called>>

Insert ==
  /\ called = NoCall
  /\ rdstate = {}
  /\ stream = <<>> \/ (unread # <<>> /\ Last(stream) = Space)
  /\ inserts < MaxInserts
  /\ \E u \in Numbers, f \in Formats : InsertOne(u, f)

\* The caller writes a space after a number.
InsertSpace ==
  /\ called = NoCall
  /\ rdstate = {}
  /\ unread # <<>> /\ Last(stream) # Space
  /\ stream' = Append(stream, Space)
  /\ UNCHANGED <<utf, rdstate, v, unread, inserts, called>>

-----------------------------------------------------------------------------
(* Extraction *)

Inked(text) == {i \in DOMAIN text : text[i] # Space}

\* Mutant of WordStart: the narrow path does not skip spaces either.
WordStartUnskipped(text) == 1

\* The narrow path (is >> str) skips leading spaces; the other does not.
WordStart(text) == IF utf \/ Inked(text) = {} THEN 1 ELSE Min(Inked(text))

\* The next word of a text, the text behind it, and whether the end was reached. The
\* path of utf characters takes the space that ends the word as well.
Word(text) ==
  LET first == WordStart(text)
      ends  == {i \in first..Len(text) : text[i] = Space}
      blank == ~ utf /\ Inked(text) = {}
  IN  IF blank \/ ends = {}
      THEN [str  |-> IF blank THEN <<>> ELSE SubSeq(text, first, Len(text)),
            rest |-> <<>>, eof |-> TRUE]
      ELSE [str  |-> SubSeq(text, first, Min(ends) - 1),
            rest |-> SubSeq(text, IF utf THEN Min(ends) + 1 ELSE Min(ends), Len(text)),
            eof  |-> FALSE]

\* A stream that has failed before.
ExtractFromFailed ==
  /\ Failed(rdstate)
  /\ v' = Zero
  /\ rdstate' = rdstate \cup {"failbit", "badbit"}
  /\ UNCHANGED <<utf, stream, unread, inserts>>

\* At the end of the file nothing is read.
ExtractAtEnd ==
  /\ ~ Failed(rdstate)
  /\ "eofbit" \in rdstate
  /\ v' = Zero
  /\ rdstate' = rdstate \cup {"failbit"}
  /\ UNCHANGED <<utf, stream, unread, inserts>>

\* The variable was set to zero before anything was read.
Assigned(reads, number) ==
  IF reads THEN make_uint128(number \div Base, number % Base) ELSE Zero

TakeWord(word, reads, number) ==
  /\ stream' = word.rest
  /\ v' = Assigned(reads, number)
  /\ rdstate' = (IF word.eof THEN {"eofbit"} ELSE {}) \cup (IF reads THEN {} ELSE {"failbit"})
  /\ unread' = IF unread = <<>> THEN <<>> ELSE Tail(unread)
  /\ UNCHANGED <<utf, inserts>>

ParseWord(word, parsed) ==
  TakeWord(word, word.str # <<>> /\ parsed.ends = "value", parsed.number)

\* A word is taken from the stream and parsed; without one, or when it is not a
\* number, the stream has failed.
ExtractWord ==
  /\ rdstate = {}
  /\ \E word \in {Word(stream)} : ParseWord(word, make_from_string(word.str))

Extract ==
  /\ called = NoCall
  /\ ExtractFromFailed \/ ExtractAtEnd \/ ExtractWord
  /\ UNCHANGED called

Next ==
  \/ MakeFromString
  \/ ParseLiteral
  \/ ReadResult
  \/ Insert
  \/ InsertSpace
  \/ Extract

Spec == Init /\ [][Next]_vars

-----------------------------------------------------------------------------
(* What texts denote *)

\* The number that a sequence of digits denotes, by positions.
Denoted(digits, base) ==
  LET upto[i \in 0..Len(digits)] == IF i = 0 THEN 0 ELSE upto[i - 1] * base + digits[i]
  IN  upto[Len(digits)]

Fits(n) == n < Base * Base

\* A text without its separators and the spaces around it.
Core(text) == Without(text, {Space, Separator})

OuterSpaces(text) ==
  \A i \in DOMAIN text : text[i] = Space =>
    \/ \A j \in 1..i : text[j] = Space
    \/ \A j \in i..Len(text) : text[j] = Space

IsDecimalText(text) ==
  LET t == Core(text)
  IN  OuterSpaces(text) /\ t # <<>> /\ t[1] # 0 /\ \A i \in DOMAIN t : t[i] \in 0..9

IsHexText(text) ==
  LET t == Core(text)
  IN  /\ OuterSpaces(text)
      /\ Len(t) > 2 /\ t[1] = 0 /\ t[2] = Tag
      /\ \A i \in 3..Len(t) : t[i] \in 0..15

IsZeroText(text) ==
  LET t == Core(text) IN OuterSpaces(text) /\ t # <<>> /\ \A i \in DOMAIN t : t[i] = 0

HexDigits(text) == SubSeq(Core(text), 3, Len(Core(text)))
Value(n) == [ends |-> "value", number |-> n]

-----------------------------------------------------------------------------
(* Properties *)

\* A decimal text that fits is parsed to its number, separators, spaces and zeros
\* notwithstanding; one that does not is refused, or wraps where parse_decimal_str
\* notices no overflow.
DecimalIsExactWhenItFits ==
  [][called'.op = "make_from_string" /\ IsDecimalText(called'.text) =>
       LET n == Denoted(Core(called'.text), 10)
       IN  IF Fits(n) THEN called'.result = Value(n)
           ELSE called'.result \in {Value(n % (Base * Base)), Throws("overflow_error")}]_vars

\* Hexadecimal text of whole bytes is parsed to its number whatever its length; an
\* odd last digit is lost; more digits than fit are refused.
HexadecimalByWholeBytes ==
  [][called'.op = "make_from_string" /\ IsHexText(called'.text) =>
       LET digits == HexDigits(called'.text)
           n      == Denoted(digits, 16)
       IN  called'.result = IF Len(digits) > MaxHexDigits THEN Throws("invalid_argument")
                            ELSE IF Len(digits) % 2 = 0 THEN Value(n)
                            ELSE Value(n - (n % 16))]_vars

\* Nothing else becomes a number: neither a wide character that a cast to char makes
\* a digit of, nor a tag without digits, nor a number with a space inside it; only the
\* digits behind a wide one may be found to overflow first.
OtherTextIsRefused ==
  [][called'.op = "make_from_string"
       /\ ~ (IsDecimalText(called'.text) \/ IsHexText(called'.text)) =>
       IF IsZeroText(called'.text) THEN called'.result = Value(0)
       ELSE \/ called'.result = Throws("invalid_argument")
            \/ /\ called'.result = Throws("overflow_error")
               /\ \E i \in DOMAIN called'.text : called'.text[i] = WideDigit]_vars

\* A literal is the number it denotes, or ill-formed: an octal one, a decimal too large
\* for the width, to the last digit of the largest, and a hexadecimal with more digits
\* than fit, be they leading zeros.
LiteralIsExactOrIllFormed ==
  [][called'.op = "parse_literal" =>
       LET text   == called'.text
           digits == Without(text, {Quote, Tag})
           isHex  == Len(text) > 1 /\ text[2] = Tag
           n      == Denoted(digits, IF isHex THEN 16 ELSE 10)
           legal  == \/ isHex /\ Len(digits) =< MaxHexDigits + 1
                     \/ ~ isHex /\ text[1] # 0 /\ Fits(n)
                     \/ \A i \in DOMAIN text : text[i] = 0
       IN  called'.result = IF legal THEN Value(n) ELSE Throws("nullopt")]_vars

\* The characters of a number are its digits in the base, with no leading zero and none
\* missing where the three chunks meet; the field is as wide as asked for, except for
\* the two characters more of internal adjustment.
InsertionShowsTheNumber ==
  [][inserts' > inserts =>
       LET entry   == Last(unread')
           f       == entry.format
           written == SubSeq(stream', Len(stream) + 1, Len(stream'))
           rep     == Without(written, {Space})
           shows   == f.showbase /\ entry.number # 0
           base    == IF shows THEN ShowBase(f.base) ELSE <<>>
           digits  == SubSeq(rep, Len(base) + 1, Len(rep))
           more    == IF shows /\ f.base = 16 /\ f.adjust = "internal" THEN 2 ELSE 0
       IN  /\ IsPrefix(base, rep)
           /\ Denoted(digits, f.base) = entry.number
           /\ digits[1] = 0 => Len(digits) = 1
           /\ Len(written) = IF f.width > Len(rep) THEN f.width + more ELSE Len(rep)]_vars

\* Numbers come out of a stream in the order in which they went in, each as it was, if
\* spaces separate them and they are decimal or tagged pairs of hexadecimal digits.
ReadableNumbersComeBack ==
  [][Extract /\ unread # <<>> /\ (\A i \in DOMAIN unread : unread[i].readable)
       /\ rdstate = {} =>
       /\ Val(v') = Head(unread).number
       /\ ~ Failed(rdstate')]_vars

\* The bytes of a number are its digits in base 256, in the order asked for on both
\* machines, and give it back in either order; but a big-endian machine that shifts by
\* bytes and not by bits makes only a number of one byte of them.
BytesRoundTrip ==
  [][v' # v =>
       \A little \in BOOLEAN :
         LET bytes == [i \in 1..ByteCount |-> (Val(v') \div Pow2[CharBit * (i - 1)]) % 256]
             right == little \/ Val(v') < 256
         IN  /\ to_little_endian_arr(little, v') = bytes
             /\ to_big_endian_arr(little, v') = Reverse(bytes)
             /\ make_from_bytes_little_endian(little, bytes) = v' <=> right
             /\ make_from_bytes_big_endian(little, Reverse(bytes)) = v' <=> right]_vars

\* What make_from_string returns is the number that the text denotes.
ParsesTheNumber ==
  [][called'.op = "make_from_string" /\ called'.result.ends = "value" =>
       /\ IsDecimalText(called'.text) =>
            called'.result.number = Denoted(Core(called'.text), 10)
       /\ IsHexText(called'.text) =>
            called'.result.number = Denoted(HexDigits(called'.text), 16)]_vars
=============================================================================
