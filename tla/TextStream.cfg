\* Numbers of 16 bits in a stream, and texts of up to seven characters.
SPECIFICATION Spec
CONSTANTS
  HalfBits = 4
  CalculationMode = "default_eval"
  Texts <- MCTexts
  Literals <- MCLiterals
  Numbers <- MCNumbers
  Formats <- MCFormats
  MaxInserts = 2
PROPERTIES
  BytesRoundTrip
  DecimalIsExactWhenItFits
  HexadecimalByWholeBytes
  OtherTextIsRefused
  LiteralIsExactOrIllFormed
  InsertionShowsTheNumber
  ReadableNumbersComeBack
