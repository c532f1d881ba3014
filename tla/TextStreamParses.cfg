\* Hexadecimal text of up to four digits.
SPECIFICATION Spec
CONSTANTS
  HalfBits = 4
  CalculationMode = "default_eval"
  Texts <- MCHexTexts
  Literals = {}
  Numbers = {}
  Formats = {}
  MaxInserts = 0
PROPERTY ParsesTheNumber
