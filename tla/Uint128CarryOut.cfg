\* The portable add_with_carry.
SPECIFICATION Spec
CONSTANTS
  HalfBits = 1
  CalculationMode = "default_eval"
  Operands <- MCOperands
  SignedInts <- MCSignedInts
  Operations <- CarryOperations
PROPERTY CarryOutTellsOverflow
