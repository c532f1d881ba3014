\* Limbs of four bits, numbers of eight: every pair of operands of a division,
\* every number against operands at the edges of the limbs, every pair of factors.
SPECIFICATION MCSpec
CONSTANTS
  HalfBits = 2
  CalculationMode = "default_eval"
  Infinity = Infinity
  NaN = NaN
INVARIANTS
  LoopInvariant
  ExactUntilMisjudged
  ProductIsExact
  ContainersAgree
  FloatsAreFaithful
  BuildIsComplete
PROPERTIES
  ImplementsDivision
  ImplementsResidues
