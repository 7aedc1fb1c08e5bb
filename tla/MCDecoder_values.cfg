\* All three walks over every bounded buffer; the caller may decode on after
\* an error.
CONSTANTS
  MaxStringLen = 2
  MaxBinaryLen = 1
  MaxArrayLen = 2
  MaxMapLen = 1
  MaxExtLen = 1
  MaxDepth = 2
  Messages <- MCMessages
  ResetMessages <- MCResetMessages
  Walks = {"value", "any", "typed"}
  ReuseAfterError = TRUE
  DepthBound = 3
SPECIFICATION Spec
INVARIANTS
  TypeOK PosInBounds RecursionBounded SlotsBackedByBytes DepthRestored
  OkIsOneValue ErrorIsJustified
PROPERTIES
  StepMakesProgress CallsReturn
