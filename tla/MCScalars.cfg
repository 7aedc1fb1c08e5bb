\* Bytes of 32 values, seconds of 50 nanoseconds, a 64-bit platform.
CONSTANTS
  Span <- MCSpan
  Second = 50
  IntWidth = 8
  MaxLen = 200
  Numbers <- MCNumbers
  Instants <- MCInstants
  Lengths <- MCLengths
  Foreign <- MCForeign
SPECIFICATION Spec
INVARIANTS
  TypeOK NumbersKept NumbersWrap RefusalsJustified InstantsKept LengthsKept
  LengthsBacked
PROPERTY
  MostCompact
CHECK_DEADLOCK FALSE
