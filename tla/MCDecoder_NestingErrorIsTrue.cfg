CONSTANTS
  MaxStringLen = 2
  MaxBinaryLen = 1
  MaxArrayLen = 2
  MaxMapLen = 1
  MaxExtLen = 1
  MaxDepth = 2
  Messages <- MCLongMessages
  ResetMessages <- MCResetMessages
  Walks = {"value"}
  ReuseAfterError = TRUE
  DepthBound = 3
SPECIFICATION Spec
INVARIANT NestingErrorIsTrue
