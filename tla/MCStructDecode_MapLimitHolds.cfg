\* A map in a map that is longer than MaxMapLen.
CONSTANTS
  MaxStringLen = 3
  MaxBinaryLen = 2
  MaxArrayLen = 2
  MaxMapLen = 2
  MaxExtLen = 1
  MaxDepth = 3
  Types <- MCTypes
  OuterLevels <- MCOuterLevels
  Jobs <- MCJobs
  NextMessages <- MCNextMessages
  MaxCalls = 2
SPECIFICATION Spec
INVARIANT MapLimitHolds
CHECK_DEADLOCK FALSE
