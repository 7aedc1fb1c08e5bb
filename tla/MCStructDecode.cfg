\* Both walks into every type of MCStructDecode, twice into each destination.
CONSTANTS
  MaxStringLen = 3
  MaxBinaryLen = 2
  MaxArrayLen = 2
  MaxMapLen = 2
  MaxExtLen = 1
  MaxDepth = 3
  Types <- MCTypes
  OuterLevels <- MCOuterLevels
  Jobs <- MCJobs
  NextMessages <- MCNextMessages
  MaxCalls = 2
SPECIFICATION Spec
INVARIANTS
  TypeOK RecursionBounded OkMeansItFits GoodMessagesDecode FieldsAsWritten
PROPERTY
  CallsReturn
CHECK_DEADLOCK FALSE
