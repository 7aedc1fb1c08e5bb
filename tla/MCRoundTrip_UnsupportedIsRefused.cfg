\* Given a channel in a field of a struct, a StructEncoder succeeds and writes nil.
CONSTANTS
  Nil = Nil
  Capacities = {0, 6}
  Universe <- MCUniverse
  Jobs <- MCJobs
  NextJobs <- MCNextJobs
  MaxCalls = 2
  MaxStringLen = 300
  MaxBinaryLen = 300
  MaxArrayLen = 300
  MaxMapLen = 300
  MaxExtLen = 300
  MaxDepth = 5
SPECIFICATION RoundTripSpec
INVARIANTS
  UnsupportedIsRefused
CHECK_DEADLOCK FALSE
