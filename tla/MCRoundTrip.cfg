\* Two calls of one Encoder, then a decode of what the first has written.
CONSTANTS
  Nil = Nil
  Capacities = {0, 6}
  Universe <- MCUniverse
  Jobs <- MCJobs
  NextJobs <- MCNextJobs
  MaxCalls = 2
  MaxStringLen = 300
  MaxBinaryLen = 300
  MaxArrayLen = 300
  MaxMapLen = 300
  MaxExtLen = 300
  MaxDepth = 5
SPECIFICATION RoundTripSpec
INVARIANTS
  TypeOK NothingIsLost HeldIsKept EachCallIsOneValue RefusedIfUnsupported RoundTrips
PROPERTY
  BufferSpec
CHECK_DEADLOCK FALSE
