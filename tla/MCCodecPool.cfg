\* Two goroutines, two codecs of each kind, containers one level deep allowed.
CONSTANTS
  g1 = g1
  g2 = g2
  e1 = e1
  e2 = e2
  d1 = d1
  d2 = d2
  NoCodec = NoCodec
  G = {g1, g2}
  Encoders = {e1, e2}
  Decoders = {d1, d2}
  Calls <- MCCalls
  MaxDepth = 1
SPECIFICATION Spec
INVARIANTS TypeOK Exclusive
PROPERTIES ResultsAreSafe ImplementsAtomicCodec CallsReturn
