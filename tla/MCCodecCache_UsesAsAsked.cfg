\* Callers that call ZeroCopy on the decoders they get.
CONSTANTS
  g1 = g1
  g2 = g2
  i1 = i1
  i2 = i2
  i3 = i3
  T = T
  None = None
  G = {g1, g2}
  Maps = {"structDecoderCache", "structDecoderZeroCopyCache"}
  Types = {T}
  NumFields = 2
  Instances = {i1, i2, i3}
SPECIFICATION Spec
INVARIANT UsesAsAsked
