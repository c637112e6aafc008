SPECIFICATION Spec
CONSTANTS
  Buckets = 3
  Minimum = 1
  Sizes = {1, 2, 5}
  MaxBuffers = 4
  MaxLive = 3
INVARIANTS
  NoOverlap
  LinkedIsReusable
  ChainsAreSorted
