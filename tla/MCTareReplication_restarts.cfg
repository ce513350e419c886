CONSTANTS
  a1 = a1
  p1 = p1
  p2 = p2
  b1 = b1
  None = None
  Agent = {a1}
  Pair = {p1, p2}
  Trimmed = FALSE
  Publisher = {b1}
  ChunkSize = 2
  MaxDelta = 1
  MaxSeq = 2
  MaxConn = 2
  MaxCrash = 1
  MaxLost = 1
  MaxQueue = 0
SPECIFICATION Spec
CHECK_DEADLOCK FALSE
SYMMETRY Symmetry
INVARIANTS
  ReplicaInv
