CONSTANTS
  a1 = a1
  p1 = p1
  p2 = p2
  b1 = b1
  None = None
  Agent = {a1}
  Pair = {p1, p2}
  Trimmed = FALSE
  Publisher = {b1}
  ChunkSize = 1
  MaxDelta = 2
  MaxSeq = 2
  MaxConn = 1
  MaxCrash = 0
  MaxLost = 1
  MaxQueue = 0
SPECIFICATION Spec
CHECK_DEADLOCK FALSE
INVARIANT ReplicaSound
