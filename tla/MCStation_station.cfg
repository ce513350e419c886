CONSTANTS
  Photo = {h1, d1}
  Damaged = {d1}
  PhotoBatch = 1
  MaxPause = 2
  MaxPhotoTroubles = 3
  Tab = {t1, t2}
  ShotCamera = {front, rear}
  MaxStands = 1
  MaxOrders = 2
  MaxManualFaults = 1
  Viewer = {b1, b2}
  MaxCameraSets = 2
  CameraKinds <- SomeKinds
  Load = {g1, g2}
  ZeroTimeout = 2
  VehicleTimeout = 2
  StableTimeout = 3
  StableDuration = 2
  NoDataTimeout = 1
  MaxGap = 2
  a1 = a1
  p1 = p1
  p2 = p2
  b1 = b1
  None = None
  Agent = {a1}
  Pair = {p1, p2}
  Trimmed = TRUE
  Publisher = {b1}
  ChunkSize = 1
  MaxDelta = 2
  MaxSeq = 2
  MaxConn = 1
  MaxCrash = 0
  MaxLost = 0
  MaxQueue = 0
  Parts = {"photos", "manual", "cameras", "cycle", "replica"}
SPECIFICATION StationSpec
CHECK_DEADLOCK FALSE
INVARIANTS
  PhotoInv ManualInv CameraInv CycleInv
PROPERTIES
  PhotosMove StoppedReaderEnds 
