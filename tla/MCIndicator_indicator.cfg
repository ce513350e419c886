CONSTANTS
  Parts = {"watch", "stream"}
  g1 = g1
  g2 = g2
  short = short
  long = long
  None = None
  Gross = {g1, g2}
  Heavy = {g2}
  RxTimeout = 1
  NoData = 1
  Config = {short, long}
  StableFor <- MCStableFor
  LongestStable = 3
  Patience = 1
  EmptyTime = 5
  Raw <- SomeRaw
  Discrete = 2
  Window = 1
  Slack = 0
  SilenceTime = 2
  CasLimit = 5
  MaxPackets = 3
  MaxNoise = 1
  MaxOpens = 1
SPECIFICATION IndicatorSpec
CHECK_DEADLOCK FALSE
INVARIANTS
  WatchInv StreamInv
PROPERTIES
  WatcherLives
