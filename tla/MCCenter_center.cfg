CONSTANTS
  p1 = p1
  o1 = o1
  o2 = o2
  o3 = o3
  Moments <- SomeMoments
  TareMass = {15, 30}
  GrossMass = {12, 40}
  MaxTare = 25
  MaxRecords = 3
  MaxStornos = 1
  NoRef = NoRef
  NoCar = NoCar
  Absent = Absent
  Ambiguous = Ambiguous
  File <- SomeFile
  OwnTarings = {o1, o2, o3}
  OwnAs <- SomeOwn
  Site <- SomeSites
  Since = 5
  MaxTareKg = 25
  MassMatch = 1
  TimeMatch = 2
  MaxToolRuns = 2
  MaxToolCrashes = 1
  StaleAfter = 1
  MaxLinks = 2
  MaxReports = 2
  MaxMishaps = 1
  Delay <- SomeDelays
  Op = {o1, o2, p1}
  Poison = {p1}
  EventBatch = 2
  MaxRows = 4
  MaxEventTroubles = 1
  ChatBatch = 2
  MaxAlerts = 3
  MaxChatCrashes = 1
  User = {anna, boris}
  Browser = {b1, b2}
  MaxPasswords = 2
  MaxVisits = 3
  Desk = {d1}
  MaxEdits = 2
  MaxLocalEdits = 1
  MaxOpLinks = 1
  Login = {l1, l2, l3}
  MaxFailures = 2
  Window = 3
  Pause = 2
  MaxTracked = 2
  MaxTogether = 2
  MaxTime = 4
  MaxTries = 4
  Today <- LookDays
  Typed <- TypedDays
  MinDate <- FirstDay
  MaxDays = 1098
  Parts = {"story", "import", "monitor", "outbox", "chat", "access", "operators", "throttle", "periods"}
SPECIFICATION CenterSpec
CHECK_DEADLOCK FALSE
INVARIANTS
  StoryInv ImportInv AlertInv   OperatorInv PeriodInv
PROPERTIES
  DocumentStays MonitorTells EveryEventLeaves
