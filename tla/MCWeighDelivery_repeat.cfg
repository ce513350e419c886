CONSTANTS
  c1 = c1
  c2 = c2
  c3 = c3
  m1 = m1
  f1 = f1
  f2 = f2
  s1 = s1
  None = None
  Calls = {c1, c2}
  Manuals = {m1}
  Ref = {f1, f2}
  Scale = {s1}
  RefOf <- OneNumberRefOf
  ScaleOf <- OneScaleScaleOf
  BatchSize = 1
  MaxConn = 2
  MaxCrash = 1
SPECIFICATION Spec
CHECK_DEADLOCK FALSE
INVARIANTS
  TypeOK DeliveryInv LinksSound AnswerSound PathInv
PROPERTIES
  KeepsPromise OfflineOnlyByBreak
