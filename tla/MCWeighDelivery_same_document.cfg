CONSTANTS
  c1 = c1
  c2 = c2
  c3 = c3
  m1 = m1
  f1 = f1
  f2 = f2
  s1 = s1
  None = None
  Calls = {c1, c2, c3}
  Manuals = {}
  Ref = {f1}
  Scale = {s1}
  RefOf <- TriedThriceRefOf
  ScaleOf <- TriedThriceScaleOf
  BatchSize = 1
  MaxConn = 2
  MaxCrash = 0
SPECIFICATION Spec
CHECK_DEADLOCK FALSE
INVARIANT SameDocument
