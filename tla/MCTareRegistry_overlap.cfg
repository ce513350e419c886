CONSTANTS
  w1 = w1
  w2 = w2
  w3 = w3
  i1 = i1
  i2 = i2
  s1 = s1
  s2 = s2
  p1 = p1
  p2 = p2
  None = None
  Tool = Tool
  Live = {w1, w2, w3}
  Imported = {i1, i2}
  Storno = {s1, s2}
  Pair = {p1, p2}
  TargetOf <- MCTargetOf
  PairOf <- MCPairOf
  TaredAt <- MCTaredAt
  MaxAborts = 1
SPECIFICATION FairSpec
CHECK_DEADLOCK FALSE
INVARIANTS
  RegistryFollowsJournal LogTracksRegistry OnlyToolDeadlocks
PROPERTIES
  EveryTaringSaved NumbersFollowCommits KeepsRegistry
