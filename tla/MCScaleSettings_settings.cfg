CONSTANTS
  com3 = com3
  com4 = com4
  None = None
  Port = {com3, com4}
  Local = com3
  Answers = {com3}
  MaxEdit = 2
  MaxDrop = 1
  Troubles <- SomeTroubles
SPECIFICATION FairSpec
CHECK_DEADLOCK FALSE
INVARIANTS
  SettingsInv
PROPERTIES
  LastReceivedStays
