CONSTANTS
  LastVersion = 2
  FirstVersion = 1
  Broken = {2}
  Held = TRUE
  MaxMishap = 1
  MaxAttempts = 2
  MaxPress = 1
  Release = {1, 2}
  Station = {a1, a2}
  Admin = {m1}
  Pilot = {a1}
  MaxInFlight = 1
  MaxCatalogEdits = 1
  MaxTurns = 1
  StaleAfter = 1
  Parts = {"chain", "fleet"}
SPECIFICATION RolloutSpec
CHECK_DEADLOCK FALSE
INVARIANTS
   FleetInv
