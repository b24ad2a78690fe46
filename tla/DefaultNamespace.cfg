SPECIFICATION FairSpec
CONSTANTS
  g1 = g1
  g2 = g2
  gs1 = gs1
  a1 = a1
  Groups = {g1, g2, gs1}
  Apis = {a1}
  Settings <- SomeSettings
  MaxEdits = 2
  MaxFaults = 1
INVARIANTS
  BootedFirst
  BindingsHaveRoles
  GiantSwarmKept
PROPERTIES
  Converges
CHECK_DEADLOCK FALSE
