SPECIFICATION FairSpec
CONSTANTS
  c1 = c1
  Clusters = {c1}
  MaxEdits = 3
  MaxFaults = 2
INVARIANTS
  NothingLeft
  DeletesAllItCan
PROPERTIES
  NeverWithout
  PermissionsConverge
  DeletionsComplete
CHECK_DEADLOCK FALSE
