SPECIFICATION FairSpec
CONSTANTS
  u = u
  a1 = a1
  a2 = a2
  Subjects = {u, a1, a2}
  Humans = {u}
  KeyOf <- MCKeyOf
  Sources = {s1}
  Grants <- SafetyGrants
  Clusters = {c1}
  NoBinding = NoBinding
  MaxEdits = 1
  MaxFaults = 1
INVARIANTS
  NoEscalation
  DeletionRevokes
PROPERTIES
  RoundsAgree
  OrganizationAccessConverges
  ClusterAccessConverges
  DeletionsComplete
CHECK_DEADLOCK FALSE
