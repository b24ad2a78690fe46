SPECIFICATION FairSpec
CONSTANTS
  n1 = n1
  giantswarm = giantswarm
  c1 = c1
  Namespaces = {n1, giantswarm, c1}
  OrgNamespaces = {n1, giantswarm}
  ProtectedNamespaces = {giantswarm}
  OrganizationName <- MCOrganizationName
  AdminGroups = TRUE
  NoBinding = NoBinding
  MaxEdits = 1
  MaxFaults = 1
INVARIANTS
  DeletionCleans
PROPERTIES
  ImplementsPromise
  AccountsConverge
  AdminsConverge
  DeletionsComplete
CHECK_DEADLOCK FALSE
