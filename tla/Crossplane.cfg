SPECIFICATION FairSpec
CONSTANTS
  n1 = n1
  n2 = n2
  c1 = c1
  Namespaces = {n1, n2, c1}
  OrgNamespaces = {n1, n2}
  Watched = {n1, c1}
  NoBinding = NoBinding
  MaxEdits = 3
  MaxFaults = 1
INVARIANTS
  NoOrphanBinding
  NoDuplicates
  AddsAreHeld
PROPERTIES
  NamespaceWriteIsExact
  ImplementsPromise
  BindingConverges
  DeletionsComplete
CHECK_DEADLOCK FALSE
