SPECIFICATION Spec
CONSTANTS
  n1 = n1
  n2 = n2
  c1 = c1
  Namespaces = {n1, n2}
  OrgNamespaces = {n1, n2}
  Watched = {n1, n2}
  NoBinding = NoBinding
  MaxEdits = 1
  MaxFaults = 0
PROPERTIES
  RemovedWithNamespace
CHECK_DEADLOCK FALSE
