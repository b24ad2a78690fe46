SPECIFICATION LiveSpec
CONSTANTS
  n1 = n1
  giantswarm = giantswarm
  flux = flux
  none = none
  o1 = o1
  o2 = o2
  l1 = l1
  l2 = l2
  a = a
  b = b
  r1 = r1
  r2 = r2
  bad = bad
  Templates = {t1, t2}
  Names = {a, b}
  Namespaces = {n1, giantswarm}
  ProtectedNamespaces = {giantswarm}
  FluxNamespace = flux
  Orgs = {o1}
  OrgOf <- OneOrgOf
  Labels = {l1, l2}
  Roles = {r1, r2}
  BadRole = bad
  Specs <- SharedSpecs
  NoNamespace = none
  NoBinding = NoBinding
  MaxEdits = 1
  MaxFaults = 1
  MaxRetries = 1
PROPERTIES
  GrantsArrive
  GrantsWithdrawn
  DeletionCompletes
CHECK_DEADLOCK FALSE
