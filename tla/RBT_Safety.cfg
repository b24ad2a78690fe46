SPECIFICATION Spec
CONSTANTS
  n1 = n1
  giantswarm = giantswarm
  flux = flux
  none = none
  o1 = o1
  o2 = o2
  l1 = l1
  l2 = l2
  a = a
  b = b
  r1 = r1
  r2 = r2
  bad = bad
  Templates = {t1}
  Names = {a, b}
  Namespaces = {n1, giantswarm}
  ProtectedNamespaces = {giantswarm}
  FluxNamespace = flux
  Orgs = {o1, o2}
  OrgOf <- MCOrgOf
  Labels = {l1, l2}
  Roles = {r1, r2}
  BadRole = bad
  Specs <- SafetySpecs
  NoNamespace = none
  NoBinding = NoBinding
  MaxEdits = 2
  MaxFaults = 1
  MaxRetries = 1
INVARIANTS
  TypeOK
  GrantsAsSpecified
  ProtectedNamespacesClosed
  BindingsAccounted
PROPERTIES
  StatusMatchesSpec
  DeletedTemplateIsClean
  ImplementsPromise
CHECK_DEADLOCK FALSE
