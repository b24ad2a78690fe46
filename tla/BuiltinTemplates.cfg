SPECIFICATION FairBuiltins
CONSTANTS
  n1 = n1
  flux = flux
  none = none
  o1 = o1
  l1 = l1
  a = a
  b = b
  r1 = r1
  r2 = r2
  bad = bad
  t1 = t1
  t2 = t2
  Templates = {t1, t2}
  Names = {a, b}
  Namespaces = {n1}
  ProtectedNamespaces = {}
  FluxNamespace = flux
  Orgs = {o1}
  OrgOf <- MCOrgOf
  Labels = {l1}
  Roles = {r1, r2}
  BadRole = bad
  Specs <- MCSpecs
  NoNamespace = none
  NoBinding = NoBinding
  Order <- MCOrder
  BuiltinSpec <- MCBuiltinSpec
  MaxEdits = 1
  MaxFaults = 1
  MaxRetries = 0
INVARIANTS
  OwnWritesUndisturbed
  StatusHeld
PROPERTIES
  BuiltinsArrive
CHECK_DEADLOCK FALSE
