SPECIFICATION FairSpec
CONSTANTS
  u = u
  a1 = a1
  a2 = a2
  Subjects = {u, a1, a2}
  Humans = {u}
  KeyOf <- MCKeyOf
  Sources = {s1}
  Grants <- SameNameGrants
  Clusters = {c1}
  NoBinding = NoBinding
  MaxEdits = 1
  MaxFaults = 0
PROPERTIES
  AnyAccessReads
CHECK_DEADLOCK FALSE
