----------------------- MODULE MCRoleBindingTemplate -----------------------
(* Small instances of the RoleBindingTemplate controller for TLC. *)
EXTENDS RoleBindingTemplate, TLC

CONSTANTS n1, giantswarm, flux, none, o1, o2, l1, l2, a, b, r1, r2, bad

Group == [kind |-> "Group", ns |-> none]
LocalSA == [kind |-> "ServiceAccount", ns |-> none]
FluxSA == [kind |-> "ServiceAccount", ns |-> flux]
OtherSA == [kind |-> "ServiceAccount", ns |-> n1]

SpecOf(name, role, subjects, scope) ==
  [name |-> name, role |-> role, subjects |-> subjects, scope |-> scope]

MCOrgOf == (n1 :> o1) @@ (giantswarm :> o2)
OneOrgOf == (n1 :> o1) @@ (giantswarm :> o1)

\* A template, another set of subjects and another scope.
Narrow == SpecOf(a, r1, {Group, LocalSA}, {l1})
Wide == SpecOf(a, r1, {Group, FluxSA, OtherSA}, {l1, l2})
\* Another role, with the same and with other subjects.
NewRole == SpecOf(a, r2, {Group, LocalSA}, {l1})
NewGrant == SpecOf(a, r2, {LocalSA}, {l1, l2})
Broken == SpecOf(a, bad, {Group}, {l1})
Renamed == SpecOf(b, r1, {Group}, {l1, l2})

\* Specs of two templates that share a name or not: Narrow and Emptied contest it
\* in an ordinary namespace, the others have scopes that do not overlap.
Beside == SpecOf(a, r2, {FluxSA}, {l2})
Emptied == SpecOf(a, r1, {Group}, {l1})
Elsewhere == SpecOf(b, r1, {LocalSA}, {l1, l2})

SafetySpecs == {Narrow, Wide, NewGrant, Broken, Renamed}
SharedSpecs == {Narrow, Beside, Emptied, Elsewhere}
RoleSpecs == {Narrow, NewRole}
ScopeSpecs == {Narrow, Wide}

\* From an ordinary and a protected namespace of one organization.
LiveInit ==
  Init /\ (\A n \in Namespaces : ns[n] = "active") /\ (\A o \in Orgs : orgLabel[o] = l1)

LiveSpec == LiveInit /\ [][Next]_vars /\ Fairness
=============================================================================
