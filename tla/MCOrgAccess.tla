----------------------------- MODULE MCOrgAccess -----------------------------
(* Small instances of the spread of organization access for TLC. *)
EXTENDS OrgAccess, TLC

CONSTANTS u, a1, a2

\* A user, and service accounts of one name in two namespaces.
MCKeyOf == (u :> "user") @@ (a1 :> "account") @@ (a2 :> "account")

GrantOf(role, subjects) == [role |-> role, subjects |-> subjects]

\* No binding names both service accounts, but a derived one may still have one
\* of them when the source has the other.
SafetyGrants == {GrantOf("readAll", {u}), GrantOf("admin", {u, a1}),
                 GrantOf("readApps", {a1}), GrantOf("other", {u, a2})}
SameNameGrants == {GrantOf("admin", {u, a1, a2})}
=============================================================================
