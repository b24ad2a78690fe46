------------------------- MODULE MCBuiltinTemplates -------------------------
(* A small instance of fluxauth with the RoleBindingTemplate controller for  *)
(* TLC: two templates of the operator, one with a local service account and  *)
(* one for Flux, and what users make of them.                                *)
EXTENDS BuiltinTemplates, TLC

CONSTANTS n1, flux, none, o1, l1, a, b, r1, r2, bad, t1, t2

LocalSA == [kind |-> "ServiceAccount", ns |-> none]
FluxSA == [kind |-> "ServiceAccount", ns |-> flux]

MCOrgOf == n1 :> o1
MCOrder == <<t1, t2>>

SpecOf(name, role, subjects) ==
  [name |-> name, role |-> role, subjects |-> subjects, scope |-> {l1}]

WriteAll == SpecOf(a, r1, {LocalSA})
FluxCRD == SpecOf(b, r1, {FluxSA})
\* The name of the first with the subject of the second.
Edited1 == SpecOf(a, r1, {FluxSA})

MCBuiltinSpec == (t1 :> WriteAll) @@ (t2 :> FluxCRD)
MCSpecs == {WriteAll, FluxCRD, Edited1}
=============================================================================
