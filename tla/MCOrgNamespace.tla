---------------------------- MODULE MCOrgNamespace ----------------------------
(* A small instance of automation and namespaceauth for TLC: the cluster       *)
(* namespace c1 has the name of the organization n1 without its prefix.        *)
EXTENDS OrgNamespace

CONSTANTS n1, giantswarm, c1

MCOrganizationName == [n \in Namespaces |-> IF n = c1 THEN n1 ELSE n]
=============================================================================
