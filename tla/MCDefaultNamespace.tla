-------------------------- MODULE MCDefaultNamespace --------------------------
(* A small instance of the start of the operator for TLC: three groups, one   *)
(* API resource that comes and goes, and four settings, three of them flawed. *)
EXTENDS DefaultNamespace

CONSTANTS g1, g2, gs1, a1

SettingOf(capa, admins, readers, gs, oldAdmin, oldGs) ==
  [capa |-> capa, malformed |-> FALSE, admins |-> admins, readers |-> readers,
   gs |-> gs, oldAdmin |-> oldAdmin, oldGs |-> oldGs]

SomeSettings ==
  {SettingOf(TRUE, {}, {}, {gs1, Blank}, g1, Blank),
   SettingOf(TRUE, {Blank}, {g2}, {}, Blank, gs1),
   SettingOf(FALSE, {g1}, {g2, Blank}, {Blank}, Blank, Blank),
   [SettingOf(FALSE, {g2}, {g2}, {gs1}, Blank, gs1) EXCEPT !.malformed = TRUE]}
=============================================================================
