---------------------------- MODULE SharedAccounts ----------------------------
(***************************************************************************)
(* What a binding that many organizations share promises: each has its     *)
(* account in it only as long as the operator holds the organization, and  *)
(* one account comes or goes at a time.                                    *)
(***************************************************************************)
CONSTANT Accounts

VARIABLES
  members,  \* the accounts in the binding
  held,     \* the accounts whose organization the operator holds
  others    \* whether others have put something of their own into it

vars == <<members, held, others>>

Init == members = {} /\ held = {} /\ others = FALSE

Take(a) == held' = held \cup {a} /\ UNCHANGED <<members, others>>

Add(a) ==
  /\ a \in held
  /\ members' = members \cup {a}
  /\ UNCHANGED <<held, others>>

Remove(a) == members' = members \ {a} /\ UNCHANGED <<held, others>>

\* An organization is let go without its account, never with it.
LetGo(a) ==
  /\ a \notin members
  /\ held' = held \ {a}
  /\ UNCHANGED <<members, others>>

\* An organization stops being one: its account is nobody's business any more.
Disown(a) == members' = members \ {a} /\ held' = held \ {a} /\ UNCHANGED others

\* Others edit the binding without touching the accounts, or delete it.
EditOthers == others' \in BOOLEAN /\ UNCHANGED <<members, held>>
Reset == members' = {} /\ others' = FALSE /\ UNCHANGED held

Next ==
  \/ \E a \in Accounts : Take(a) \/ Add(a) \/ Remove(a) \/ LetGo(a) \/ Disown(a)
  \/ EditOthers \/ Reset

Spec == Init /\ [][Next]_vars

-----------------------------------------------------------------------------
\* No account stays behind its organization.
NoneLeftBehind == members \subseteq held
=============================================================================
