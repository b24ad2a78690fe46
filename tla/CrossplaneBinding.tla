--------------------------- MODULE CrossplaneBinding ---------------------------
(***************************************************************************)
(* What the two Crossplane controllers promise of the binding they share.  *)
(* It is rewritten with a list of the organizations that was looked up     *)
(* before, or gets or loses the account of one organization; each of these *)
(* happens at once, to the binding as it is then. No organization is let   *)
(* go before its account was taken out, no role before the binding is gone. *)
(***************************************************************************)
CONSTANT Accounts  \* one for each organization namespace

VARIABLES
  held,     \* the operator holds the role the binding is for
  there,    \* the binding exists
  members,  \* the accounts in it
  looked,   \* a list of the organizations is at hand
  view,     \* that list
  phase     \* of each organization

vars == <<held, there, members, looked, view, phase>>
binding == <<there, members>>
list == <<looked, view>>

\* "cleared": the account of an organization in deletion was taken out.
Phase == {"absent", "new", "live", "deleting", "cleared", "released"}

Init ==
  /\ held = FALSE
  /\ there = FALSE /\ members = {}
  /\ looked = FALSE /\ view = {}
  /\ phase \in [Accounts -> {"absent", "new"}]

HoldRole == held' = TRUE /\ UNCHANGED <<binding, list, phase>>
LetRoleGo == ~there /\ held' = FALSE /\ UNCHANGED <<binding, list, phase>>

Look ==
  /\ held
  /\ looked' = TRUE /\ view' = {a \in Accounts : phase[a] # "absent"}
  /\ UNCHANGED <<held, binding, phase>>

NoList == looked' = FALSE /\ view' = {}

\* A list is good for one rewrite. The binding may be gone by then, or come.
Rewrite ==
  /\ held /\ looked
  /\ there' = TRUE /\ members' = view
  /\ NoList
  /\ UNCHANGED <<held, phase>>

Forget == NoList /\ UNCHANGED <<held, binding, phase>>

\* The controller of the role or somebody else deletes the binding.
Drop == there' = FALSE /\ members' = {} /\ UNCHANGED <<held, list, phase>>

Add(a) ==
  /\ there /\ phase[a] \in {"live", "deleting"}
  /\ members' = members \cup {a}
  /\ UNCHANGED <<held, there, list, phase>>

At(a, p) == phase' = [phase EXCEPT ![a] = p]

TakeOut(a) ==
  /\ phase[a] = "deleting"
  /\ members' = members \ {a}
  /\ At(a, "cleared") \/ UNCHANGED phase
  /\ UNCHANGED <<held, there, list>>

\* The next round takes the account out again.
Uncleared == [a \in Accounts |-> IF phase[a] = "cleared" THEN "deleting" ELSE phase[a]]
Unclear == phase' = Uncleared /\ UNCHANGED <<held, binding, list>>

\* Both controllers are one process.
Restart == NoList /\ phase' = Uncleared /\ UNCHANGED <<held, binding>>

\* How an organization comes and goes; the operator lets go of it at the last.
Comes(a) == phase[a] = "absent" /\ At(a, "new")
Held(a) == phase[a] = "new" /\ At(a, "live")
Leaves(a) == \/ phase[a] = "new" /\ At(a, "released")
             \/ phase[a] = "live" /\ At(a, "deleting")
LetGo(a) == phase[a] = "cleared" /\ At(a, "released")
Goes(a) == phase[a] = "released" /\ At(a, "absent")

Lifecycle(a) ==
  /\ Comes(a) \/ Held(a) \/ Leaves(a) \/ LetGo(a) \/ Goes(a)
  /\ UNCHANGED <<held, binding, list>>

Next ==
  \/ HoldRole \/ LetRoleGo \/ Look \/ Rewrite \/ Forget \/ Drop \/ Unclear \/ Restart
  \/ \E a \in Accounts : Add(a) \/ TakeOut(a) \/ Lifecycle(a)

Spec == Init /\ [][Next]_vars
=============================================================================
