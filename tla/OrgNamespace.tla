----------------------------- MODULE OrgNamespace -----------------------------
(***************************************************************************)
(* The first two resources of the rbac controller, automation and          *)
(* namespaceauth, on all namespaces. Each organization gets an automation  *)
(* account with ClusterRoleBindings of its own, and like each labelled     *)
(* namespace a binding for the customer's admins and a ClusterRole under   *)
(* its name without prefix, which an organization may share with others.   *)
(* All accounts are subjects of the one patch-charts RoleBinding.          *)
(* (externalresources, the third resource, is OrgAccess.)                  *)
(*                                                                         *)
(* One worker. A helper's Get and write are one step, except for the       *)
(* RoleBinding all organizations share.                                    *)
(***************************************************************************)
EXTENDS Naturals

CONSTANTS
  Namespaces,           \* namespaces that may exist
  OrgNamespaces,        \* those IsOrgNamespace holds for
  ProtectedNamespaces,  \* those IsProtectedNamespace holds for
  OrganizationName,     \* the names of the namespaces without "org-"
  AdminGroups,          \* whether the customer has admin groups (Helm values)
  NoBinding,            \* the shared binding does not exist
  MaxEdits,             \* bound: steps of users and of the namespace lifecycle
  MaxFaults             \* bound: failing calls and restarts

ASSUME NamespaceAssumption ==
  /\ Namespaces # {} /\ OrgNamespaces \subseteq Namespaces
  /\ ProtectedNamespaces \subseteq OrgNamespaces
  /\ AdminGroups \in BOOLEAN

ASSUME BoundAssumption == MaxEdits \in Nat /\ MaxFaults \in Nat

VARIABLES
  ns,        \* the namespaces
  labelled,  \* those with an organization or customer label
  obj,       \* what is there for each namespace
  orgRoles,  \* the names with a ClusterRole for reading the Organization
  role,      \* the patch-charts Role
  shared,    \* the patch-charts RoleBinding
  rv,        \* its resource version: how often it was written
  w,         \* the worker
  kept,      \* history: the namespaces that never lost their label
  edits,     \* steps of users and of the namespace lifecycle so far
  faults     \* failing calls and restarts so far

vars == <<ns, labelled, obj, orgRoles, role, shared, rv, w, kept, edits, faults>>

Phase == {"absent", "new", "live", "deleting", "released"}
Terminating == {"deleting", "released"}

\* Namespaces whose ClusterRole has one name: org-acme, and acme of a cluster.
Namesakes(n) == {m \in Namespaces : OrganizationName[m] = OrganizationName[n]}
Names == {OrganizationName[n] : n \in Namespaces}

\* The objects of a namespace: the ServiceAccount, two ClusterRoleBindings for
\* it, the admins' RoleBinding.
Object == {"account", "silences", "kamaji", "admins"}
Local == {"account", "admins"}
Binds == {"silences", "kamaji", "admins"}

\* "changed" by somebody; "rebound" to another role, with other subjects.
Content(o) == {"none", "ours", "changed"} \cup IF o \in Binds THEN {"rebound"} ELSE {}

\* The accounts in the shared binding, and whether others added something.
Shared == [accounts : SUBSET OrgNamespaces, foreign : BOOLEAN]

\* The constant stands for a binding that is not there.
ASSUME BindingAssumption == NoBinding \notin Shared

AccountsOf(b) == IF b = NoBinding THEN {} ELSE b.accounts

Step == Object \cup {"idle", "patchRole", "read", "write", "orgRole", "release"}

Worker == [pc : Step, failed : BOOLEAN, at : Namespaces, del : BOOLEAN,
           seen : Shared \cup {NoBinding}, rv : Nat]

Idle == [pc |-> "idle", failed |-> FALSE, at |-> CHOOSE n \in Namespaces : TRUE,
         del |-> FALSE, seen |-> NoBinding, rv |-> 0]

Init ==
  /\ ns \in [Namespaces -> {"absent", "new"}]
  /\ labelled \in SUBSET Namespaces
  /\ obj = [n \in Namespaces |-> [o \in Object |-> "none"]]
  /\ orgRoles = {}
  /\ role = "none"
  /\ shared = NoBinding
  /\ rv = 0
  /\ w = Idle
  /\ kept = Namespaces
  /\ edits = 0
  /\ faults = 0

cluster == <<ns, labelled, obj, orgRoles, role, shared, rv>>
budget == <<kept, edits, faults>>

-----------------------------------------------------------------------------
(* The order of the steps. *)

\* automation, then namespaceauth.
AfterCreate == [account |-> "silences", silences |-> "kamaji", kamaji |-> "patchRole",
                patchRole |-> "read", read |-> "orgRole", write |-> "orgRole",
                orgRole |-> "admins", admins |-> "idle"]

AfterDelete == [read |-> "silences", write |-> "silences", silences |-> "kamaji",
                kamaji |-> "account", account |-> "orgRole", orgRole |-> "admins",
                admins |-> "release"]

\* Mutant: a deletion that is retried takes the shared binding for done.
StartDone(pc, n, del) ==
  IF pc \in {"orgRole", "admins"} \/ n \notin OrgNamespaces THEN "orgRole"
  ELSE IF del THEN "silences" ELSE "account"

\* Where the handler begins that a step belongs to. automation leaves alone
\* what is not an organization namespace.
Start(pc, n, del) ==
  IF pc \in {"orgRole", "admins"} \/ n \notin OrgNamespaces THEN "orgRole"
  ELSE IF del THEN "read" ELSE "account"

At(pc) == w.pc = pc /\ ~w.failed

GoOn ==
  LET next == IF w.del THEN AfterDelete[w.pc] ELSE AfterCreate[w.pc]
  IN  w' = IF next = "idle" THEN Idle ELSE [w EXCEPT !.pc = next]

Fails == w' = [w EXCEPT !.failed = TRUE]

-----------------------------------------------------------------------------
(* The controller. *)

\* The controller has no selector: it holds every namespace.
AddFinalizer(n) ==
  /\ w.pc = "idle" /\ ns[n] = "new"
  /\ ns' = [ns EXCEPT ![n] = "live"]
  /\ UNCHANGED <<labelled, obj, orgRoles, role, shared, rv, w, budget>>

\* Without the label nothing is done, for a namespace that goes neither.
Begin(n) ==
  /\ w.pc = "idle"
  /\ \/ /\ ns[n] = "live" /\ n \in labelled
        /\ w' = [Idle EXCEPT !.at = n, !.pc = Start("idle", n, FALSE)]
     \/ /\ ns[n] = "deleting"
        /\ w' = [Idle EXCEPT !.at = n, !.del = TRUE,
                   !.pc = IF n \in labelled THEN Start("idle", n, TRUE) ELSE "release"]
  /\ UNCHANGED <<cluster, budget>>

\* Mutant: a ClusterRoleBinding that is there is not compared.
EnsuredOnce(n, o) ==
  CASE o \in {"account", "silences", "kamaji"} ->
         IF obj[n][o] = "none" THEN "ours" ELSE obj[n][o]
    [] o = "admins" -> IF ~AdminGroups THEN obj[n][o]
                       ELSE IF n \in ProtectedNamespaces THEN "none" ELSE "ours"

\* Mutant: IsProtectedNamespace is not asked.
EnsuredEverywhere(n, o) ==
  CASE o \in {"silences", "kamaji"} -> "ours"
    [] o = "account" -> IF obj[n][o] = "none" THEN "ours" ELSE obj[n][o]
    [] o = "admins" -> IF AdminGroups THEN "ours" ELSE obj[n][o]

\* What a successful step of EnsureCreated leaves: the account is made once and
\* never repaired; in a protected namespace the admins' binding is removed.
Ensured(n, o) ==
  CASE o \in {"silences", "kamaji"} -> "ours"
    [] o = "account" -> IF obj[n][o] = "none" THEN "ours" ELSE obj[n][o]
    [] o = "admins" -> IF ~AdminGroups THEN obj[n][o]
                       ELSE IF n \in ProtectedNamespaces THEN "none" ELSE "ours"

\* The API server creates nothing in a terminating namespace, and no update
\* changes a role reference.
Accepted(n, o) ==
  LET create == obj[n][o] = "none" /\ Ensured(n, o) # "none"
      rebind == obj[n][o] = "rebound" /\ Ensured(n, o) = "ours"
  IN  ~rebind /\ (create /\ o \in Local => ns[n] \notin Terminating)

Set(n, o, content) == obj' = [obj EXCEPT ![n][o] = content]

Ensure(o) ==
  /\ At(o) /\ ~w.del
  /\ IF Accepted(w.at, o) THEN Set(w.at, o, Ensured(w.at, o)) /\ GoOn
                          ELSE Fails /\ UNCHANGED obj
  /\ UNCHANGED <<ns, labelled, orgRoles, role, shared, rv, budget>>

\* Mutant: an object that is already gone is an error.
DeleteStrict(o) ==
  /\ At(o) /\ w.del
  /\ IF obj[w.at][o] = "none" THEN Fails /\ UNCHANGED obj
                              ELSE Set(w.at, o, "none") /\ GoOn
  /\ UNCHANGED <<ns, labelled, orgRoles, role, shared, rv, budget>>

Delete(o) ==
  /\ At(o) /\ w.del
  /\ Set(w.at, o, "none")
  /\ GoOn
  /\ UNCHANGED <<ns, labelled, orgRoles, role, shared, rv, budget>>

\* The ClusterRole is made if its name is free, and deleted whoever has it still.
OrgRoleWritten == IF w.del THEN orgRoles \ {OrganizationName[w.at]}
                           ELSE orgRoles \cup {OrganizationName[w.at]}

WriteOrgRole ==
  /\ At("orgRole")
  /\ orgRoles' = OrgRoleWritten
  /\ GoOn
  /\ UNCHANGED <<ns, labelled, obj, role, shared, rv, budget>>

EnsurePatchChartsRole ==
  /\ At("patchRole")
  /\ role' = "ours"
  /\ GoOn
  /\ UNCHANGED <<ns, labelled, obj, orgRoles, shared, rv, budget>>

\* The Get on the shared binding; without one, or without the account in it,
\* there is nothing to remove.
ReadShared ==
  /\ At("read")
  /\ IF (w.at \in AccountsOf(shared)) = ~w.del
       THEN GoOn ELSE w' = [w EXCEPT !.pc = "write", !.seen = shared, !.rv = rv]
  /\ UNCHANGED <<cluster, budget>>

\* The binding as it was read with the one account added or dropped.
Edited(b) ==
  IF b = NoBinding THEN [accounts |-> {w.at}, foreign |-> FALSE]
  ELSE [b EXCEPT !.accounts = IF w.del THEN @ \ {w.at} ELSE @ \cup {w.at}]

\* The update carries the version that was read. A binding that is there by
\* now instead of not is as good as created.
WriteAccepted == IF w.seen = NoBinding THEN shared = NoBinding ELSE rv = w.rv
WriteTolerated == w.seen = NoBinding /\ shared # NoBinding

\* Mutant: the binding is made anew from the one account.
StoreOverwriting ==
  IF WriteAccepted
    THEN shared' = [Edited(w.seen) EXCEPT !.foreign = FALSE] /\ rv' = rv + 1
    ELSE UNCHANGED <<shared, rv>>

Store == IF WriteAccepted THEN shared' = Edited(w.seen) /\ rv' = rv + 1
                          ELSE UNCHANGED <<shared, rv>>

WriteShared ==
  /\ At("write")
  /\ Store
  /\ IF WriteAccepted \/ WriteTolerated THEN GoOn ELSE Fails
  /\ UNCHANGED <<ns, labelled, obj, orgRoles, role, budget>>

Release ==
  /\ At("release")
  /\ ns' = [ns EXCEPT ![w.at] = "released"]
  /\ w' = Idle
  /\ UNCHANGED <<labelled, obj, orgRoles, role, shared, rv, budget>>

\* retryresource calls the failed handler again, or gives up.
Retry ==
  /\ w.failed
  /\ w' = [w EXCEPT !.failed = FALSE, !.pc = Start(w.pc, w.at, w.del)]
  /\ UNCHANGED <<cluster, budget>>

GiveUp ==
  /\ w.failed
  /\ w' = Idle
  /\ UNCHANGED <<cluster, budget>>

Round ==
  \/ EnsurePatchChartsRole \/ ReadShared \/ WriteShared \/ WriteOrgRole
  \/ Release \/ Retry \/ GiveUp
  \/ \E o \in Object : Ensure(o) \/ Delete(o)

Reconcile(n) == AddFinalizer(n) \/ Begin(n)

-----------------------------------------------------------------------------
(* Failing calls and restarts. *)

Fault == faults < MaxFaults /\ faults' = faults + 1 /\ UNCHANGED <<ns, labelled, kept, edits>>

\* The write of a failed call may have happened. A finalizer that could not be
\* dropped is left to the next round.
CallFails ==
  /\ Fault
  /\ w.pc # "idle" /\ ~w.failed
  /\ \/ UNCHANGED <<obj, orgRoles, role, shared, rv>>
     \/ w.pc = "write" /\ Store /\ UNCHANGED <<obj, orgRoles, role>>
     \/ w.pc = "patchRole" /\ role' = "ours" /\ UNCHANGED <<obj, orgRoles, shared, rv>>
     \/ w.pc = "orgRole" /\ orgRoles' = OrgRoleWritten /\ UNCHANGED <<obj, role, shared, rv>>
     \/ /\ w.pc \in Object
        /\ w.del \/ Accepted(w.at, w.pc)
        /\ Set(w.at, w.pc, IF w.del THEN "none" ELSE Ensured(w.at, w.pc))
        /\ UNCHANGED <<orgRoles, role, shared, rv>>
  /\ IF w.pc = "release" THEN w' = Idle ELSE Fails

\* An account that cannot be read is taken for present.
AccountUnread ==
  /\ Fault
  /\ At("account") /\ ~w.del
  /\ GoOn
  /\ UNCHANGED <<obj, orgRoles, role, shared, rv>>

Crash ==
  /\ Fault
  /\ w.pc # "idle"
  /\ w' = Idle
  /\ UNCHANGED <<obj, orgRoles, role, shared, rv>>

-----------------------------------------------------------------------------
(* Users, and the lifecycle of namespaces. *)

Edit == edits < MaxEdits /\ edits' = edits + 1 /\ UNCHANGED <<w, faults>>

ChangeNamespace(n) ==
  /\ Edit
  /\ \/ ns[n] = "absent" /\ ns' = [ns EXCEPT ![n] = "new"]
     \/ ns[n] = "new" /\ ns' = [ns EXCEPT ![n] = "released"]
     \/ ns[n] = "live" /\ ns' = [ns EXCEPT ![n] = "deleting"]
  /\ UNCHANGED <<labelled, obj, orgRoles, role, shared, rv, kept>>

Label(n) ==
  /\ Edit
  /\ n \notin labelled
  /\ labelled' = labelled \cup {n}
  /\ UNCHANGED <<ns, obj, orgRoles, role, shared, rv, kept>>

Unlabel(n) ==
  /\ Edit
  /\ n \in labelled /\ ns[n] # "absent"
  /\ labelled' = labelled \ {n}
  /\ kept' = kept \ {n}
  /\ UNCHANGED <<ns, obj, orgRoles, role, shared, rv>>

\* Somebody changes, deletes or replaces an object the operator made.
Spoil(n, o) ==
  /\ Edit
  /\ obj[n][o] # "none"
  /\ \E c \in Content(o) \ {"ours"} : Set(n, o, c)
  /\ UNCHANGED <<ns, labelled, orgRoles, role, shared, rv, kept>>

SpoilOrgRole(n) ==
  /\ Edit
  /\ OrganizationName[n] \in orgRoles
  /\ orgRoles' = orgRoles \ {OrganizationName[n]}
  /\ UNCHANGED <<ns, labelled, obj, role, shared, rv, kept>>

SpoilRole ==
  /\ Edit
  /\ role = "ours" /\ role' \in {"none", "changed"}
  /\ UNCHANGED <<ns, labelled, obj, orgRoles, shared, rv, kept>>

\* Others add something of their own to the shared binding, or delete it.
SpoilShared ==
  /\ Edit
  /\ \/ shared = NoBinding /\ shared' = [accounts |-> {}, foreign |-> TRUE]
     \/ shared # NoBinding /\ shared' = [shared EXCEPT !.foreign = ~@]
     \/ shared # NoBinding /\ shared' = NoBinding
  /\ rv' = rv + 1
  /\ UNCHANGED <<ns, labelled, obj, orgRoles, role, kept>>

\* Kubernetes empties a terminating namespace, and drops one nobody holds.
NamespaceGoes(n) ==
  /\ ns[n] \in Terminating
  /\ obj' = [obj EXCEPT ![n] = [o \in Object |-> IF o \in Local THEN "none" ELSE @[o]]]
  /\ ns' = [ns EXCEPT ![n] = IF @ = "released" THEN "absent" ELSE @]
  /\ UNCHANGED <<labelled, orgRoles, role, shared, rv, w, budget>>

Environment ==
  \/ SpoilRole \/ SpoilShared
  \/ \E n \in Namespaces :
       \/ ChangeNamespace(n) \/ Label(n) \/ Unlabel(n) \/ SpoilOrgRole(n)
       \/ \E o \in Object : Spoil(n, o)

Next ==
  \/ Round \/ CallFails \/ AccountUnread \/ Crash \/ Environment
  \/ \E n \in Namespaces : Reconcile(n) \/ NamespaceGoes(n)

Spec == Init /\ [][Next]_vars

\* The worker keeps going and gives up in the end, the resync brings every
\* namespace back, and Kubernetes finishes deletions.
Fairness ==
  /\ WF_vars(Round) /\ SF_vars(GiveUp)
  /\ \A n \in Namespaces : SF_vars(Reconcile(n)) /\ WF_vars(NamespaceGoes(n))

FairSpec == Spec /\ Fairness

-----------------------------------------------------------------------------
(* Properties. *)

TypeOK ==
  /\ ns \in [Namespaces -> Phase]
  /\ labelled \subseteq Namespaces /\ kept \subseteq Namespaces
  /\ obj \in [Namespaces -> [Object -> {"none", "ours", "changed", "rebound"}]]
  /\ orgRoles \subseteq Names
  /\ role \in {"none", "ours", "changed"}
  /\ shared \in Shared \cup {NoBinding}
  /\ rv \in Nat
  /\ w \in Worker
  /\ edits \in Nat /\ faults \in Nat

\* Nothing outside of a namespace is left of what was made for it.
Clean(n) ==
  /\ \A o \in Object \ Local : obj[n][o] = "none"
  /\ n \notin AccountsOf(shared)

\* A name is in use while a namespace of that name is held.
Held(n) == ns[n] \in {"live", "deleting"}

NamespacesCleaned == \A n \in kept : ~Held(n) => Clean(n)

OrgRolesCleaned ==
  \A n \in Namespaces :
    Namesakes(n) \subseteq kept /\ (\A m \in Namesakes(n) : ~Held(m)) =>
      OrganizationName[n] \notin orgRoles

\* When a namespace is let go, nothing that is not in it is left of what was
\* made for it, as long as it never lost its label: not the bindings of its
\* account, not its place in the binding all organizations share; and not the
\* ClusterRole of its name when it was the last namespace of that name.
DeletionCleans == NamespacesCleaned /\ OrgRolesCleaned

\* What makes the property above inductive.

\* A round holds its namespace with the finalizer, and a live round never gets
\* to the end of the finalizer.
RoundHolds ==
  /\ w.failed => w.pc # "idle"
  /\ w.pc # "idle" => ns[w.at] = "deleting" \/ (~w.del /\ ns[w.at] = "live")
  /\ w.pc = "release" => w.del /\ ~w.failed
  /\ w.pc = "patchRole" => ~w.del

\* automation works on organization namespaces, and its objects stay there.
OrgRound ==
  w.pc \in {"account", "silences", "kamaji", "patchRole", "read", "write"}
    => w.at \in OrgNamespaces

OrgObjects ==
  \A n \in Namespaces \ OrgNamespaces :
    obj[n]["silences"] = "none" /\ obj[n]["kamaji"] = "none"

\* Nothing is made for a namespace before it has the label.
LabelledRound ==
  w.pc \notin {"idle", "release"} /\ w.at \in kept => w.at \in labelled

UnlabelledClean == \A n \in kept \ labelled : Clean(n)

\* What a deletion has removed stays removed.
RemovedSoFar ==
  w.pc # "idle" /\ w.del /\ w.at \in kept =>
    /\ w.pc \notin {"read", "write"} => w.at \notin AccountsOf(shared)
    /\ w.pc \notin {"read", "write", "silences"} => obj[w.at]["silences"] = "none"
    /\ w.pc \notin {"read", "write", "silences", "kamaji"} => obj[w.at]["kamaji"] = "none"

\* A version names one content of the shared binding; a deletion writes only to
\* a binding that was there.
SeenIsVersion ==
  w.pc = "write" => /\ w.rv <= rv /\ (w.rv = rv => w.seen = shared)
                    /\ w.del => w.seen # NoBinding

\* A ClusterRole of a name none of whose namespaces lost its label belongs to one
\* that is held; to another one than a deletion that is past it works on.
OrgRolesHeld ==
  \A n \in Namespaces :
    Namesakes(n) \subseteq kept /\ OrganizationName[n] \in orgRoles =>
      \E m \in Namesakes(n) \cap labelled :
        Held(m) /\ (m = w.at => ~(w.del /\ w.pc \in {"admins", "release"}))

WorkerInv == RoundHolds /\ OrgRound /\ LabelledRound
ObjectInv == OrgObjects /\ UnlabelledClean /\ NamespacesCleaned
IInv == TypeOK /\ WorkerInv /\ ObjectInv /\ RemovedSoFar /\ SeenIsVersion

\* The shared binding keeps what SharedAccounts promises to the namespaces that
\* never lost their label: one account at a time, none of another organization
\* or of somebody else is lost, none stays when its organization is let go.
Promise == INSTANCE SharedAccounts WITH
  Accounts <- Namespaces,
  members <- AccountsOf(shared) \cap kept,
  held <- {n \in kept : Held(n)},
  others <- shared # NoBinding /\ shared.foreign

ImplementsPromise == Promise!Spec

\* Somebody bound one of the names the operator uses to another role.
Rebound(n) == \E o \in Binds : obj[n][o] = "rebound"

\* In the end every organization's account is there and bound, on its own and
\* in the shared binding, unless somebody took one of its bindings' names; and
\* so is the ClusterRole, although the deletion of a namesake takes it away.
AccountsConverge ==
  <>[]\A n \in OrgNamespaces \cap labelled :
        ns[n] = "live" /\ ~Rebound(n) =>
          /\ obj[n]["account"] # "none"
          /\ obj[n]["silences"] = "ours" /\ obj[n]["kamaji"] = "ours"
          /\ n \in AccountsOf(shared)
          /\ OrganizationName[n] \in orgRoles

HasAdmins(n) == obj[n]["admins"] = IF n \in ProtectedNamespaces THEN "none" ELSE "ours"

\* In the end the admins' binding is in every namespace with the label but the
\* protected ones, and there is none in those, with the same exception.
AdminsConverge ==
  <>[](AdminGroups => \A n \in labelled :
         ns[n] = "live" /\ ~Rebound(n) => HasAdmins(n))

\* No namespace waits for the controller for ever, labelled or not.
DeletionsComplete == \A n \in Namespaces : ns[n] = "deleting" ~> ns[n] = "absent"
=============================================================================
