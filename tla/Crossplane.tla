------------------------------ MODULE Crossplane ------------------------------
(***************************************************************************)
(* The two controllers of the Crossplane component and the one             *)
(* ClusterRoleBinding they share. crossplaneauth creates, rewrites and     *)
(* deletes the binding as the triggering ClusterRole comes and goes;       *)
(* crossplanenamespace adds and removes the automation service account of  *)
(* a single organization namespace. Each controller has one worker, and    *)
(* every call a worker makes to the API server is a step.                  *)
(***************************************************************************)
EXTENDS Naturals, FiniteSets

CONSTANTS
  Namespaces,     \* all namespaces that may exist
  OrgNamespaces,  \* those whose name starts with "org-" (IsOrgNamespace)
  Watched,        \* those with the organization label the selector asks for
  NoBinding,      \* the ClusterRoleBinding does not exist
  MaxEdits,       \* bound: steps of users and of the namespace lifecycle
  MaxFaults       \* bound: failing calls and restarts

ASSUME NamespaceAssumption ==
  Namespaces # {} /\ OrgNamespaces \subseteq Namespaces /\ Watched \subseteq Namespaces

ASSUME BoundAssumption == MaxEdits \in Nat /\ MaxFaults \in Nat

VARIABLES
  role,    \* the triggering ClusterRole
  ns,      \* the namespaces
  crb,     \* the ClusterRoleBinding
  rv,      \* its resource version: how often it was written
  cw,      \* the worker of the ClusterRole controller
  nw,      \* the worker of the namespace controller
  edits,   \* steps of users and of the namespace lifecycle so far
  faults   \* failing calls and restarts so far

vars == <<role, ns, crb, rv, cw, nw, edits, faults>>

\* "new" is live without and "live" with the finalizer of the controller;
\* "deleting" waits for the finalizer to go.
RolePhase == {"absent", "new", "live", "deleting"}

\* "released" is a terminating namespace without the finalizer.
NamespacePhase == RolePhase \cup {"released"}

\* The automation account of a namespace stands for it. The default account
\* and the admin groups always come along and are left out. Appended subjects
\* follow the groups, which no list of crossplaneauth has.
Binding == [listed : SUBSET OrgNamespaces, appended : SUBSET OrgNamespaces]

\* The constant stands for a binding that is not there.
ASSUME BindingAssumption == NoBinding \notin Binding

AnyNamespace == CHOOSE n \in Namespaces : TRUE

CwIdle == [pc |-> "idle", list |-> {}]

CwWorker == [pc : {"idle", "list", "get", "create", "update",
                   "check", "delete", "release"},
             list : SUBSET OrgNamespaces]

NwIdle == [pc |-> "idle", mode |-> "add", at |-> AnyNamespace,
           seen |-> NoBinding, rv |-> 0]

NwWorker == [pc : {"idle", "get", "write", "release"}, mode : {"add", "remove"},
             at : Namespaces, seen : Binding \cup {NoBinding}, rv : Nat]

Init ==
  /\ role \in {"absent", "new"}
  /\ ns \in [Namespaces -> {"absent", "new"}]
  /\ crb = NoBinding
  /\ rv = 0
  /\ cw = CwIdle
  /\ nw = NwIdle
  /\ edits = 0
  /\ faults = 0

cluster == <<role, ns, crb, rv>>
budget == <<edits, faults>>

Write(b) == crb' = b /\ rv' = rv + 1

-----------------------------------------------------------------------------
(* The ClusterRole controller: crossplaneauth. *)

CwAt(pc) == cw' = [cw EXCEPT !.pc = pc]

CwAddFinalizer ==
  /\ cw.pc = "idle" /\ role = "new"
  /\ role' = "live"
  /\ UNCHANGED <<ns, crb, rv, cw, nw, budget>>

CwBegin ==
  /\ cw.pc = "idle"
  /\ \/ role = "live" /\ CwAt("list")
     \/ role = "deleting" /\ CwAt("check")
  /\ UNCHANGED <<cluster, nw, budget>>

Present == {n \in OrgNamespaces : ns[n] # "absent"}

Subjects(b) == b.listed \cup b.appended

\* getOrgAutomationServiceAccounts: terminating namespaces are listed too.
CwList ==
  /\ cw.pc = "list"
  /\ cw' = [pc |-> "get", list |-> Present]
  /\ UNCHANGED <<cluster, nw, budget>>

\* Mutant: subjects that are too many do not count.
NeedsUpdateMissing == ~(cw.list \subseteq Subjects(crb))

\* ClusterRoleBindingNeedsUpdate compares the subjects in their order.
NeedsUpdate == crb.listed # cw.list \/ crb.appended # {}

\* The Get of CreateOrUpdateClusterRoleBinding.
CwGet ==
  /\ cw.pc = "get"
  /\ \/ crb = NoBinding /\ CwAt("create")
     \/ crb # NoBinding /\ NeedsUpdate /\ CwAt("update")
     \/ crb # NoBinding /\ ~NeedsUpdate /\ cw' = CwIdle
  /\ UNCHANGED <<cluster, nw, budget>>

Wanted == [listed |-> cw.list, appended |-> {}]

\* The update carries no resource version: it overwrites what there is, and
\* fails when the binding is gone. Create makes the binding or finds it there.
CwStored == IF (cw.pc = "create") = (crb = NoBinding)
              THEN Write(Wanted) ELSE UNCHANGED <<crb, rv>>

\* retryresource calls the handler of the failed call again, until it gives up.
CwFailed == \/ cw' = CwIdle
            \/ cw' = [CwIdle EXCEPT !.pc = IF cw.pc \in {"check", "delete"}
                                             THEN "check" ELSE "list"]

CwWrite ==
  /\ cw.pc \in {"create", "update"}
  /\ CwStored
  /\ IF cw.pc = "update" /\ crb = NoBinding THEN CwFailed ELSE cw' = CwIdle
  /\ UNCHANGED <<role, ns, nw, budget>>

\* Mutant: the NotFound check is turned around.
CwCheckSwapped ==
  /\ cw.pc = "check"
  /\ CwAt(IF crb = NoBinding THEN "delete" ELSE "release")
  /\ UNCHANGED <<cluster, nw, budget>>

\* The Get of DeleteClusterRoleBinding.
CwCheck ==
  /\ cw.pc = "check"
  /\ CwAt(IF crb = NoBinding THEN "release" ELSE "delete")
  /\ UNCHANGED <<cluster, nw, budget>>

CwDelete ==
  /\ cw.pc = "delete"
  /\ Write(NoBinding)
  /\ CwAt("release")
  /\ UNCHANGED <<role, ns, nw, budget>>

\* operatorkit drops the finalizer after EnsureDeleted, and the role goes.
CwRelease ==
  /\ cw.pc = "release"
  /\ role' = "absent"
  /\ cw' = CwIdle
  /\ UNCHANGED <<ns, crb, rv, nw, budget>>

ClusterRoleRound ==
  \/ CwAddFinalizer \/ CwBegin \/ CwList \/ CwGet \/ CwWrite
  \/ CwCheck \/ CwDelete \/ CwRelease

-----------------------------------------------------------------------------
(* The namespace controller: crossplanenamespace. *)

NsAt(n, phase) == ns' = [ns EXCEPT ![n] = phase]

NwAddFinalizer(n) ==
  /\ nw.pc = "idle" /\ n \in Watched /\ ns[n] = "new"
  /\ NsAt(n, "live")
  /\ UNCHANGED <<role, crb, rv, cw, nw, budget>>

NwStart(n, mode, pc) == nw' = [NwIdle EXCEPT !.pc = pc, !.mode = mode, !.at = n]

\* Mutant: a namespace is worked on before it has the finalizer.
NwBeginEarly(n) ==
  /\ nw.pc = "idle"
  /\ \/ ns[n] \in {"new", "live"} /\ n \in OrgNamespaces /\ NwStart(n, "add", "get")
     \/ ns[n] = "deleting" /\ NwStart(n, "remove", IF n \in OrgNamespaces
                                                     THEN "get" ELSE "release")
  /\ UNCHANGED <<cluster, cw, budget>>

\* Cluster namespaces carry the organization label too: nothing to do for them.
NwBegin(n) ==
  /\ nw.pc = "idle"
  /\ \/ ns[n] = "live" /\ n \in OrgNamespaces /\ NwStart(n, "add", "get")
     \/ ns[n] = "deleting" /\ NwStart(n, "remove", IF n \in OrgNamespaces
                                                     THEN "get" ELSE "release")
  /\ UNCHANGED <<cluster, cw, budget>>

\* Mutant: the error of the write is dropped.
NwFailedIgnored == nw' = IF nw.mode = "add" THEN NwIdle ELSE [nw EXCEPT !.pc = "release"]

NwFailed == nw' \in {NwIdle, [NwIdle EXCEPT !.pc = "get", !.mode = nw.mode, !.at = nw.at]}

NwDone == nw' = IF nw.mode = "add" THEN NwIdle ELSE [nw EXCEPT !.pc = "release"]

\* Mutant: the account is added without a look at the subjects.
NwGetUnchecked ==
  /\ nw.pc = "get"
  /\ IF crb = NoBinding \/ (nw.mode = "remove" /\ nw.at \notin Subjects(crb))
       THEN NwDone
       ELSE nw' = [nw EXCEPT !.pc = "write", !.seen = crb, !.rv = rv]
  /\ UNCHANGED <<cluster, cw, budget>>

\* Mutant: a binding that does not exist is an error.
NwGetStrict ==
  /\ nw.pc = "get"
  /\ IF crb = NoBinding THEN NwFailed
     ELSE IF (nw.at \in Subjects(crb)) = (nw.mode = "add") THEN NwDone
     ELSE nw' = [nw EXCEPT !.pc = "write", !.seen = crb, !.rv = rv]
  /\ UNCHANGED <<cluster, cw, budget>>

\* Without a binding, or with nothing to change in it, the handler is done.
NwGet ==
  /\ nw.pc = "get"
  /\ IF crb = NoBinding \/ (nw.at \in Subjects(crb)) = (nw.mode = "add")
       THEN NwDone
       ELSE nw' = [nw EXCEPT !.pc = "write", !.seen = crb, !.rv = rv]
  /\ UNCHANGED <<cluster, cw, budget>>

\* The binding that was read, with the one subject added or filtered out.
Changed(b, n, mode) ==
  IF mode = "add"
    THEN [b EXCEPT !.appended = @ \cup {n}]
    ELSE [listed |-> b.listed \ {n}, appended |-> b.appended \ {n}]

\* Mutant: the update carries no version.
NwAcceptedAlways == crb # NoBinding

\* The update carries the version that was read: it fails with a conflict, or
\* with NotFound, if the binding was written or deleted since.
NwAccepted == rv = nw.rv

NwWrite ==
  /\ nw.pc = "write"
  /\ \/ NwAccepted /\ Write(Changed(nw.seen, nw.at, nw.mode)) /\ NwDone
     \/ ~NwAccepted /\ NwFailed /\ UNCHANGED <<crb, rv>>
  /\ UNCHANGED <<role, ns, cw, budget>>

NwRelease ==
  /\ nw.pc = "release"
  /\ NsAt(nw.at, "released")
  /\ nw' = NwIdle
  /\ UNCHANGED <<role, crb, rv, cw, budget>>

NamespaceRound == NwGet \/ NwWrite \/ NwRelease

Reconcile(n) == NwAddFinalizer(n) \/ NwBegin(n)

-----------------------------------------------------------------------------
(* Failing calls, restarts, users and the namespace lifecycle. *)

Fault == faults < MaxFaults /\ faults' = faults + 1 /\ UNCHANGED <<role, ns, edits>>

\* The write of a failed call may have happened. A finalizer that could not be
\* dropped is left to the next round.
CwCallFails ==
  /\ Fault
  /\ cw.pc # "idle"
  /\ \/ UNCHANGED <<crb, rv>>
     \/ cw.pc \in {"create", "update"} /\ CwStored
     \/ cw.pc = "delete" /\ Write(NoBinding)
  /\ IF cw.pc = "release" THEN cw' = CwIdle ELSE CwFailed
  /\ UNCHANGED nw

NwCallFails ==
  /\ Fault
  /\ nw.pc # "idle"
  /\ \/ UNCHANGED <<crb, rv>>
     \/ nw.pc = "write" /\ NwAccepted /\ Write(Changed(nw.seen, nw.at, nw.mode))
  /\ IF nw.pc = "release" THEN nw' = NwIdle ELSE NwFailed
  /\ UNCHANGED cw

\* Both controllers run in one process.
Crash ==
  /\ Fault
  /\ cw.pc # "idle" \/ nw.pc # "idle"
  /\ cw' = CwIdle /\ nw' = NwIdle
  /\ UNCHANGED <<crb, rv>>

Edit == edits < MaxEdits /\ edits' = edits + 1 /\ UNCHANGED <<cw, nw, faults>>

\* The role comes with Crossplane and goes with it; without a finalizer it goes
\* at once.
ChangeRole ==
  /\ Edit
  /\ \/ role = "absent" /\ role' = "new"
     \/ role = "new" /\ role' = "absent"
     \/ role = "live" /\ role' = "deleting"
  /\ UNCHANGED <<ns, crb, rv>>

ChangeNamespace(n) ==
  /\ Edit
  /\ \/ ns[n] = "absent" /\ NsAt(n, "new")
     \/ ns[n] = "new" /\ NsAt(n, "released")
     \/ ns[n] = "live" /\ NsAt(n, "deleting")
  /\ UNCHANGED <<role, crb, rv>>

\* The namespace controller of Kubernetes is done with a terminating namespace.
NamespaceGone(n) ==
  /\ ns[n] = "released"
  /\ NsAt(n, "absent")
  /\ UNCHANGED <<role, crb, rv, cw, nw, budget>>

\* Somebody deletes the binding.
DropBinding ==
  /\ Edit
  /\ crb # NoBinding /\ Write(NoBinding)
  /\ UNCHANGED <<role, ns>>

Environment ==
  \/ ChangeRole \/ DropBinding
  \/ \E n \in Namespaces : ChangeNamespace(n)

Next ==
  \/ ClusterRoleRound \/ NamespaceRound \/ CwCallFails \/ NwCallFails \/ Crash
  \/ Environment
  \/ \E n \in Namespaces : Reconcile(n) \/ NamespaceGone(n)

Spec == Init /\ [][Next]_vars

\* Both workers keep going, the resync brings every namespace back, and
\* Kubernetes finishes the deletion of a namespace nobody holds.
Fairness == /\ WF_vars(ClusterRoleRound)
            /\ WF_vars(NamespaceRound)
            /\ \A n \in Namespaces : SF_vars(Reconcile(n)) /\ WF_vars(NamespaceGone(n))

FairSpec == Spec /\ Fairness

-----------------------------------------------------------------------------
(* Properties. *)

TypeOK ==
  /\ role \in RolePhase
  /\ ns \in [Namespaces -> NamespacePhase]
  /\ crb \in Binding \cup {NoBinding}
  /\ rv \in Nat
  /\ cw \in CwWorker /\ nw \in NwWorker
  /\ edits \in Nat /\ faults \in Nat

\* The binding outlives neither the role it binds nor its deletion: nothing
\* recreates it between EnsureDeleted and the end of the role.
NoOrphanBinding == crb # NoBinding => role \in {"live", "deleting"}

\* Every account is a subject once, whoever put it there.
NoDuplicates == crb # NoBinding => crb.listed \cap crb.appended = {}

\* The namespace controller changes its own account in the binding as it is at
\* that moment, and nothing else, although it read the binding earlier and the
\* other controller rewrites it at any time.
NamespaceWriteIsExact ==
  [][crb' # crb /\ nw' # nw =>
       /\ crb # NoBinding /\ crb' # NoBinding
       /\ Subjects(crb') = IF nw.mode = "add" THEN Subjects(crb) \cup {nw.at}
                                              ELSE Subjects(crb) \ {nw.at}]_vars

\* It never adds the account of a namespace that is gone, or that will go
\* without the controller being asked to take the account out again.
AddsAreHeld ==
  nw.pc = "write" /\ nw.mode = "add" => ns[nw.at] \in {"live", "deleting"}

\* What makes the properties above inductive.

\* A round on the role holds it with the finalizer, and a deletion round that
\* is about to drop the finalizer has seen the binding go for good.
RoundHoldsRole ==
  /\ cw.pc # "idle" => role \in {"live", "deleting"}
  /\ cw.pc \in {"check", "delete", "release"} => role = "deleting"
  /\ cw.pc = "release" => crb = NoBinding

\* A round on a namespace holds it with the finalizer.
RoundHoldsNamespace ==
  /\ nw.pc # "idle" => ns[nw.at] = "deleting" \/ (nw.mode = "add" /\ ns[nw.at] = "live")
  /\ nw.pc = "release" => nw.mode = "remove"

\* A version names one content of the binding.
SeenIsVersion ==
  nw.pc = "write" =>
    /\ nw.rv <= rv
    /\ (nw.mode = "add" => nw.at \notin Subjects(nw.seen))
    /\ (nw.rv = rv => crb = nw.seen)

\* Only for organization namespaces is the binding read, and only a binding
\* that was there is changed.
RoundShape ==
  /\ nw.pc \in {"get", "write"} => nw.at \in OrgNamespaces
  /\ nw.pc = "write" => nw.seen \in Binding

Shape == TypeOK /\ RoundShape

IInv == /\ Shape /\ NoOrphanBinding /\ NoDuplicates /\ RoundHoldsRole
        /\ RoundHoldsNamespace /\ SeenIsVersion

\* For anybody but its worker a round of the namespace controller is one change
\* of the binding, made to what the other controller has left there: reads,
\* conflicts, retries and restarts are not to be seen from outside. A namespace
\* is let go after its account was taken out, and not before.
Looked == cw.pc \in {"get", "create", "update"}

Promise == INSTANCE CrossplaneBinding WITH
  Accounts <- OrgNamespaces,
  held <- role \in {"live", "deleting"},
  there <- crb # NoBinding,
  members <- IF crb = NoBinding THEN {} ELSE Subjects(crb),
  looked <- Looked,
  view <- IF Looked THEN cw.list ELSE {},
  phase <- [n \in OrgNamespaces |->
              IF nw.pc = "release" /\ nw.at = n THEN "cleared" ELSE ns[n]]

ImplementsPromise == Promise!Spec

\* In the end the binding names the organization namespaces there are.
BindingConverges ==
  <>[](role = "live" => crb # NoBinding /\ Subjects(crb) = Present)

\* Nobody waits for a finalizer for ever, whatever the controllers do to each
\* other's updates.
DeletionsComplete ==
  /\ role = "deleting" ~> role # "deleting"
  /\ \A n \in Namespaces : ns[n] = "deleting" ~> ns[n] = "absent"

\* What CHANGELOG.md:55 says of a deleted organization namespace: when the
\* controller lets the namespace go, its account is out of the binding.
RemovedWithNamespace ==
  [][\A n \in OrgNamespaces :
       ns[n] = "deleting" /\ ns'[n] = "released" /\ crb # NoBinding
         => n \notin Subjects(crb)]_vars
=============================================================================
