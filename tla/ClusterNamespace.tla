--------------------------- MODULE ClusterNamespace ---------------------------
(***************************************************************************)
(* The clusternamespace controller behind its first resource: for each     *)
(* cluster namespace, rbacappoperator gives the app-operator of the        *)
(* cluster reduced permissions, six objects; rbaccleaner then removes the  *)
(* excessive ones a legacy app-operator came with. Both go on past errors  *)
(* where they delete, and report them at the end.                          *)
(* (clusternamespaceresources, the first, is in OrgAccess.)                *)
(*                                                                         *)
(* One worker. A helper's Get and write are one step: nobody else writes   *)
(* these objects, but for users.                                           *)
(***************************************************************************)
EXTENDS Naturals

CONSTANTS
  Clusters,   \* the cluster namespaces that may exist
  MaxEdits,   \* bound: steps of users, of legacy releases and of the lifecycle
  MaxFaults   \* bound: failing calls and restarts

ASSUME ClusterAssumption == Clusters # {}
ASSUME BoundAssumption == MaxEdits \in Nat /\ MaxFaults \in Nat

VARIABLES
  ns,       \* the cluster namespaces
  known,    \* those whose Organization the first resource finds
  obj,      \* the reduced permissions
  legacy,   \* the excessive permissions that are there
  w,        \* the worker
  meddled,  \* history: the clusters whose reduced permissions users touched
  edits,    \* steps of users, of legacy releases and of the lifecycle so far
  faults    \* failing calls and restarts so far

vars == <<ns, known, obj, legacy, w, meddled, edits, faults>>

Phase == {"absent", "new", "live", "deleting", "released"}
Terminating == {"deleting", "released"}

\* In the cluster scope, in the giantswarm namespace, in the cluster namespace.
Object == {"clusterRole", "clusterBinding", "catalogRole", "catalogBinding",
           "ownRole", "ownBinding"}
Local == {"ownRole", "ownBinding"}
Binds == {"clusterBinding", "catalogBinding", "ownBinding"}

\* "changed" rules or subjects; "rebound" to another role; "taken": both.
Content(o) == {"none", "ours", "changed"} \cup IF o \in Binds THEN {"rebound", "taken"} ELSE {}

Legacy == {"oldBinding", "oldRole", "chartBinding", "chartRole"}

Step == Object \cup Legacy \cup {"idle", "access", "release"}

\* errs: what the handler could not delete so far (errorOccurred, with what).
Worker == [pc : Step, failed : BOOLEAN, at : Clusters, del : BOOLEAN,
           errs : SUBSET (Object \cup Legacy)]

Idle == [pc |-> "idle", failed |-> FALSE, at |-> CHOOSE c \in Clusters : TRUE,
         del |-> FALSE, errs |-> {}]

Init ==
  /\ ns \in [Clusters -> {"absent", "new"}]
  /\ known \in SUBSET Clusters
  /\ obj = [c \in Clusters |-> [o \in Object |-> "none"]]
  /\ legacy = [c \in Clusters |-> {}]
  /\ w = Idle
  /\ meddled = {}
  /\ edits = 0
  /\ faults = 0

-----------------------------------------------------------------------------
(* The order of the steps. *)

AppOperator == [clusterRole |-> "clusterBinding", clusterBinding |-> "catalogRole",
                catalogRole |-> "catalogBinding", catalogBinding |-> "ownRole",
                ownRole |-> "ownBinding"]

Cleaner == [oldBinding |-> "oldRole", oldRole |-> "chartBinding", chartBinding |-> "chartRole"]

\* Mutant: rbaccleaner comes before rbacappoperator.
AfterSwapped(pc, del) ==
  CASE pc = "access" -> IF del THEN "clusterRole" ELSE "oldBinding"
    [] pc \in DOMAIN Cleaner -> Cleaner[pc]
    [] pc = "chartRole" -> "clusterRole"
    [] pc \in DOMAIN AppOperator -> AppOperator[pc]
    [] OTHER -> IF del THEN "release" ELSE "idle"

\* clusternamespaceresources, rbacappoperator, and in a creation rbaccleaner.
After(pc, del) ==
  CASE pc = "access" -> "clusterRole"
    [] pc \in DOMAIN AppOperator -> AppOperator[pc]
    [] pc = "ownBinding" -> IF del THEN "release" ELSE "oldBinding"
    [] pc \in DOMAIN Cleaner -> Cleaner[pc]
    [] OTHER -> "idle"

\* Where the handler begins that a step belongs to.
Start(pc) ==
  IF pc \in Object THEN "clusterRole" ELSE IF pc \in Legacy THEN "oldBinding" ELSE "access"

At(pc) == w.pc = pc /\ ~w.failed

Fails == w' = [w EXCEPT !.failed = TRUE]

\* Mutant: an error counts only if the last deletion had it.
GoOnForgetting(errs) ==
  LET next == After(w.pc, w.del)
  IN  w' = IF next \in {"idle", "release"} /\ w.pc \in errs
             THEN [w EXCEPT !.failed = TRUE, !.errs = errs]
           ELSE IF next = "idle" THEN Idle
           ELSE [w EXCEPT !.pc = next, !.errs = errs]

\* Mutant: the handler returns at the first error.
GoOnStopping(errs) ==
  LET next == After(w.pc, w.del)
  IN  w' = IF errs # {} THEN [w EXCEPT !.failed = TRUE, !.errs = errs]
           ELSE IF next = "idle" THEN Idle
           ELSE [w EXCEPT !.pc = next]

\* A handler that is through with errors fails.
GoOn(errs) ==
  LET next == After(w.pc, w.del)
  IN  w' = IF next \in {"idle", "release"} /\ errs # {}
             THEN [w EXCEPT !.failed = TRUE, !.errs = errs]
           ELSE IF next = "idle" THEN Idle
           ELSE [w EXCEPT !.pc = next, !.errs = errs]

-----------------------------------------------------------------------------
(* The controller. *)

AddFinalizer(c) ==
  /\ w.pc = "idle" /\ ns[c] = "new"
  /\ ns' = [ns EXCEPT ![c] = "live"]
  /\ UNCHANGED <<known, obj, legacy, w, meddled, edits, faults>>

Begin(c) ==
  /\ w.pc = "idle" /\ ns[c] \in {"live", "deleting"}
  /\ w' = [Idle EXCEPT !.pc = "access", !.at = c, !.del = ns[c] = "deleting"]
  /\ UNCHANGED <<ns, known, obj, legacy, meddled, edits, faults>>

\* The first resource: it fails without an Organization, a deletion needs none.
EnsureAccess ==
  /\ At("access")
  /\ IF w.del \/ w.at \in known THEN GoOn({}) ELSE Fails
  /\ UNCHANGED <<ns, known, obj, legacy, meddled, edits, faults>>

\* Mutant: an object that is there is as wanted.
EnsuredOnce(c, o) == IF obj[c][o] = "none" THEN "ours" ELSE obj[c][o]

\* Bindings are compared by their subjects alone.
Ensured(c, o) == IF obj[c][o] = "rebound" THEN "rebound" ELSE "ours"

\* Nothing is created in a terminating namespace, and no role reference updated.
Accepted(c, o) ==
  /\ obj[c][o] # "taken"
  /\ obj[c][o] = "none" /\ o \in Local => ns[c] \notin Terminating

Set(c, o, content) == obj' = [obj EXCEPT ![c][o] = content]

Ensure(o) ==
  /\ At(o) /\ ~w.del
  /\ IF Accepted(w.at, o) THEN Set(w.at, o, Ensured(w.at, o)) /\ GoOn({})
                          ELSE Fails /\ UNCHANGED obj
  /\ UNCHANGED <<ns, known, legacy, meddled, edits, faults>>

\* Mutant: an object that is already gone is an error.
DeleteStrict(o) ==
  /\ At(o) /\ w.del
  /\ Set(w.at, o, "none")
  /\ GoOn(IF obj[w.at][o] = "none" THEN w.errs \cup {o} ELSE w.errs)
  /\ UNCHANGED <<ns, known, legacy, meddled, edits, faults>>

Delete(o) ==
  /\ At(o) /\ w.del
  /\ Set(w.at, o, "none")
  /\ GoOn(w.errs)
  /\ UNCHANGED <<ns, known, legacy, meddled, edits, faults>>

Clean(l) ==
  /\ At(l)
  /\ legacy' = [legacy EXCEPT ![w.at] = @ \ {l}]
  /\ GoOn(w.errs)
  /\ UNCHANGED <<ns, known, obj, meddled, edits, faults>>

Release ==
  /\ At("release")
  /\ ns' = [ns EXCEPT ![w.at] = "released"]
  /\ w' = Idle
  /\ UNCHANGED <<known, obj, legacy, meddled, edits, faults>>

\* retryresource calls the failed handler again, or gives up.
Retry ==
  /\ w.failed
  /\ w' = [w EXCEPT !.failed = FALSE, !.pc = Start(w.pc), !.errs = {}]
  /\ UNCHANGED <<ns, known, obj, legacy, meddled, edits, faults>>

GiveUp ==
  /\ w.failed
  /\ w' = Idle
  /\ UNCHANGED <<ns, known, obj, legacy, meddled, edits, faults>>

Round ==
  \/ EnsureAccess \/ Release \/ Retry \/ GiveUp
  \/ \E o \in Object : Ensure(o) \/ Delete(o)
  \/ \E l \in Legacy : Clean(l)

Reconcile(c) == AddFinalizer(c) \/ Begin(c)

-----------------------------------------------------------------------------
(* Failing calls and restarts. *)

Fault == faults < MaxFaults /\ faults' = faults + 1 /\ UNCHANGED <<ns, known, meddled, edits>>

\* The write of a failed call may have happened. Deletions go on to the next
\* object, creations end the round.
CallFails ==
  /\ Fault
  /\ w.pc # "idle" /\ ~w.failed
  /\ \/ UNCHANGED <<obj, legacy>>
     \/ /\ w.pc \in Object
        /\ w.del \/ Accepted(w.at, w.pc)
        /\ Set(w.at, w.pc, IF w.del THEN "none" ELSE Ensured(w.at, w.pc))
        /\ UNCHANGED legacy
     \/ /\ w.pc \in Legacy
        /\ legacy' = [legacy EXCEPT ![w.at] = @ \ {w.pc}]
        /\ UNCHANGED obj
  /\ \/ w.pc = "release" /\ w' = Idle
     \/ (w.pc \in Legacy \/ (w.pc \in Object /\ w.del)) /\ GoOn(w.errs \cup {w.pc})
     \/ (w.pc = "access" \/ (w.pc \in Object /\ ~w.del)) /\ Fails

Crash ==
  /\ Fault
  /\ w.pc # "idle"
  /\ w' = Idle
  /\ UNCHANGED <<obj, legacy>>

-----------------------------------------------------------------------------
(* Users, legacy releases, and the lifecycle of namespaces. *)

Edit == edits < MaxEdits /\ edits' = edits + 1 /\ UNCHANGED <<w, faults>>

ChangeNamespace(c) ==
  /\ Edit
  /\ \/ ns[c] = "absent" /\ ns' = [ns EXCEPT ![c] = "new"]
     \/ ns[c] = "new" /\ ns' = [ns EXCEPT ![c] = "released"]
     \/ ns[c] = "live" /\ ns' = [ns EXCEPT ![c] = "deleting"]
  /\ UNCHANGED <<known, obj, legacy, meddled>>

\* The Organization comes, goes or is renamed.
ChangeOrganization(c) ==
  /\ Edit
  /\ known' = IF c \in known THEN known \ {c} ELSE known \cup {c}
  /\ UNCHANGED <<ns, obj, legacy, meddled>>

\* A release with a legacy app-operator brings its roles and bindings.
DeployLegacy(c) ==
  /\ Edit
  /\ ns[c] \in {"new", "live"} /\ legacy[c] # Legacy
  /\ legacy' = [legacy EXCEPT ![c] = Legacy]
  /\ UNCHANGED <<ns, known, obj, meddled>>

Spoil(c, o) ==
  /\ Edit
  /\ obj[c][o] # "none"
  /\ \E content \in Content(o) \ {"ours"} : Set(c, o, content)
  /\ meddled' = meddled \cup {c}
  /\ UNCHANGED <<ns, known, legacy>>

\* Kubernetes empties a terminating namespace, and drops one nobody holds.
NamespaceGoes(c) ==
  /\ ns[c] \in Terminating
  /\ obj' = [obj EXCEPT ![c] = [o \in Object |-> IF o \in Local THEN "none" ELSE @[o]]]
  /\ ns' = [ns EXCEPT ![c] = IF @ = "released" THEN "absent" ELSE @]
  /\ UNCHANGED <<known, legacy, w, meddled, edits, faults>>

Environment ==
  \E c \in Clusters :
    \/ ChangeNamespace(c) \/ ChangeOrganization(c) \/ DeployLegacy(c)
    \/ \E o \in Object : Spoil(c, o)

Next ==
  \/ Round \/ CallFails \/ Crash \/ Environment
  \/ \E c \in Clusters : Reconcile(c) \/ NamespaceGoes(c)

Spec == Init /\ [][Next]_vars

\* The worker keeps going and gives up in the end, the resync brings every
\* namespace back, and Kubernetes finishes deletions.
Fairness ==
  /\ WF_vars(Round) /\ SF_vars(GiveUp)
  /\ \A c \in Clusters : SF_vars(Reconcile(c)) /\ WF_vars(NamespaceGoes(c))

FairSpec == Spec /\ Fairness

-----------------------------------------------------------------------------
(* Properties. *)

TypeOK ==
  /\ ns \in [Clusters -> Phase]
  /\ known \subseteq Clusters /\ meddled \subseteq Clusters
  /\ obj \in [Clusters -> [Object -> {"none", "ours", "changed", "rebound", "taken"}]]
  /\ legacy \in [Clusters -> SUBSET Legacy]
  /\ w \in Worker
  /\ w.errs \subseteq IF w.del THEN Object ELSE Legacy
  /\ edits \in Nat /\ faults \in Nat

\* rbacappoperator/delete.go collects its errors: a namespace is let go only
\* when nothing outside of it is left of the permissions made for it, whichever
\* calls failed on the way.
NothingLeft ==
  \A c \in Clusters : ns[c] \notin {"live", "deleting"} =>
    \A o \in Object \ Local : obj[c][o] = "none"

\* A deletion that fails has removed everything it could remove.
DeletesAllItCan ==
  w.failed /\ w.del /\ w.pc \in Object =>
    \A o \in Object : obj[w.at][o] = "none" \/ o \in w.errs

\* The excessive permissions of a live cluster are taken away only when the
\* reduced ones are there, unless users touched those: its app-operator is never
\* left without any by the operator.
NeverWithout ==
  [][\A c \in Clusters :
       ns[c] = "live" /\ c \notin meddled /\ ~(legacy[c] \subseteq legacy'[c]) =>
         \A o \in Object : obj[c][o] = "ours"]_vars

\* What makes the properties above inductive.

\* The objects a round has been through when it is at a step.
Before(pc) ==
  CASE pc \in {"idle", "access", "clusterRole"} -> {}
    [] pc = "clusterBinding" -> {"clusterRole"}
    [] pc = "catalogRole" -> {"clusterRole", "clusterBinding"}
    [] pc = "catalogBinding" -> {"clusterRole", "clusterBinding", "catalogRole"}
    [] pc = "ownRole" -> Object \ Local
    [] pc = "ownBinding" -> Object \ {"ownBinding"}
    [] OTHER -> Object

\* A round holds its namespace with the finalizer; rbaccleaner takes no part in
\* deletions, and the finalizer is reached without errors.
RoundHolds ==
  /\ w.failed => w.pc \notin {"idle", "release"}
  /\ w.pc # "idle" => ns[w.at] = "deleting" \/ (~w.del /\ ns[w.at] = "live")
  /\ w.pc \in Legacy => ~w.del
  /\ w.pc = "release" => w.del
  /\ w.errs # {} => w.pc \in IF w.del THEN Object ELSE Legacy

\* A deletion has removed what it has been through, but for the errors.
GoneSoFar ==
  w.pc # "idle" /\ w.del =>
    \A o \in Before(w.pc) : obj[w.at][o] = "none" \/ o \in w.errs

\* A creation has ensured what it has been through, unless users or the end of
\* the namespace have undone it.
EnsuredSoFar ==
  w.pc # "idle" /\ ~w.del /\ ns[w.at] = "live" /\ w.at \notin meddled =>
    \A o \in Before(w.pc) : obj[w.at][o] = "ours"

Untouched == \A c \in Clusters \ meddled : \A o \in Object : obj[c][o] \in {"none", "ours"}

IInv ==
  /\ TypeOK /\ RoundHolds /\ GoneSoFar /\ EnsuredSoFar /\ Untouched
  /\ NothingLeft /\ DeletesAllItCan

Taken(c) == \E o \in Object : obj[c][o] = "taken"

\* In the end every live cluster with an Organization has the reduced
\* permissions and none of the excessive ones, unless somebody took a name. A
\* binding with its subjects that somebody made to another role is left at that.
PermissionsConverge ==
  <>[]\A c \in known :
        ns[c] = "live" /\ ~Taken(c) =>
          /\ \A o \in Object : obj[c][o] \in {"ours", "rebound"}
          /\ legacy[c] = {}

\* No cluster namespace waits for the controller for ever, and an unknown
\* Organization is no reason to.
DeletionsComplete == \A c \in Clusters : ns[c] = "deleting" ~> ns[c] = "absent"
=============================================================================
