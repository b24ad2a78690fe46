------------------------------ MODULE OrgAccess ------------------------------
(***************************************************************************)
(* How access to an organization namespace spreads. externalresources (in  *)
(* the rbac controller) reads the RoleBindings of the namespace and binds  *)
(* their subjects to catalogs, releases, the Organization and the roles    *)
(* for cluster namespaces; clusternamespaceresources (in the               *)
(* clusternamespace controller) reads the same RoleBindings, the derived   *)
(* ones included, and binds subjects in every cluster namespace.           *)
(*                                                                         *)
(* One organization. Each controller has one worker. A call with the Get   *)
(* before it is one step: nobody else writes the derived objects.          *)
(***************************************************************************)
EXTENDS Naturals, FiniteSets

CONSTANTS
  Subjects,   \* groups, users and service accounts
  Humans,     \* the groups and users with a name (roleBindingHasSubject)
  KeyOf,      \* kind and name of a subject, without its namespace
  Sources,    \* names of the RoleBindings others make in the organization
  Grants,     \* what these bindings may say
  Clusters,   \* cluster namespaces of the organization
  NoBinding,  \* a binding that is not there
  MaxEdits,   \* bound: steps of users, other operators and namespace lifecycle
  MaxFaults   \* bound: failing calls and restarts

\* The ClusterRoles a binding may reference: read-all, cluster-admin, those for
\* cluster namespaces, and all others.
RoleName == {"readAll", "admin", "readApps", "writeApps", "other"}

Access == {"read", "write"}
Outside == {"catalogs", "releases", "organization"}
Inside == {"readCluster", "writeCluster"}
Derived == Outside \cup Inside

ASSUME SubjectAssumption ==
  /\ Humans \subseteq Subjects
  /\ Subjects \subseteq DOMAIN KeyOf
  /\ Grants \subseteq [role : RoleName, subjects : SUBSET Subjects]
  /\ \A S \in Grants \cup SUBSET Subjects : S # NoBinding
  /\ Clusters # {}

ASSUME BoundAssumption == MaxEdits \in Nat /\ MaxFaults \in Nat

VARIABLES
  org,      \* the organization namespace
  labelled, \* it has the label of an organization or a customer
  known,    \* the Organization exists and its status names the namespace
  src,      \* the RoleBindings others made in the organization namespace
  der,      \* the subjects of the derived bindings
  cl,       \* the cluster namespaces
  crole,    \* the Roles in each cluster namespace
  cbind,    \* the subjects of the RoleBindings in each cluster namespace
  ow,       \* the worker of the rbac controller
  cw,       \* the worker of the clusternamespace controller
  ever,     \* history: who was ever given access by a source, and which
  kept,     \* history: the organization namespace never lost its label
  edits,    \* steps of users, other operators and namespace lifecycle so far
  faults    \* failing calls and restarts so far

vars ==
  <<org, labelled, known, src, der, cl, crole, cbind, ow, cw, ever, kept, edits, faults>>

\* "new" is live without and "live" with the controller's finalizer,
\* "deleting" waits for the controller and "released" for Kubernetes.
Phase == {"absent", "new", "live", "deleting", "released"}
Terminating == {"deleting", "released"}

Nobody == [any |-> {}, read |-> {}, write |-> {}]
OwIdle == [pc |-> "idle", at |-> "catalogs", want |-> Nobody]
CwIdle == [pc |-> "idle", at |-> CHOOSE c \in Clusters : TRUE, acc |-> "read",
           want |-> [a \in Access |-> {}]]

orgVars == <<org, labelled, known, src, der>>
clVars == <<cl, crole, cbind>>
budget == <<ever, kept, edits, faults>>

-----------------------------------------------------------------------------
(* What the bindings of the organization namespace say. *)

\* The bindings others made.
Holders == {src[s] : s \in {x \in Sources : src[x] # NoBinding}}

\* The list both controllers read: those, and the derived bindings that are in
\* the namespace themselves.
InNamespace ==
  Holders
    \cup {[role |-> "readApps", subjects |-> der[d]] :
            d \in {x \in {"readCluster"} : der[x] # NoBinding}}
    \cup {[role |-> "writeApps", subjects |-> der[d]] :
            d \in {x \in {"writeCluster"} : der[x] # NoBinding}}

SubjectsOf(bindings) == UNION {b.subjects : b \in bindings}

\* roleBindingReferencesClusterRole
Referencing(bindings, role) == {b \in bindings : b.role = role}

\* Bindings of service accounts alone do not count, others count as a whole.
WithSubject(bindings) == {b \in bindings : b.subjects \cap Humans # {}}

\* getUniqueSubjects: of several subjects of the same kind and name one is
\* kept, whatever their namespaces. Which one depends on names.
Unique(bindings) ==
  LET all == SubjectsOf(WithSubject(bindings))
  IN  {S \in SUBSET all : /\ {KeyOf[s] : s \in S} = {KeyOf[s] : s \in all}
                          /\ \A s, t \in S : KeyOf[s] = KeyOf[t] => s = t}

\* Mutant: readers are taken for admins.
GatheredSwapped(bindings) ==
  [any : Unique(bindings),
   read : Unique(Referencing(bindings, "admin")),
   write : Unique(Referencing(bindings, "readAll"))]

\* What a round of externalresources can gather from the bindings it listed.
Gathered(bindings) ==
  [any : Unique(bindings),
   read : Unique(Referencing(bindings, "readAll")),
   write : Unique(Referencing(bindings, "admin"))]

\* The subjects of a derived binding.
Wanted(want, d) ==
  CASE d \in Outside -> want.any
    [] d = "readCluster" -> want.read
    [] d = "writeCluster" -> want.write

\* The history of who was given which access, in the end, by some bindings.
Given(bindings) ==
  [any |-> SubjectsOf(bindings),
   read |-> SubjectsOf({b \in bindings : b.role \in {"readAll", "readApps"}}),
   write |-> SubjectsOf({b \in bindings : b.role \in {"admin", "writeApps"}})]

Init ==
  /\ org \in {"absent", "new"}
  /\ labelled \in BOOLEAN /\ known \in BOOLEAN
  /\ src \in [Sources -> IF org = "absent" THEN {NoBinding} ELSE {NoBinding} \cup Grants]
  /\ der = [d \in Derived |-> NoBinding]
  /\ cl \in [Clusters -> {"absent", "new"}]
  /\ crole = [c \in Clusters |-> {}]
  /\ cbind = [c \in Clusters |-> [a \in Access |-> NoBinding]]
  /\ ow = OwIdle
  /\ cw = CwIdle
  /\ ever = Given(Holders)
  /\ kept = TRUE
  /\ edits = 0
  /\ faults = 0

-----------------------------------------------------------------------------
(* The rbac controller: externalresources. *)

OwAddFinalizer ==
  /\ ow.pc = "idle" /\ org = "new"
  /\ org' = "live"
  /\ UNCHANGED <<labelled, known, src, der, clVars, ow, cw, budget>>

OwAt(pc, at) == ow' = [ow EXCEPT !.pc = pc, !.at = at]

\* Mutant: the first deletion is forgotten.
OwBeginLate ==
  /\ ow.pc = "idle"
  /\ \/ org = "live" /\ labelled /\ OwAt("list", "catalogs")
     \/ org = "deleting" /\ labelled /\ OwAt("remove", "releases")
     \/ org = "deleting" /\ ~labelled /\ OwAt("release", "catalogs")
  /\ UNCHANGED <<orgVars, clVars, cw, budget>>

\* Without the label nothing is done, for a namespace that goes neither: it is let
\* go as it is. The retries of a round ask its own copy of the namespace.
OwBegin ==
  /\ ow.pc = "idle"
  /\ \/ org = "live" /\ labelled /\ OwAt("list", "catalogs")
     \/ org = "deleting" /\ labelled /\ OwAt("remove", "catalogs")
     \/ org = "deleting" /\ ~labelled /\ OwAt("release", "catalogs")
  /\ UNCHANGED <<orgVars, clVars, cw, budget>>

\* With no binding in the namespace the handler leaves everything as it is.
OwList ==
  /\ ow.pc = "list"
  /\ IF InNamespace = {} THEN ow' = OwIdle
     ELSE \E want \in Gathered(InNamespace) :
            ow' = [pc |-> "ensure", at |-> "catalogs", want |-> want]
  /\ UNCHANGED <<orgVars, clVars, cw, budget>>

\* ensureAll, then ensureClusterNamespaceAccess; EnsureDeleted goes the same way.
After == [catalogs |-> "releases", releases |-> "organization",
          organization |-> "readCluster", readCluster |-> "writeCluster"]

OwNext(last) ==
  IF ow.at = "writeCluster" THEN last ELSE [ow EXCEPT !.at = After[ow.at]]

\* The binding is written over with what the list said. In a terminating
\* namespace nothing can be created.
OwAccepted ==
  ow.at \in Inside /\ der[ow.at] = NoBinding => org \notin Terminating

\* Mutant: subjects are only ever added.
OwStoredAdding ==
  der' = [der EXCEPT ![ow.at] = IF @ = NoBinding THEN Wanted(ow.want, ow.at)
                                ELSE @ \cup Wanted(ow.want, ow.at)]

OwStored == der' = [der EXCEPT ![ow.at] = Wanted(ow.want, ow.at)]

OwFailed ==
  ow' = [OwIdle EXCEPT !.pc = IF ow.pc = "remove" THEN "removeFailed" ELSE "failed"]

\* Mutant: a binding that cannot be created is passed over.
OwEnsurePassing ==
  /\ ow.pc = "ensure"
  /\ ow' = OwNext(OwIdle)
  /\ IF OwAccepted THEN OwStored ELSE UNCHANGED der
  /\ UNCHANGED <<org, labelled, known, src, clVars, cw, budget>>

OwEnsure ==
  /\ ow.pc = "ensure"
  /\ IF OwAccepted THEN OwStored /\ ow' = OwNext(OwIdle)
                   ELSE OwFailed /\ UNCHANGED der
  /\ UNCHANGED <<org, labelled, known, src, clVars, cw, budget>>

OwGone == der' = [der EXCEPT ![ow.at] = NoBinding]

OwRemove ==
  /\ ow.pc = "remove"
  /\ OwGone
  /\ ow' = OwNext([OwIdle EXCEPT !.pc = "release"])
  /\ UNCHANGED <<org, labelled, known, src, clVars, cw, budget>>

OwRelease ==
  /\ ow.pc = "release"
  /\ org' = "released"
  /\ ow' = OwIdle
  /\ UNCHANGED <<labelled, known, src, der, clVars, cw, budget>>

\* retryresource calls the handler of the failed call again, or gives up.
OwRetry ==
  /\ \/ ow.pc = "failed" /\ OwAt("list", "catalogs")
     \/ ow.pc = "removeFailed" /\ OwAt("remove", "catalogs")
  /\ UNCHANGED <<orgVars, clVars, cw, budget>>

OwGiveUp ==
  /\ ow.pc \in {"failed", "removeFailed"}
  /\ ow' = OwIdle
  /\ UNCHANGED <<orgVars, clVars, cw, budget>>

OrganizationRound ==
  \/ OwAddFinalizer \/ OwBegin \/ OwList \/ OwEnsure \/ OwRemove \/ OwRelease
  \/ OwRetry \/ OwGiveUp

-----------------------------------------------------------------------------
(* The clusternamespace controller: clusternamespaceresources. *)

CwAddFinalizer(c) ==
  /\ cw.pc = "idle" /\ cl[c] = "new"
  /\ cl' = [cl EXCEPT ![c] = "live"]
  /\ UNCHANGED <<orgVars, crole, cbind, ow, cw, budget>>

\* Mutant: the organization is looked up before a cluster namespace is cleaned.
CwBeginLookup(c) ==
  /\ cw.pc = "idle"
  /\ cl[c] \in {"live", "deleting"} /\ cw' = [CwIdle EXCEPT !.pc = "org", !.at = c]
  /\ UNCHANGED <<orgVars, clVars, ow, budget>>

CwBegin(c) ==
  /\ cw.pc = "idle"
  /\ \/ cl[c] = "live" /\ cw' = [CwIdle EXCEPT !.pc = "org", !.at = c]
     \/ cl[c] = "deleting" /\ cw' = [CwIdle EXCEPT !.pc = "unbind", !.at = c]
  /\ UNCHANGED <<orgVars, clVars, ow, budget>>

CwFailed ==
  cw' = [CwIdle EXCEPT !.pc = IF cw.pc \in {"unbind", "unrole"} THEN "removeFailed"
                                                                ELSE "failed",
                       !.at = cw.at]

\* Finding the Organization, by name or legacy annotation, and its namespace.
CwFindOrganization ==
  /\ cw.pc = "org"
  /\ IF known THEN cw' = [cw EXCEPT !.pc = "list"] ELSE CwFailed
  /\ UNCHANGED <<orgVars, clVars, ow, budget>>

RoleFor == [read |-> "readApps", write |-> "writeApps"]

\* Here the subjects are taken as they are.
Bound(bindings) ==
  [a \in Access |-> SubjectsOf(Referencing(bindings, RoleFor[a]))]

\* Mutant: with no subjects left the bindings stay as they are.
CwListSkipping ==
  /\ cw.pc = "list"
  /\ cw' = IF Bound(InNamespace) = [a \in Access |-> {}] THEN CwIdle
           ELSE [cw EXCEPT !.pc = "role", !.want = Bound(InNamespace)]
  /\ UNCHANGED <<orgVars, clVars, ow, budget>>

CwList ==
  /\ cw.pc = "list"
  /\ cw' = IF InNamespace = {} THEN CwIdle
           ELSE [cw EXCEPT !.pc = "role", !.want = Bound(InNamespace)]
  /\ UNCHANGED <<orgVars, clVars, ow, budget>>

\* Nothing can be created in a cluster namespace that terminates.
CwAccepted(there) == there \/ cl[cw.at] \notin Terminating

CwRoleStored == crole' = [crole EXCEPT ![cw.at] = @ \cup {cw.acc}]

CwRole ==
  /\ cw.pc = "role"
  /\ IF CwAccepted(cw.acc \in crole[cw.at])
       THEN CwRoleStored /\ cw' = [cw EXCEPT !.pc = "binding"]
       ELSE CwFailed /\ UNCHANGED crole
  /\ UNCHANGED <<orgVars, cl, cbind, ow, budget>>

CwBindingStored == cbind' = [cbind EXCEPT ![cw.at][cw.acc] = cw.want[cw.acc]]

\* Read access is ensured first, then write access.
CwBinding ==
  /\ cw.pc = "binding"
  /\ IF CwAccepted(cbind[cw.at][cw.acc] # NoBinding)
       THEN /\ CwBindingStored
            /\ cw' = IF cw.acc = "read" THEN [cw EXCEPT !.pc = "role", !.acc = "write"]
                                        ELSE CwIdle
       ELSE CwFailed /\ UNCHANGED cbind
  /\ UNCHANGED <<orgVars, cl, crole, ow, budget>>

CwUnbound == cbind' = [cbind EXCEPT ![cw.at][cw.acc] = NoBinding]

CwUnbind ==
  /\ cw.pc = "unbind"
  /\ CwUnbound
  /\ cw' = [cw EXCEPT !.pc = "unrole"]
  /\ UNCHANGED <<orgVars, cl, crole, ow, budget>>

CwRoleGone == crole' = [crole EXCEPT ![cw.at] = @ \ {cw.acc}]

CwUnrole ==
  /\ cw.pc = "unrole"
  /\ CwRoleGone
  /\ cw' = IF cw.acc = "read" THEN [cw EXCEPT !.pc = "unbind", !.acc = "write"]
                              ELSE [cw EXCEPT !.pc = "release"]
  /\ UNCHANGED <<orgVars, cl, cbind, ow, budget>>

\* The other resources of the controller come in between; they are not part of
\* this module.
CwRelease ==
  /\ cw.pc = "release"
  /\ cl' = [cl EXCEPT ![cw.at] = "released"]
  /\ cw' = CwIdle
  /\ UNCHANGED <<orgVars, crole, cbind, ow, budget>>

CwRetry ==
  /\ \/ cw.pc = "failed" /\ cw' = [cw EXCEPT !.pc = "org"]
     \/ cw.pc = "removeFailed" /\ cw' = [cw EXCEPT !.pc = "unbind"]
  /\ UNCHANGED <<orgVars, clVars, ow, budget>>

CwGiveUp ==
  /\ cw.pc \in {"failed", "removeFailed"}
  /\ cw' = CwIdle
  /\ UNCHANGED <<orgVars, clVars, ow, budget>>

ClusterRound ==
  \/ CwFindOrganization \/ CwList \/ CwRole \/ CwBinding
  \/ CwUnbind \/ CwUnrole \/ CwRelease \/ CwRetry \/ CwGiveUp

Reconcile(c) == CwAddFinalizer(c) \/ CwBegin(c)

-----------------------------------------------------------------------------
(* Failing calls and restarts. *)

Fault == faults < MaxFaults /\ faults' = faults + 1 /\ UNCHANGED <<ever, kept, edits>>

\* The write of a failed call may have happened. A finalizer that could not be
\* dropped is left to the next round.
OwCallFails ==
  /\ Fault
  /\ ow.pc \notin {"idle", "failed", "removeFailed"}
  /\ \/ UNCHANGED der
     \/ ow.pc = "ensure" /\ OwAccepted /\ OwStored
     \/ ow.pc = "remove" /\ OwGone
  /\ IF ow.pc = "release" THEN ow' = OwIdle ELSE OwFailed
  /\ UNCHANGED <<org, labelled, known, src, clVars, cw>>

CwCallFails ==
  /\ Fault
  /\ cw.pc \notin {"idle", "failed", "removeFailed"}
  /\ \/ UNCHANGED <<crole, cbind>>
     \/ cw.pc = "role" /\ CwAccepted(cw.acc \in crole[cw.at]) /\ CwRoleStored /\ UNCHANGED cbind
     \/ /\ cw.pc = "binding" /\ CwAccepted(cbind[cw.at][cw.acc] # NoBinding)
        /\ CwBindingStored /\ UNCHANGED crole
     \/ cw.pc = "unbind" /\ CwUnbound /\ UNCHANGED crole
     \/ cw.pc = "unrole" /\ CwRoleGone /\ UNCHANGED cbind
  /\ IF cw.pc = "release" THEN cw' = CwIdle ELSE CwFailed
  /\ UNCHANGED <<orgVars, cl, ow>>

\* Both controllers run in one process.
Crash ==
  /\ Fault
  /\ ow.pc # "idle" \/ cw.pc # "idle"
  /\ ow' = OwIdle /\ cw' = CwIdle
  /\ UNCHANGED <<orgVars, clVars>>

-----------------------------------------------------------------------------
(* Users, organization-operator and the lifecycle of the namespaces. *)

Edit == edits < MaxEdits /\ edits' = edits + 1 /\ UNCHANGED <<ow, cw, faults>>

Remember(g) ==
  ever' = [any |-> ever.any \cup Given({g}).any, read |-> ever.read \cup Given({g}).read,
           write |-> ever.write \cup Given({g}).write]

Grant(s, g) ==
  /\ Edit
  /\ org \in {"new", "live"} /\ src[s] # g
  /\ src' = [src EXCEPT ![s] = g]
  /\ Remember(g)
  /\ UNCHANGED <<org, labelled, known, der, clVars, kept>>

Revoke(s) ==
  /\ Edit
  /\ src[s] # NoBinding
  /\ src' = [src EXCEPT ![s] = NoBinding]
  /\ UNCHANGED <<org, labelled, known, der, clVars, ever, kept>>

ChangeOrganization ==
  /\ Edit
  /\ known' = ~known
  /\ UNCHANGED <<org, labelled, src, der, clVars, ever, kept>>

\* A namespace that is not there may come with or without the label.
ChangeLabel ==
  /\ Edit
  /\ labelled' = ~labelled
  /\ kept' = (kept /\ (labelled => org = "absent"))
  /\ UNCHANGED <<org, known, src, der, clVars, ever>>

\* The steps a user takes a namespace through.
Changed(phase) ==
  CASE phase = "absent" -> "new"
    [] phase = "new" -> "released"
    [] OTHER -> "deleting"

ChangeOrgNamespace ==
  /\ Edit
  /\ org \in {"absent", "new", "live"}
  /\ org' = Changed(org)
  /\ UNCHANGED <<labelled, known, src, der, clVars, ever, kept>>

ChangeCluster(c) ==
  /\ Edit
  /\ cl[c] \in {"absent", "new", "live"}
  /\ cl' = [cl EXCEPT ![c] = Changed(@)]
  /\ UNCHANGED <<orgVars, crole, cbind, ever, kept>>

\* Kubernetes empties a terminating namespace, and drops one nobody holds.
OrgNamespaceGoes ==
  /\ org \in Terminating
  /\ src' = [s \in Sources |-> NoBinding]
  /\ der' = [d \in Derived |-> IF d \in Inside THEN NoBinding ELSE der[d]]
  /\ org' = IF org = "released" THEN "absent" ELSE org
  /\ UNCHANGED <<labelled, known, clVars, ow, cw, budget>>

ClusterGoes(c) ==
  /\ cl[c] \in Terminating
  /\ crole' = [crole EXCEPT ![c] = {}]
  /\ cbind' = [cbind EXCEPT ![c] = [a \in Access |-> NoBinding]]
  /\ cl' = [cl EXCEPT ![c] = IF @ = "released" THEN "absent" ELSE @]
  /\ UNCHANGED <<orgVars, ow, cw, budget>>

Environment ==
  \/ ChangeOrganization \/ ChangeOrgNamespace \/ ChangeLabel
  \/ \E s \in Sources : Revoke(s) \/ \E g \in Grants : Grant(s, g)
  \/ \E c \in Clusters : ChangeCluster(c)

Next ==
  \/ OrganizationRound \/ ClusterRound \/ OwCallFails \/ CwCallFails \/ Crash
  \/ Environment \/ OrgNamespaceGoes
  \/ \E c \in Clusters : Reconcile(c) \/ ClusterGoes(c)

Spec == Init /\ [][Next]_vars

\* Both workers keep going, retries give up in the end, the resync brings every
\* namespace back, and Kubernetes finishes deletions.
Fairness ==
  /\ WF_vars(OrganizationRound) /\ SF_vars(OwGiveUp)
  /\ WF_vars(ClusterRound) /\ SF_vars(CwGiveUp)
  /\ WF_vars(OrgNamespaceGoes)
  /\ \A c \in Clusters : SF_vars(Reconcile(c)) /\ WF_vars(ClusterGoes(c))

FairSpec == Spec /\ Fairness

-----------------------------------------------------------------------------
(* Properties. *)

Gatherable == [any : SUBSET Subjects, read : SUBSET Subjects, write : SUBSET Subjects]
MaybeSubjects == {NoBinding} \cup SUBSET Subjects

TypeOK ==
  /\ org \in Phase /\ labelled \in BOOLEAN /\ known \in BOOLEAN
  /\ src \in [Sources -> Grants \cup {NoBinding}]
  /\ der \in [Derived -> MaybeSubjects]
  /\ cl \in [Clusters -> Phase]
  /\ crole \in [Clusters -> SUBSET Access]
  /\ cbind \in [Clusters -> [Access -> MaybeSubjects]]
  /\ ow \in [pc : {"idle", "list", "ensure", "remove", "release", "failed", "removeFailed"},
             at : Derived, want : Gatherable]
  /\ cw \in [pc : {"idle", "org", "list", "role", "binding", "unbind", "unrole", "release",
                   "failed", "removeFailed"},
             at : Clusters, acc : Access,
             want : [Access -> SUBSET Subjects]]
  /\ ever \in Gatherable /\ kept \in BOOLEAN /\ edits \in Nat /\ faults \in Nat

Within(binding, S) == binding # NoBinding => binding \subseteq S

\* Nobody gets through the two controllers what no RoleBinding of the
\* organization ever gave: readers of cluster namespaces were readers, writers
\* were admins, although the derived bindings are read back like all others.
NoEscalation ==
  /\ \A d \in Outside : Within(der[d], ever.any)
  /\ Within(der["readCluster"], ever.read) /\ Within(der["writeCluster"], ever.write)
  /\ \A c \in Clusters : /\ Within(cbind[c]["read"], ever.read)
                         /\ Within(cbind[c]["write"], ever.write)

\* When a controller lets a namespace go, nothing it bound outside of it, or in
\* the cluster namespace, is left, and none of it comes back; an organization
\* namespace that lost its label is let go with everything, and is left out.
DeletionRevokes ==
  /\ kept /\ org \notin {"live", "deleting"} => \A d \in Outside : der[d] = NoBinding
  /\ \A c \in Clusters : cl[c] \notin {"live", "deleting"} =>
       crole[c] = {} /\ \A a \in Access : cbind[c][a] = NoBinding

\* A round that comes to its end has all bindings say what its one listing said:
\* they are no mixture of rounds, and no namespace was emptied in between.
RoundsAgree ==
  [][/\ ow.pc = "ensure" /\ ow'.pc = "idle" /\ faults' = faults =>
          \A d \in Derived : der'[d] = Wanted(ow.want, d)
     /\ cw.pc = "binding" /\ cw'.pc = "idle" /\ faults' = faults =>
          \A a \in Access : a \in crole'[cw.at] /\ cbind'[cw.at][a] = cw.want[a]]_vars

\* What makes the properties above inductive.

\* What a binding others made says was given; readers and admins were given some
\* access.
SourcesGiven ==
  /\ ever.read \subseteq ever.any /\ ever.write \subseteq ever.any
  /\ \A b \in Holders : /\ b.subjects \subseteq ever.any
                        /\ b.role \in {"readAll", "readApps"} => b.subjects \subseteq ever.read
                        /\ b.role \in {"admin", "writeApps"} => b.subjects \subseteq ever.write

\* So was what a round has gathered.
GatheredGiven ==
  /\ ow.want.any \subseteq ever.any
  /\ ow.want.read \subseteq ever.read /\ ow.want.write \subseteq ever.write
  /\ cw.want["read"] \subseteq ever.read /\ cw.want["write"] \subseteq ever.write

\* What a deletion is past.
OwBehind ==
  CASE ow.pc = "remove" /\ ow.at = "releases" -> {"catalogs"}
    [] ow.pc = "remove" /\ ow.at = "organization" -> {"catalogs", "releases"}
    [] ow.pc = "remove" /\ ow.at \in Inside -> Outside
    [] ow.pc = "release" -> Outside
    [] OTHER -> {}

CwBehind ==
  CASE cw.pc \in {"unbind", "unrole"} /\ cw.acc = "write" -> {"read"}
    [] cw.pc = "release" -> Access
    [] OTHER -> {}

\* A round holds its namespace with the finalizer, and a deletion sees it through.
OrganizationHeld ==
  /\ ow.pc # "idle" => org \in {"live", "deleting"}
  /\ ow.pc \in {"remove", "removeFailed", "release"} => org = "deleting"

\* Unless the label was lost, a namespace without it never had a round that bound
\* anything, and what a deletion is past stays away, also when the namespace was
\* let go.
OutsideCleared ==
  kept => /\ ~labelled => ow.pc \in {"idle", "release"} /\ \A d \in Outside : der[d] = NoBinding
          /\ \A d \in OwBehind : der[d] = NoBinding
          /\ org \notin {"live", "deleting"} => \A d \in Outside : der[d] = NoBinding

ClustersHeld ==
  /\ cw.pc # "idle" => cl[cw.at] \in {"live", "deleting"}
  /\ cw.pc \in {"unbind", "unrole", "removeFailed", "release"} =>
       cl[cw.at] = "deleting"
  /\ cw.pc = "removeFailed" => cw.acc = "read"
  /\ cw.pc = "unrole" => cbind[cw.at][cw.acc] = NoBinding
  /\ \A a \in CwBehind : cbind[cw.at][a] = NoBinding /\ a \notin crole[cw.at]
  /\ \A c \in Clusters : cl[c] \notin {"live", "deleting"} =>
       crole[c] = {} /\ \A a \in Access : cbind[c][a] = NoBinding

\* What a round is past says what it is to say, unless Kubernetes has emptied the
\* namespace, where nothing can be created any more.
OwEnsured ==
  IF ow.pc # "ensure" \/ ow.at = "catalogs" THEN {}
  ELSE CASE ow.at = "releases" -> {"catalogs"}
         [] ow.at = "organization" -> {"catalogs", "releases"}
         [] ow.at = "readCluster" -> Outside
         [] ow.at = "writeCluster" -> Outside \cup {"readCluster"}

OrganizationEmptied == org = "deleting" /\ \A d \in Inside : der[d] = NoBinding

OrganizationEnsured ==
  \A d \in OwEnsured : der[d] = Wanted(ow.want, d) \/ (d \in Inside /\ OrganizationEmptied)

ClusterEmptied ==
  cl[cw.at] = "deleting" /\ crole[cw.at] = {} /\ \A a \in Access : cbind[cw.at][a] = NoBinding

ClusterEnsured ==
  /\ cw.pc \in {"org", "list", "failed"} => cw.acc = "read"
  /\ \/ ClusterEmptied
     \/ /\ cw.pc = "binding" => cw.acc \in crole[cw.at]
        /\ cw.pc \in {"role", "binding"} /\ cw.acc = "write" =>
             "read" \in crole[cw.at] /\ cbind[cw.at]["read"] = cw.want["read"]

IInv == /\ TypeOK /\ SourcesGiven /\ GatheredGiven /\ NoEscalation
        /\ OrganizationHeld /\ OutsideCleared /\ ClustersHeld
        /\ OrganizationEnsured /\ ClusterEnsured

\* In the end catalogs, releases and the Organization can be read by the
\* subjects bound in a namespace with the label, and by nobody who no longer
\* is, as long as some binding is left there.
OrganizationAccessConverges ==
  <>[](org = "live" /\ labelled /\ InNamespace # {} =>
         \A d \in Outside : \E S \in Unique(Holders) : der[d] = S)

\* In the end a cluster namespace can be read by those who read the (labelled)
\* organization, or have the role for cluster namespaces there, and written by
\* its admins: two controllers and two sets of bindings later.
ClusterAccessConverges ==
  <>[](org = "live" /\ labelled /\ known /\ InNamespace # {} =>
         \A c \in Clusters : cl[c] = "live" =>
           \E read \in Unique(Referencing(Holders, "readAll")),
              write \in Unique(Referencing(Holders, "admin")) :
             /\ cbind[c]["read"] = read \cup SubjectsOf(Referencing(Holders, "readApps"))
             /\ cbind[c]["write"] = write \cup SubjectsOf(Referencing(Holders, "writeApps")))

\* No deletion waits for ever, whether the organization is known or not.
DeletionsComplete ==
  /\ org = "deleting" ~> org = "absent"
  /\ \A c \in Clusters : cl[c] = "deleting" ~> cl[c] = "absent"

\* What the comment of ensureAll says: subjects with any sort of access in the
\* organization namespace have read access to catalogs.
AnyAccessReads ==
  <>[](org = "live" /\ labelled =>
         \A s \in SubjectsOf(Holders) : der["catalogs"] # NoBinding /\ s \in der["catalogs"])
=============================================================================
