--------------------------- MODULE DefaultNamespace ---------------------------
(***************************************************************************)
(* The start of the operator and its defaultnamespace controller: Boot     *)
(* ensures the objects that belong to no organization, in the order of the *)
(* resources, and an error there ends the process; only then do the        *)
(* controllers run, this one ensuring the same objects in each round.      *)
(* The objects depend on the configuration the process was started with.   *)
(*                                                                         *)
(* One process at a time: the Deployment has one replica and recreates it. *)
(* An object of the model stands for those that are ensured one after      *)
(* another in the same way, sharedRoles for the roles of three resources.  *)
(* The default namespace is never deleted, so neither are the objects.     *)
(***************************************************************************)
EXTENDS Integers, Sequences

CONSTANTS
  Groups,     \* groups of the customer and of Giant Swarm
  Apis,       \* API resources the cluster may serve
  Settings,   \* what the operator may be told by its releases
  MaxEdits,   \* bound: steps of users, of rollouts and of the cluster
  MaxFaults   \* bound: failing calls and restarts

\* A name that is left empty in a list of groups.
Blank == ""

Names == SUBSET (Groups \cup {Blank})

\* The lists of groups, in a form that can be parsed or not, and the older
\* settings with one group each.
Setting == [capa : BOOLEAN, malformed : BOOLEAN, admins : Names, readers : Names,
            gs : Names, oldAdmin : Groups \cup {Blank}, oldGs : Groups \cup {Blank}]

ASSUME SettingAssumption == Settings \subseteq Setting /\ Settings # {}
ASSUME BlankAssumption == Blank \notin Groups
ASSUME BoundAssumption == MaxEdits \in Nat /\ MaxFaults \in Nat

VARIABLES
  proc,          \* the operator's process
  config,        \* the configuration it runs with
  obj,           \* the objects
  clusterAdmin,  \* the labels of the ClusterRole cluster-admin
  apis,          \* the API resources served
  healthy,       \* the discovery of all of them works
  w,             \* Boot or the worker of the controller
  meddled,       \* history: objects users touched that were not ensured since
  edits,         \* steps of users, of rollouts and of the cluster so far
  faults         \* failing calls and restarts so far

-----------------------------------------------------------------------------
(* What the operator is configured with. *)

Config == [capa : BOOLEAN, admins : Names, readers : Names, gs : Names]

\* addLegacyGroupIfMissing.
WithOld(groups, old) == groups \cup ({old} \ {Blank})

\* An error in the lists is not reported: there are none then.
Effective(s) ==
  LET list(groups) == IF s.malformed THEN {} ELSE groups
  IN  [capa |-> s.capa, admins |-> WithOld(list(s.admins), s.oldAdmin),
       readers |-> list(s.readers), gs |-> WithOld(list(s.gs), s.oldGs)]

Configs == {Effective(s) : s \in Settings}

\* Mutant: a list of empty names will do.
HasAdminsGiven(c) == c.gs # {}

\* HasValidWriteAllGiantswarmAdminGroups.
HasAdmins(c) == c.gs \ {Blank} # {}

-----------------------------------------------------------------------------
(* The state. *)

cluster == <<obj, clusterAdmin, apis, healthy, meddled>>
vars == <<proc, config, cluster, w, edits, faults>>

\* Mutant: automationsa comes before clusterroles.
OrderSwapped == <<"account", "accountBindings", "awsAccountBinding",
                  "discovery", "readAll", "writeRoles", "awsRole", "labels",
                  "gsAdmins", "readers", "admins", "awsAdmins",
                  "sharedRoles", "templates">>

\* The steps of a round, resource by resource.
Order == <<"discovery", "readAll", "writeRoles", "awsRole", "labels",
           "account", "accountBindings", "awsAccountBinding",
           "gsAdmins", "readers", "admins", "awsAdmins",
           "sharedRoles", "templates">>

Places == 1..14
Object == {"readAll", "writeRoles", "awsRole", "account", "accountBindings",
           "awsAccountBinding", "gsAdmins", "readers", "admins", "awsAdmins",
           "sharedRoles", "templates"}

\* Where the resource begins that a place belongs to.
Start(i) == CASE i \in 1..5 -> 1 [] i \in 6..8 -> 6 [] i \in 9..12 -> 9 [] OTHER -> i

\* The role a binding is to, where the operator makes it.
RoleOf == [accountBindings |-> "writeRoles", awsAccountBinding |-> "awsRole",
           readers |-> "readAll", admins |-> "writeRoles", awsAdmins |-> "awsRole"]
Binds == DOMAIN RoleOf \cup {"gsAdmins"}
GroupBinds == {"gsAdmins", "readers", "admins", "awsAdmins"}

\* What an object holds: rules or subjects. "ours" are those that never change.
Held == Groups \cup Apis \cup {"ours"}
Content == [there : BOOLEAN, holds : SUBSET Held, right : BOOLEAN]
Absent == [there |-> FALSE, holds |-> {}, right |-> TRUE]

\* at = 0: at rest.
Worker == [at : {0} \cup Places, failed : BOOLEAN, seen : SUBSET Apis]
Idle == [at |-> 0, failed |-> FALSE, seen |-> {}]

Init ==
  /\ proc = "down"
  /\ config \in Configs
  /\ obj = [o \in Object |-> Absent]
  /\ clusterAdmin = "unlabelled"
  /\ apis \in SUBSET Apis
  /\ healthy = TRUE
  /\ w = Idle
  /\ meddled = {}
  /\ edits = 0
  /\ faults = 0

-----------------------------------------------------------------------------
(* What is ensured. *)

\* Provider-specific objects, and bindings for the lists that have entries.
Applies(s) ==
  /\ s \in {"awsRole", "awsAccountBinding", "awsAdmins"} => config.capa
  /\ s \in {"admins", "awsAdmins"} => config.admins # {}
  /\ s = "readers" => config.admins \cup config.readers # {}

\* GroupsToSubjects leaves empty names out.
Wanted(o) ==
  CASE o = "readAll" -> w.seen
    [] o = "readers" -> (config.admins \cup config.readers) \ {Blank}
    [] o \in {"admins", "awsAdmins"} -> config.admins \ {Blank}
    [] o = "gsAdmins" -> config.gs \ {Blank}
    [] OTHER -> {"ours"}

\* A service account is never updated. The subjects GroupsToSubjects makes have no
\* API group and those the API server has stored do, so they are never equal: a
\* binding of groups is updated in each round.
NeedsUpdate(o) ==
  /\ o # "account"
  /\ obj[o].holds # Wanted(o) \/ (o \in GroupBinds /\ Wanted(o) # {})

\* A list of empty names is an error, and so is an update with another role than
\* the binding has, even if the subjects stay what they are.
Accepted(o) ==
  /\ o \in {"readers", "admins"} => Wanted(o) # {}
  /\ obj[o].there /\ NeedsUpdate(o) => obj[o].right

Written(o) ==
  IF ~obj[o].there THEN [there |-> TRUE, holds |-> Wanted(o), right |-> TRUE]
  ELSE IF NeedsUpdate(o) THEN [obj[o] EXCEPT !.holds = Wanted(o)]
  ELSE obj[o]

-----------------------------------------------------------------------------
(* The steps of a round. *)

At(s) == w.at # 0 /\ Order[w.at] = s /\ ~w.failed

\* The places that are left.
Rest == {i \in Places : i > w.at /\ Applies(Order[i])}

\* Behind the last object, Boot starts the controllers.
GoOn(seen) ==
  IF Rest = {} THEN w' = Idle /\ proc' = "running"
  ELSE /\ \E i \in Rest : /\ \A j \in (w.at + 1)..(i - 1) : ~Applies(Order[j])
                          /\ w' = [w EXCEPT !.at = i, !.seen = seen]
       /\ UNCHANGED proc

Fails == w' = [w EXCEPT !.failed = TRUE] /\ UNCHANGED proc

\* A pod starts, in Boot; without admins of Giant Swarm it ends before that.
StartProcess ==
  /\ proc = "down" /\ HasAdmins(config)
  /\ proc' = "booting"
  /\ w' = [Idle EXCEPT !.at = 1]
  /\ UNCHANGED <<config, cluster, edits, faults>>

Begin ==
  /\ proc = "running" /\ w.at = 0
  /\ w' = [Idle EXCEPT !.at = 1]
  /\ UNCHANGED <<proc, config, cluster, edits, faults>>

\* read-all lists what the discovery finds: it fails if one API does not answer.
Discover ==
  /\ At("discovery")
  /\ IF healthy THEN GoOn(apis) ELSE Fails
  /\ UNCHANGED <<config, cluster, edits, faults>>

\* The process survives a panic in a controller, or does not; never in Boot.
Panic == w' = Idle /\ proc' \in IF proc = "booting" THEN {"down"} ELSE {"running", "down"}

\* A ClusterRole without any labels has no map to add to.
Label ==
  /\ At("labels")
  /\ IF clusterAdmin = "bare" THEN Panic /\ UNCHANGED <<clusterAdmin, meddled>>
     ELSE /\ GoOn({})
          /\ clusterAdmin' = IF clusterAdmin = "none" THEN "none" ELSE "labelled"
          /\ meddled' = meddled \ {"labels"}
  /\ UNCHANGED <<config, obj, apis, healthy, edits, faults>>

Ensure(o) ==
  /\ At(o)
  /\ IF Accepted(o)
       THEN /\ obj' = [obj EXCEPT ![o] = Written(o)]
            /\ meddled' = meddled \ {o}
            /\ GoOn({})
       ELSE Fails /\ UNCHANGED <<obj, meddled>>
  /\ UNCHANGED <<config, clusterAdmin, apis, healthy, edits, faults>>

\* retryresource calls the resource again, from its first object.
Retry ==
  /\ w.failed
  /\ w' = [w EXCEPT !.failed = FALSE, !.at = Start(w.at), !.seen = {}]
  /\ UNCHANGED <<proc, config, cluster, edits, faults>>

\* Mutant: Boot starts the controllers whatever its error.
GiveUpAnyway ==
  /\ w.failed
  /\ w' = Idle
  /\ proc' = "running"
  /\ UNCHANGED <<config, cluster, edits, faults>>

\* Mutant: the error of Boot is logged, and nothing else.
GiveUpLogged ==
  /\ w.failed
  /\ w' = Idle
  /\ UNCHANGED <<proc, config, cluster, edits, faults>>

\* Boot panics with the error; a controller waits for its next round.
GiveUp ==
  /\ w.failed
  /\ w' = Idle
  /\ proc' = IF proc = "booting" THEN "down" ELSE proc
  /\ UNCHANGED <<config, cluster, edits, faults>>

Operator ==
  \/ StartProcess \/ Begin \/ Discover \/ Label \/ Retry \/ GiveUp
  \/ \E o \in Object : Ensure(o)

-----------------------------------------------------------------------------
(* Failing calls and restarts. *)

Fault == faults < MaxFaults /\ faults' = faults + 1 /\ UNCHANGED <<config, apis, healthy, edits>>

\* The write of a failed call may have happened.
CallFails ==
  /\ Fault
  /\ w.at # 0 /\ ~w.failed
  /\ \/ UNCHANGED <<obj, clusterAdmin>>
     \/ /\ Order[w.at] = "labels" /\ clusterAdmin = "unlabelled"
        /\ clusterAdmin' = "labelled"
        /\ UNCHANGED obj
     \/ /\ Order[w.at] \in Object /\ Accepted(Order[w.at])
        /\ obj' = [obj EXCEPT ![Order[w.at]] = Written(Order[w.at])]
        /\ UNCHANGED clusterAdmin
  /\ Fails
  /\ UNCHANGED meddled

Crash ==
  /\ Fault
  /\ proc # "down"
  /\ proc' = "down" /\ w' = Idle
  /\ UNCHANGED <<obj, clusterAdmin, meddled>>

-----------------------------------------------------------------------------
(* Users, rollouts and the cluster. *)

Edit == edits < MaxEdits /\ edits' = edits + 1 /\ UNCHANGED faults

\* A release of the operator with another configuration replaces the process.
Rollout(c) ==
  /\ Edit
  /\ config' = c
  /\ proc' = "down" /\ w' = Idle
  /\ UNCHANGED cluster

\* Users drop an object, create it before the operator does, or change it.
Spoil(o) ==
  /\ Edit
  /\ \/ obj' = [obj EXCEPT ![o] = Absent]
     \/ /\ o # "account"
        /\ \E holds \in {{}, obj[o].holds}, right \in BOOLEAN :
             /\ o \notin Binds => right
             /\ obj' = [obj EXCEPT ![o] = [there |-> TRUE, holds |-> holds, right |-> right]]
  /\ obj' # obj
  /\ meddled' = meddled \cup {o}
  /\ UNCHANGED <<proc, config, clusterAdmin, apis, healthy, w>>

Unlabel ==
  /\ Edit
  /\ clusterAdmin' \in {"unlabelled", "bare", "none"}
  /\ meddled' = meddled \cup {"labels"}
  /\ UNCHANGED <<proc, config, obj, apis, healthy, w>>

\* CRDs come and go, and so do the servers of aggregated APIs.
ChangeApis ==
  /\ Edit
  /\ apis' \in SUBSET Apis /\ healthy' \in BOOLEAN
  /\ UNCHANGED <<proc, config, obj, clusterAdmin, meddled, w>>

Environment ==
  \/ \E c \in Configs : Rollout(c)
  \/ \E o \in Object : Spoil(o)
  \/ Unlabel \/ ChangeApis

Next == Operator \/ CallFails \/ Crash \/ Environment

Spec == Init /\ [][Next]_vars

\* Kubernetes starts the pod again, the process goes on, the resync comes.
FairSpec == Spec /\ WF_vars(Operator)

-----------------------------------------------------------------------------
(* Properties. *)

TypeOK ==
  /\ proc \in {"down", "booting", "running"}
  /\ config \in Configs
  /\ obj \in [Object -> Content]
  /\ clusterAdmin \in {"labelled", "unlabelled", "bare", "none"}
  /\ apis \subseteq Apis /\ healthy \in BOOLEAN
  /\ w \in Worker
  /\ meddled \subseteq Object \cup {"labels"}
  /\ edits \in Nat /\ faults \in Nat

\* A step of the round that has its object as the configuration asks for.
Done(s) ==
  CASE s = "discovery" -> TRUE
    [] s = "labels" -> clusterAdmin \in {"labelled", "none"}
    [] s \in {"readAll", "account"} -> obj[s].there
    [] OTHER -> obj[s].there /\ obj[s].holds = Wanted(s)

\* "Update bootstrap resources on restart" (CHANGELOG.md:450): while controllers
\* run, every object there should be with this process's configuration is there
\* and holds what it should, unless users touched it since. The controllers of
\* organizations and clusters count on these roles and service accounts.
BootedFirst ==
  proc = "running" =>
    \A i \in Places : Applies(Order[i]) /\ Order[i] \notin meddled => Done(Order[i])

\* The operator never binds anybody to a role that is not there yet, which
\* whoever creates it could give any rules, unless users removed it.
BindingsHaveRoles ==
  \A b \in DOMAIN RoleOf :
    obj[b].there /\ {b, RoleOf[b]} \cap meddled = {} => obj[RoleOf[b]].there

\* Whatever lists later releases come with, malformed, empty or of empty names:
\* the binding to cluster-admin that the operator makes for Giant Swarm never
\* ends up without a subject. (The binding is not checked where it is made.)
GiantSwarmKept ==
  obj["gsAdmins"].there /\ "gsAdmins" \notin meddled => obj["gsAdmins"].holds # {}

\* No empty name stands where one is needed.
Valid == Applies("admins") => config.admins # {Blank}
ValidReaders == Applies("readers") => config.admins \cup config.readers # {Blank}

\* A binding to another role has the name of one of ours: one of groups, or one of
\* service accounts with other subjects. Its update is rejected each time.
Taken ==
  \E o \in Binds : /\ Applies(o) /\ obj[o].there /\ ~obj[o].right
                   /\ o \in GroupBinds \/ obj[o].holds # Wanted(o)

\* In the end the operator runs, with every object as configured, read-all with
\* all there is to read, unless one of five things keeps it from starting: no
\* group of Giant Swarm, an API that does not answer, a list of empty names, a
\* binding whose name is taken, or a cluster-admin role without labels.
Converges ==
  <>[](HasAdmins(config) /\ healthy /\ Valid /\ ValidReaders /\ ~Taken /\ clusterAdmin # "bare" =>
         /\ proc = "running"
         /\ \A i \in Places : Applies(Order[i]) => Done(Order[i])
         /\ obj["readAll"].holds = apis)
=============================================================================
