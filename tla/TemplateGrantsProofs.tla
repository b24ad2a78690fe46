------------------------- MODULE TemplateGrantsProofs -------------------------
(***************************************************************************)
(* The RoleBindingTemplate controller implements TemplateGrants: proof     *)
(* that every step of it, alone or among others in the operator, is a step *)
(* of the ledger or none, for every set of templates, namespaces and specs *)
(* and every bound.                                                        *)
(***************************************************************************)
EXTENDS RoleBindingTemplateProofs

-----------------------------------------------------------------------------
(* A round keeps apart what it has applied and what it prunes.             *)

\* Inductive, because only the worker makes bindings, and its lists are
\* computed from each other.
LEMMA ApartStep ==
  TypeInv /\ DeletingRound /\ RoundApart /\ [OpenNext]_vars => RoundApart'
<1> SUFFICES ASSUME TypeInv, DeletingRound, RoundApart, [OpenNext]_vars, TypeInv'
             PROVE  RoundApart'
  BY TypeStep
<1> USE DEF TypeInv, BindingName, Want, Desired, Resolved, Valid
<1>1. w.snap.spec.name \in Names /\ w.at \in Namespaces
  BY SpecAssumption DEF TypeOK, Worker, Template
<1>2. CASE w'.pc \notin {"prune", "delete", "write"}
  BY <1>2 DEF RoundApart
<1>3. ASSUME w' = w, rb' = rb \/ rb'[w.at][BindingName] \in {rb[w.at][BindingName], NoBinding}
      PROVE  RoundApart'
  BY <1>1, <1>3 DEF RoundApart
<1>4. ASSUME w'.pc \in {"prune", "delete"}, w'.prune \cap w'.applied = {}
      PROVE  RoundApart'
  BY <1>4 DEF RoundApart
<1>5. CASE Round
  <2>1. CASE ListScope \/ ScopeRead \/ StatusConflict
    BY <1>2, <2>1 DEF ListScope, ScopeRead, StatusConflict, TypeOK, Worker
  <2>2. CASE WriteBinding
    BY <1>2, <2>2 DEF WriteBinding, Done, TypeOK, Worker
  <2>3. CASE ApplyDone
    BY <1>4, <2>3 DEF ApplyDone, TypeOK, Worker
  <2>4. CASE PruneDelete
    BY <1>4, <2>4 DEF PruneDelete, RoundApart, TypeOK, Worker
  <2>5. CASE UpdateStatus \/ RemoveFinalizer \/ GiveUp
    BY <1>2, <2>5 DEF UpdateStatus, RemoveFinalizer, GiveUp, Idle
  <2>6. CASE Retry
    BY <1>2, <1>4, <2>6 DEF Retry, Enter, Idle
  <2>7. ASSUME NEW n \in Namespaces, CheckNamespace(n)
        PROVE  RoundApart'
    BY <1>2, <2>7 DEF CheckNamespace, TypeOK, Worker
  <2>8. ASSUME NEW n \in Namespaces, ReadBinding(n)
        PROVE  RoundApart'
    <3>1. CASE w' = Done(n, TRUE) \/ w' = Done(n, FALSE)
      BY <1>2, <3>1 DEF Done, TypeOK, Worker
    <3>2. CASE /\ Want(n).subjects # {}
               /\ w' = [w EXCEPT !.pc = "write", !.at = n,
                                 !.seen = rb[n][BindingName] # NoBinding]
      <4>1. w'.pc = "write" /\ w'.at = n /\ w'.snap = w.snap /\ rb' = rb
        BY <2>8, <3>2 DEF ReadBinding, TypeOK, Worker, cluster
      <4>2. ~w'.seen => rb[n][BindingName] = NoBinding
        BY <3>2, Zenon DEF TypeOK, Worker
      <4> QED
        BY <3>2, <4>1, <4>2 DEF RoundApart
    <3> QED
      BY <2>8, <3>1, <3>2, Zenon DEF ReadBinding
  <2>9. ASSUME NEW n \in Namespaces, PruneRead(n)
        PROVE  RoundApart'
    BY <1>4, <2>9 DEF PruneRead, RoundApart, TypeOK, Worker
  <2> QED
    BY <1>5, <2>1, <2>2, <2>3, <2>4, <2>5, <2>6, <2>7, <2>8, <2>9 DEF Round
<1>6. ASSUME NEW t \in Templates, Reconcile(t)
      PROVE  RoundApart'
  <2>1. CASE AddFinalizer(t)
    BY <1>3, <2>1 DEF AddFinalizer
  <2>2. CASE Begin(t)
    BY <1>2, <1>4, <2>2 DEF Begin, Enter, Idle
  <2> QED
    BY <1>6, <2>1, <2>2 DEF Reconcile
<1>7. CASE Failure
  <2>1. CASE CallFails \/ Crash
    BY <1>2, <2>1 DEF CallFails, Crash, Idle, TypeOK, Worker
  <2>2. ASSUME NEW n \in Namespaces, CheckFails(n) \/ ApplyFails(n)
        PROVE  RoundApart'
    BY <1>2, <2>2 DEF CheckFails, ApplyFails, Done, TypeOK, Worker
  <2> QED
    BY <1>7, <2>1, <2>2 DEF Failure, FailingCall
<1>8. CASE OpenEnvironment
  <2>1. CASE w' = Idle
    BY <1>2, <2>1 DEF Idle
  <2>2. ASSUME NEW n \in Namespaces, ChangeNamespace(n)
        PROVE  RoundApart'
    BY <1>1, <1>3, <2>2 DEF ChangeNamespace, Edit, TypeOK
  <2>3. ASSUME NEW n \in Namespaces, NEW nm \in Names, DropBinding(n, nm)
        PROVE  RoundApart'
    BY <1>1, <1>3, <2>3 DEF DropBinding, Edit, TypeOK
  <2> QED
    BY <1>3, <1>8, <2>1, <2>2, <2>3
    DEF OpenEnvironment, Environment, TemplateWritten, FailsElsewhere, Edit,
        CreateTemplate, EditTemplate, DeleteTemplate, Relabel
<1>9. CASE UNCHANGED vars
  BY <1>3, <1>9 DEF vars
<1> QED
  BY <1>5, <1>6, <1>7, <1>8, <1>9 DEF OpenNext

GrantInv == CalmInv /\ RoundApart

LEMMA GrantInvariance == OpenSpec => []GrantInv
<1>1. Init => GrantInv
  <2>1. Init => DeletionInv
    BY VersionInit DEF Init, Idle, DeletionInv, DeletingRound, PrunedGone
  <2> QED
    BY <2>1
    DEF Init, Idle, CalmInv, CalmRound, BindingsAccounted, GrantInv, RoundApart
<1>2. GrantInv /\ [OpenNext]_vars => GrantInv'
  BY TypeStep, SnapshotStep, ShapeStep, DeletingStep, PrunedStep, CalmStep,
     AccountedStep, ApartStep
  DEF GrantInv, CalmInv, DeletionInv, VersionInv
<1> QED
  BY <1>1, <1>2, PTL DEF OpenSpec

-----------------------------------------------------------------------------
(* What the ledger sees of the controller.                                 *)

PhaseOf == [t \in Templates |-> tmpl[t].phase]
SpecOf == [t \in Templates |-> tmpl[t].spec]
LedgerOf == [t \in Templates |-> Ledger(t)]

\* The part of the ledger the round in work is responsible for.
RoundLedger ==
  w.applied \cup IF w.pc \in {"prune", "delete"} THEN w.prune ELSE tmpl[w.cur].status

Calm == calm' = calm /\ calm /\ calm'

LEMMA Calmed ==
  ASSUME TypeInv, TypeInv', [OpenNext]_vars, calm'
  PROVE  Calm
<1>1. calm
  BY CalmLasts
<1>2. calm \in BOOLEAN /\ calm' \in BOOLEAN
  BY Zenon DEF TypeInv, TypeOK
<1> QED
  BY <1>1, <1>2, Zenon DEF Calm

LEMMA InitMaps == Init => Promise!Init
<1> SUFFICES ASSUME Init PROVE Promise!Init
  OBVIOUS
<1>1. /\ tmpl \in [Templates -> {NoTemplate} \cup {NewTemplate(s, 1) : s \in Specs}]
      /\ rb = [n \in Namespaces |-> [nm \in Names |-> NoBinding]]
      /\ w.pc = "idle" /\ calm = TRUE
  BY Zenon DEF Init, Idle
<1>2. /\ NoTemplate.phase = "absent" /\ NoTemplate.spec \in Specs
      /\ NoTemplate.status = {}
      /\ \A s \in Specs : /\ NewTemplate(s, 1).phase = "live"
                          /\ NewTemplate(s, 1).spec = s
                          /\ NewTemplate(s, 1).status = {}
  BY SpecAssumption DEF NoTemplate, NewTemplate
<1>3. \A t \in Templates : /\ tmpl[t].phase \in {"absent", "live"}
                          /\ tmpl[t].spec \in Specs /\ tmpl[t].status = {}
  BY <1>1, <1>2
<1>4. LedgerOf = [t \in Templates |-> {}]
  BY <1>1, <1>3 DEF LedgerOf, Ledger, InWork
<1> QED
  BY <1>1, <1>3, <1>4 DEF Promise!Init, LedgerOf, Ledger, InWork

LEMMA Stutters ==
  ASSUME Calm, UNCHANGED <<PhaseOf, SpecOf, LedgerOf, rb>>
  PROVE  UNCHANGED Promise!vars
<1>1. calm' = calm
  BY Zenon DEF Calm
<1> QED
  BY <1>1 DEF Promise!vars, PhaseOf, SpecOf, LedgerOf, Ledger, InWork

\* A step that leaves the templates alone shows as the change of the round's own
\* part of the ledger.
LEMMA RoundLedgers ==
  ASSUME TypeInv, w.pc # "idle", w'.pc # "idle", w'.cur = w.cur, UNCHANGED tmpl
  PROVE  /\ UNCHANGED <<PhaseOf, SpecOf>>
         /\ RoundLedger' = RoundLedger => UNCHANGED LedgerOf
         /\ \A n \in Namespaces :
              /\ RoundLedger' = RoundLedger \cup {n} =>
                   LedgerOf' = [LedgerOf EXCEPT ![w.cur] = @ \cup {n}]
              /\ RoundLedger' = RoundLedger \ {n} =>
                   LedgerOf' = [LedgerOf EXCEPT ![w.cur] = @ \ {n}]
<1>1. LedgerOf[w.cur] = RoundLedger /\ LedgerOf'[w.cur] = RoundLedger'
  BY DEF LedgerOf, Ledger, InWork, RoundLedger, TypeInv, TypeOK, Worker
<1>2. \A t \in Templates \ {w.cur} : LedgerOf'[t] = LedgerOf[t]
  BY DEF LedgerOf, Ledger, InWork
<1>3. /\ LedgerOf = [t \in Templates |-> LedgerOf[t]]
      /\ LedgerOf' = [t \in Templates |-> LedgerOf'[t]]
  BY DEF LedgerOf
<1>4. UNCHANGED <<PhaseOf, SpecOf>>
  BY DEF PhaseOf, SpecOf
<1> HIDE DEF LedgerOf
<1> QED
  BY <1>1, <1>2, <1>3, <1>4

\* When no round is in work the ledger is the status.
LEMMA IdleLedgers ==
  ASSUME NEW t \in Templates, ~InWork(t)
  PROVE  LedgerOf[t] = tmpl[t].status
BY DEF LedgerOf, Ledger

-----------------------------------------------------------------------------
(* The steps of the ledger.                                                *)

SettledStep ==
  \/ \E t \in Templates :
       \/ Promise!Create(t) \/ Promise!Revise(t) \/ Promise!Delete(t) \/ Promise!LetGo(t)
       \/ \E n \in Namespaces :
            Promise!Grant(t, n) \/ Promise!Confirm(t, n) \/ Promise!Revoke(t, n)
  \/ \E n \in Namespaces : Promise!LoseBinding(n)

LEMMA SettledSteps ==
  ASSUME Calm, SettledStep
  PROVE  Promise!Next
<1>1. calm /\ calm'
  BY DEF Calm
<1> QED
  BY <1>1 DEF Promise!Next, Promise!Settled, SettledStep

LEMMA MapsToGrant ==
  ASSUME NEW t \in Templates, NEW n \in Namespaces,
         tmpl[t].spec \in Specs, tmpl[t].phase = "live",
         Desired(tmpl[t].spec, n).subjects # {},
         UNCHANGED <<PhaseOf, SpecOf>>,
         rb' = [rb EXCEPT ![n][tmpl[t].spec.name] = Desired(tmpl[t].spec, n)],
         LedgerOf' = [LedgerOf EXCEPT ![t] = @ \cup {n}]
  PROVE  Promise!Grant(t, n)
BY DEF Promise!Grant, Promise!Put, Promise!Enter, PhaseOf, SpecOf, LedgerOf, Ledger,
       InWork

LEMMA MapsToConfirm ==
  ASSUME NEW t \in Templates, NEW n \in Namespaces,
         tmpl[t].spec \in Specs, tmpl[t].phase = "live",
         rb[n][tmpl[t].spec.name] # NoBinding,
         rb[n][tmpl[t].spec.name].subjects = Desired(tmpl[t].spec, n).subjects,
         UNCHANGED <<PhaseOf, SpecOf, rb>>,
         LedgerOf' = [LedgerOf EXCEPT ![t] = @ \cup {n}]
  PROVE  Promise!Confirm(t, n)
BY DEF Promise!Confirm, Promise!Has, Promise!Enter, PhaseOf, SpecOf, LedgerOf, Ledger,
       InWork

LEMMA MapsToRevoke ==
  ASSUME NEW t \in Templates, NEW n \in Namespaces, n \in LedgerOf[t],
         UNCHANGED <<PhaseOf, SpecOf>>,
         rb' = [rb EXCEPT ![n][tmpl[t].spec.name] = NoBinding],
         LedgerOf' = [LedgerOf EXCEPT ![t] = @ \ {n}]
  PROVE  Promise!Revoke(t, n)
BY DEF Promise!Revoke, Promise!Put, Promise!Strike, PhaseOf, SpecOf, LedgerOf, Ledger,
       InWork

LEMMA MapsToLetGo ==
  ASSUME NEW t \in Templates, tmpl[t].phase = "deleting", LedgerOf[t] = {},
         PhaseOf' = [PhaseOf EXCEPT ![t] = "absent"],
         UNCHANGED <<SpecOf, LedgerOf, rb>>
  PROVE  Promise!LetGo(t)
BY DEF Promise!LetGo, Promise!Is, PhaseOf, SpecOf, LedgerOf, Ledger, InWork

LEMMA MapsToCreate ==
  ASSUME NEW t \in Templates, NEW s \in Specs, tmpl[t].phase = "absent",
         PhaseOf' = [PhaseOf EXCEPT ![t] = "live"],
         SpecOf' = [SpecOf EXCEPT ![t] = s],
         UNCHANGED <<LedgerOf, rb>>
  PROVE  Promise!Create(t)
BY DEF Promise!Create, Promise!Is, PhaseOf, SpecOf, LedgerOf, Ledger, InWork

LEMMA MapsToRevise ==
  ASSUME NEW t \in Templates, NEW s \in Specs, tmpl[t].phase # "absent",
         s.name = tmpl[t].spec.name,
         SpecOf' = [SpecOf EXCEPT ![t] = s],
         UNCHANGED <<PhaseOf, LedgerOf, rb>>
  PROVE  Promise!Revise(t)
BY DEF Promise!Revise, PhaseOf, SpecOf, LedgerOf, Ledger, InWork

LEMMA MapsToDelete ==
  ASSUME NEW t \in Templates, tmpl[t].phase = "live",
         \/ PhaseOf' = [PhaseOf EXCEPT ![t] = "deleting"]
         \/ LedgerOf[t] = {} /\ PhaseOf' = [PhaseOf EXCEPT ![t] = "absent"],
         UNCHANGED <<SpecOf, LedgerOf, rb>>
  PROVE  Promise!Delete(t)
BY DEF Promise!Delete, Promise!Is, PhaseOf, SpecOf, LedgerOf, Ledger, InWork

LEMMA MapsToLoseBinding ==
  ASSUME NEW n \in Namespaces,
         \/ \E nm \in Names : rb' = [rb EXCEPT ![n][nm] = NoBinding]
         \/ rb' = [rb EXCEPT ![n] = [nm \in Names |-> NoBinding]],
         UNCHANGED <<PhaseOf, SpecOf, LedgerOf>>
  PROVE  Promise!LoseBinding(n)
BY DEF Promise!LoseBinding, PhaseOf, SpecOf, LedgerOf, Ledger, InWork

\* Whatever disturbs the operator, every binding is the whole of a version.
LEMMA MapsToDisturbed ==
  ASSUME GrantsAsSpecified', calm' = FALSE
  PROVE  Promise!Next
<1>1. Promise!Whole'
  BY DEF GrantsAsSpecified, Promise!Whole, Desired, Resolved, Valid
<1> QED
  BY <1>1 DEF Promise!Next, Promise!Disturbed

-----------------------------------------------------------------------------
(* The steps of a calm round.                                              *)

Shows == UNCHANGED Promise!vars \/ SettledStep

LEMMA CalmWork ==
  ASSUME GrantInv, calm, w.pc # "idle"
  PROVE  /\ w \in Worker /\ w.cur \in Templates /\ w.at \in Namespaces
         /\ w.snap = tmpl[w.cur] /\ tmpl[w.cur].spec \in Specs
         /\ tmpl[w.cur].phase \in {"live", "deleting"}
         /\ tmpl[w.cur].status \subseteq Namespaces
         /\ BindingName = tmpl[w.cur].spec.name
         /\ \A n \in Namespaces : Want(n) = Desired(tmpl[w.cur].spec, n)
         /\ (w.pc \notin {"prune", "delete", "failed"} => tmpl[w.cur].phase = "live")
         /\ (w.pc \in {"list", "check", "failed"} => w.applied = {})
         /\ LedgerOf[w.cur] = RoundLedger
<1> USE DEF GrantInv, CalmInv, DeletionInv, VersionInv, TypeInv
<1>1. w \in Worker /\ w.cur \in Templates /\ w.at \in Namespaces
  BY DEF TypeOK, Worker
<1>2. w.snap = tmpl[w.cur] /\ (w.pc \in {"list", "check", "failed"} => w.applied = {})
  BY DEF CalmRound
<1>3. /\ tmpl[w.cur].spec \in Specs /\ tmpl[w.cur].status \subseteq Namespaces
      /\ tmpl[w.cur].phase \in {"absent", "live", "deleting"}
  BY <1>1 DEF TypeOK, Template
<1>4. tmpl[w.cur].phase # "absent"
  BY <1>2 DEF SnapshotVersion
<1>5. w.pc \notin {"prune", "delete", "failed"} => tmpl[w.cur].phase # "deleting"
  BY <1>2 DEF DeletingRound
<1>6. BindingName = tmpl[w.cur].spec.name
  BY <1>2 DEF BindingName
<1>7. \A n \in Namespaces : Want(n) = Desired(tmpl[w.cur].spec, n)
  BY <1>2 DEF Want
<1>8. LedgerOf[w.cur] = RoundLedger
  BY <1>1 DEF LedgerOf, Ledger, InWork, RoundLedger
<1> QED
  BY <1>1, <1>2, <1>3, <1>4, <1>5, <1>6, <1>7, <1>8

\* The round goes on and the ledger does not change.
LEMMA GoesOn ==
  ASSUME GrantInv, Calm, w.pc # "idle", w'.pc # "idle", w'.cur = w.cur,
         UNCHANGED <<tmpl, rb>>, RoundLedger' = RoundLedger
  PROVE  Shows
<1>1. UNCHANGED <<PhaseOf, SpecOf, LedgerOf, rb>>
  BY RoundLedgers DEF GrantInv, CalmInv, DeletionInv, VersionInv
<1> QED
  BY <1>1, Stutters DEF Shows

\* The namespace is in the scope, and its binding is there or is made.
LEMMA AppliesTo ==
  ASSUME GrantInv, Calm, w.pc \in {"apply", "write"}, NEW n \in Namespaces,
         w' = Done(n, TRUE), UNCHANGED tmpl, Want(n).subjects # {},
         \/ /\ rb' = rb /\ rb[n][BindingName] # NoBinding
            /\ rb[n][BindingName].subjects = Want(n).subjects
         \/ rb' = Written(n)
  PROVE  Shows
<1>1. /\ w \in Worker /\ w.cur \in Templates /\ tmpl[w.cur].phase = "live"
      /\ tmpl[w.cur].spec \in Specs
      /\ BindingName = tmpl[w.cur].spec.name /\ Want(n) = Desired(tmpl[w.cur].spec, n)
  BY CalmWork DEF Calm
<1>2. /\ w'.pc = "apply" /\ w'.cur = w.cur /\ w'.applied = w.applied \cup {n}
  BY <1>1 DEF Done, Worker
<1>3. RoundLedger' = RoundLedger \cup {n}
  BY <1>2 DEF RoundLedger
<1>4. /\ UNCHANGED <<PhaseOf, SpecOf>>
      /\ LedgerOf' = [LedgerOf EXCEPT ![w.cur] = @ \cup {n}]
  BY <1>2, <1>3, RoundLedgers DEF GrantInv, CalmInv, DeletionInv, VersionInv
<1>5. Promise!Grant(w.cur, n) \/ Promise!Confirm(w.cur, n)
  BY <1>1, <1>4, MapsToGrant, MapsToConfirm DEF Written
<1> QED
  BY <1>1, <1>5 DEF Shows, SettledStep

\* The namespace is done with, and was not in the ledger because of this round.
LEMMA PassesBy ==
  ASSUME GrantInv, Calm, w.pc \in {"apply", "write"}, NEW n \in Namespaces,
         w' = Done(n, FALSE), UNCHANGED <<tmpl, rb>>
  PROVE  Shows
<1>1. w \in Worker
  BY CalmWork DEF Calm
<1>2. w'.pc = "apply" /\ w'.cur = w.cur /\ w'.applied = w.applied
  BY <1>1 DEF Done, Worker
<1> QED
  BY <1>2, GoesOn DEF RoundLedger

\* A namespace is pruned.
LEMMA Prunes ==
  ASSUME GrantInv, Calm, w.pc \in {"prune", "delete"}, NEW n \in w.prune,
         w'.pc = "prune", w'.cur = w.cur, w'.applied = w.applied,
         w'.prune = w.prune \ {n}, UNCHANGED tmpl, rb' = Removed(n)
  PROVE  Shows
<1>1. /\ w \in Worker /\ w.cur \in Templates /\ BindingName = tmpl[w.cur].spec.name
      /\ LedgerOf[w.cur] = RoundLedger
  BY CalmWork DEF Calm
<1>2. n \in Namespaces
  BY <1>1 DEF Worker
<1>3. n \notin w.applied
  BY DEF GrantInv, RoundApart
<1>4. RoundLedger' = RoundLedger \ {n} /\ n \in RoundLedger
  BY <1>3 DEF RoundLedger
<1>5. /\ UNCHANGED <<PhaseOf, SpecOf>>
      /\ LedgerOf' = [LedgerOf EXCEPT ![w.cur] = @ \ {n}]
  BY <1>2, <1>4, RoundLedgers DEF GrantInv, CalmInv, DeletionInv, VersionInv
<1>6. Promise!Revoke(w.cur, n)
  BY <1>1, <1>2, <1>4, <1>5, MapsToRevoke DEF Removed
<1> QED
  BY <1>1, <1>2, <1>6 DEF Shows, SettledStep

\* The round ends and the status says what the ledger said.
LEMMA Ends ==
  ASSUME GrantInv, Calm, w.pc # "idle", w' = Idle, UNCHANGED <<PhaseOf, SpecOf, rb>>,
         tmpl'[w.cur].status = RoundLedger,
         \A t \in Templates \ {w.cur} : tmpl'[t] = tmpl[t]
  PROVE  Shows
<1>1. w.cur \in Templates /\ LedgerOf[w.cur] = RoundLedger
  BY CalmWork DEF Calm
<1>2. w'.pc = "idle"
  BY DEF Idle
<1>3. \A t \in Templates : LedgerOf'[t] = tmpl'[t].status
  BY <1>2 DEF LedgerOf, Ledger, InWork
<1>4. \A t \in Templates \ {w.cur} : LedgerOf[t] = tmpl[t].status
  BY DEF LedgerOf, Ledger, InWork
<1>5. /\ LedgerOf = [t \in Templates |-> LedgerOf[t]]
      /\ LedgerOf' = [t \in Templates |-> LedgerOf'[t]]
  BY DEF LedgerOf
<1>6. UNCHANGED LedgerOf
  BY <1>1, <1>3, <1>4, <1>5
<1> QED
  BY <1>6, Stutters DEF Shows

LEMMA StatusMaps ==
  ASSUME GrantInv, Calm, UpdateStatus
  PROVE  Shows
<1> USE DEF GrantInv, CalmInv, DeletionInv, VersionInv, TypeInv
<1>1. w.pc = "prune" /\ w.prune = {} /\ w' = Idle /\ UNCHANGED rb
  BY DEF UpdateStatus, PruneDone
<1>2. w \in Worker /\ w.cur \in Templates /\ tmpl[w.cur] \in Template
  BY CalmWork, <1>1 DEF Calm, TypeOK
<1> DEFINE v == [tmpl[w.cur] EXCEPT !.status = w.applied]
<1>3. /\ v \in Template /\ v.phase = tmpl[w.cur].phase /\ v.spec = tmpl[w.cur].spec
      /\ v.status = w.applied
  BY <1>2 DEF Template, Worker
<1>4. /\ NewVersion(v).phase = v.phase /\ NewVersion(v).spec = v.spec
      /\ NewVersion(v).status = v.status
  BY <1>3 DEF NewVersion, Template
<1>5. \/ tmpl' = tmpl /\ tmpl[w.cur].status = w.applied
      \/ tmpl' = [tmpl EXCEPT ![w.cur] = NewVersion(v)]
  BY <1>2 DEF UpdateStatus, StatusWritten, TypeOK
<1> HIDE DEF v
<1>6. /\ tmpl'[w.cur].phase = tmpl[w.cur].phase /\ tmpl'[w.cur].spec = tmpl[w.cur].spec
      /\ tmpl'[w.cur].status = w.applied
      /\ \A t \in Templates \ {w.cur} : tmpl'[t] = tmpl[t]
  BY <1>2, <1>3, <1>4, <1>5 DEF TypeOK
<1>7. RoundLedger = w.applied
  BY <1>1 DEF RoundLedger
<1>8. UNCHANGED <<PhaseOf, SpecOf>>
  BY <1>6 DEF PhaseOf, SpecOf
<1> QED
  BY <1>1, <1>6, <1>7, <1>8, Ends

LEMMA FinalizerMaps ==
  ASSUME GrantInv, Calm, RemoveFinalizer
  PROVE  Shows
<1> USE DEF GrantInv, CalmInv, DeletionInv, VersionInv, TypeInv
<1>1. /\ w.pc = "prune" /\ w.prune = {} /\ w.snap.phase = "deleting" /\ w' = Idle
      /\ UNCHANGED rb
  BY DEF RemoveFinalizer, PruneDone
<1>2. /\ w.cur \in Templates /\ tmpl[w.cur] \in Template /\ tmpl[w.cur].phase = "deleting"
      /\ LedgerOf[w.cur] = RoundLedger
  BY CalmWork, <1>1 DEF Calm, TypeOK
<1>3. RoundLedger = {}
  BY <1>1 DEF RoundLedger, DeletingRound
<1> DEFINE v == [tmpl[w.cur] EXCEPT !.phase = "absent", !.fin = FALSE, !.status = {}]
<1>4. v \in Template /\ v.phase = "absent" /\ v.spec = tmpl[w.cur].spec /\ v.status = {}
  BY <1>2 DEF Template
<1>5. /\ NewVersion(v).phase = v.phase /\ NewVersion(v).spec = v.spec
      /\ NewVersion(v).status = v.status
  BY <1>4 DEF NewVersion, Template
<1>6. tmpl' = [tmpl EXCEPT ![w.cur] = NewVersion(v)]
  BY <1>2 DEF RemoveFinalizer, TypeOK
<1> HIDE DEF v
<1>7. /\ tmpl'[w.cur].phase = "absent" /\ tmpl'[w.cur].spec = tmpl[w.cur].spec
      /\ tmpl'[w.cur].status = {}
      /\ \A t \in Templates \ {w.cur} : tmpl'[t] = tmpl[t]
  BY <1>2, <1>4, <1>5, <1>6 DEF TypeOK
<1> HIDE DEF GrantInv, CalmInv, DeletionInv, VersionInv, TypeInv
<1>8. PhaseOf' = [PhaseOf EXCEPT ![w.cur] = "absent"] /\ UNCHANGED SpecOf
  BY <1>2, <1>7 DEF PhaseOf, SpecOf
<1>9. UNCHANGED LedgerOf
  <2>1. w'.pc = "idle"
    BY <1>1 DEF Idle
  <2>2. \A t \in Templates : LedgerOf'[t] = tmpl'[t].status
    BY <2>1 DEF LedgerOf, Ledger, InWork
  <2>3. \A t \in Templates \ {w.cur} : LedgerOf[t] = tmpl[t].status
    BY DEF LedgerOf, Ledger, InWork
  <2>4. /\ LedgerOf = [t \in Templates |-> LedgerOf[t]]
        /\ LedgerOf' = [t \in Templates |-> LedgerOf'[t]]
    BY DEF LedgerOf
  <2>5. LedgerOf'[w.cur] = LedgerOf[w.cur]
    BY <1>2, <1>3, <1>7, <2>2
  <2> QED
    BY <1>7, <2>2, <2>3, <2>4, <2>5
<1>10. LedgerOf[w.cur] = {}
  BY <1>2, <1>3
<1>11. PICK t \in Templates : t = w.cur
  BY <1>2
<1>12. Promise!LetGo(t)
  BY <1>1, <1>2, <1>8, <1>9, <1>10, <1>11, MapsToLetGo
<1> QED
  BY <1>12 DEF Shows, SettledStep

LEMMA RoundMaps ==
  ASSUME GrantInv, Calm, Round
  PROVE  Shows
<1> USE DEF GrantInv, CalmInv, DeletionInv, VersionInv, TypeInv
<1>1. w.pc # "idle"
  BY DEF Round, ListScope, ScopeRead, WriteBinding, ApplyDone, PruneDelete,
         UpdateStatus, StatusConflict, RemoveFinalizer, PruneDone, Retry, GiveUp,
         CheckNamespace, ReadBinding, PruneRead
<1>2. /\ w \in Worker /\ w.cur \in Templates /\ w.at \in Namespaces
      /\ w.snap = tmpl[w.cur]
      /\ w.pc \notin {"prune", "delete", "failed"} => tmpl[w.cur].phase = "live"
      /\ w.pc \in {"list", "check", "failed"} => w.applied = {}
  BY <1>1, CalmWork DEF Calm
<1>3. CASE ListScope \/ ScopeRead \/ ApplyDone
  <2>1. /\ w'.pc # "idle" /\ w'.cur = w.cur /\ UNCHANGED <<tmpl, rb>>
        /\ RoundLedger' = RoundLedger
    BY <1>2, <1>3 DEF ListScope, ScopeRead, ApplyDone, RoundLedger, Worker, cluster
  <2> QED
    BY <1>1, <2>1, GoesOn
<1>4. CASE WriteBinding
  <2>1. w.pc = "write" /\ UNCHANGED tmpl /\ Want(w.at).subjects # {}
    BY <1>4 DEF WriteBinding, RoundApart
  <2>2. ~WriteTolerated(w.at)
    BY <2>1 DEF WriteTolerated, RoundApart
  <2>3. CASE WriteAccepted(w.at)
    <3>1. w' = Done(w.at, TRUE) /\ rb' = Written(w.at)
      BY <1>4, <2>3, Zenon DEF WriteBinding, Done
    <3> QED
      BY <1>2, <2>1, <3>1, AppliesTo
  <2>4. CASE ~WriteAccepted(w.at)
    <3>1. w' = Done(w.at, FALSE) /\ rb' = rb
      BY <1>4, <2>2, <2>4, Zenon DEF WriteBinding, Done
    <3> QED
      BY <1>2, <2>1, <3>1, PassesBy
  <2> QED
    BY <2>3, <2>4
<1>5. CASE PruneDelete
  <2>1. /\ w.pc = "delete" /\ UNCHANGED tmpl /\ rb' = Removed(w.at) /\ w.at \in w.prune
        /\ w'.pc = "prune" /\ w'.cur = w.cur /\ w'.applied = w.applied
        /\ w'.prune = w.prune \ {w.at}
    BY <1>2, <1>5 DEF PruneDelete, PrunedGone, Worker
  <2> QED
    BY <2>1, Prunes
<1>6. ~StatusConflict
  BY <1>1, <1>2
  DEF StatusConflict, StatusAccepted, PruneDone, SnapshotVersion
<1>7. CASE Retry
  <2>1. /\ w'.pc = IF w.snap.phase = "live" THEN "list" ELSE "prune"
        /\ w'.cur = w.cur /\ w'.applied = {}
        /\ w'.prune = IF w.snap.phase = "live" THEN {} ELSE w.snap.status
        /\ UNCHANGED <<tmpl, rb>>
    BY <1>7 DEF Retry, Enter, Idle, cluster
  <2>2. RoundLedger' = RoundLedger
    BY <1>2, <1>7, <2>1 DEF Retry, RoundLedger
  <2> QED
    BY <1>1, <2>1, <2>2, GoesOn
<1>8. CASE GiveUp
  <2>1. w' = Idle /\ UNCHANGED <<tmpl, rb>> /\ w.pc = "failed"
    BY <1>8 DEF GiveUp, cluster
  <2>2. tmpl'[w.cur].status = RoundLedger
    BY <1>2, <2>1 DEF RoundLedger
  <2>3. UNCHANGED <<PhaseOf, SpecOf>>
    BY <2>1 DEF PhaseOf, SpecOf
  <2> QED
    BY <1>1, <2>1, <2>2, <2>3, Ends
<1>9. ASSUME NEW n \in Namespaces, CheckNamespace(n)
      PROVE  Shows
  <2>1. /\ w'.pc # "idle" /\ w'.cur = w.cur /\ UNCHANGED <<tmpl, rb>>
        /\ RoundLedger' = RoundLedger
    BY <1>2, <1>9 DEF CheckNamespace, RoundLedger, Worker, cluster
  <2> QED
    BY <1>1, <2>1, GoesOn
<1>10. ASSUME NEW n \in Namespaces, ReadBinding(n)
       PROVE  Shows
  <2>1. w.pc = "apply" /\ UNCHANGED <<tmpl, rb>>
    BY <1>10 DEF ReadBinding, cluster
  <2>2. CASE w' = Done(n, FALSE)
    BY <2>1, <2>2, PassesBy
  <2>3. CASE /\ w' = Done(n, TRUE) /\ Want(n).subjects # {}
             /\ rb[n][BindingName] # NoBinding
             /\ ~NeedsUpdate(Want(n), rb[n][BindingName])
    BY <2>1, <2>3, AppliesTo DEF NeedsUpdate
  <2>4. CASE w' = [w EXCEPT !.pc = "write", !.at = n,
                            !.seen = rb[n][BindingName] # NoBinding]
    <3>1. w'.pc = "write" /\ w'.cur = w.cur /\ w'.applied = w.applied
      BY <1>2, <2>4 DEF Worker
    <3>2. RoundLedger' = RoundLedger
      BY <2>1, <3>1 DEF RoundLedger
    <3> QED
      BY <1>1, <2>1, <3>1, <3>2, GoesOn
  <2> QED
    BY <1>10, <2>2, <2>3, <2>4, Zenon DEF ReadBinding
<1>11. ASSUME NEW n \in Namespaces, PruneRead(n)
       PROVE  Shows
  <2>1. w.pc = "prune" /\ n \in w.prune /\ UNCHANGED <<tmpl, rb>>
    BY <1>11 DEF PruneRead, cluster
  <2>2. CASE rb[n][BindingName] = NoBinding
    <3>1. rb' = Removed(n)
      BY <2>1, <2>2 DEF Removed, TypeOK
    <3>2. /\ w'.pc = "prune" /\ w'.cur = w.cur /\ w'.applied = w.applied
          /\ w'.prune = w.prune \ {n}
      BY <1>2, <1>11, <2>2 DEF PruneRead, Worker
    <3> QED
      BY <2>1, <3>1, <3>2, Prunes
  <2>3. CASE rb[n][BindingName] # NoBinding
    <3>1. /\ w'.pc = "delete" /\ w'.cur = w.cur /\ w'.applied = w.applied
          /\ w'.prune = w.prune
      BY <1>2, <1>11, <2>3 DEF PruneRead, Worker
    <3>2. RoundLedger' = RoundLedger
      BY <2>1, <3>1 DEF RoundLedger
    <3> QED
      BY <1>1, <2>1, <3>1, <3>2, GoesOn
  <2> QED
    BY <2>2, <2>3
<1> QED
  BY <1>3, <1>4, <1>5, <1>6, <1>7, <1>8, <1>9, <1>10, <1>11, StatusMaps,
     FinalizerMaps DEF Round

-----------------------------------------------------------------------------
(* The other steps.                                                        *)

\* A template that is not in work changes, and keeps its status.
LEMMA TemplateChanges ==
  ASSUME TypeInv, w' = w, NEW t \in Templates, ~InWork(t), NEW v \in Template,
         tmpl' = [tmpl EXCEPT ![t] = v], v.status = tmpl[t].status
  PROVE  /\ PhaseOf' = [PhaseOf EXCEPT ![t] = v.phase]
         /\ SpecOf' = [SpecOf EXCEPT ![t] = v.spec]
         /\ v.phase = tmpl[t].phase => UNCHANGED PhaseOf
         /\ v.spec = tmpl[t].spec => UNCHANGED SpecOf
         /\ UNCHANGED LedgerOf
<1>1. tmpl'[t] = v /\ \A u \in Templates \ {t} : tmpl'[u] = tmpl[u]
  BY DEF TypeInv, TypeOK
<1>2. \A u \in Templates : Ledger(u)' = Ledger(u)
  BY <1>1 DEF Ledger, InWork, TypeInv, TypeOK, Worker
<1>3. UNCHANGED LedgerOf
  BY <1>2 DEF LedgerOf
<1>4. \A u \in Templates :
        /\ tmpl'[u].phase = IF u = t THEN v.phase ELSE tmpl[u].phase
        /\ tmpl'[u].spec = IF u = t THEN v.spec ELSE tmpl[u].spec
  BY <1>1
<1>5. PhaseOf' = [PhaseOf EXCEPT ![t] = v.phase]
  BY <1>4 DEF PhaseOf
<1>6. SpecOf' = [SpecOf EXCEPT ![t] = v.spec]
  BY <1>4 DEF SpecOf
<1>7. v.phase = tmpl[t].phase => UNCHANGED PhaseOf
  BY <1>4 DEF PhaseOf
<1>8. v.spec = tmpl[t].spec => UNCHANGED SpecOf
  BY <1>4 DEF SpecOf
<1> QED
  BY <1>3, <1>5, <1>6, <1>7, <1>8

LEMMA WritesShow ==
  ASSUME GrantInv, Calm, NEW t \in Templates, NEW s \in Specs, w' = w, rb' = rb,
         ~InWork(t), Created(t, s) \/ Edited(t, s),
         tmpl[t].phase # "absent" => s.name = tmpl[t].spec.name
  PROVE  Shows
<1> USE DEF GrantInv, CalmInv, DeletionInv, VersionInv, TypeInv
<1>1. tmpl[t] \in Template
  BY DEF TypeOK
<1>2. CASE Created(t, s)
  <2> DEFINE v == NewTemplate(s, tmpl[t].rv + 1)
  <2>1. tmpl[t].phase = "absent" /\ tmpl' = [tmpl EXCEPT ![t] = v]
    BY <1>2 DEF Created, TypeOK
  <2>2. tmpl[t].rv + 1 \in Nat
    BY <1>1 DEF Template
  <2>3. v \in Template
    BY <2>2, NoTemplateType
  <2>4. v.phase = "live" /\ v.spec = s /\ v.status = tmpl[t].status
    BY <2>1 DEF NewTemplate, TemplateShape
  <2> HIDE DEF v
  <2>5. /\ PhaseOf' = [PhaseOf EXCEPT ![t] = "live"]
        /\ SpecOf' = [SpecOf EXCEPT ![t] = s] /\ UNCHANGED LedgerOf
    BY <2>1, <2>3, <2>4, TemplateChanges
  <2>6. Promise!Create(t)
    BY <2>1, <2>5, MapsToCreate
  <2> QED
    BY <2>6 DEF Shows, SettledStep
<1>3. CASE Edited(t, s)
  <2> DEFINE v == [tmpl[t] EXCEPT !.spec = s]
  <2>1. tmpl[t].phase # "absent" /\ tmpl' = [tmpl EXCEPT ![t] = NewVersion(v)]
    BY <1>1, <1>3 DEF Edited, TypeOK
  <2>2. /\ v \in Template /\ v.phase = tmpl[t].phase /\ v.spec = s
        /\ v.status = tmpl[t].status
    BY <1>1 DEF Template
  <2>3. /\ NewVersion(v) \in Template /\ NewVersion(v).phase = tmpl[t].phase
        /\ NewVersion(v).spec = s /\ NewVersion(v).status = tmpl[t].status
    BY <2>2, NewVersionType DEF NewVersion, Template
  <2> HIDE DEF v
  <2>4. /\ SpecOf' = [SpecOf EXCEPT ![t] = s] /\ UNCHANGED <<PhaseOf, LedgerOf>>
    BY <2>1, <2>3, TemplateChanges
  <2>5. Promise!Revise(t)
    BY <2>1, <2>4, MapsToRevise
  <2> QED
    BY <2>5 DEF Shows, SettledStep
<1> QED
  BY <1>2, <1>3

LEMMA DeletionShows ==
  ASSUME GrantInv, Calm, NEW t \in Templates, DeleteTemplate(t)
  PROVE  Shows
<1> USE DEF GrantInv, CalmInv, DeletionInv, VersionInv, TypeInv
<1> DEFINE x == IF tmpl[t].fin THEN "deleting" ELSE "absent"
           v == [tmpl[t] EXCEPT !.phase = x]
<1>1. tmpl[t] \in Template
  BY DEF TypeOK
<1>2. ~InWork(t) /\ w' = w /\ rb' = rb /\ tmpl[t].phase = "live"
  BY Zenon DEF DeleteTemplate, Edit, Calm
<1>3. tmpl' = [tmpl EXCEPT ![t] = NewVersion(v)]
  BY <1>1 DEF DeleteTemplate, TypeOK
<1>4. /\ v \in Template /\ v.phase = x /\ v.spec = tmpl[t].spec
      /\ v.status = tmpl[t].status
  BY <1>1 DEF Template
<1>5. /\ NewVersion(v) \in Template /\ NewVersion(v).phase = x
      /\ NewVersion(v).spec = tmpl[t].spec /\ NewVersion(v).status = tmpl[t].status
  BY <1>4, NewVersionType DEF NewVersion, Template
<1>6. x = "deleting" \/ (x = "absent" /\ tmpl[t].status = {})
  BY DEF TemplateShape
<1> HIDE DEF v, x
<1>7. PhaseOf' = [PhaseOf EXCEPT ![t] = x] /\ UNCHANGED <<SpecOf, LedgerOf>>
  BY <1>2, <1>3, <1>5, TemplateChanges
<1>8. LedgerOf[t] = tmpl[t].status
  BY <1>2, IdleLedgers
<1>9. Promise!Delete(t)
  BY <1>2, <1>6, <1>7, <1>8, MapsToDelete
<1> QED
  BY <1>9 DEF Shows, SettledStep

LEMMA ReconcileShows ==
  ASSUME GrantInv, Calm, NEW t \in Templates, Reconcile(t)
  PROVE  Shows
<1> USE DEF GrantInv, CalmInv, DeletionInv, VersionInv, TypeInv
<1>1. w.pc = "idle" /\ rb' = rb /\ tmpl[t] \in Template
  BY DEF Reconcile, AddFinalizer, Begin, cluster, TypeOK
<1>2. CASE AddFinalizer(t)
  <2> DEFINE v == [tmpl[t] EXCEPT !.fin = TRUE]
  <2>1. w' = w /\ tmpl' = [tmpl EXCEPT ![t] = NewVersion(v)]
    BY <1>1, <1>2 DEF AddFinalizer, TypeOK
  <2>2. /\ v \in Template /\ v.phase = tmpl[t].phase /\ v.spec = tmpl[t].spec
        /\ v.status = tmpl[t].status
    BY <1>1 DEF Template
  <2>3. /\ NewVersion(v) \in Template /\ NewVersion(v).phase = tmpl[t].phase
        /\ NewVersion(v).spec = tmpl[t].spec /\ NewVersion(v).status = tmpl[t].status
    BY <2>2, NewVersionType DEF NewVersion, Template
  <2> HIDE DEF v
  <2>4. UNCHANGED <<PhaseOf, SpecOf, LedgerOf>>
    BY <1>1, <2>1, <2>3, TemplateChanges DEF InWork
  <2> QED
    BY <1>1, <2>4, Stutters DEF Shows
<1>3. CASE Begin(t)
  <2>1. /\ w'.pc \in {"list", "prune"} /\ w'.cur = t /\ w'.applied = {}
        /\ w'.pc = "prune" => w'.prune = tmpl[t].status
        /\ UNCHANGED tmpl
    BY <1>3 DEF Begin, Enter, Idle, cluster
  <2>2. \A u \in Templates : Ledger(u)' = Ledger(u)
    BY <1>1, <2>1 DEF Ledger, InWork
  <2>3. UNCHANGED <<PhaseOf, SpecOf, LedgerOf>>
    BY <2>1, <2>2 DEF PhaseOf, SpecOf, LedgerOf
  <2> QED
    BY <1>1, <2>3, Stutters DEF Shows
<1> QED
  BY <1>2, <1>3 DEF Reconcile

LEMMA EnvironmentShows ==
  ASSUME GrantInv, Calm, OpenEnvironment
  PROVE  Shows
<1> USE DEF GrantInv, CalmInv, DeletionInv, VersionInv, TypeInv
<1>0. ~FailsElsewhere
  BY Zenon DEF FailsElsewhere, Calm
<1>1. ASSUME NEW t \in Templates, NEW s \in Specs,
             CreateTemplate(t, s) \/ EditTemplate(t, s) \/ TemplateWritten(t, s)
      PROVE  Shows
  <2>1. w' = w /\ rb' = rb /\ ~InWork(t)
    BY <1>1, Zenon DEF CreateTemplate, EditTemplate, TemplateWritten, Edit, Calm
  <2>2. Created(t, s) \/ Edited(t, s)
    BY <1>1, Zenon DEF CreateTemplate, EditTemplate, TemplateWritten
  <2>3. tmpl[t].phase # "absent" => s.name = tmpl[t].spec.name
    BY <1>1, Zenon DEF CreateTemplate, Created, EditTemplate, TemplateWritten, Calm
  <2> QED
    BY <2>1, <2>2, <2>3, WritesShow
<1>2. ASSUME UNCHANGED <<tmpl, w>>
      PROVE  UNCHANGED <<PhaseOf, SpecOf, LedgerOf>>
  BY <1>2 DEF PhaseOf, SpecOf, LedgerOf, Ledger, InWork
<1>3. ASSUME NEW o \in Orgs, NEW l \in Labels, Relabel(o, l)
      PROVE  Shows
  BY <1>2, <1>3, Stutters DEF Relabel, Edit, Shows
<1>4. ASSUME NEW n \in Namespaces, ChangeNamespace(n)
      PROVE  Shows
  <2>1. UNCHANGED <<PhaseOf, SpecOf, LedgerOf>>
    BY <1>2, <1>4 DEF ChangeNamespace, Edit
  <2>2. CASE rb' = rb
    BY <2>1, <2>2, Stutters DEF Shows
  <2>3. CASE rb' = [rb EXCEPT ![n] = [nm \in Names |-> NoBinding]]
    BY <2>1, <2>3, MapsToLoseBinding DEF Shows, SettledStep
  <2> QED
    BY <1>4, <2>2, <2>3 DEF ChangeNamespace
<1>5. ASSUME NEW n \in Namespaces, NEW nm \in Names, DropBinding(n, nm)
      PROVE  Shows
  <2>1. UNCHANGED <<PhaseOf, SpecOf, LedgerOf>>
    BY <1>2, <1>5 DEF DropBinding, Edit
  <2>2. Promise!LoseBinding(n)
    BY <1>5, <2>1, MapsToLoseBinding DEF DropBinding
  <2> QED
    BY <2>2 DEF Shows, SettledStep
<1>6. ASSUME NEW t \in Templates, DeleteTemplate(t)
      PROVE  Shows
  BY <1>6, DeletionShows
<1> QED
  BY <1>0, <1>1, <1>3, <1>4, <1>5, <1>6 DEF OpenEnvironment, Environment

LEMMA StepMaps ==
  ASSUME GrantInv, TypeInv', GrantsAsSpecified', [OpenNext]_vars
  PROVE  [Promise!Next]_(Promise!vars)
<1>1. CASE ~calm'
  <2>1. calm' = FALSE
    BY <1>1, Zenon DEF TypeInv, TypeOK
  <2> QED
    BY <2>1, MapsToDisturbed
<1>2. CASE calm'
  <2>1. Calm /\ ~Failure
    BY <1>2, Calmed, CalmLasts DEF GrantInv, CalmInv, DeletionInv, VersionInv
  <2>2. CASE UNCHANGED vars
    <3>1. UNCHANGED <<PhaseOf, SpecOf, LedgerOf, rb>>
      BY <2>2 DEF vars, PhaseOf, SpecOf, LedgerOf, Ledger, InWork
    <3> QED
      BY <2>1, <3>1, Stutters
  <2>3. CASE OpenNext
    <3>1. Shows
      BY <2>1, <2>3, RoundMaps, ReconcileShows, EnvironmentShows DEF OpenNext
    <3> QED
      BY <2>1, <3>1, SettledSteps DEF Shows
  <2> QED
    BY <2>2, <2>3
<1> QED
  BY <1>1, <1>2

LEMMA OpenImplements == OpenSpec => ImplementsPromise
<1>1. GrantInv => TypeInv
  BY DEF GrantInv, CalmInv, DeletionInv, VersionInv
<1>2. GrantInv /\ TypeInv' /\ GrantsAsSpecified' /\ [OpenNext]_vars
        => [Promise!Next]_(Promise!vars)
  BY StepMaps
<1> QED
  BY <1>1, <1>2, InitMaps, GrantInvariance, OpenGrants, PTL
  DEF OpenSpec, ImplementsPromise, Promise!Spec

\* As long as nothing disturbs the operator, what it does to bindings is what a
\* ledger kept in the statuses says: it enters a namespace with the binding, made
\* from the template as it is at that moment, and takes no binding away but that
\* of a namespace in the ledger; a template goes with an empty ledger only. What
\* calls fail and whatever users do, no binding is a mixture of versions.
THEOREM Implements == Spec => ImplementsPromise
BY OpenImplements, Opened

-----------------------------------------------------------------------------
(* What the ledger is good for.                                            *)

Keeps(t, nm, n) == PhaseOf[t] # "absent" /\ SpecOf[t].name = nm /\ n \in LedgerOf[t]

LEMMA AccountedMeans ==
  Promise!Accounted <=>
    (calm => \A n \in Namespaces, nm \in Names :
               rb[n][nm] # NoBinding => \E t \in Templates : Keeps(t, nm, n))
BY DEF Promise!Accounted, Keeps, PhaseOf, SpecOf, LedgerOf, Ledger, InWork

\* A step of the ledger takes a namespace out only with the binding.
LEMMA Keeping ==
  ASSUME TypeInv, SettledStep, NEW n \in Namespaces, NEW nm \in Names,
         rb'[n][nm] # NoBinding, NEW u \in Templates, Keeps(u, nm, n)
  PROVE  Keeps(u, nm, n)'
<1> USE DEF Keeps
<1>1. rb \in [Namespaces -> [Names -> Binding \cup {NoBinding}]]
  BY DEF TypeInv, TypeOK
<1>2. ASSUME NEW t \in Templates, Promise!Create(t)
      PROVE  Keeps(u, nm, n)'
  BY <1>2 DEF Promise!Create, Promise!Is, PhaseOf, SpecOf, LedgerOf, Ledger, InWork
<1>3. ASSUME NEW t \in Templates, Promise!Revise(t)
      PROVE  Keeps(u, nm, n)'
  BY <1>3 DEF Promise!Revise, PhaseOf, SpecOf, LedgerOf, Ledger, InWork
<1>4. ASSUME NEW t \in Templates, Promise!Delete(t)
      PROVE  Keeps(u, nm, n)'
  BY <1>4 DEF Promise!Delete, Promise!Is, PhaseOf, SpecOf, LedgerOf, Ledger, InWork
<1>5. ASSUME NEW t \in Templates, Promise!LetGo(t)
      PROVE  Keeps(u, nm, n)'
  BY <1>5 DEF Promise!LetGo, Promise!Is, PhaseOf, SpecOf, LedgerOf, Ledger, InWork
<1>6. ASSUME NEW t \in Templates, NEW m \in Namespaces,
             Promise!Grant(t, m) \/ Promise!Confirm(t, m)
      PROVE  Keeps(u, nm, n)'
  <2>1. /\ LedgerOf' = [LedgerOf EXCEPT ![t] = @ \cup {m}]
        /\ UNCHANGED <<PhaseOf, SpecOf>>
    BY <1>6 DEF Promise!Grant, Promise!Confirm, Promise!Enter, PhaseOf, SpecOf,
                LedgerOf, Ledger, InWork
  <2>2. LedgerOf = [v \in Templates |-> LedgerOf[v]]
    BY DEF LedgerOf
  <2> QED
    BY <2>1, <2>2
<1>7. ASSUME NEW t \in Templates, NEW m \in Namespaces, Promise!Revoke(t, m)
      PROVE  Keeps(u, nm, n)'
  <2>1. /\ rb' = [rb EXCEPT ![m][SpecOf[t].name] = NoBinding]
        /\ LedgerOf' = [LedgerOf EXCEPT ![t] = @ \ {m}]
        /\ UNCHANGED <<PhaseOf, SpecOf>>
    BY <1>7 DEF Promise!Revoke, Promise!Put, Promise!Strike, PhaseOf, SpecOf, LedgerOf,
                Ledger, InWork
  <2>2. ~(n = m /\ nm = SpecOf[t].name)
    BY <1>1, <2>1
  <2>3. LedgerOf = [v \in Templates |-> LedgerOf[v]]
    BY DEF LedgerOf
  <2> QED
    BY <2>1, <2>2, <2>3
<1>8. ASSUME NEW m \in Namespaces, Promise!LoseBinding(m)
      PROVE  Keeps(u, nm, n)'
  BY <1>8 DEF Promise!LoseBinding, PhaseOf, SpecOf, LedgerOf, Ledger, InWork
<1> QED
  BY <1>2, <1>3, <1>4, <1>5, <1>6, <1>7, <1>8 DEF SettledStep

\* A step of the ledger makes a binding only where it enters the namespace.
LEMMA Entering ==
  ASSUME TypeInv, SettledStep, NEW n \in Namespaces, NEW nm \in Names,
         rb'[n][nm] # NoBinding, rb[n][nm] = NoBinding
  PROVE  \E t \in Templates : Keeps(t, nm, n)'
<1>1. rb \in [Namespaces -> [Names -> Binding \cup {NoBinding}]]
  BY DEF TypeInv, TypeOK
<1>2. ASSUME NEW t \in Templates, NEW m \in Namespaces, Promise!Grant(t, m)
      PROVE  Keeps(t, nm, n)'
  <2>1. /\ PhaseOf[t] = "live" /\ UNCHANGED <<PhaseOf, SpecOf>>
        /\ rb' = [rb EXCEPT ![m][SpecOf[t].name] = rb'[m][SpecOf[t].name]]
        /\ LedgerOf' = [LedgerOf EXCEPT ![t] = @ \cup {m}]
    <3>1. /\ PhaseOf[t] = "live" /\ UNCHANGED <<PhaseOf, SpecOf>>
          /\ LedgerOf' = [LedgerOf EXCEPT ![t] = @ \cup {m}]
      BY <1>2 DEF Promise!Grant, Promise!Enter, PhaseOf, SpecOf, LedgerOf, Ledger, InWork
    <3>2. SpecOf[t].name \in Names
      BY SpecAssumption DEF SpecOf, TypeInv, TypeOK, Template
    <3>3. \E b : rb' = [rb EXCEPT ![m][SpecOf[t].name] = b]
      BY <1>2 DEF Promise!Grant, Promise!Put, SpecOf
    <3> QED
      BY <1>1, <3>1, <3>2, <3>3
  <2>2. n = m /\ nm = SpecOf[t].name
    BY <1>1, <2>1
  <2>3. LedgerOf = [v \in Templates |-> LedgerOf[v]]
    BY DEF LedgerOf
  <2> QED
    BY <2>1, <2>2, <2>3 DEF Keeps
<1>3. ASSUME rb' = rb
      PROVE  FALSE
  BY <1>3
<1>4. ASSUME NEW t \in Templates, NEW m \in Namespaces, Promise!Revoke(t, m)
      PROVE  FALSE
  <2>1. rb' = [rb EXCEPT ![m][SpecOf[t].name] = NoBinding]
    BY <1>4 DEF Promise!Revoke, Promise!Put, SpecOf
  <2> QED
    BY <1>1, <2>1
<1>5. ASSUME NEW m \in Namespaces, Promise!LoseBinding(m)
      PROVE  FALSE
  BY <1>1, <1>5 DEF Promise!LoseBinding
<1> QED
  BY <1>2, <1>3, <1>4, <1>5
  DEF SettledStep, Promise!Create, Promise!Revise, Promise!Delete, Promise!LetGo,
      Promise!Confirm

LEMMA AccountedStays ==
  ASSUME TypeInv, Promise!Accounted, [Promise!Next]_(Promise!vars)
  PROVE  Promise!Accounted'
<1>1. SUFFICES ASSUME calm', NEW n \in Namespaces, NEW nm \in Names, rb'[n][nm] # NoBinding
               PROVE  \E t \in Templates : Keeps(t, nm, n)'
  BY DEF Promise!Accounted, Keeps, PhaseOf, SpecOf, LedgerOf, Ledger, InWork
<1>2. CASE UNCHANGED Promise!vars
  <2>1. UNCHANGED <<PhaseOf, SpecOf, LedgerOf, rb>> /\ calm' = calm
    BY <1>2, Zenon DEF Promise!vars, PhaseOf, SpecOf, LedgerOf
  <2>2. calm
    BY <1>1, <2>1, Zenon
  <2>3. rb[n][nm] # NoBinding
    BY <1>1, <2>1
  <2>4. PICK t \in Templates : Keeps(t, nm, n)
    BY <2>2, <2>3, AccountedMeans
  <2> QED
    BY <2>1, <2>4 DEF Keeps
<1>3. CASE Promise!Disturbed
  BY <1>1, <1>3, Zenon DEF Promise!Disturbed
<1>4. CASE Promise!Settled
  <2>1. calm /\ SettledStep
    BY <1>4 DEF Promise!Settled, SettledStep
  <2>2. CASE rb[n][nm] = NoBinding
    BY <1>1, <2>1, <2>2, Entering
  <2>3. CASE rb[n][nm] # NoBinding
    <3>1. PICK t \in Templates : Keeps(t, nm, n)
      BY <2>1, <2>3, AccountedMeans
    <3> QED
      BY <1>1, <2>1, <3>1, Keeping
  <2> QED
    BY <2>2, <2>3
<1> QED
  BY <1>2, <1>3, <1>4 DEF Promise!Next

\* A ledger leaves no binding without a template that will strike it out, which
\* is what BindingsAccounted says of statuses and rounds.
THEOREM LedgerAccounts == Spec => []Promise!Accounted
<1>1. Init => Promise!Accounted
  <2>1. Init => \A n \in Namespaces, nm \in Names : rb[n][nm] = NoBinding
    BY DEF Init
  <2> QED
    BY <2>1, AccountedMeans
<1>2. TypeInv /\ Promise!Accounted /\ [Promise!Next]_(Promise!vars) => Promise!Accounted'
  BY AccountedStays
<1> QED
  BY <1>1, <1>2, TypeInvariance, Opened, Implements, PTL
  DEF Spec, ImplementsPromise, Promise!Spec
=============================================================================
