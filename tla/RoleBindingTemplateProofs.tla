---------------------- MODULE RoleBindingTemplateProofs ----------------------
(***************************************************************************)
(* Proofs about the RoleBindingTemplate controller, for every set of       *)
(* templates, namespaces and specs and every bound.                        *)
(***************************************************************************)
EXTENDS RoleBindingTemplate, TLAPS

-----------------------------------------------------------------------------
(* The controller among others. What is proved holds as well when somebody   *)
(* else in the operator writes templates (as fluxauth does), as long as a    *)
(* write of a template in work is not called calm.                           *)

TemplateWritten(t, s) ==
  /\ Created(t, s) \/ Edited(t, s)
  /\ calm' => /\ calm /\ ~InWork(t)
              /\ tmpl[t].phase # "absent" => s.name = tmpl[t].spec.name
  /\ calm' \in BOOLEAN /\ faults' \in Nat
  /\ UNCHANGED <<rb, ns, orgLabel, w, edits>>

\* A failure elsewhere, with or without a restart.
FailsElsewhere ==
  /\ w' = w \/ w' = Idle
  /\ calm' = FALSE /\ faults' \in Nat
  /\ UNCHANGED <<tmpl, rb, ns, orgLabel, edits>>

OpenEnvironment ==
  \/ Environment \/ FailsElsewhere
  \/ \E t \in Templates, s \in Specs : TemplateWritten(t, s)

OpenNext ==
  Round \/ (\E t \in Templates : Reconcile(t)) \/ Failure \/ OpenEnvironment

OpenSpec == Init /\ [][OpenNext]_vars

LEMMA Opened == Spec => OpenSpec
<1>1. [Next]_vars => [OpenNext]_vars
  BY DEF Next, OpenNext, OpenEnvironment
<1> QED
  BY <1>1, PTL DEF Spec, OpenSpec
-----------------------------------------------------------------------------
(* Types. *)

\* The placeholder of absent templates is a template.
LEMMA NoTemplateType == NoTemplate \in Template /\ \A s \in Specs, v \in Nat : NewTemplate(s, v) \in Template
BY SpecAssumption DEF NoTemplate, NewTemplate, Template

LEMMA NewVersionType ==
  ASSUME NEW obj \in Template
  PROVE  /\ NewVersion(obj) \in Template
         /\ NewVersion(obj).rv = obj.rv + 1
BY DEF NewVersion, Template

\* The idle worker is a worker.
LEMMA IdleType == Idle \in Worker
BY NoTemplateType, NameAssumption DEF Idle, Worker, AnyTemplate, AnyNamespace

\* What a template asks for is a legal binding once the role reference is
\* complete.
LEMMA DesiredType ==
  ASSUME NEW s \in Specs, NEW n \in Namespaces
  PROVE  /\ Desired(s, n).role = s.role
         /\ Desired(s, n).subjects \in SUBSET Subject
         /\ s.role # BadRole => Desired(s, n) \in Binding
<1>1. ASSUME NEW u \in SubjectSpec PROVE Resolved(u, n) \in Subject
  BY NameAssumption DEF SubjectSpec, Resolved, Subject
<1>2. s.subjects \subseteq SubjectSpec /\ s.role \in Roles \cup {BadRole}
  BY SpecAssumption
<1>3. Desired(s, n).subjects \in SUBSET Subject
  BY <1>1, <1>2 DEF Desired
<1> QED
  BY <1>2, <1>3 DEF Desired, Binding

\* What is left in a protected namespace by cleanSubjects.
LEMMA DesiredProtected ==
  ASSUME NEW s \in Specs, NEW n \in ProtectedNamespaces,
         NEW sub \in Desired(s, n).subjects
  PROVE  sub.kind = "ServiceAccount" /\ sub.ns \in {FluxNamespace, n}
BY DEF Desired, Valid

-----------------------------------------------------------------------------
(* Type correctness, together with the content of bindings. *)

\* While the worker is between the check of the role reference and the end of
\* its round, the role reference is complete.
RoleChecked ==
  w.pc = "write" \/ (w.pc = "apply" /\ w.scope # {}) => w.snap.spec.role # BadRole

\* Rounds of a template keep to its place in the types.
LEMMA EnterType ==
  ASSUME NEW t \in Templates, NEW snap \in Template, NEW r \in Nat
  PROVE  Enter(t, snap, r) \in Worker
<1>1. snap.status \subseteq Namespaces
  BY DEF Template
<1> QED
  BY <1>1, IdleType DEF Enter, Worker, Idle

\* A namespace is struck off the worker's list.
LEMMA DoneType ==
  ASSUME w \in Worker, NEW n \in Namespaces, NEW ok \in BOOLEAN
  PROVE  Done(n, ok) \in Worker
BY DEF Done, Worker
TypeInv == TypeOK /\ RoleChecked

\* A write leaves legal bindings.
LEMMA WrittenType ==
  ASSUME TypeOK, NEW n \in Namespaces, w.snap.spec.role # BadRole
  PROVE  Written(n) \in [Namespaces -> [Names -> Binding \cup {NoBinding}]]
<1>1. Want(n) \in Binding
  BY DesiredType DEF Want, TypeOK, Worker, Template
<1> QED
  BY <1>1 DEF Written, TypeOK

LEMMA RemovedType ==
  ASSUME TypeOK, NEW n \in Namespaces
  PROVE  Removed(n) \in [Namespaces -> [Names -> Binding \cup {NoBinding}]]
BY DEF Removed, TypeOK

LEMMA StatusWrittenType ==
  ASSUME TypeOK
  PROVE  StatusWritten \in [Templates -> Template]
<1>1. tmpl[w.cur] \in Template /\ w.applied \subseteq Namespaces
  BY DEF TypeOK, Worker
<1>2. [tmpl[w.cur] EXCEPT !.status = w.applied] \in Template
  BY <1>1 DEF Template
<1> QED
  BY <1>1, <1>2, NewVersionType DEF StatusWritten, TypeOK

\* The steps of a round keep the types and the role check.
LEMMA RoundType == TypeInv /\ Round => TypeInv'
<1> SUFFICES ASSUME TypeInv, Round PROVE TypeInv'
  OBVIOUS
<1> USE DEF TypeInv
<1>1. CASE ListScope
  BY <1>1 DEF ListScope, TypeOK, RoleChecked, Worker, Listed, cluster, budget
<1>2. CASE ScopeRead
  BY <1>2 DEF ScopeRead, TypeOK, RoleChecked, Worker, cluster, budget
<1>3. CASE WriteBinding
  <2>1. w.at \in Namespaces /\ w.snap.spec.role # BadRole
    BY <1>3 DEF WriteBinding, TypeOK, RoleChecked, Worker
  <2>2. w' \in Worker
    BY <1>3, <2>1, DoneType DEF WriteBinding, TypeOK
  <2>3. rb' \in [Namespaces -> [Names -> Binding \cup {NoBinding}]]
    BY <1>3, <2>1, WrittenType DEF WriteBinding, TypeOK
  <2>4. RoleChecked'
    BY <1>3, <2>1 DEF WriteBinding, Done, RoleChecked, TypeOK, Worker
  <2> QED
    BY <1>3, <2>2, <2>3, <2>4 DEF WriteBinding, TypeOK, budget
<1>4. CASE ApplyDone
  BY <1>4 DEF ApplyDone, TypeOK, RoleChecked, Worker, Template, cluster, budget
<1>5. CASE PruneDelete
  <2>1. w' \in Worker /\ RoleChecked'
    BY <1>5 DEF PruneDelete, TypeOK, RoleChecked, Worker
  <2>2. rb' \in [Namespaces -> [Names -> Binding \cup {NoBinding}]]
    BY <1>5, RemovedType DEF PruneDelete, TypeOK, Worker
  <2> QED
    BY <1>5, <2>1, <2>2 DEF PruneDelete, TypeOK, budget
<1>6. CASE UpdateStatus
  <2>1. w' \in Worker /\ RoleChecked'
    BY <1>6, IdleType DEF UpdateStatus, RoleChecked, Idle
  <2> QED
    BY <1>6, <2>1, StatusWrittenType DEF UpdateStatus, TypeOK, budget
<1>7. CASE StatusConflict
  BY <1>7 DEF StatusConflict, TypeOK, RoleChecked, Worker, cluster, budget
<1>8. CASE RemoveFinalizer
  <2>1. w' \in Worker /\ RoleChecked'
    BY <1>8, IdleType DEF RemoveFinalizer, RoleChecked, Idle
  <2>2. tmpl' \in [Templates -> Template]
    <3>1. tmpl[w.cur] \in Template
      BY DEF TypeOK, Worker
    <3>2. [tmpl[w.cur] EXCEPT !.phase = "absent", !.fin = FALSE, !.status = {}]
            \in Template
      BY <3>1 DEF Template
    <3> QED
      BY <1>8, <3>2, NewVersionType DEF RemoveFinalizer, TypeOK
  <2> QED
    BY <1>8, <2>1, <2>2 DEF RemoveFinalizer, TypeOK, budget
<1>9. CASE Retry
  <2>1. w' \in Worker
    <3>1. w.cur \in Templates /\ w.snap \in Template /\ w.retries + 1 \in Nat
      BY DEF TypeOK, Worker
    <3> QED
      BY <1>9, <3>1, EnterType DEF Retry
  <2>2. RoleChecked'
    BY <1>9 DEF Retry, RoleChecked, Enter, Idle
  <2> QED
    BY <1>9, <2>1, <2>2 DEF Retry, TypeOK, cluster, budget
<1>10. CASE GiveUp
  BY <1>10, IdleType DEF GiveUp, TypeOK, RoleChecked, Idle, cluster, budget
<1>11. ASSUME NEW n \in Namespaces, CheckNamespace(n)
       PROVE  TypeInv'
  BY <1>11 DEF CheckNamespace, TypeOK, RoleChecked, Worker, cluster, budget
<1>12. ASSUME NEW n \in Namespaces, ReadBinding(n)
       PROVE  TypeInv'
  <2>1. w.snap.spec.role # BadRole
    BY <1>12 DEF ReadBinding, RoleChecked
  <2>2. \/ w' = Done(n, TRUE)
        \/ w' = Done(n, FALSE)
        \/ w' = [w EXCEPT !.pc = "write", !.at = n,
                          !.seen = rb[n][BindingName] # NoBinding]
    BY <1>12, Zenon DEF ReadBinding
  <2>3. w' \in Worker
    <3>1. [w EXCEPT !.pc = "write", !.at = n,
                    !.seen = rb[n][BindingName] # NoBinding] \in Worker
      BY DEF TypeOK, Worker
    <3> QED
      BY <2>2, <3>1, DoneType DEF TypeOK
  <2>4. RoleChecked'
    BY <2>1, <2>2 DEF RoleChecked, Done, TypeOK, Worker
  <2> QED
    BY <1>12, <2>3, <2>4 DEF ReadBinding, TypeOK, cluster, budget
<1>13. ASSUME NEW n \in Namespaces, PruneRead(n)
       PROVE  TypeInv'
  BY <1>13 DEF PruneRead, TypeOK, RoleChecked, Worker, cluster, budget
<1> QED
  BY <1>1, <1>2, <1>3, <1>4, <1>5, <1>6, <1>7, <1>8, <1>9, <1>10, <1>11, <1>12,
     <1>13 DEF Round

\* So do the first steps of a round.
LEMMA ReconcileType ==
  ASSUME TypeInv, NEW t \in Templates, Reconcile(t)
  PROVE  TypeInv'
<1> USE DEF TypeInv
<1>1. CASE AddFinalizer(t)
  <2>1. [tmpl[t] EXCEPT !.fin = TRUE] \in Template
    BY DEF TypeOK, Template
  <2> QED
    BY <1>1, <2>1, NewVersionType DEF AddFinalizer, TypeOK, RoleChecked, budget
<1>2. CASE Begin(t)
  <2>1. w' \in Worker
    BY <1>2, EnterType DEF Begin, TypeOK
  <2>2. RoleChecked'
    BY <1>2 DEF Begin, RoleChecked, Enter, Idle
  <2> QED
    BY <1>2, <2>1, <2>2 DEF Begin, TypeOK, cluster, budget
<1> QED
  BY <1>1, <1>2 DEF Reconcile

\* What every failure does to the variables it shares with the others.
LEMMA FaultType ==
  ASSUME TypeOK, Fault
  PROVE  /\ ns' = ns /\ orgLabel' = orgLabel /\ edits' = edits
         /\ faults' \in Nat /\ calm' \in BOOLEAN /\ calm' = FALSE
<1>1. calm' \in BOOLEAN /\ calm' = FALSE
  BY Zenon DEF Fault
<1> QED
  BY <1>1 DEF Fault, TypeOK

\* So do failing calls and restarts.
LEMMA FailureType == TypeInv /\ Failure => TypeInv'
<1> SUFFICES ASSUME TypeInv, Failure PROVE TypeInv'
  OBVIOUS
<1> USE DEF TypeInv
<1>1. CASE CallFails
  <2>1. w' \in Worker /\ RoleChecked'
    BY <1>1 DEF CallFails, TypeOK, RoleChecked, Worker
  <2>2. rb' \in [Namespaces -> [Names -> Binding \cup {NoBinding}]]
    BY <1>1, RemovedType DEF CallFails, TypeOK, Worker
  <2>3. tmpl' \in [Templates -> Template]
    BY <1>1, StatusWrittenType DEF CallFails, TypeOK
  <2> QED
    BY <1>1, <2>1, <2>2, <2>3, FaultType DEF CallFails, TypeOK
<1>2. ASSUME NEW n \in Namespaces, CheckFails(n)
      PROVE  TypeInv'
  BY <1>2, FaultType DEF CheckFails, TypeOK, RoleChecked, Worker
<1>3. ASSUME NEW n \in Namespaces, ApplyFails(n)
      PROVE  TypeInv'
  <2>1. w' \in Worker
    BY <1>3, DoneType DEF ApplyFails, TypeOK
  <2>2. w.snap.spec.role # BadRole
    BY <1>3 DEF ApplyFails, RoleChecked
  <2>3. RoleChecked'
    BY <1>3, <2>2 DEF ApplyFails, Done, RoleChecked, TypeOK, Worker
  <2>4. rb' \in [Namespaces -> [Names -> Binding \cup {NoBinding}]]
    BY <1>3, <2>2, WrittenType DEF ApplyFails, TypeOK
  <2> QED
    BY <1>3, <2>1, <2>3, <2>4, FaultType DEF ApplyFails, TypeOK
<1>4. CASE Crash
  BY <1>4, IdleType, FaultType DEF Crash, TypeOK, RoleChecked, Idle
<1> QED
  BY <1>1, <1>2, <1>3, <1>4 DEF Failure, FailingCall

\* So do the steps of users and of the namespace lifecycle.
LEMMA EnvironmentType == TypeInv /\ OpenEnvironment => TypeInv'
<1> SUFFICES ASSUME TypeInv, OpenEnvironment PROVE TypeInv'
  OBVIOUS
<1> USE DEF TypeInv, Edit
<1>1. ASSUME NEW t \in Templates, NEW s \in Specs, Created(t, s)
      PROVE  tmpl' \in [Templates -> Template]
  <2>1. tmpl[t].rv + 1 \in Nat
    BY DEF TypeOK, Template
  <2>2. NewTemplate(s, tmpl[t].rv + 1) \in Template
    BY <2>1, NoTemplateType
  <2> QED
    BY <1>1, <2>2 DEF Created, TypeOK
<1>2. ASSUME NEW t \in Templates, NEW s \in Specs, Edited(t, s)
      PROVE  tmpl' \in [Templates -> Template]
  <2>1. [tmpl[t] EXCEPT !.spec = s] \in Template
    BY DEF TypeOK, Template
  <2> QED
    BY <1>2, <2>1, NewVersionType DEF Edited, TypeOK
<1>8. ASSUME NEW t \in Templates, NEW s \in Specs,
             CreateTemplate(t, s) \/ EditTemplate(t, s)
      PROVE  TypeInv'
  <2>1. tmpl' \in [Templates -> Template]
    BY <1>1, <1>2, <1>8 DEF CreateTemplate, EditTemplate
  <2>2. /\ calm' \in BOOLEAN /\ w' = w /\ edits' = edits + 1 /\ faults' = faults
        /\ UNCHANGED <<rb, ns, orgLabel>>
    BY <1>8, Zenon DEF CreateTemplate, EditTemplate
  <2> QED
    BY <2>1, <2>2 DEF TypeOK, RoleChecked
<1>9. ASSUME NEW t \in Templates, NEW s \in Specs, TemplateWritten(t, s)
      PROVE  TypeInv'
  <2>1. tmpl' \in [Templates -> Template]
    BY <1>1, <1>2, <1>9 DEF TemplateWritten
  <2> QED
    BY <1>9, <2>1 DEF TemplateWritten, TypeOK, RoleChecked
<1>10. CASE FailsElsewhere
  <2>1. w' \in Worker /\ RoleChecked'
    <3>1. CASE w' = w
      BY <1>10, <3>1 DEF FailsElsewhere, TypeOK, RoleChecked
    <3>2. CASE w' = Idle
      BY <3>2, IdleType DEF RoleChecked, Idle
    <3> QED
      BY <1>10, <3>1, <3>2 DEF FailsElsewhere
  <2> QED
    BY <1>10, <2>1 DEF FailsElsewhere, TypeOK
<1>3. ASSUME NEW t \in Templates, DeleteTemplate(t)
      PROVE  TypeInv'
  <2>1. \A x \in {"deleting", "absent"} : [tmpl[t] EXCEPT !.phase = x] \in Template
    BY DEF TypeOK, Template
  <2> QED
    BY <1>3, <2>1, NewVersionType DEF DeleteTemplate, TypeOK, RoleChecked
<1>4. ASSUME NEW o \in Orgs, NEW l \in Labels, Relabel(o, l)
      PROVE  TypeInv'
  BY <1>4 DEF Relabel, TypeOK, RoleChecked
<1>5. ASSUME NEW n \in Namespaces, ChangeNamespace(n)
      PROVE  TypeInv'
  BY <1>5 DEF ChangeNamespace, TypeOK, RoleChecked
<1>6. ASSUME NEW n \in Namespaces, NEW nm \in Names, DropBinding(n, nm)
      PROVE  TypeInv'
  BY <1>6 DEF DropBinding, TypeOK, RoleChecked
<1> QED
  BY <1>3, <1>4, <1>5, <1>6, <1>8, <1>9, <1>10 DEF OpenEnvironment, Environment

LEMMA TypeStep == TypeInv /\ [OpenNext]_vars => TypeInv'
<1>1. TypeInv /\ UNCHANGED vars => TypeInv'
  BY DEF TypeInv, TypeOK, RoleChecked, vars
<1> QED
  BY <1>1, RoundType, ReconcileType, FailureType, EnvironmentType DEF OpenNext

LEMMA TypeInit == Init => TypeInv
BY NoTemplateType, IdleType DEF Init, TypeInv, TypeOK, RoleChecked, Idle

LEMMA TypeInvariance == OpenSpec => []TypeInv
BY TypeInit, TypeStep, PTL DEF OpenSpec

\* Whatever users, faults and the namespace lifecycle do, every variable keeps
\* its type, and every service account in a binding has a namespace.
THEOREM TypeCorrect == Spec => []TypeOK
<1>1. TypeInv => TypeOK
  BY DEF TypeInv
<1> QED
  BY <1>1, TypeInvariance, Opened, PTL
-----------------------------------------------------------------------------
(* The content of bindings. *)

\* A binding changes only by going, or by the write the worker is at.
Overwritten(n, nm) ==
  w.pc = "write" /\ n = w.at /\ nm = BindingName /\ rb'[n][nm] = Want(n)

BindingStep ==
  \A n \in Namespaces, nm \in Names :
    rb'[n][nm] = rb[n][nm] \/ rb'[n][nm] = NoBinding \/ Overwritten(n, nm)

LEMMA BindingSteps == TypeInv /\ [OpenNext]_vars => BindingStep
<1> SUFFICES ASSUME TypeInv, [OpenNext]_vars PROVE BindingStep
  OBVIOUS
<1> USE DEF TypeInv
<1>1. CASE UNCHANGED rb
  BY <1>1 DEF BindingStep
<1>2. CASE w.pc = "write" /\ rb' = Written(w.at)
  BY <1>2 DEF BindingStep, Overwritten, Written, TypeOK, Worker
<1>3. CASE rb' = Removed(w.at)
  BY <1>3 DEF BindingStep, Removed, TypeOK, Worker
<1>4. ASSUME NEW n \in Namespaces, ChangeNamespace(n)
      PROVE  BindingStep
  BY <1>4 DEF ChangeNamespace, BindingStep, TypeOK
<1>5. ASSUME NEW n \in Namespaces, NEW nm \in Names, DropBinding(n, nm)
      PROVE  BindingStep
  BY <1>5 DEF DropBinding, BindingStep, TypeOK
<1>6. CASE Round
  BY <1>1, <1>2, <1>3, <1>6
  DEF Round, ListScope, ScopeRead, WriteBinding, ApplyDone, PruneDelete,
      UpdateStatus, StatusConflict, RemoveFinalizer, Retry, GiveUp,
      CheckNamespace, ReadBinding, PruneRead, cluster
<1>7. ASSUME NEW t \in Templates, Reconcile(t)
      PROVE  BindingStep
  BY <1>1, <1>7 DEF Reconcile, AddFinalizer, Begin, cluster
<1>8. CASE Failure
  BY <1>1, <1>2, <1>3, <1>8
  DEF Failure, FailingCall, CallFails, CheckFails, ApplyFails, Crash
<1>9. CASE OpenEnvironment
  BY <1>1, <1>4, <1>5, <1>9
  DEF OpenEnvironment, Environment, TemplateWritten, FailsElsewhere, CreateTemplate,
      Created, EditTemplate, Edited, DeleteTemplate, Relabel
<1>10. CASE UNCHANGED vars
  BY <1>1, <1>10 DEF vars
<1> QED
  BY <1>6, <1>7, <1>8, <1>9, <1>10 DEF OpenNext

LEMMA OpenGrants == OpenSpec => []GrantsAsSpecified
<1>1. Init => GrantsAsSpecified
  BY DEF Init, GrantsAsSpecified
<1>2. TypeInv /\ GrantsAsSpecified /\ [OpenNext]_vars => GrantsAsSpecified'
  <2> SUFFICES ASSUME TypeInv, GrantsAsSpecified, BindingStep,
                      NEW n \in Namespaces, NEW nm \in Names,
                      rb'[n][nm] # NoBinding
               PROVE  \E s \in Specs : /\ s.name = nm /\ s.role # BadRole
                                       /\ rb'[n][nm] = Desired(s, n)
    BY BindingSteps DEF GrantsAsSpecified, Desired, Resolved, Valid
  <2>1. CASE rb'[n][nm] = rb[n][nm]
    BY <2>1 DEF GrantsAsSpecified
  <2>2. CASE Overwritten(n, nm)
    <3>1. w.snap.spec \in Specs /\ w.snap.spec.role # BadRole
      BY <2>2 DEF Overwritten, TypeInv, TypeOK, RoleChecked, Worker, Template
    <3> QED
      BY <2>2, <3>1 DEF Overwritten, BindingName, Want
  <2> QED
    BY <2>1, <2>2 DEF BindingStep
<1> QED
  BY <1>1, <1>2, TypeInvariance, PTL DEF OpenSpec

\* No binding joins the role of one version of a template with the subjects of
\* another: updates overwrite whole bindings with what a snapshot asks for, and
\* the role reference was checked before.
THEOREM GrantsSpecified == Spec => []GrantsAsSpecified
BY OpenGrants, Opened, PTL

\* Protected namespaces stay closed to groups and to the service accounts of
\* other namespaces, because every binding is what cleanSubjects leaves.
THEOREM ProtectedClosed == Spec => []ProtectedNamespacesClosed
<1>1. GrantsAsSpecified => ProtectedNamespacesClosed
  BY DesiredProtected, NameAssumption
  DEF GrantsAsSpecified, ProtectedNamespacesClosed
<1> QED
  BY <1>1, GrantsSpecified, PTL
-----------------------------------------------------------------------------
(* Rounds and the versions of templates. *)

\* A step ends the round, goes on with it, or begins one.
SameRound ==
  w.pc # "idle" /\ w'.pc # "idle" /\ w'.cur = w.cur /\ w'.snap = w.snap

RoundStep == w'.pc = "idle" \/ SameRound \/ \E t \in Templates : Begin(t)

LEMMA RoundSteps == TypeInv /\ [OpenNext]_vars => RoundStep
<1> SUFFICES ASSUME TypeInv, [OpenNext]_vars PROVE RoundStep
  OBVIOUS
<1> USE DEF TypeInv, RoundStep
<1>1. CASE w' = w
  BY <1>1 DEF SameRound
<1>2. CASE w' = Idle
  BY <1>2 DEF Idle
<1>3. CASE w.pc # "idle" /\ \E n \in Namespaces : w' = Done(n, TRUE) \/ w' = Done(n, FALSE)
  BY <1>3 DEF SameRound, Done, TypeOK, Worker
<1>4. CASE Round
  <2>1. CASE Retry
    BY <2>1 DEF Retry, Enter, Idle, SameRound
  <2>2. CASE WriteBinding
    <3>1. w' = Done(w.at, TRUE) \/ w' = Done(w.at, FALSE)
      BY <2>2, Zenon DEF WriteBinding, Done
    <3> QED
      BY <2>2, <3>1, <1>3 DEF WriteBinding, TypeOK, Worker
  <2>3. ASSUME NEW n \in Namespaces, ReadBinding(n)
        PROVE  RoundStep
    <3>1. \/ w' = Done(n, TRUE) \/ w' = Done(n, FALSE)
          \/ w' = [w EXCEPT !.pc = "write", !.at = n,
                            !.seen = rb[n][BindingName] # NoBinding]
      BY <2>3, Zenon DEF ReadBinding
    <3> QED
      BY <2>3, <3>1, <1>3 DEF ReadBinding, SameRound, TypeOK, Worker
  <2> QED
    BY <1>2, <1>4, <2>1, <2>2, <2>3
    DEF Round, ListScope, ScopeRead, ApplyDone, PruneDelete, UpdateStatus,
        StatusConflict, RemoveFinalizer, GiveUp, CheckNamespace, PruneRead,
        PruneDone, SameRound, TypeOK, Worker
<1>5. ASSUME NEW t \in Templates, Reconcile(t)
      PROVE  RoundStep
  BY <1>1, <1>5 DEF Reconcile, AddFinalizer
<1>6. CASE Failure
  BY <1>2, <1>3, <1>6
  DEF Failure, FailingCall, CallFails, CheckFails, ApplyFails, Crash, SameRound,
      TypeOK, Worker
<1>7. CASE OpenEnvironment
  BY <1>1, <1>2, <1>7
  DEF OpenEnvironment, Environment, TemplateWritten, FailsElsewhere, Edit,
      CreateTemplate, EditTemplate, DeleteTemplate, Relabel, ChangeNamespace,
      DropBinding
<1>8. CASE UNCHANGED vars
  BY <1>1, <1>8 DEF vars
<1> QED
  BY <1>4, <1>5, <1>6, <1>7, <1>8 DEF OpenNext

\* Every change of a template is a new version.
VersionStep ==
  \A t \in Templates : tmpl'[t] = tmpl[t] \/ tmpl'[t].rv = tmpl[t].rv + 1

LEMMA VersionSteps == TypeInv /\ [OpenNext]_vars => VersionStep
<1> SUFFICES ASSUME TypeInv, [OpenNext]_vars PROVE VersionStep
  OBVIOUS
<1> USE DEF TypeInv, VersionStep
<1>1. CASE tmpl' = tmpl
  BY <1>1
<1>2. ASSUME NEW u \in Templates, NEW v, v.rv = tmpl[u].rv,
             v \in Template, tmpl' = [tmpl EXCEPT ![u] = NewVersion(v)]
      PROVE  VersionStep
  BY <1>2, NewVersionType DEF TypeOK
<1>3. w.cur \in Templates /\ w.applied \subseteq Namespaces
  BY DEF TypeOK, Worker
<1>4. CASE tmpl' = StatusWritten
  <2>1. [tmpl[w.cur] EXCEPT !.status = w.applied] \in Template
    BY <1>3 DEF TypeOK, Template
  <2>2. [tmpl[w.cur] EXCEPT !.status = w.applied].rv = tmpl[w.cur].rv
    BY <1>3 DEF TypeOK, Template
  <2> QED
    BY <1>1, <1>2, <1>3, <1>4, <2>1, <2>2 DEF StatusWritten, TypeOK
<1>5. CASE RemoveFinalizer
  <2> DEFINE v == [tmpl[w.cur] EXCEPT !.phase = "absent", !.fin = FALSE, !.status = {}]
  <2>1. v \in Template /\ v.rv = tmpl[w.cur].rv
    BY <1>3 DEF TypeOK, Template
  <2>2. tmpl' = [tmpl EXCEPT ![w.cur] = NewVersion(v)]
    BY <1>5, <1>3 DEF RemoveFinalizer, TypeOK
  <2> QED
    BY <1>2, <1>3, <2>1, <2>2
<1>6. CASE Round
  BY <1>1, <1>4, <1>5, <1>6
  DEF Round, ListScope, ScopeRead, WriteBinding, ApplyDone, PruneDelete,
      UpdateStatus, StatusConflict, Retry, GiveUp,
      CheckNamespace, ReadBinding, PruneRead, cluster
<1>7. ASSUME NEW t \in Templates, Reconcile(t)
      PROVE  VersionStep
  <2>1. CASE AddFinalizer(t)
    <3> DEFINE v == [tmpl[t] EXCEPT !.fin = TRUE]
    <3>1. v \in Template /\ v.rv = tmpl[t].rv
      BY DEF TypeOK, Template
    <3>2. tmpl' = [tmpl EXCEPT ![t] = NewVersion(v)]
      BY <2>1 DEF AddFinalizer, TypeOK
    <3> QED
      BY <1>2, <3>1, <3>2
  <2> QED
    BY <1>1, <1>7, <2>1 DEF Reconcile, Begin, cluster
<1>8. CASE Failure
  BY <1>1, <1>4, <1>8 DEF Failure, FailingCall, CallFails, CheckFails, ApplyFails, Crash
<1>9. ASSUME NEW t \in Templates, NEW s \in Specs, Created(t, s)
      PROVE  VersionStep
  BY <1>9 DEF Created, NewTemplate, TypeOK
<1>10. ASSUME NEW t \in Templates, NEW s \in Specs, Edited(t, s)
       PROVE  VersionStep
  <2> DEFINE v == [tmpl[t] EXCEPT !.spec = s]
  <2>1. v \in Template /\ v.rv = tmpl[t].rv
    BY DEF TypeOK, Template
  <2>2. tmpl' = [tmpl EXCEPT ![t] = NewVersion(v)]
    BY <1>10 DEF Edited, TypeOK
  <2> QED
    BY <1>2, <2>1, <2>2
<1>11. ASSUME NEW t \in Templates, DeleteTemplate(t)
       PROVE  VersionStep
  <2>1. PICK x \in {"deleting", "absent"} :
          tmpl' = [tmpl EXCEPT ![t] = NewVersion([@ EXCEPT !.phase = x])]
    BY <1>11 DEF DeleteTemplate
  <2> DEFINE v == [tmpl[t] EXCEPT !.phase = x]
  <2>2. v \in Template /\ v.rv = tmpl[t].rv
    BY DEF TypeOK, Template
  <2>3. tmpl' = [tmpl EXCEPT ![t] = NewVersion(v)]
    BY <2>1 DEF TypeOK
  <2> QED
    BY <1>2, <2>2, <2>3
<1>12. CASE OpenEnvironment
  BY <1>1, <1>9, <1>10, <1>11, <1>12
  DEF OpenEnvironment, Environment, TemplateWritten, FailsElsewhere,
      CreateTemplate, EditTemplate, Relabel, ChangeNamespace, DropBinding
<1> QED
  BY <1>1, <1>6, <1>7, <1>8, <1>12 DEF OpenNext, vars

\* So a snapshot with the template's version is the template.
LEMMA SnapshotStep ==
  TypeInv /\ SnapshotVersion /\ [OpenNext]_vars => SnapshotVersion'
<1> SUFFICES ASSUME TypeInv, SnapshotVersion, [OpenNext]_vars, RoundStep, VersionStep,
                    TypeInv'
             PROVE  SnapshotVersion'
  BY RoundSteps, VersionSteps, TypeStep
<1>1. CASE SameRound
  <2>1. w.cur \in Templates /\ w.snap.rv \in Nat /\ tmpl[w.cur].rv \in Nat
    BY DEF TypeInv, TypeOK, Worker, Template
  <2> QED
    BY <1>1, <2>1 DEF SameRound, SnapshotVersion, VersionStep
<1>2. ASSUME NEW t \in Templates, Begin(t)
      PROVE  SnapshotVersion'
  <2>1. tmpl[t].rv \in Nat
    BY DEF TypeInv, TypeOK, Template
  <2> QED
    BY <1>2, <2>1 DEF Begin, Enter, Idle, SnapshotVersion, cluster
<1> QED
  BY <1>1, <1>2 DEF RoundStep, SnapshotVersion
-----------------------------------------------------------------------------
(* What a step does to a template. *)

Kept(t) == /\ tmpl'[t].fin = tmpl[t].fin /\ tmpl'[t].status = tmpl[t].status
           /\ tmpl'[t].spec = tmpl[t].spec

GetsFinalizer(t) ==
  /\ w.pc = "idle" /\ w' = w /\ tmpl[t].phase = "live" /\ ~tmpl[t].fin
  /\ tmpl'[t].phase = "live" /\ tmpl'[t].fin
  /\ tmpl'[t].status = tmpl[t].status /\ tmpl'[t].spec = tmpl[t].spec

GetsStatus(t) ==
  /\ t = w.cur /\ PruneDone /\ w.snap.phase = "live" /\ StatusAccepted
  /\ tmpl'[t].phase = tmpl[t].phase /\ tmpl'[t].fin = tmpl[t].fin
  /\ tmpl'[t].spec = tmpl[t].spec /\ tmpl'[t].status = w.applied
  /\ w'.pc \in {"idle", "failed"}

IsReleased(t) ==
  /\ t = w.cur /\ PruneDone /\ w.snap.phase = "deleting" /\ w' = Idle
  /\ tmpl'[t].phase = "absent" /\ ~tmpl'[t].fin /\ tmpl'[t].status = {}

\* By a user, which a calm round does not survive.
IsCreated(t) ==
  /\ tmpl[t].phase = "absent"
  /\ tmpl'[t].phase = "live" /\ ~tmpl'[t].fin /\ tmpl'[t].status = {}

IsEdited(t) ==
  /\ tmpl[t].phase # "absent" /\ tmpl'[t].phase = tmpl[t].phase
  /\ tmpl'[t].fin = tmpl[t].fin /\ tmpl'[t].status = tmpl[t].status
  /\ calm' => tmpl'[t].spec.name = tmpl[t].spec.name

IsDeleted(t) ==
  /\ tmpl[t].phase = "live" /\ Kept(t)
  /\ tmpl'[t].phase = IF tmpl[t].fin THEN "deleting" ELSE "absent"

ByUser(t) ==
  /\ IsCreated(t) \/ IsEdited(t) \/ IsDeleted(t)
  /\ w' = w /\ (calm' => ~InWork(t))

TemplateStep(t) ==
  \/ tmpl'[t] = tmpl[t]
  \/ GetsFinalizer(t) \/ GetsStatus(t) \/ IsReleased(t) \/ ByUser(t)

LEMMA StatusGiven ==
  ASSUME TypeInv, PruneDone, w.snap.phase = "live", StatusAccepted,
         tmpl' = StatusWritten, w'.pc \in {"idle", "failed"}, NEW t \in Templates
  PROVE  TemplateStep(t)
<1>1. w.cur \in Templates /\ w.applied \subseteq Namespaces
  BY DEF TypeInv, TypeOK, Worker
<1> DEFINE v == [tmpl[w.cur] EXCEPT !.status = w.applied]
<1>2. /\ v.phase = tmpl[w.cur].phase /\ v.fin = tmpl[w.cur].fin
      /\ v.spec = tmpl[w.cur].spec /\ v.status = w.applied
      /\ v \in Template
  BY <1>1 DEF TypeInv, TypeOK, Template
<1>3. /\ NewVersion(v).phase = v.phase /\ NewVersion(v).fin = v.fin
      /\ NewVersion(v).spec = v.spec /\ NewVersion(v).status = v.status
  BY <1>2 DEF NewVersion, Template
<1>4. tmpl' = tmpl \/ tmpl' = [tmpl EXCEPT ![w.cur] = NewVersion(v)]
  BY <1>1 DEF StatusWritten, TypeInv, TypeOK
<1> HIDE DEF v
<1>5. CASE t # w.cur
  BY <1>1, <1>4, <1>5 DEF TemplateStep, TypeInv, TypeOK
<1>6. CASE t = w.cur
  BY <1>1, <1>2, <1>3, <1>4, <1>6 DEF TemplateStep, GetsStatus, TypeInv, TypeOK
<1> QED
  BY <1>5, <1>6

LEMMA TemplateSteps ==
  ASSUME TypeInv, SnapshotVersion, [OpenNext]_vars, NEW t \in Templates
  PROVE  TemplateStep(t)
<1> USE DEF TypeInv
<1>1. CASE tmpl' = tmpl
  BY <1>1 DEF TemplateStep
<1>2. ASSUME NEW v \in Template
      PROVE  /\ NewVersion(v).phase = v.phase /\ NewVersion(v).fin = v.fin
             /\ NewVersion(v).spec = v.spec /\ NewVersion(v).status = v.status
  BY DEF NewVersion, Template
<1>3. w.cur \in Templates
  BY DEF TypeOK, Worker
<1>4. CASE RemoveFinalizer
  <2> DEFINE v == [tmpl[w.cur] EXCEPT !.phase = "absent", !.fin = FALSE, !.status = {}]
  <2>1. v \in Template /\ v.phase = "absent" /\ ~v.fin /\ v.status = {}
    <3>1. tmpl[w.cur] \in Template
      BY <1>3 DEF TypeOK
    <3>2. v \in Template /\ v.phase = "absent" /\ v.status = {}
      BY <3>1 DEF Template
    <3>3. ~v.fin
      BY <3>1, Zenon DEF Template
    <3> QED
      BY <3>2, <3>3
  <2>2. tmpl' = [tmpl EXCEPT ![w.cur] = NewVersion(v)] /\ w' = Idle
    BY <1>3, <1>4 DEF RemoveFinalizer, TypeOK
  <2> HIDE DEF v
  <2> QED
    BY <1>2, <1>3, <1>4, <2>1, <2>2
    DEF TemplateStep, IsReleased, RemoveFinalizer, TypeOK
<1>5. CASE UpdateStatus
  BY <1>5, StatusGiven DEF UpdateStatus, Idle
<1>6. CASE Round
  BY <1>1, <1>4, <1>5, <1>6
  DEF Round, ListScope, ScopeRead, WriteBinding, ApplyDone, PruneDelete,
      StatusConflict, Retry, GiveUp, CheckNamespace, ReadBinding, PruneRead, cluster
<1>7. ASSUME NEW u \in Templates, Reconcile(u)
      PROVE  TemplateStep(t)
  <2>1. CASE AddFinalizer(u)
    <3> DEFINE v == [tmpl[u] EXCEPT !.fin = TRUE]
    <3>1. /\ v \in Template /\ v.phase = tmpl[u].phase /\ v.fin
          /\ v.status = tmpl[u].status /\ v.spec = tmpl[u].spec
      BY DEF TypeOK, Template
    <3>2. tmpl' = [tmpl EXCEPT ![u] = NewVersion(v)]
      BY <2>1 DEF AddFinalizer, TypeOK
    <3> HIDE DEF v
    <3> QED
      BY <1>2, <2>1, <3>1, <3>2 DEF TemplateStep, GetsFinalizer, AddFinalizer, TypeOK
  <2> QED
    BY <1>1, <1>7, <2>1 DEF Reconcile, Begin, cluster
<1>8. CASE CallFails
  <2>1. CASE PruneDone /\ StatusAccepted /\ tmpl' = StatusWritten
    <3>1. w.snap.phase = "live"
      BY <1>8, <2>1 DEF CallFails, SnapshotVersion, PruneDone, TypeOK, Worker, Template
    <3>2. w'.pc = "failed"
      BY <1>8 DEF CallFails, TypeOK, Worker
    <3> QED
      BY <2>1, <3>1, <3>2, StatusGiven
  <2> QED
    BY <1>1, <1>8, <2>1 DEF CallFails
<1>9. CASE Failure
  BY <1>1, <1>8, <1>9 DEF Failure, FailingCall, CheckFails, ApplyFails, Crash
<1>10. ASSUME NEW u \in Templates, NEW s \in Specs, Created(u, s), w' = w,
              calm' => ~InWork(u)
       PROVE  TemplateStep(t)
  BY <1>10 DEF Created, NewTemplate, TemplateStep, ByUser, IsCreated, TypeOK
<1>11. ASSUME NEW u \in Templates, NEW s \in Specs, Edited(u, s), w' = w,
              calm' => ~InWork(u) /\ s.name = tmpl[u].spec.name
       PROVE  TemplateStep(t)
  <2> DEFINE v == [tmpl[u] EXCEPT !.spec = s]
  <2>1. /\ v \in Template /\ v.phase = tmpl[u].phase /\ v.fin = tmpl[u].fin
        /\ v.status = tmpl[u].status /\ v.spec = s
    BY DEF TypeOK, Template
  <2>2. tmpl' = [tmpl EXCEPT ![u] = NewVersion(v)]
    BY <1>11 DEF Edited, TypeOK
  <2> HIDE DEF v
  <2>3. tmpl[u].phase # "absent"
    BY <1>11, Zenon DEF Edited
  <2> QED
    BY <1>2, <1>11, <2>1, <2>2, <2>3 DEF TemplateStep, ByUser, IsEdited, TypeOK
<1>14. ASSUME NEW u \in Templates, NEW s \in Specs,
              CreateTemplate(u, s) \/ EditTemplate(u, s) \/ TemplateWritten(u, s)
       PROVE  TemplateStep(t)
  <2>1. w' = w /\ (calm' => ~InWork(u))
    BY <1>14, Zenon DEF CreateTemplate, EditTemplate, TemplateWritten, Edit
  <2>2. CASE Created(u, s)
    BY <1>10, <2>1, <2>2
  <2>3. CASE Edited(u, s)
    <3>1. tmpl[u].phase # "absent"
      BY <2>3, Zenon DEF Edited
    <3>2. ~CreateTemplate(u, s)
      BY <3>1, Zenon DEF CreateTemplate, Created
    <3>3. calm' => s.name = tmpl[u].spec.name
      BY <1>14, <3>1, <3>2, Zenon DEF EditTemplate, TemplateWritten
    <3> QED
      BY <1>11, <2>1, <2>3, <3>3
  <2> QED
    BY <1>14, <2>2, <2>3 DEF CreateTemplate, EditTemplate, TemplateWritten
<1>12. ASSUME NEW u \in Templates, DeleteTemplate(u)
       PROVE  TemplateStep(t)
  <2> DEFINE x == IF tmpl[u].fin THEN "deleting" ELSE "absent"
  <2> DEFINE v == [tmpl[u] EXCEPT !.phase = x]
  <2>1. /\ v \in Template /\ v.phase = x /\ v.fin = tmpl[u].fin
        /\ v.status = tmpl[u].status /\ v.spec = tmpl[u].spec
    BY DEF TypeOK, Template
  <2>2. tmpl' = [tmpl EXCEPT ![u] = NewVersion(v)]
    BY <1>12 DEF DeleteTemplate, TypeOK
  <2> HIDE DEF v
  <2>3. (calm' => ~InWork(u)) /\ w' = w /\ tmpl[u].phase = "live"
    BY <1>12, Zenon DEF DeleteTemplate, Edit
  <2> QED
    BY <1>2, <2>1, <2>2, <2>3 DEF TemplateStep, ByUser, IsDeleted, Kept, TypeOK
<1>13. CASE OpenEnvironment
  BY <1>1, <1>12, <1>13, <1>14
  DEF OpenEnvironment, Environment, FailsElsewhere, Relabel, ChangeNamespace,
      DropBinding
<1> QED
  BY <1>1, <1>6, <1>7, <1>9, <1>13 DEF OpenNext, vars
-----------------------------------------------------------------------------
(* Statuses: optimistic concurrency keeps them with their specs. *)

LEMMA ShapeStep ==
  TypeInv /\ SnapshotVersion /\ TemplateShape /\ [OpenNext]_vars => TemplateShape'
<1> SUFFICES ASSUME TypeInv, SnapshotVersion, TemplateShape, [OpenNext]_vars,
                    NEW t \in Templates
             PROVE  /\ (tmpl'[t].phase = "absent" => ~tmpl'[t].fin)
                    /\ (~tmpl'[t].fin => tmpl'[t].status = {})
                    /\ (tmpl'[t].phase = "deleting" => tmpl'[t].fin)
  BY DEF TemplateShape
<1>1. CASE GetsStatus(t)
  <2>1. tmpl[t] = w.snap /\ w.snap.fin
    BY <1>1 DEF GetsStatus, StatusAccepted, SnapshotVersion, PruneDone
  <2> QED
    BY <1>1, <2>1 DEF GetsStatus, TemplateShape
<1> QED
  BY <1>1, TemplateSteps
  DEF TemplateStep, GetsFinalizer, IsReleased, ByUser, IsCreated, IsEdited,
      IsDeleted, Kept, TemplateShape

VersionInv == TypeInv /\ SnapshotVersion /\ TemplateShape

LEMMA VersionInit == Init => VersionInv
<1> SUFFICES ASSUME Init PROVE SnapshotVersion /\ TemplateShape
  BY TypeInit DEF VersionInv
<1>1. SnapshotVersion
  BY DEF Init, SnapshotVersion, Idle
<1>2. ASSUME NEW t \in Templates
      PROVE  tmpl[t].phase \in {"absent", "live"} /\ ~tmpl[t].fin /\ tmpl[t].status = {}
  <2>1. tmpl[t] = NoTemplate \/ \E s \in Specs : tmpl[t] = NewTemplate(s, 1)
    BY <1>2 DEF Init
  <2> QED
    <3>1. CASE tmpl[t] = NoTemplate
      <4>1. ~NoTemplate.fin
        BY Zenon DEF NoTemplate
      <4> QED
        BY <3>1, <4>1 DEF NoTemplate
    <3>2. ASSUME NEW s \in Specs, tmpl[t] = NewTemplate(s, 1)
          PROVE  /\ tmpl[t].phase \in {"absent", "live"} /\ ~tmpl[t].fin
                 /\ tmpl[t].status = {}
      <4>1. ~NewTemplate(s, 1).fin
        BY Zenon DEF NewTemplate
      <4> QED
        BY <3>2, <4>1 DEF NewTemplate
    <3> QED
      BY <2>1, <3>1, <3>2
<1> QED
  BY <1>1, <1>2 DEF TemplateShape

LEMMA VersionInvariance == OpenSpec => []VersionInv
<1>1. VersionInv /\ [OpenNext]_vars => VersionInv'
  BY TypeStep, SnapshotStep, ShapeStep DEF VersionInv
<1> QED
  BY <1>1, VersionInit, PTL DEF OpenSpec

LEMMA OpenStatuses == OpenSpec => StatusMatchesSpec
<1>1. VersionInv /\ [OpenNext]_vars =>
        [\A t \in Templates :
           tmpl'[t].status # tmpl[t].status /\ tmpl'[t].phase # "absent"
             => /\ w.cur = t /\ w.snap.spec = tmpl[t].spec
                /\ w.snap.status = tmpl[t].status]_vars
  <2> SUFFICES ASSUME VersionInv, [OpenNext]_vars, NEW t \in Templates,
                      tmpl'[t].status # tmpl[t].status, tmpl'[t].phase # "absent"
               PROVE  /\ w.cur = t /\ w.snap.spec = tmpl[t].spec
                      /\ w.snap.status = tmpl[t].status
    OBVIOUS
  <2> USE DEF VersionInv
  <2>1. GetsStatus(t)
    BY TemplateSteps
    DEF TemplateStep, GetsFinalizer, IsReleased, ByUser, IsCreated, IsEdited,
        IsDeleted, Kept, TemplateShape
  <2> QED
    BY <2>1 DEF GetsStatus, StatusAccepted, SnapshotVersion, PruneDone
<1> QED
  BY <1>1, VersionInvariance, PTL DEF OpenSpec, StatusMatchesSpec

\* A status update lands only on the spec its round read, because the API
\* server compares the versions and a version has one content: the list in the
\* status was computed from the spec beside it, whatever users do meanwhile.
THEOREM StatusesMatch == Spec => StatusMatchesSpec
BY OpenStatuses, Opened

-----------------------------------------------------------------------------
(* Rounds that delete. *)

\* Where the worker can be after one step of a round on a template in deletion.
LEMMA DeletingStep ==
  VersionInv /\ DeletingRound /\ [OpenNext]_vars => DeletingRound'
<1> SUFFICES ASSUME VersionInv, DeletingRound, [OpenNext]_vars, RoundStep,
                    w'.pc # "idle", w'.snap.phase = "deleting"
             PROVE  /\ w'.pc \in {"prune", "delete", "failed"}
                    /\ w'.applied = {}
                    /\ tmpl'[w'.cur].phase = "deleting"
                    /\ tmpl'[w'.cur].status = w'.snap.status
  BY RoundSteps DEF DeletingRound, VersionInv
<1> USE DEF VersionInv, TypeInv
<1>1. ASSUME NEW t \in Templates, Begin(t)
      PROVE  /\ w'.pc \in {"prune", "delete", "failed"}
             /\ w'.applied = {}
             /\ tmpl'[w'.cur].phase = "deleting"
             /\ tmpl'[w'.cur].status = w'.snap.status
  BY <1>1 DEF Begin, Enter, Idle, cluster
<1>2. CASE SameRound
  <2>1. /\ w.pc \in {"prune", "delete", "failed"} /\ w.applied = {}
        /\ w.cur \in Templates /\ tmpl[w.cur].phase = "deleting"
        /\ tmpl[w.cur].status = w.snap.status /\ w.snap.phase = "deleting"
    BY <1>2 DEF SameRound, DeletingRound, TypeOK, Worker
  <2>2. w'.pc \in {"prune", "delete", "failed"} /\ w'.applied = {}
    <3>1. CASE w' = w
      BY <2>1, <3>1
    <3>2. CASE Round
      <4>1. CASE PruneDelete
        BY <2>1, <4>1 DEF PruneDelete, TypeOK, Worker
      <4>2. ASSUME NEW n \in Namespaces, PruneRead(n)
            PROVE  w'.pc \in {"prune", "delete", "failed"} /\ w'.applied = {}
        BY <2>1, <4>2 DEF PruneRead, TypeOK, Worker
      <4>3. CASE Retry
        BY <2>1, <4>3 DEF Retry, Enter, Idle
      <4>4. CASE w' = Idle
        BY <1>2, <4>4 DEF SameRound, Idle
      <4> QED
        BY <2>1, <3>2, <4>1, <4>2, <4>3, <4>4
        DEF Round, ListScope, ScopeRead, WriteBinding, ApplyDone, UpdateStatus,
            StatusConflict, RemoveFinalizer, GiveUp, CheckNamespace, ReadBinding
    <3>3. CASE Failure
      <4>1. CASE CallFails
        BY <2>1, <4>1 DEF CallFails, TypeOK, Worker
      <4>2. CASE Crash
        BY <1>2, <4>2 DEF Crash, SameRound, Idle
      <4> QED
        BY <2>1, <3>3, <4>1, <4>2 DEF Failure, FailingCall, CheckFails, ApplyFails
    <3>4. CASE OpenEnvironment
      <4>1. CASE w' = Idle
        BY <1>2, <4>1 DEF SameRound, Idle
      <4> QED
        BY <3>1, <3>4, <4>1
        DEF OpenEnvironment, Environment, TemplateWritten, FailsElsewhere, Edit,
          CreateTemplate, EditTemplate, DeleteTemplate,
          Relabel, ChangeNamespace, DropBinding
    <3>5. ASSUME NEW t \in Templates, Reconcile(t)
          PROVE  FALSE
      BY <2>1, <3>5 DEF Reconcile, AddFinalizer, Begin
    <3> QED
      BY <3>1, <3>2, <3>3, <3>4, <3>5 DEF OpenNext, vars
  <2>3. /\ tmpl'[w.cur].phase = "deleting"
        /\ tmpl'[w.cur].status = tmpl[w.cur].status
    BY <1>2, <2>1, TemplateSteps
    DEF SameRound, TemplateStep, GetsFinalizer, GetsStatus, IsReleased, ByUser,
        IsCreated, IsEdited, IsDeleted, Kept, Idle
  <2> QED
    BY <1>2, <2>1, <2>2, <2>3 DEF SameRound
<1> QED
  BY <1>1, <1>2 DEF RoundStep
LEMMA PrunedStep == TypeInv /\ PrunedGone /\ [OpenNext]_vars => PrunedGone'
<1> SUFFICES ASSUME TypeInv, PrunedGone, [OpenNext]_vars, BindingStep,
                    w'.pc \in {"prune", "delete"}
             PROVE  /\ (w'.pc = "delete" => w'.at \in w'.prune)
                    /\ \A n \in w'.snap.status \ (w'.prune \cup w'.applied) :
                         rb'[n][w'.snap.spec.name] = NoBinding
  BY BindingSteps DEF PrunedGone, BindingName
<1> USE DEF TypeInv, BindingName
<1>1. w.snap \in Template /\ w.snap.status \subseteq Namespaces /\ w.snap.spec.name \in Names
  BY SpecAssumption DEF TypeOK, Worker, Template
<1>2. CASE w' = w
  BY <1>1, <1>2 DEF PrunedGone, BindingStep, Overwritten
<1>3. ASSUME NEW t \in Templates, NEW x \in Template, NEW r, w' = Enter(t, x, r)
      PROVE  /\ w'.pc \in {"list", "prune"}
             /\ w'.pc = "prune" => w'.prune = w'.snap.status
  BY <1>3 DEF Enter, Idle
<1>4. CASE \E t \in Templates : Reconcile(t)
  BY <1>2, <1>3, <1>4 DEF Reconcile, AddFinalizer, Begin, TypeOK
<1>5. CASE Round
  <2>1. CASE ApplyDone
    BY <1>1, <2>1 DEF ApplyDone, TypeOK, Worker
  <2>2. CASE PruneDelete
    <3>1. /\ w'.pc = "prune" /\ w'.prune = w.prune \ {w.at}
          /\ w'.snap = w.snap /\ w'.applied = w.applied /\ w.at \in Namespaces
      BY <2>2 DEF PruneDelete, TypeOK, Worker
    <3>2. rb'[w.at][w.snap.spec.name] = NoBinding
      BY <1>1, <2>2, <3>1 DEF PruneDelete, Removed, TypeOK
    <3> QED
      BY <1>1, <2>2, <3>1, <3>2 DEF PruneDelete, PrunedGone, BindingStep, Overwritten
  <2>3. ASSUME NEW n \in Namespaces, PruneRead(n)
        PROVE  /\ (w'.pc = "delete" => w'.at \in w'.prune)
               /\ \A m \in w'.snap.status \ (w'.prune \cup w'.applied) :
                    rb'[m][w'.snap.spec.name] = NoBinding
    BY <1>1, <2>3 DEF PruneRead, PrunedGone, TypeOK, Worker, cluster
  <2>4. CASE Retry
    BY <1>3, <2>4 DEF Retry, TypeOK, Worker
  <2>5. CASE WriteBinding \/ \E n \in Namespaces : ReadBinding(n)
    BY <2>5 DEF WriteBinding, ReadBinding, Done, TypeOK, Worker
  <2>6. CASE UpdateStatus \/ RemoveFinalizer \/ GiveUp
    BY <2>6 DEF UpdateStatus, RemoveFinalizer, GiveUp, Idle
  <2> QED
    BY <1>5, <2>1, <2>2, <2>3, <2>4, <2>5, <2>6
    DEF Round, ListScope, ScopeRead, StatusConflict, CheckNamespace, TypeOK, Worker
<1>6. CASE Failure
  <2>1. w'.pc \in {"idle", "failed", "check", "apply"}
    <3>1. CASE CallFails \/ Crash
      BY <3>1 DEF CallFails, Crash, Idle, TypeOK, Worker
    <3>2. ASSUME NEW n \in Namespaces, CheckFails(n)
          PROVE  w'.pc = "check"
      BY <3>2 DEF CheckFails, TypeOK, Worker
    <3>3. ASSUME NEW n \in Namespaces, ApplyFails(n)
          PROVE  w'.pc = "apply"
      BY <3>3 DEF ApplyFails, Done, TypeOK, Worker
    <3> QED
      BY <1>6, <3>1, <3>2, <3>3 DEF Failure, FailingCall
  <2> QED
    BY <2>1
<1>7. CASE OpenEnvironment
  <2>1. CASE w' = Idle
    BY <2>1 DEF Idle
  <2> QED
    BY <1>2, <1>7, <2>1
  DEF OpenEnvironment, Environment, TemplateWritten, FailsElsewhere, Edit,
      CreateTemplate, Created, EditTemplate, Edited, DeleteTemplate, Relabel,
      ChangeNamespace, DropBinding
<1> QED
  BY <1>2, <1>4, <1>5, <1>6, <1>7 DEF OpenNext, vars

DeletionInv == VersionInv /\ DeletingRound /\ PrunedGone

LEMMA DeletionInvariance == OpenSpec => []DeletionInv
<1>1. Init => DeletionInv
  BY VersionInit DEF Init, Idle, DeletionInv, DeletingRound, PrunedGone
<1>2. DeletionInv /\ [OpenNext]_vars => DeletionInv'
  BY TypeStep, SnapshotStep, ShapeStep, DeletingStep, PrunedStep
  DEF DeletionInv, VersionInv
<1> QED
  BY <1>1, <1>2, PTL DEF OpenSpec

LEMMA OpenDeletions == OpenSpec => DeletedTemplateIsClean
<1>1. DeletionInv /\ [OpenNext]_vars =>
        [\A t \in Templates :
           tmpl[t].phase = "deleting" /\ tmpl'[t].phase = "absent"
             => \A n \in tmpl[t].status : rb[n][BindingName] = NoBinding]_vars
  <2> SUFFICES ASSUME DeletionInv, [OpenNext]_vars, NEW t \in Templates,
                      tmpl[t].phase = "deleting", tmpl'[t].phase = "absent",
                      NEW n \in tmpl[t].status
               PROVE  rb[n][BindingName] = NoBinding
    OBVIOUS
  <2>1. IsReleased(t)
    BY TemplateSteps
    DEF DeletionInv, VersionInv, TemplateStep, GetsFinalizer, GetsStatus, ByUser,
        IsCreated, IsEdited, IsDeleted, Kept
  <2> QED
    BY <2>1 DEF IsReleased, PruneDone, DeletionInv, DeletingRound, PrunedGone
<1> QED
  BY <1>1, DeletionInvariance, PTL DEF OpenSpec, DeletedTemplateIsClean

\* The finalizer goes only when all recorded bindings are gone, with any number
\* of failed calls, retries with the old object, restarts and dropped bindings.
THEOREM DeletedClean == Spec => DeletedTemplateIsClean
BY OpenDeletions, Opened

-----------------------------------------------------------------------------
(* Calm rounds account for every binding. *)

LEMMA CalmLasts ==
  ASSUME [OpenNext]_vars, calm'
  PROVE  calm /\ ~Failure
<1>1. ~Failure
  BY Zenon DEF Failure, FailingCall, CallFails, CheckFails, ApplyFails, Crash, Fault
<1>2. calm' = calm => calm
  BY Zenon
<1>3. CASE OpenEnvironment
  <2>1. ASSUME NEW t \in Templates, NEW u \in Specs,
               CreateTemplate(t, u) \/ EditTemplate(t, u)
        PROVE  calm
    BY <2>1, Zenon DEF CreateTemplate, Created, EditTemplate, Edited
  <2>2. ASSUME NEW t \in Templates, DeleteTemplate(t)
        PROVE  calm
    BY <2>2, Zenon DEF DeleteTemplate
  <2>3. ASSUME NEW o \in Orgs, NEW l \in Labels, Relabel(o, l)
        PROVE  calm
    BY <2>3, <1>2, Zenon DEF Relabel
  <2>4. ASSUME NEW n \in Namespaces, ChangeNamespace(n)
        PROVE  calm
    BY <2>4, <1>2, Zenon DEF ChangeNamespace
  <2>5. ASSUME NEW n \in Namespaces, NEW nm \in Names, DropBinding(n, nm)
        PROVE  calm
    BY <2>5, <1>2, Zenon DEF DropBinding
  <2> QED
    BY <1>1, <1>3, <2>1, <2>2, <2>3, <2>4, <2>5
    DEF OpenEnvironment, Environment, TemplateWritten, FailsElsewhere
<1>4. CASE Round \/ \E t \in Templates : Reconcile(t)
  BY <1>1, <1>2, <1>4
  DEF Round, ListScope, ScopeRead, WriteBinding, ApplyDone, PruneDelete,
      UpdateStatus, StatusConflict, RemoveFinalizer, Retry, GiveUp,
      CheckNamespace, ReadBinding, PruneRead, Reconcile, AddFinalizer, Begin,
      budget
<1> QED
  BY <1>1, <1>2, <1>3, <1>4 DEF OpenNext, vars

LEMMA CalmStep == VersionInv /\ CalmRound /\ [OpenNext]_vars => CalmRound'
<1> SUFFICES ASSUME VersionInv, CalmRound, [OpenNext]_vars, calm', w'.pc # "idle",
                    RoundStep
             PROVE  w'.snap = tmpl'[w'.cur] /\ (w'.pc \in {"list", "check", "failed"} => w'.applied = {})
  BY RoundSteps DEF CalmRound, VersionInv
<1> USE DEF VersionInv, TypeInv
<1>1. calm /\ ~Failure
  BY CalmLasts
<1>2. ASSUME NEW t \in Templates, Begin(t)
      PROVE  w'.snap = tmpl'[w'.cur] /\ (w'.pc \in {"list", "check", "failed"} => w'.applied = {})
  BY <1>2 DEF Begin, Enter, Idle, cluster
<1>3. CASE SameRound
  <2>1. w.cur \in Templates /\ w.snap = tmpl[w.cur]
    BY <1>1, <1>3 DEF SameRound, CalmRound, TypeOK, Worker
  <2>2. CASE w' = w /\ tmpl'[w.cur] = tmpl[w.cur]
    BY <1>1, <1>3, <2>1, <2>2 DEF SameRound, CalmRound
  <2>3. ~ByUser(w.cur) /\ ~GetsFinalizer(w.cur) /\ ~IsReleased(w.cur)
    BY <1>3 DEF SameRound, ByUser, InWork, GetsFinalizer, IsReleased, Idle
  <2>4. tmpl'[w.cur] = tmpl[w.cur]
    <3>1. CASE Round
      <4>1. ~UpdateStatus /\ ~RemoveFinalizer
        BY <1>3 DEF SameRound, UpdateStatus, RemoveFinalizer, Idle
      <4> QED
        BY <3>1, <4>1
        DEF Round, ListScope, ScopeRead, WriteBinding, ApplyDone, PruneDelete,
            StatusConflict, Retry, GiveUp, CheckNamespace, ReadBinding, PruneRead,
            cluster
    <3>2. CASE OpenEnvironment \/ UNCHANGED vars
      <4>1. w' = w
        BY <3>2
        DEF vars, OpenEnvironment, Environment, TemplateWritten, FailsElsewhere, Edit,
            CreateTemplate, Created, EditTemplate, Edited,
            DeleteTemplate, Relabel, ChangeNamespace, DropBinding
      <4>2. ~GetsStatus(w.cur)
        BY <4>1 DEF GetsStatus, PruneDone
      <4> QED
        BY <2>1, <2>3, <4>2, TemplateSteps DEF TemplateStep
    <3>3. CASE \E t \in Templates : Reconcile(t)
      BY <1>3, <3>3 DEF SameRound, Reconcile, AddFinalizer, Begin
    <3> QED
      BY <1>1, <3>1, <3>2, <3>3 DEF OpenNext
  <2>5. w'.pc \in {"list", "check", "failed"} => w'.applied = {}
    <3>1. CASE w' = w
      BY <1>1, <1>3, <3>1 DEF SameRound, CalmRound
    <3>2. w.pc \in {"list", "check", "failed"} => w.applied = {}
      BY <1>1, <1>3 DEF SameRound, CalmRound
    <3>3. CASE Round
      <4>1. ~StatusConflict
        BY <2>1, <1>3
        DEF StatusConflict, StatusAccepted, PruneDone, SnapshotVersion, SameRound
      <4>2. CASE ListScope \/ ScopeRead \/ ApplyDone \/ PruneDelete
        BY <3>2, <4>2
        DEF ListScope, ScopeRead, ApplyDone, PruneDelete, TypeOK, Worker
      <4>3. ASSUME NEW n \in Namespaces, CheckNamespace(n) \/ PruneRead(n)
            PROVE  w'.pc \in {"list", "check", "failed"} => w'.applied = {}
        BY <3>2, <4>3 DEF CheckNamespace, PruneRead, TypeOK, Worker
      <4>4. CASE WriteBinding \/ \E n \in Namespaces : ReadBinding(n)
        BY <4>4 DEF WriteBinding, ReadBinding, Done, TypeOK, Worker
      <4>5. CASE Retry
        BY <4>5 DEF Retry, Enter, Idle
      <4>6. ~UpdateStatus /\ ~RemoveFinalizer /\ ~GiveUp
        BY <1>3 DEF SameRound, UpdateStatus, RemoveFinalizer, GiveUp, Idle
      <4> QED
        BY <3>3, <4>1, <4>2, <4>3, <4>4, <4>5, <4>6 DEF Round
    <3>4. CASE OpenEnvironment \/ UNCHANGED vars
      BY <3>1, <3>4
      DEF vars, OpenEnvironment, Environment, TemplateWritten, FailsElsewhere, Edit,
          CreateTemplate, Created, EditTemplate, Edited, DeleteTemplate,
          Relabel, ChangeNamespace, DropBinding
    <3>5. CASE \E t \in Templates : Reconcile(t)
      BY <1>3, <3>5 DEF SameRound, Reconcile, AddFinalizer, Begin
    <3> QED
      BY <1>1, <3>3, <3>4, <3>5 DEF OpenNext
  <2> QED
    BY <1>3, <2>1, <2>4, <2>5 DEF SameRound
<1> QED
  BY <1>2, <1>3 DEF RoundStep
\* A calm round forgets no namespace it applied before it ends.
LEMMA AppliedGrows ==
  ASSUME VersionInv, CalmRound, [OpenNext]_vars, calm', SameRound
  PROVE  w.applied \subseteq w'.applied
<1> USE DEF VersionInv, TypeInv
<1>1. calm /\ ~Failure
  BY CalmLasts
<1>2. CASE w' = w
  BY <1>2
<1>3. CASE Round
  <2>1. CASE Retry
    BY <1>1, <2>1 DEF Retry, CalmRound
  <2>2. CASE ListScope \/ ScopeRead \/ ApplyDone \/ PruneDelete \/ StatusConflict
    BY <2>2
    DEF ListScope, ScopeRead, ApplyDone, PruneDelete, StatusConflict, TypeOK, Worker
  <2>3. ASSUME NEW n \in Namespaces, CheckNamespace(n) \/ PruneRead(n)
        PROVE  w.applied \subseteq w'.applied
    BY <2>3 DEF CheckNamespace, PruneRead, TypeOK, Worker
  <2>4. ASSUME NEW n \in Namespaces, ReadBinding(n)
        PROVE  w.applied \subseteq w'.applied
    BY <2>4 DEF ReadBinding, Done, TypeOK, Worker
  <2>5. CASE WriteBinding
    BY <2>5 DEF WriteBinding, Done, TypeOK, Worker
  <2>6. ~UpdateStatus /\ ~RemoveFinalizer /\ ~GiveUp
    BY DEF SameRound, UpdateStatus, RemoveFinalizer, GiveUp, Idle
  <2> QED
    BY <1>3, <2>1, <2>2, <2>3, <2>4, <2>5, <2>6 DEF Round
<1>4. CASE OpenEnvironment \/ UNCHANGED vars
  BY <1>2, <1>4
  DEF vars, OpenEnvironment, Environment, TemplateWritten, FailsElsewhere, Edit,
      CreateTemplate, Created, EditTemplate, Edited, DeleteTemplate,
      Relabel, ChangeNamespace, DropBinding
<1>5. CASE \E t \in Templates : Reconcile(t)
  BY <1>5 DEF SameRound, Reconcile, AddFinalizer, Begin
<1> QED
  BY <1>1, <1>3, <1>4, <1>5 DEF OpenNext

\* Only WriteBinding makes or changes a binding in a calm step.
LEMMA OnlyWritten ==
  ASSUME TypeInv, [OpenNext]_vars, ~Failure, ~WriteBinding,
         NEW n \in Namespaces, NEW nm \in Names, rb'[n][nm] # NoBinding
  PROVE  rb'[n][nm] = rb[n][nm]
<1> USE DEF TypeInv
<1>1. CASE Round
  <2>1. CASE PruneDelete
    BY <2>1 DEF PruneDelete, Removed, TypeOK, Worker
  <2> QED
    BY <1>1, <2>1
    DEF Round, ListScope, ScopeRead, ApplyDone, UpdateStatus, StatusConflict,
        RemoveFinalizer, Retry, GiveUp, CheckNamespace, ReadBinding, PruneRead,
        cluster
<1>2. CASE OpenEnvironment
  <2>1. ASSUME NEW m \in Namespaces, ChangeNamespace(m)
        PROVE  rb'[n][nm] = rb[n][nm]
    BY <2>1 DEF ChangeNamespace, TypeOK
  <2>2. ASSUME NEW m \in Namespaces, NEW x \in Names, DropBinding(m, x)
        PROVE  rb'[n][nm] = rb[n][nm]
    BY <2>2 DEF DropBinding, TypeOK
  <2> QED
    BY <1>2, <2>1, <2>2
    DEF OpenEnvironment, Environment, TemplateWritten, FailsElsewhere, CreateTemplate,
        Created, EditTemplate, Edited, DeleteTemplate, Relabel
<1> QED
  BY <1>1, <1>2 DEF OpenNext, vars, Reconcile, AddFinalizer, Begin, cluster

CalmInv == DeletionInv /\ CalmRound /\ BindingsAccounted

LEMMA AccountedStep == CalmInv /\ [OpenNext]_vars => BindingsAccounted'
<1> SUFFICES ASSUME CalmInv, [OpenNext]_vars, calm',
                    NEW n \in Namespaces, NEW nm \in Names, rb'[n][nm] # NoBinding
             PROVE  \/ InStatus(n, nm)'
                    \/ w'.pc # "idle" /\ w'.snap.spec.name = nm /\ n \in w'.applied
  BY DEF BindingsAccounted, BindingName
<1> USE DEF CalmInv, DeletionInv, VersionInv, TypeInv, BindingName
<1>1. calm /\ ~Failure
  BY CalmLasts
<1>2. w.cur \in Templates /\ w.at \in Namespaces /\ w.snap \in Template
  BY DEF TypeOK, Worker
<1>3. ASSUME WriteBinding, rb'[n][nm] # rb[n][nm]
      PROVE  w'.pc # "idle" /\ w'.snap.spec.name = nm /\ n \in w'.applied
  <2>1. WriteAccepted(w.at) /\ n = w.at /\ nm = w.snap.spec.name
    BY <1>2, <1>3 DEF WriteBinding, Written, TypeOK
  <2>2. w' = Done(w.at, TRUE)
    BY <1>3, <2>1, Zenon DEF WriteBinding, Done
  <2> QED
    BY <2>1, <2>2 DEF Done, TypeOK, Worker
<1>4. ASSUME rb'[n][nm] = rb[n][nm], InStatus(n, nm)
      PROVE  InStatus(n, nm)'
  <2>1. PICK t \in Templates : /\ tmpl[t].phase # "absent"
                              /\ tmpl[t].spec.name = nm
                              /\ n \in tmpl[t].status
    BY <1>4 DEF InStatus
  <2>2. CASE GetsStatus(t) \/ IsReleased(t)
    <3>1. w.snap = tmpl[t] /\ w.pc = "prune" /\ w.prune = {}
      BY <1>1, <2>2 DEF GetsStatus, IsReleased, PruneDone, CalmRound
    <3>2. n \in w.applied
      BY <1>4, <2>1, <3>1 DEF PrunedGone
    <3>3. GetsStatus(t)
      BY <2>2, <3>1, <3>2 DEF IsReleased, DeletingRound, PruneDone
    <3> QED
      BY <2>1, <3>2, <3>3 DEF GetsStatus, InStatus
  <2>3. CASE ByUser(t)
    BY <2>1, <2>3
    DEF ByUser, IsCreated, IsEdited, IsDeleted, Kept, TemplateShape, InStatus
  <2> QED
    BY <2>1, <2>2, <2>3, TemplateSteps DEF TemplateStep, GetsFinalizer, InStatus
<1>5. ASSUME w.pc # "idle", w.snap.spec.name = nm, n \in w.applied
      PROVE  \/ InStatus(n, nm)'
             \/ w'.pc # "idle" /\ w'.snap.spec.name = nm /\ n \in w'.applied
  <2>1. CASE SameRound
    BY <1>5, <2>1, AppliedGrows DEF SameRound
  <2>2. CASE w'.pc = "idle"
    <3>1. UpdateStatus
      <4>1. ~RemoveFinalizer /\ ~GiveUp
        BY <1>1, <1>5 DEF RemoveFinalizer, GiveUp, DeletingRound, CalmRound, PruneDone
      <4>2. w' # w
        BY <1>5, <2>2
      <4>3. ~OpenEnvironment /\ ~UNCHANGED vars
        BY <4>2
        DEF vars, OpenEnvironment, Environment, TemplateWritten, FailsElsewhere, Edit,
            CreateTemplate, Created, EditTemplate, Edited, DeleteTemplate,
            Relabel, ChangeNamespace, DropBinding
      <4>4. ~(\E t \in Templates : Reconcile(t))
        BY <1>5 DEF Reconcile, AddFinalizer, Begin
      <4>5. ~Retry
        BY <2>2 DEF Retry, Enter, Idle
      <4>6. ~ListScope /\ ~ScopeRead /\ ~ApplyDone /\ ~PruneDelete /\ ~StatusConflict
        BY <2>2
        DEF ListScope, ScopeRead, ApplyDone, PruneDelete, StatusConflict, TypeOK,
            Worker
      <4>7. ~WriteBinding
        BY <2>2 DEF WriteBinding, Done, TypeOK, Worker
      <4>8. ASSUME NEW m \in Namespaces
            PROVE  ~CheckNamespace(m) /\ ~ReadBinding(m) /\ ~PruneRead(m)
        BY <2>2 DEF CheckNamespace, ReadBinding, PruneRead, Done, TypeOK, Worker
      <4> QED
        BY <1>1, <4>1, <4>3, <4>4, <4>5, <4>6, <4>7, <4>8 DEF OpenNext, Round
    <3>2. tmpl[w.cur] = w.snap /\ w.snap.phase = "live"
      BY <1>1, <3>1 DEF UpdateStatus, CalmRound, PruneDone
    <3>3. /\ tmpl'[w.cur].phase = "live" /\ tmpl'[w.cur].spec = w.snap.spec
          /\ tmpl'[w.cur].status = w.applied
      <4>1. TemplateStep(w.cur)
        BY <1>2, TemplateSteps
      <4>2. ~GetsFinalizer(w.cur) /\ ~IsReleased(w.cur) /\ ~ByUser(w.cur)
        BY <1>5, <2>2, <3>2 DEF GetsFinalizer, IsReleased, ByUser
      <4>3. CASE tmpl'[w.cur] = tmpl[w.cur]
        <5>1. tmpl[w.cur].status = w.applied
          <6>1. CASE tmpl[w.cur].status # w.applied
            <7> DEFINE v == [tmpl[w.cur] EXCEPT !.status = w.applied]
            <7>1. v \in Template /\ v.rv = tmpl[w.cur].rv
              BY <1>2 DEF TypeOK, Template, Worker
            <7>2. tmpl' = [tmpl EXCEPT ![w.cur] = NewVersion(v)]
              BY <3>1, <6>1 DEF UpdateStatus, StatusWritten, TypeOK
            <7>3. NewVersion(v).rv = tmpl[w.cur].rv + 1 /\ tmpl[w.cur].rv \in Nat
              BY <1>2, <7>1, NewVersionType DEF TypeOK, Template
            <7> HIDE DEF v
            <7>4. tmpl'[w.cur] = NewVersion(v)
              BY <1>2, <7>2 DEF TypeOK
            <7> QED
              BY <4>3, <7>3, <7>4
          <6> QED
            BY <6>1
        <5> QED
          BY <3>2, <4>3, <5>1
      <4>4. CASE GetsStatus(w.cur)
        BY <3>2, <4>4 DEF GetsStatus
      <4> QED
        BY <4>1, <4>2, <4>3, <4>4 DEF TemplateStep
    <3> QED
      BY <1>2, <1>5, <3>3 DEF InStatus
  <2>3. ASSUME NEW t \in Templates, Begin(t)
        PROVE  FALSE
    BY <1>5, <2>3 DEF Begin
  <2> QED
    BY <2>1, <2>2, <2>3, RoundSteps DEF RoundStep
<1>6. CASE rb'[n][nm] = rb[n][nm]
  BY <1>1, <1>4, <1>5, <1>6 DEF BindingsAccounted
<1> QED
  BY <1>1, <1>3, <1>6, OnlyWritten

LEMMA OpenAccounts == OpenSpec => []BindingsAccounted
<1>1. Init => CalmInv
  <2>1. Init => DeletionInv
    BY VersionInit DEF Init, Idle, DeletionInv, DeletingRound, PrunedGone
  <2> QED
    BY <2>1 DEF Init, Idle, CalmInv, CalmRound, BindingsAccounted
<1>2. CalmInv /\ [OpenNext]_vars => CalmInv'
  BY TypeStep, SnapshotStep, ShapeStep, DeletingStep, PrunedStep, CalmStep,
     AccountedStep
  DEF CalmInv, DeletionInv, VersionInv
<1>3. CalmInv => BindingsAccounted
  BY DEF CalmInv
<1> QED
  BY <1>1, <1>2, <1>3, PTL DEF OpenSpec

\* As long as nothing fails and no template is touched while a round works on
\* it, every binding is in the status of a template of its name or about to be,
\* so that the later pruning or deletion of the template finds it.
THEOREM CalmBindingsAccounted == Spec => []BindingsAccounted
BY OpenAccounts, Opened, PTL
=============================================================================
