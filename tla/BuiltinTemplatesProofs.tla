------------------------ MODULE BuiltinTemplatesProofs ------------------------
(***************************************************************************)
(* Proofs about fluxauth and the RoleBindingTemplate controller together:  *)
(* every step of the composition is one the proofs about the               *)
(* RoleBindingTemplate controller allow for, so that what they show holds  *)
(* here as well, for any list of templates of the operator.                *)
(***************************************************************************)
EXTENDS BuiltinTemplates, TemplateGrantsProofs

-----------------------------------------------------------------------------
(* Types, and what fluxauth knows of the template it is about to write. *)

\* A copy of the version that is there is the template, and it is another spec
\* the operator wants.
FluxCopy ==
  f.pc = "write" =>
    /\ f.snap.rv <= tmpl[This].rv
    /\ (f.snap.rv = tmpl[This].rv => f.snap = tmpl[This])
    /\ f.snap.phase = "absent" \/ f.snap.spec # BuiltinSpec[This]

FluxType == proc \in {"booting", "running"} /\ f \in FluxWorker

BuiltinInv == TypeInv /\ FluxType /\ FluxCopy

LEMMA OrderType ==
  /\ Len(Order) \in Nat /\ 1 \in Places
  /\ \A i \in Places : Order[i] \in Templates /\ BuiltinSpec[Order[i]] \in Specs
<1>1. Len(Order) \in Nat /\ Len(Order) # 0
  BY BuiltinAssumption
<1>2. \A i \in Places : Order[i] \in Templates
  BY BuiltinAssumption DEF Places
<1> QED
  BY <1>1, <1>2, BuiltinAssumption DEF Places

LEMMA ThisType ==
  ASSUME FluxType
  PROVE  /\ f.at \in Places /\ This \in Templates /\ BuiltinSpec[This] \in Specs
         /\ f.snap \in Template
BY OrderType DEF FluxType, FluxWorker, This

LEMMA RestTypes ==
  /\ AtRest \in FluxWorker /\ AtRest.pc = "rest"
  /\ \A i \in Places : AtRead(i) \in FluxWorker /\ AtRead(i).pc = "read"
                       /\ AtRead(i).at = i
BY OrderType, NoTemplateType DEF AtRest, AtRead, FluxWorker

\* fluxauth goes on with the next template, or its round is over.
LEMMA GoingOn ==
  ASSUME FluxType, FluxGoOn
  PROVE  /\ FluxType' /\ f'.pc \in {"rest", "read"}
         /\ \/ f.at = Len(Order) /\ f'.pc = "rest" /\ proc' = "running"
            \/ f.at # Len(Order) /\ f'.pc = "read" /\ f'.at = f.at + 1 /\ proc' = proc
<1>1. CASE f.at = Len(Order)
  BY <1>1, RestTypes DEF FluxGoOn, FluxType
<1>2. CASE f.at # Len(Order)
  <2>1. f.at + 1 \in Places
    BY <1>2, OrderType DEF FluxType, FluxWorker, Places
  <2> QED
    BY <1>2, <2>1, RestTypes DEF FluxGoOn, FluxType
<1> QED
  BY <1>1, <1>2

-----------------------------------------------------------------------------
(* Every step is one of the RoleBindingTemplate controller among others. *)

\* What fluxauth stores is a template created, or edited as a whole: an update
\* that is accepted writes the finalizer that is there.
LEMMA StoredIsWritten ==
  ASSUME BuiltinInv, f.pc = "write", FluxStored(This)
  PROVE  Created(This, BuiltinSpec[This]) \/ Edited(This, BuiltinSpec[This])
<1> USE DEF BuiltinInv
<1>1. CASE f.snap.phase = "absent"
  BY <1>1 DEF FluxStored
<1>2. CASE f.snap.phase # "absent"
  <2> DEFINE t == This
             s == BuiltinSpec[This]
  <2>1. tmpl[t].phase # "absent" /\ tmpl[t].rv = f.snap.rv
    BY <1>2, Zenon DEF FluxStored, FluxAccepted
  <2>2. tmpl' = [tmpl EXCEPT ![t] =
                   NewVersion([@ EXCEPT !.spec = s, !.fin = f.snap.fin])]
    BY <1>2, Zenon DEF FluxStored
  <2>3. f.snap = tmpl[t] /\ s # tmpl[t].spec
    BY <1>2, <2>1 DEF FluxCopy
  <2>4. t \in Templates /\ tmpl[t] \in Template
    BY ThisType DEF TypeInv, TypeOK
  <2>5. [tmpl[t] EXCEPT !.spec = s, !.fin = f.snap.fin] = [tmpl[t] EXCEPT !.spec = s]
    BY <2>3, <2>4 DEF Template
  <2>6. tmpl' = [tmpl EXCEPT ![t] = NewVersion([@ EXCEPT !.spec = s])]
    BY <2>2, <2>4, <2>5 DEF TypeInv, TypeOK
  <2> QED
    BY <2>1, <2>3, <2>6, Zenon DEF Edited
<1> QED
  BY <1>1, <1>2
LEMMA WriteIsOpen == BuiltinInv /\ FluxWrite => [OpenNext]_vars
<1> SUFFICES ASSUME BuiltinInv, FluxWrite PROVE [OpenNext]_vars
  OBVIOUS
<1> USE DEF BuiltinInv
<1>1. CASE ~FluxAccepted(This)
  BY <1>1 DEF FluxWrite, FluxStored, cluster, vars
<1>2. CASE FluxAccepted(This)
  <2>1. FluxStored(This) /\ f.pc = "write" /\ UNCHANGED <<w, edits, faults>>
    BY <1>2, Zenon DEF FluxWrite
  <2>2. calm' = (calm /\ ~InWork(This) /\ (tmpl[This].phase # "absent" =>
                            BuiltinSpec[This].name = tmpl[This].spec.name))
    BY <1>2, Zenon DEF FluxWrite
  <2>3. /\ calm' \in BOOLEAN
        /\ calm' => /\ calm /\ ~InWork(This)
                    /\ tmpl[This].phase # "absent" =>
                         BuiltinSpec[This].name = tmpl[This].spec.name
    BY <2>2, Zenon
  <2>4. faults' \in Nat /\ UNCHANGED <<rb, ns, orgLabel, w, edits>>
    BY <2>1 DEF FluxStored, TypeInv, TypeOK
  <2>5. TemplateWritten(This, BuiltinSpec[This])
    BY <2>1, <2>3, <2>4, StoredIsWritten, Zenon DEF TemplateWritten
  <2> QED
    BY <2>5, ThisType DEF OpenNext, OpenEnvironment
<1> QED
  BY <1>1, <1>2

LEMMA FailureIsOpen == BuiltinInv /\ (FluxCallFails \/ Restart) => [OpenNext]_vars
<1> SUFFICES ASSUME BuiltinInv, FluxCallFails \/ Restart PROVE [OpenNext]_vars
  OBVIOUS
<1> USE DEF BuiltinInv
<1>1. Fault
  BY DEF FluxCallFails, Restart
<1>2. /\ UNCHANGED <<ns, orgLabel, edits>> /\ faults' \in Nat
      /\ calm' \in BOOLEAN /\ calm' = FALSE
  BY <1>1, FaultType DEF TypeInv
<1>3. CASE UNCHANGED tmpl
  <2>1. FailsElsewhere
    BY <1>2, <1>3 DEF FluxCallFails, Restart, FailsElsewhere
  <2> QED
    BY <2>1 DEF OpenNext, OpenEnvironment
<1>4. CASE f.pc = "write" /\ FluxStored(This) /\ UNCHANGED w
  <2>1. TemplateWritten(This, BuiltinSpec[This])
    BY <1>2, <1>4, StoredIsWritten, Zenon DEF TemplateWritten, FluxStored
  <2> QED
    BY <2>1, ThisType DEF OpenNext, OpenEnvironment
<1> QED
  BY <1>3, <1>4 DEF FluxCallFails, Restart

LEMMA StepIsOpen == BuiltinInv /\ [BuiltinNext]_allVars => [OpenNext]_vars
BY WriteIsOpen, FailureIsOpen
DEF BuiltinNext, Flux, FluxBegin, FluxRead, FluxRetry, FluxGiveUp, TemplateRound,
    TemplatesTakenUp, OpenNext, OpenEnvironment, Failure, allVars

\* fluxauth keeps to its types, whichever step is taken.
LEMMA FluxTypeStep == TypeInv /\ FluxType /\ [BuiltinNext]_allVars => FluxType'
<1> SUFFICES ASSUME TypeInv, FluxType, [BuiltinNext]_allVars PROVE FluxType'
  OBVIOUS
<1>1. CASE FluxGoOn
  BY <1>1, GoingOn
<1>2. CASE f' = AtRead(1) /\ (proc' = proc \/ proc' = "booting")
  BY <1>2, RestTypes, OrderType DEF FluxType
<1>3. CASE f' = AtRest /\ proc' = proc
  BY <1>3, RestTypes DEF FluxType
<1>4. CASE f' = [f EXCEPT !.pc = "failed"] /\ proc' = proc
  BY <1>4 DEF FluxType, FluxWorker
<1>5. CASE UNCHANGED <<proc, f>>
  BY <1>5 DEF FluxType
<1>6. CASE FluxRead
  <2>1. CASE f' = [f EXCEPT !.pc = "write", !.snap = tmpl[This]] /\ UNCHANGED proc
    BY <2>1, ThisType DEF FluxType, FluxWorker, TypeInv, TypeOK
  <2> QED
    BY <1>1, <1>6, <2>1 DEF FluxRead
<1>7. CASE FluxGiveUp
  BY <1>2, <1>3, <1>7 DEF FluxGiveUp
<1>8. CASE FluxWrite
  BY <1>1, <1>4, <1>8 DEF FluxWrite
<1> QED
  BY <1>2, <1>4, <1>5, <1>6, <1>7, <1>8
  DEF BuiltinNext, Flux, FluxBegin, FluxRetry, TemplateRound, TemplatesTakenUp,
      FluxCallFails, Restart, allVars

\* A step of fluxauth reads the template, or keeps the copy while others write.
LEMMA FluxCopyStep == BuiltinInv /\ [BuiltinNext]_allVars => FluxCopy'
<1> SUFFICES ASSUME BuiltinInv, [BuiltinNext]_allVars, f'.pc = "write"
             PROVE  FluxCopy'
  BY DEF FluxCopy
<1> USE DEF BuiltinInv
<1>1. VersionStep /\ This \in Templates
  BY StepIsOpen, VersionSteps, ThisType
<1>2. tmpl[This] \in Template /\ tmpl[This].rv \in Nat /\ f.snap.rv \in Nat
  BY <1>1, ThisType DEF TypeInv, TypeOK, Template
<1>3. CASE UNCHANGED f
  BY <1>1, <1>2, <1>3 DEF FluxCopy, VersionStep, This
<1>4. CASE FluxRead
  <2>1. ~FluxGoOn
    BY GoingOn
  <2>2. /\ f' = [f EXCEPT !.pc = "write", !.snap = tmpl[This]] /\ UNCHANGED vars
        /\ tmpl[This].phase = "absent" \/ NeedsRewrite(This)
    BY <1>4, <2>1, Zenon DEF FluxRead
  <2>3. f'.snap = tmpl[This] /\ f'.at = f.at
    BY <2>2 DEF FluxType, FluxWorker
  <2> QED
    BY <1>2, <2>2, <2>3 DEF FluxCopy, NeedsRewrite, This, vars
<1>5. ~FluxWrite
  <2>1. ~FluxGoOn /\ f' # [f EXCEPT !.pc = "failed"]
    BY GoingOn DEF FluxType, FluxWorker
  <2> QED
    BY <2>1 DEF FluxWrite
<1>6. ~FluxBegin /\ ~FluxRetry /\ ~FluxGiveUp /\ ~Restart /\ ~FluxCallFails
  BY RestTypes, OrderType
  DEF FluxBegin, FluxRetry, FluxGiveUp, Restart, FluxCallFails, FluxType, FluxWorker
<1> QED
  BY <1>3, <1>4, <1>5, <1>6
  DEF BuiltinNext, Flux, TemplateRound, TemplatesTakenUp, allVars

LEMMA BuiltinInit0 == BuiltinInit => BuiltinInv
BY TypeInit, RestTypes, OrderType DEF BuiltinInit, BuiltinInv, FluxType, FluxCopy

LEMMA BuiltinStep == BuiltinInv /\ [BuiltinNext]_allVars => BuiltinInv'
BY StepIsOpen, TypeStep, FluxTypeStep, FluxCopyStep DEF BuiltinInv

LEMMA BuiltinInvariance == BuiltinSpecification => []BuiltinInv
BY BuiltinInit0, BuiltinStep, PTL DEF BuiltinSpecification

\* The composition is the RoleBindingTemplate controller among others.
LEMMA BuiltinsOpen == BuiltinSpecification => OpenSpec
<1>1. BuiltinInit => Init
  BY DEF BuiltinInit
<1> QED
  BY <1>1, BuiltinInvariance, StepIsOpen, PTL DEF BuiltinSpecification, OpenSpec

-----------------------------------------------------------------------------
(* What holds of the RoleBindingTemplate controller holds with fluxauth. *)

\* Both workers and all they write keep their types, restarts included.
THEOREM BuiltinsTyped == BuiltinSpecification => []BuiltinTypeOK
<1>1. BuiltinInv => BuiltinTypeOK
  BY DEF BuiltinInv, TypeInv, FluxType, BuiltinTypeOK
<1> QED
  BY <1>1, BuiltinInvariance, PTL

\* Although fluxauth writes the finalizer back with every update, none of its
\* writes, in whatever order with those of the controller and of users, takes
\* the finalizer from a template that has a status or is being deleted.
THEOREM StatusesHeld == BuiltinSpecification => []StatusHeld
<1>1. VersionInv => StatusHeld
  BY DEF VersionInv, StatusHeld
<1> QED
  BY <1>1, VersionInvariance, BuiltinsOpen, PTL

\* A round that fluxauth overtakes still writes whole bindings of the one spec it
\* read, never the role of a rewritten template with the subjects of the old one.
THEOREM BuiltinGrantsSpecified == BuiltinSpecification => []GrantsAsSpecified
BY OpenGrants, BuiltinsOpen, PTL

\* Nor does a template of the operator open a protected namespace.
THEOREM BuiltinProtectedClosed == BuiltinSpecification => []ProtectedNamespacesClosed
<1>1. GrantsAsSpecified => ProtectedNamespacesClosed
  BY DesiredProtected, NameAssumption
  DEF GrantsAsSpecified, ProtectedNamespacesClosed
<1> QED
  BY <1>1, BuiltinGrantsSpecified, PTL

\* Statuses are computed from the spec next to them, fluxauth's specs included.
THEOREM BuiltinStatusesMatch == BuiltinSpecification => StatusMatchesSpec
BY OpenStatuses, BuiltinsOpen, PTL

\* No rewrite of fluxauth lets a template go before its bindings are removed.
THEOREM BuiltinDeletedClean == BuiltinSpecification => DeletedTemplateIsClean
BY OpenDeletions, BuiltinsOpen, PTL

\* Calm writes of fluxauth leave no binding without a template.
THEOREM BuiltinBindingsAccounted == BuiltinSpecification => []BindingsAccounted
BY OpenAccounts, BuiltinsOpen, PTL

\* With fluxauth rewriting templates, and restarts that begin with its round, the
\* statuses are still the ledger of all bindings the operator makes, and every
\* binding is the whole of what one version of a template says.
THEOREM BuiltinsImplement == BuiltinSpecification => ImplementsPromise
BY OpenImplements, BuiltinsOpen
-----------------------------------------------------------------------------
(* Left alone, the two workers do not disturb each other: Boot writes what is  *)
(* to be written, and the rounds that follow find nothing to do.               *)

Settled(t) == tmpl[t].phase = "live" /\ tmpl[t].spec = BuiltinSpec[t]

InBoot ==
  /\ w.pc = "idle" /\ f.pc \in {"read", "write"}
  /\ \A i \in Places : i < f.at => Settled(Order[i])
  /\ f.pc = "write" => f.snap = tmpl[This]

BehindBoot ==
  /\ f.pc \in {"rest", "read"}
  /\ \A i \in Places : Settled(Order[i])

QuietInv ==
  edits = 0 /\ faults = 0 =>
    /\ \A t \in Templates : tmpl[t].phase # "deleting"
    /\ proc = "booting" => InBoot
    /\ proc = "running" => BehindBoot
    /\ w.pc # "idle" => w.snap = tmpl[w.cur]

\* Neither users nor failures take part.
LEMMA QuietSteps ==
  ASSUME BuiltinInv, [BuiltinNext]_allVars, edits' = 0, faults' = 0
  PROVE  /\ edits = 0 /\ faults = 0
         /\ \/ FluxBegin \/ FluxRead \/ FluxWrite \/ FluxRetry \/ FluxGiveUp
            \/ TemplateRound \/ (\E t \in Templates : TemplatesTakenUp(t))
            \/ UNCHANGED allVars
<1>1. edits \in Nat /\ faults \in Nat
  BY DEF BuiltinInv, TypeInv, TypeOK
<1>2. ~Fault
  BY <1>1 DEF Fault
<1>3. ~FluxCallFails /\ ~Restart /\ ~FailingCall
  BY <1>2 DEF FluxCallFails, Restart, FailingCall, CallFails, CheckFails, ApplyFails
<1>4. ~Environment
  <2>1. ~Edit
    BY <1>1 DEF Edit
  <2> QED
    BY <2>1, Zenon
    DEF Environment, CreateTemplate, EditTemplate, DeleteTemplate, Relabel,
        ChangeNamespace, DropBinding
<1>5. \/ FluxBegin \/ FluxRead \/ FluxWrite \/ FluxRetry \/ FluxGiveUp
      \/ TemplateRound \/ (\E t \in Templates : TemplatesTakenUp(t))
      \/ UNCHANGED allVars
  BY <1>3, <1>4 DEF BuiltinNext, Flux
<1>6. Round \/ (\E t \in Templates : Reconcile(t)) => UNCHANGED <<edits, faults>>
  BY DEF Round, ListScope, ScopeRead, WriteBinding, ApplyDone, PruneDelete,
         UpdateStatus, StatusConflict, RemoveFinalizer, Retry, GiveUp, CheckNamespace,
         ReadBinding, PruneRead, Reconcile, AddFinalizer, Begin, budget
<1> QED
  BY <1>5, <1>6
  DEF FluxBegin, FluxRead, FluxWrite, FluxRetry, FluxGiveUp, TemplateRound,
      TemplatesTakenUp, allVars, vars

\* What a write in Boot leaves behind.
LEMMA StoredSettles ==
  ASSUME BuiltinInv, f.pc = "write", FluxStored(This),
         \A t \in Templates : tmpl[t].phase # "deleting"
  PROVE  /\ tmpl'[This].phase = "live" /\ tmpl'[This].spec = BuiltinSpec[This]
         /\ \A t \in Templates : tmpl'[t].phase # "deleting"
         /\ \A t \in Templates : t # This => tmpl'[t] = tmpl[t]
<1> DEFINE s == BuiltinSpec[This]
<1>1. This \in Templates /\ tmpl[This] \in Template
  BY ThisType DEF BuiltinInv, TypeInv, TypeOK
<1>2. \E v : tmpl' = [tmpl EXCEPT ![This] = v] /\ v.phase = "live" /\ v.spec = s
  <2>1. CASE Created(This, s)
    <3> DEFINE v == NewTemplate(s, tmpl[This].rv + 1)
    <3>1. v.phase = "live" /\ v.spec = s
      BY DEF NewTemplate
    <3>2. tmpl' = [tmpl EXCEPT ![This] = v]
      BY <1>1, <2>1 DEF Created, BuiltinInv, TypeInv, TypeOK
    <3> QED
      BY <3>1, <3>2
  <2>2. CASE Edited(This, s)
    <3> DEFINE v == [tmpl[This] EXCEPT !.spec = s]
    <3>1. v \in Template /\ v.phase = tmpl[This].phase /\ v.spec = s
      BY <1>1, ThisType DEF Template, BuiltinInv
    <3>2. NewVersion(v).phase = v.phase /\ NewVersion(v).spec = v.spec
      BY <3>1 DEF NewVersion, Template
    <3>3. tmpl' = [tmpl EXCEPT ![This] = NewVersion(v)]
      BY <1>1, <2>2 DEF Edited, BuiltinInv, TypeInv, TypeOK
    <3>4. tmpl[This].phase = "live"
      BY <1>1, <2>2 DEF Edited, Template
    <3> QED
      BY <3>1, <3>2, <3>3, <3>4
  <2> QED
    BY <2>1, <2>2, StoredIsWritten
<1> QED
  BY <1>1, <1>2 DEF BuiltinInv, TypeInv, TypeOK
\* fluxauth has settled the template it was at.
LEMMA SettledOn ==
  ASSUME BuiltinInv, FluxGoOn, w' = w, proc = "booting" => InBoot,
         proc = "running" => BehindBoot,
         tmpl'[This].phase = "live" /\ tmpl'[This].spec = BuiltinSpec[This],
         \A t \in Templates : t # This => tmpl'[t] = tmpl[t]
  PROVE  /\ proc' = "booting" => InBoot'
         /\ proc' = "running" => BehindBoot'
<1> USE DEF BuiltinInv, Settled
<1>1. /\ f.at \in Places /\ Len(Order) \in Nat
      /\ \A i \in Places : Order[i] \in Templates
  BY ThisType, OrderType
<1>2. /\ FluxType' /\ f'.pc \in {"rest", "read"}
      /\ \/ f.at = Len(Order) /\ f'.pc = "rest" /\ proc' = "running"
         \/ f.at # Len(Order) /\ f'.pc = "read" /\ f'.at = f.at + 1 /\ proc' = proc
  BY GoingOn
<1>3. ASSUME NEW i \in Places, Settled(Order[i]) \/ i = f.at
      PROVE  tmpl'[Order[i]].phase = "live" /\ tmpl'[Order[i]].spec = BuiltinSpec[Order[i]]
  BY <1>1, <1>3 DEF This
<1>4. ASSUME proc = "running"
      PROVE  proc' = "running" /\ BehindBoot'
  BY <1>2, <1>3, <1>4 DEF BehindBoot
<1>5. ASSUME proc = "booting", f.at = Len(Order)
      PROVE  proc' = "running" /\ BehindBoot'
  <2>1. \A i \in Places : i < f.at \/ i = f.at
    BY <1>1, <1>5 DEF Places
  <2> QED
    BY <1>2, <1>3, <1>5, <2>1 DEF BehindBoot, InBoot
<1>6. ASSUME proc = "booting", f.at # Len(Order)
      PROVE  proc' = "booting" /\ InBoot'
  <2>1. \A i \in Places : i < f'.at => i < f.at \/ i = f.at
    BY <1>1, <1>2, <1>6 DEF Places
  <2>2. w.pc = "idle"
    BY <1>6 DEF InBoot
  <2> QED
    BY <1>2, <1>3, <1>6, <2>1, <2>2 DEF InBoot
<1> QED
  BY <1>4, <1>5, <1>6 DEF FluxType
UpToDate == w.pc # "idle" => w.snap = tmpl[w.cur]

\* A round that is not disturbed leaves the specs alone, and what it has read is
\* what is there until it ends.
LEMMA RoundKeeps ==
  ASSUME TypeInv, SnapshotVersion, UpToDate,
         \A t \in Templates : tmpl[t].phase # "deleting",
         Round \/ \E t \in Templates : Reconcile(t)
  PROVE  /\ UpToDate'
         /\ \A t \in Templates : /\ tmpl'[t].phase = tmpl[t].phase
                                 /\ tmpl'[t].spec = tmpl[t].spec
<1> USE DEF TypeInv, UpToDate
<1> DEFINE Alike == \A t \in Templates : /\ tmpl'[t].phase = tmpl[t].phase
                                        /\ tmpl'[t].spec = tmpl[t].spec
<1>1. w.cur \in Templates /\ w.applied \subseteq Namespaces
  BY DEF TypeOK, Worker
<1>2. ~RemoveFinalizer
  BY <1>1 DEF RemoveFinalizer, PruneDone
<1>3. ASSUME NEW u \in Templates, NEW v \in Template, v.phase = tmpl[u].phase,
             v.spec = tmpl[u].spec, tmpl' = [tmpl EXCEPT ![u] = NewVersion(v)]
      PROVE  Alike
  <2>1. NewVersion(v).phase = v.phase /\ NewVersion(v).spec = v.spec
    BY DEF NewVersion, Template
  <2> QED
    BY <1>3, <2>1 DEF TypeOK
<1>4. CASE UpdateStatus
  <2> DEFINE v == [tmpl[w.cur] EXCEPT !.status = w.applied]
  <2>1. v \in Template /\ v.phase = tmpl[w.cur].phase /\ v.spec = tmpl[w.cur].spec
    BY <1>1 DEF TypeOK, Template
  <2>2. tmpl' = tmpl \/ tmpl' = [tmpl EXCEPT ![w.cur] = NewVersion(v)]
    BY <1>1, <1>4 DEF UpdateStatus, StatusWritten, TypeOK
  <2>3. Alike
    BY <1>1, <1>3, <2>1, <2>2
  <2> QED
    BY <1>4, <2>3 DEF UpdateStatus, Idle
<1>5. CASE Round /\ ~UpdateStatus
  <2>1. tmpl' = tmpl
    BY <1>2, <1>5
    DEF Round, ListScope, ScopeRead, WriteBinding, ApplyDone, PruneDelete,
        StatusConflict, Retry, GiveUp, CheckNamespace, ReadBinding, PruneRead, cluster
  <2>2. ASSUME NEW t \in Templates PROVE ~Begin(t)
    BY <1>5
    DEF Begin, Round, ListScope, ScopeRead, WriteBinding, ApplyDone, PruneDelete,
        StatusConflict, Retry, GiveUp, CheckNamespace, ReadBinding, PruneRead,
        RemoveFinalizer, PruneDone
  <2>3. w'.pc = "idle" \/ SameRound
    BY <1>5, <2>2, RoundSteps DEF RoundStep, OpenNext
  <2> QED
    BY <2>1, <2>3 DEF SameRound
<1>6. ASSUME NEW t \in Templates, Reconcile(t)
      PROVE  UpToDate' /\ Alike
  <2>1. CASE AddFinalizer(t)
    <3> DEFINE v == [tmpl[t] EXCEPT !.fin = TRUE]
    <3>1. v \in Template /\ v.phase = tmpl[t].phase /\ v.spec = tmpl[t].spec
      BY DEF TypeOK, Template
    <3>2. tmpl' = [tmpl EXCEPT ![t] = NewVersion(v)]
      BY <2>1 DEF AddFinalizer, TypeOK
    <3>3. Alike
      BY <1>3, <3>1, <3>2
    <3> QED
      BY <2>1, <3>3 DEF AddFinalizer
  <2>2. CASE Begin(t)
    BY <2>2 DEF Begin, Enter, Idle, cluster
  <2> QED
    BY <1>6, <2>1, <2>2 DEF Reconcile
<1> QED
  BY <1>4, <1>5, <1>6

LEMMA QuietStep ==
  BuiltinInv /\ SnapshotVersion /\ QuietInv /\ [BuiltinNext]_allVars => QuietInv'
<1> SUFFICES ASSUME BuiltinInv, SnapshotVersion, QuietInv, [BuiltinNext]_allVars,
                    edits' = 0, faults' = 0
             PROVE  /\ \A t \in Templates : tmpl'[t].phase # "deleting"
                    /\ proc' = "booting" => InBoot'
                    /\ proc' = "running" => BehindBoot'
                    /\ w'.pc # "idle" => w'.snap = tmpl'[w'.cur]
  BY DEF QuietInv
<1>1. /\ \A t \in Templates : tmpl[t].phase # "deleting"
      /\ proc = "booting" => InBoot
      /\ proc = "running" => BehindBoot
      /\ w.pc # "idle" => w.snap = tmpl[w.cur]
      /\ \/ FluxBegin \/ FluxRead \/ FluxWrite \/ FluxRetry \/ FluxGiveUp
         \/ TemplateRound \/ (\E t \in Templates : TemplatesTakenUp(t))
         \/ UNCHANGED allVars
  BY QuietSteps DEF QuietInv
<1>2. proc \in {"booting", "running"} /\ This \in Templates /\ tmpl[This] \in Template
  BY ThisType DEF BuiltinInv, FluxType, TypeInv, TypeOK
<1>3. ~FluxRetry /\ ~FluxGiveUp
  BY <1>1, <1>2 DEF FluxRetry, FluxGiveUp, InBoot, BehindBoot
<1>4. CASE FluxBegin
  BY <1>1, <1>4, RestTypes, OrderType
  DEF FluxBegin, vars, BehindBoot, Settled
<1>5. CASE FluxRead
  <2>1. CASE FluxGoOn /\ ~(tmpl[This].phase = "absent" \/ NeedsRewrite(This))
    <3>1. tmpl'[This].phase = "live" /\ tmpl'[This].spec = BuiltinSpec[This]
      BY <1>1, <1>2, <1>5, <2>1 DEF FluxRead, vars, NeedsRewrite, Template
    <3> QED
      BY <1>1, <1>5, <2>1, <3>1, SettledOn DEF FluxRead, vars
  <2>2. CASE /\ f' = [f EXCEPT !.pc = "write", !.snap = tmpl[This]] /\ UNCHANGED proc
             /\ tmpl[This].phase = "absent" \/ NeedsRewrite(This)
    <3>1. f'.pc = "write" /\ f'.snap = tmpl[This] /\ f'.at = f.at /\ UNCHANGED vars
      BY <1>5, <2>2 DEF FluxRead, BuiltinInv, FluxType, FluxWorker
    <3>2. proc = "booting"
      <4>1. ~Settled(This)
        BY <2>2 DEF Settled, NeedsRewrite
      <4> QED
        BY <1>1, <1>2, <4>1, ThisType DEF BehindBoot, This, BuiltinInv
    <3> QED
      BY <1>1, <2>2, <3>1, <3>2 DEF InBoot, Settled, This, vars
  <2> QED
    BY <1>5, <2>1, <2>2 DEF FluxRead
<1>6. CASE FluxWrite
  <2>1. f.pc = "write" /\ w' = w
    BY <1>6 DEF FluxWrite
  <2>2. proc = "booting" /\ f.snap = tmpl[This] /\ w.pc = "idle"
    BY <1>1, <1>2, <2>1 DEF InBoot, BehindBoot
  <2>3. FluxAccepted(This)
    BY <2>2 DEF FluxAccepted
  <2>4. FluxStored(This) /\ FluxGoOn
    BY <1>6, <2>3 DEF FluxWrite
  <2> QED
    BY <1>1, <2>1, <2>2, <2>4, StoredSettles, SettledOn
<1>7. CASE TemplateRound \/ \E t \in Templates : TemplatesTakenUp(t)
  <2>1. Round \/ \E t \in Templates : Reconcile(t)
    BY <1>7 DEF TemplateRound, TemplatesTakenUp
  <2>2. UNCHANGED <<proc, f>> /\ proc = "running"
    <3>1. TemplateRound => w.pc # "idle"
      BY DEF TemplateRound, Round, ListScope, ScopeRead, WriteBinding, ApplyDone,
             PruneDelete, UpdateStatus, StatusConflict, RemoveFinalizer, PruneDone,
             Retry, GiveUp, CheckNamespace, ReadBinding, PruneRead
    <3> QED
      BY <1>1, <1>2, <1>7, <3>1 DEF TemplateRound, TemplatesTakenUp, InBoot
  <2>3. /\ UpToDate'
        /\ \A t \in Templates : /\ tmpl'[t].phase = tmpl[t].phase
                                /\ tmpl'[t].spec = tmpl[t].spec
    BY <1>1, <2>1, RoundKeeps DEF BuiltinInv, UpToDate
  <2> QED
    BY <1>1, <2>2, <2>3, OrderType DEF BehindBoot, Settled, UpToDate
<1>8. CASE UNCHANGED allVars
  BY <1>1, <1>8 DEF allVars, vars, InBoot, BehindBoot, Settled, This
<1> QED
  BY <1>1, <1>3, <1>4, <1>5, <1>6, <1>7, <1>8

\* As long as users leave the templates alone and nothing fails, no write of
\* fluxauth outdates a round of the RoleBindingTemplate controller.
THEOREM BuiltinsUndisturbed == BuiltinSpecification => []OwnWritesUndisturbed
<1>1. BuiltinInit => QuietInv
  BY RestTypes, OrderType
  DEF BuiltinInit, Init, Idle, NoTemplate, NewTemplate, QuietInv, InBoot, Places,
      AtRead
<1>2. QuietInv => OwnWritesUndisturbed
  BY DEF QuietInv, OwnWritesUndisturbed
<1>3. VersionInv => SnapshotVersion
  BY DEF VersionInv
<1> QED
  BY <1>1, <1>2, <1>3, QuietStep, BuiltinInvariance, VersionInvariance, BuiltinsOpen,
     PTL DEF BuiltinSpecification
=============================================================================
