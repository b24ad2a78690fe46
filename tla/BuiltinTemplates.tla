-------------------------- MODULE BuiltinTemplates --------------------------
(***************************************************************************)
(* fluxauth, the last resource of the defaultnamespace controller, writes  *)
(* RoleBindingTemplates of the operator itself, which the                  *)
(* RoleBindingTemplate controller carries out. Both controllers are        *)
(* workers of one process and write the same objects: one the spec, the    *)
(* other the finalizer and the status. Boot runs fluxauth before any       *)
(* controller starts; a restart stops both workers and boots again.        *)
(*                                                                         *)
(* The steps of the RoleBindingTemplate controller, of users and of the    *)
(* namespace lifecycle are those of RoleBindingTemplate.                   *)
(***************************************************************************)
EXTENDS RoleBindingTemplate, Sequences

CONSTANTS
  Order,       \* the templates of the operator, as fluxauth goes through them
  BuiltinSpec  \* what their specs are to be

ASSUME BuiltinAssumption ==
  /\ Order \in Seq(Templates) /\ Order # <<>>
  /\ BuiltinSpec \in [Templates -> Specs]

VARIABLES
  proc,  \* the operator's process: in Boot, or running its controllers
  f      \* fluxauth: its step, the template it is at, and the copy it has read

allVars == <<vars, proc, f>>

Places == 1..Len(Order)

AtRest == [pc |-> "rest", at |-> 1, snap |-> NoTemplate]
AtRead(i) == [pc |-> "read", at |-> i, snap |-> NoTemplate]

FluxWorker == [pc : {"rest", "read", "write", "failed"}, at : Places, snap : Template]

BuiltinInit == Init /\ proc = "booting" /\ f = AtRead(1)

-----------------------------------------------------------------------------
(* The rounds of fluxauth. *)

This == Order[f.at]

\* Behind the last template, Boot starts the controllers.
FluxGoOn ==
  IF f.at = Len(Order) THEN f' = AtRest /\ proc' = "running"
  ELSE f' = AtRead(f.at + 1) /\ UNCHANGED proc

\* The round of the defaultnamespace controller has come to fluxauth.
FluxBegin ==
  /\ proc = "running" /\ f.pc = "rest"
  /\ f' = AtRead(1)
  /\ UNCHANGED <<vars, proc>>

\* Mutant: a template that is there is left alone.
NeedsNoRewrite(t) == FALSE

\* needsUpdate compares specs.
NeedsRewrite(t) == tmpl[t].spec # BuiltinSpec[t]

\* The Get of createOrUpdateRoleBindingTemplate.
FluxRead ==
  /\ f.pc = "read"
  /\ IF tmpl[This].phase = "absent" \/ NeedsRewrite(This)
       THEN f' = [f EXCEPT !.pc = "write", !.snap = tmpl[This]] /\ UNCHANGED proc
       ELSE FluxGoOn
  /\ UNCHANGED vars

\* Mutant: the object is written back over whatever version there is.
FluxAcceptedAlways(t) == (f.snap.phase = "absent") = (tmpl[t].phase = "absent")

\* Nothing is created over a template that is there, and an update carries the
\* version of the copy.
FluxAccepted(t) ==
  IF f.snap.phase = "absent" THEN tmpl[t].phase = "absent"
  ELSE tmpl[t].phase # "absent" /\ tmpl[t].rv = f.snap.rv

\* An update writes the copy back with the operator's spec: the finalizer is
\* the one that was read, the status is not part of it.
FluxStored(t) ==
  /\ FluxAccepted(t)
  /\ IF f.snap.phase = "absent" THEN Created(t, BuiltinSpec[t])
     ELSE tmpl' = [tmpl EXCEPT ![t] =
            NewVersion([@ EXCEPT !.spec = BuiltinSpec[t], !.fin = f.snap.fin])]
  /\ UNCHANGED <<rb, ns, orgLabel>>

\* AlreadyExists is as good as created; a conflict, or an update of a template
\* that is gone, is an error.
FluxWrite ==
  /\ f.pc = "write"
  /\ \/ /\ FluxStored(This)
        /\ calm' = (calm /\ ~InWork(This) /\ (tmpl[This].phase # "absent" =>
                            BuiltinSpec[This].name = tmpl[This].spec.name))
        /\ FluxGoOn
     \/ /\ ~FluxAccepted(This)
        /\ IF f.snap.phase = "absent" THEN FluxGoOn
           ELSE f' = [f EXCEPT !.pc = "failed"] /\ UNCHANGED proc
        /\ UNCHANGED <<cluster, calm>>
  /\ UNCHANGED <<w, edits, faults>>

\* retryresource calls the resource again, from its first template.
FluxRetry ==
  /\ f.pc = "failed"
  /\ f' = AtRead(1)
  /\ UNCHANGED <<vars, proc>>

\* In Boot the error ends the process, which is started again; a round of the
\* controller waits for the next resync.
FluxGiveUp ==
  /\ f.pc = "failed"
  /\ f' = IF proc = "booting" THEN AtRead(1) ELSE AtRest
  /\ UNCHANGED <<vars, proc>>

Flux == FluxBegin \/ FluxRead \/ FluxWrite \/ FluxRetry \/ FluxGiveUp

-----------------------------------------------------------------------------
(* Failing calls, restarts, and both controllers together. *)

\* The write of a failed call may have happened.
FluxCallFails ==
  /\ Fault
  /\ f.pc \in {"read", "write"}
  /\ f' = [f EXCEPT !.pc = "failed"]
  /\ \/ UNCHANGED tmpl
     \/ f.pc = "write" /\ FluxStored(This)
  /\ UNCHANGED <<rb, w, proc>>

\* A restart stops both workers, and Boot begins again.
Restart ==
  /\ Fault
  /\ proc' = "booting"
  /\ f' = AtRead(1)
  /\ w' = Idle
  /\ UNCHANGED <<tmpl, rb>>

\* Mutant: the controllers start without waiting for Boot.
TemplatesTakenUpEarly(t) == Reconcile(t) /\ UNCHANGED <<proc, f>>

\* Controllers run behind Boot only.
TemplatesTakenUp(t) == proc = "running" /\ Reconcile(t) /\ UNCHANGED <<proc, f>>

TemplateRound == Round /\ UNCHANGED <<proc, f>>

BuiltinNext ==
  \/ Flux
  \/ TemplateRound
  \/ \E t \in Templates : TemplatesTakenUp(t)
  \/ FluxCallFails \/ Restart
  \/ (FailingCall \/ Environment) /\ UNCHANGED <<proc, f>>

BuiltinSpecification == BuiltinInit /\ [][BuiltinNext]_allVars

\* As in RoleBindingTemplate; fluxauth goes on, and the resync brings its next
\* round.
FairBuiltins ==
  /\ BuiltinSpecification
  /\ WF_allVars(Flux)
  /\ WF_allVars(TemplateRound)
  /\ \A t \in Templates : SF_allVars(TemplatesTakenUp(t))

-----------------------------------------------------------------------------
(* Properties. *)

BuiltinTypeOK ==
  /\ TypeOK
  /\ proc \in {"booting", "running"}
  /\ f \in FluxWorker

\* fluxauth and the RoleBindingTemplate controller write the same objects, but
\* as long as users leave the templates alone and no call fails, no round of the
\* RoleBindingTemplate controller is outdated by a write of fluxauth (and leaves
\* a binding no status lists): Boot is through with its writes before.
OwnWritesUndisturbed ==
  edits = 0 /\ faults = 0 /\ w.pc # "idle" => w.snap = tmpl[w.cur]

\* The finalizer keeps a template until its bindings are removed; the updates of
\* fluxauth write the finalizer back with the rest of the object, and still never
\* take it from a template with a status (or one that is being deleted).
StatusHeld == TemplateShape

\* The templates of the operator are in the end what it wants them to be, and
\* every active namespace has what they grant, whoever changed or deleted them
\* and whatever calls failed; only a binding of another role may stand in the
\* way.
BuiltinsArrive ==
  <>[]\A i \in Places :
        LET s == BuiltinSpec[Order[i]]
        IN  /\ tmpl[Order[i]].phase = "live" /\ tmpl[Order[i]].spec = s
            /\ \A n \in Listed(s) :
                 ns[n] = "active" /\ Desired(s, n).subjects # {} =>
                   /\ rb[n][s.name] # NoBinding
                   /\ \/ rb[n][s.name].subjects = Desired(s, n).subjects
                      \/ ~calm /\ rb[n][s.name].role # s.role
=============================================================================
