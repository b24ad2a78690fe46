------------------------- MODULE RoleBindingTemplate -------------------------
(***************************************************************************)
(* The RoleBindingTemplate controller: one worker turns the              *)
(* RoleBindingTemplate custom resources into RoleBindings, one per         *)
(* namespace in the scope of the template, and keeps the list of these     *)
(* namespaces in the status of the template.                               *)
(*                                                                         *)
(* Every call to the API server is a step, so that users, the namespace    *)
(* lifecycle, failing calls and restarts of the operator interleave with   *)
(* a round at every point where they can.                                  *)
(***************************************************************************)
EXTENDS Naturals, FiniteSets

CONSTANTS
  Templates,            \* the RoleBindingTemplate objects, by name
  Names,                \* names of RoleBindings
  Namespaces,           \* organization and cluster namespaces
  ProtectedNamespaces,  \* those IsProtectedNamespace holds for
  FluxNamespace,        \* the namespace of the Flux controllers
  Orgs,                 \* Organization objects
  OrgOf,                \* the organization a namespace belongs to
  Labels,               \* what selectors tell apart of an organization's labels
  Roles,                \* role references with a name and a legal kind
  BadRole,              \* an incomplete role reference
  Specs,                \* the template specs users write
  NoNamespace,          \* the namespace of a subject that names none
  NoBinding,            \* no RoleBinding of that name
  MaxEdits,             \* bound: steps of users and of the namespace lifecycle
  MaxFaults,            \* bound: failing calls and restarts
  MaxRetries            \* retries retryresource makes within one round

SubjectSpec == [kind : {"Group", "ServiceAccount"},
                ns : Namespaces \cup {FluxNamespace, NoNamespace}]

ASSUME SpecAssumption ==
  /\ Specs # {}
  /\ Specs \subseteq [name : Names, role : Roles \cup {BadRole},
                      subjects : SUBSET SubjectSpec, scope : SUBSET Labels]

ASSUME NameAssumption ==
  /\ NoNamespace \notin Namespaces \cup {FluxNamespace}
  /\ BadRole \notin Roles
  /\ OrgOf \in [Namespaces -> Orgs]
  /\ ProtectedNamespaces \subseteq Namespaces
  /\ Templates # {} /\ Namespaces # {}

ASSUME BoundAssumption ==
  MaxEdits \in Nat /\ MaxFaults \in Nat /\ MaxRetries \in Nat

VARIABLES
  tmpl,      \* the templates, with finalizer, status and resource version
  rb,        \* the RoleBinding of each namespace and name
  ns,        \* the phase of each namespace
  orgLabel,  \* the label of each organization
  w,         \* the worker: where it is in its round, and its local variables
  edits,     \* steps of users and of the namespace lifecycle so far
  faults,    \* failing calls and restarts so far
  calm       \* no fault, rename or edit of a template in work so far

vars == <<tmpl, rb, ns, orgLabel, w, edits, faults, calm>>

-----------------------------------------------------------------------------
(* Bindings and scopes. *)

\* Mutant: the namespace is not filled in.
ResolvedNot(sub, n) == sub

\* A service account without a namespace is the one of the binding's namespace.
Resolved(sub, n) ==
  IF sub.kind = "ServiceAccount" /\ sub.ns = NoNamespace
    THEN [kind |-> sub.kind, ns |-> n]
    ELSE sub

\* Mutant: any service account is let in.
ValidByKind(sub, n) ==
  n \in ProtectedNamespaces => sub.kind = "ServiceAccount"

\* Protected namespaces take service accounts of their own and of Flux only.
Valid(sub, n) ==
  n \in ProtectedNamespaces =>
    sub.kind = "ServiceAccount" /\ sub.ns \in {FluxNamespace, n}

\* getRoleBindingFromTemplate followed by cleanSubjects.
Desired(s, n) ==
  [role |-> s.role,
   subjects |-> {sub \in {Resolved(u, n) : u \in s.subjects} : Valid(sub, n)}]

\* The namespaces of the organizations the selector matches.
Listed(s) == {n \in Namespaces : orgLabel[OrgOf[n]] \in s.scope}

\* Mutant: a binding that is there is never touched again.
NeedsNoUpdate(want, have) == FALSE

\* RoleBindingNeedsUpdate compares subjects and not the role reference. Subjects
\* are those of the API server, which gives a group its API group: a template that
\* leaves it out has its bindings written again in every round.
NeedsUpdate(want, have) == want.subjects # have.subjects

-----------------------------------------------------------------------------
(* Types and the initial state. *)

\* A service account in a binding always has a namespace.
Subject == [kind : {"Group"}, ns : Namespaces \cup {FluxNamespace, NoNamespace}]
             \cup [kind : {"ServiceAccount"}, ns : Namespaces \cup {FluxNamespace}]

Binding == [role : Roles, subjects : SUBSET Subject]

Template == [phase : {"absent", "live", "deleting"}, fin : BOOLEAN,
             spec : Specs, status : SUBSET Namespaces, rv : Nat]

NoTemplate == [phase |-> "absent", fin |-> FALSE,
               spec |-> CHOOSE s \in Specs : TRUE, status |-> {}, rv |-> 0]

NewTemplate(s, rv) ==
  [phase |-> "live", fin |-> FALSE, spec |-> s, status |-> {}, rv |-> rv]

\* The API server gives every content of an object a version of its own.
NewVersion(obj) == [obj EXCEPT !.rv = @ + 1]

AnyTemplate == CHOOSE t \in Templates : TRUE
AnyNamespace == CHOOSE n \in Namespaces : TRUE

Idle == [pc |-> "idle", cur |-> AnyTemplate, snap |-> NoTemplate,
         list |-> {}, scope |-> {}, applied |-> {}, prune |-> {},
         at |-> AnyNamespace, seen |-> FALSE, retries |-> 0]

Worker == [pc : {"idle", "list", "check", "apply", "write", "prune", "delete",
                 "failed"},
           cur : Templates, snap : Template,
           list : SUBSET Namespaces, scope : SUBSET Namespaces,
           applied : SUBSET Namespaces, prune : SUBSET Namespaces,
           at : Namespaces, seen : BOOLEAN, retries : Nat]

Init ==
  /\ tmpl \in [Templates -> {NoTemplate} \cup {NewTemplate(s, 1) : s \in Specs}]
  /\ rb = [n \in Namespaces |-> [nm \in Names |-> NoBinding]]
  /\ ns \in [Namespaces -> {"absent", "active"}]
  /\ orgLabel \in [Orgs -> Labels]
  /\ w = Idle
  /\ edits = 0
  /\ faults = 0
  /\ calm = TRUE

-----------------------------------------------------------------------------
(* Reconciliation: operatorkit around the resource's two handlers. *)

cluster == <<tmpl, rb, ns, orgLabel>>
budget == <<edits, faults, calm>>

BindingName == w.snap.spec.name
Want(n) == Desired(w.snap.spec, n)

\* A live template without finalizer only gets the finalizer.
AddFinalizer(t) ==
  /\ w.pc = "idle"
  /\ tmpl[t].phase = "live" /\ ~tmpl[t].fin
  /\ tmpl' = [tmpl EXCEPT ![t] = NewVersion([@ EXCEPT !.fin = TRUE])]
  /\ UNCHANGED <<rb, ns, orgLabel, w, budget>>

\* Mutant: a retry takes the bindings for deleted.
EnterDone(t, snap, retries) ==
  [Idle EXCEPT !.pc = IF snap.phase = "live" THEN "list" ELSE "prune",
               !.cur = t, !.snap = snap, !.retries = retries,
               !.prune = IF snap.phase = "live" \/ retries > 0 THEN {} ELSE snap.status]

\* EnsureDeleted works through the recorded namespaces; EnsureCreated begins
\* with listing the scope.
Enter(t, snap, retries) ==
  [Idle EXCEPT !.pc = IF snap.phase = "live" THEN "list" ELSE "prune",
               !.cur = t, !.snap = snap, !.retries = retries,
               !.prune = IF snap.phase = "live" THEN {} ELSE snap.status]

Begin(t) ==
  /\ w.pc = "idle"
  /\ tmpl[t].phase # "absent" /\ tmpl[t].fin
  /\ w' = Enter(t, tmpl[t], 0)
  /\ UNCHANGED <<cluster, budget>>

ListScope ==
  /\ w.pc = "list"
  /\ w' = [w EXCEPT !.pc = "check", !.list = Listed(w.snap.spec)]
  /\ UNCHANGED <<cluster, budget>>

\* Namespaces that are gone or terminating are not in the scope.
CheckNamespace(n) ==
  /\ w.pc = "check" /\ n \in w.list
  /\ w' = [w EXCEPT !.list = @ \ {n},
                    !.scope = IF ns[n] = "active" THEN @ \cup {n} ELSE @]
  /\ UNCHANGED <<cluster, budget>>

\* Mutant: incompleteRoleRef is not asked.
ScopeReadUnchecked ==
  /\ w.pc = "check" /\ w.list = {}
  /\ w' = [w EXCEPT !.pc = "apply"]
  /\ UNCHANGED <<cluster, budget>>

\* The first binding that cannot be built ends the round.
ScopeRead ==
  /\ w.pc = "check" /\ w.list = {}
  /\ w' = [w EXCEPT !.pc = IF w.scope # {} /\ w.snap.spec.role = BadRole
                             THEN "failed" ELSE "apply"]
  /\ UNCHANGED <<cluster, budget>>

\* Mutant: a namespace is recorded even if the write failed.
DoneAlways(n, ok) == [w EXCEPT !.pc = "apply", !.scope = @ \ {n}, !.applied = @ \cup {n}]

\* The worker is done with namespace n, and has or has not applied there.
Done(n, ok) == [w EXCEPT !.pc = "apply", !.scope = @ \ {n},
                         !.applied = IF ok THEN @ \cup {n} ELSE @]

\* The Get of CreateOrUpdateRoleBinding.
ReadBinding(n) ==
  /\ w.pc = "apply" /\ n \in w.scope
  /\ LET have == rb[n][BindingName]
     IN  w' = IF Want(n).subjects = {}
                THEN Done(n, FALSE)
              ELSE IF have # NoBinding /\ ~NeedsUpdate(Want(n), have)
                THEN Done(n, TRUE)
              ELSE [w EXCEPT !.pc = "write", !.at = n, !.seen = have # NoBinding]
  /\ UNCHANGED <<cluster, budget>>

\* What the API server makes of the Create or the Update: nothing is created
\* in a namespace that is not active, and a role reference is immutable.
WriteAccepted(n) ==
  IF w.seen
    THEN rb[n][BindingName] # NoBinding /\ rb[n][BindingName].role = Want(n).role
    ELSE ns[n] = "active" /\ rb[n][BindingName] = NoBinding

\* AlreadyExists is as good as created.
WriteTolerated(n) ==
  ~w.seen /\ ns[n] = "active" /\ rb[n][BindingName] # NoBinding

Written(n) == [rb EXCEPT ![n][BindingName] = Want(n)]

WriteBinding ==
  /\ w.pc = "write"
  /\ rb' = IF WriteAccepted(w.at) THEN Written(w.at) ELSE rb
  /\ w' = Done(w.at, WriteAccepted(w.at) \/ WriteTolerated(w.at))
  /\ UNCHANGED <<tmpl, ns, orgLabel, budget>>

\* Mutant: the namespaces that are new are pruned, not those that are left.
ApplyDoneSwapped ==
  /\ w.pc = "apply" /\ w.scope = {}
  /\ w' = [w EXCEPT !.pc = "prune", !.prune = w.applied \ w.snap.status]
  /\ UNCHANGED <<cluster, budget>>

\* Mutant: nothing is pruned.
ApplyDoneKeeping ==
  /\ w.pc = "apply" /\ w.scope = {}
  /\ w' = [w EXCEPT !.pc = "prune"]
  /\ UNCHANGED <<cluster, budget>>

\* Then the namespaces of the old status that were not applied are pruned.
ApplyDone ==
  /\ w.pc = "apply" /\ w.scope = {}
  /\ w' = [w EXCEPT !.pc = "prune", !.prune = w.snap.status \ w.applied]
  /\ UNCHANGED <<cluster, budget>>

\* Mutant: a binding that is already gone is an error.
PruneReadStrict(n) ==
  /\ w.pc = "prune" /\ n \in w.prune
  /\ w' = IF rb[n][BindingName] = NoBinding
            THEN [w EXCEPT !.pc = "failed"]
            ELSE [w EXCEPT !.pc = "delete", !.at = n]
  /\ UNCHANGED <<cluster, budget>>

\* The Get of DeleteRoleBinding.
PruneRead(n) ==
  /\ w.pc = "prune" /\ n \in w.prune
  /\ w' = IF rb[n][BindingName] = NoBinding
            THEN [w EXCEPT !.prune = @ \ {n}]
            ELSE [w EXCEPT !.pc = "delete", !.at = n]
  /\ UNCHANGED <<cluster, budget>>

Removed(n) == [rb EXCEPT ![n][BindingName] = NoBinding]

PruneDelete ==
  /\ w.pc = "delete"
  /\ rb' = Removed(w.at)
  /\ w' = [w EXCEPT !.pc = "prune", !.prune = @ \ {w.at}]
  /\ UNCHANGED <<tmpl, ns, orgLabel, budget>>

PruneDone == w.pc = "prune" /\ w.prune = {}

\* Mutant: the status is written over whatever version there is.
StatusForced == tmpl[w.cur].phase # "absent"

\* The status update carries the snapshot's resource version.
StatusAccepted ==
  tmpl[w.cur].phase # "absent" /\ tmpl[w.cur].rv = w.snap.rv

\* An update that changes nothing does not make a new version.
StatusWritten ==
  IF tmpl[w.cur].status = w.applied THEN tmpl
  ELSE [tmpl EXCEPT ![w.cur] = NewVersion([@ EXCEPT !.status = w.applied])]

UpdateStatus ==
  /\ PruneDone /\ w.snap.phase = "live" /\ StatusAccepted
  /\ tmpl' = StatusWritten
  /\ w' = Idle
  /\ UNCHANGED <<rb, ns, orgLabel, budget>>

StatusConflict ==
  /\ PruneDone /\ w.snap.phase = "live" /\ ~StatusAccepted
  /\ w' = [w EXCEPT !.pc = "failed"]
  /\ UNCHANGED <<cluster, budget>>

\* After EnsureDeleted operatorkit drops the finalizer, and the object goes.
RemoveFinalizer ==
  /\ PruneDone /\ w.snap.phase = "deleting"
  /\ tmpl' = [tmpl EXCEPT ![w.cur] = NewVersion([@ EXCEPT !.phase = "absent",
                                                          !.fin = FALSE,
                                                          !.status = {}])]
  /\ w' = Idle
  /\ UNCHANGED <<rb, ns, orgLabel, budget>>

\* retryresource calls the handler again with the object of the failed call.
Retry ==
  /\ w.pc = "failed" /\ w.retries < MaxRetries
  /\ w' = Enter(w.cur, w.snap, w.retries + 1)
  /\ UNCHANGED <<cluster, budget>>

GiveUp ==
  /\ w.pc = "failed" /\ w.retries = MaxRetries
  /\ w' = Idle
  /\ UNCHANGED <<cluster, budget>>

Round ==
  \/ ListScope \/ ScopeRead \/ WriteBinding \/ ApplyDone \/ PruneDelete
  \/ UpdateStatus \/ StatusConflict \/ RemoveFinalizer \/ Retry \/ GiveUp
  \/ \E n \in Namespaces : CheckNamespace(n) \/ ReadBinding(n) \/ PruneRead(n)

Reconcile(t) == AddFinalizer(t) \/ Begin(t)

-----------------------------------------------------------------------------
(* Failing calls and restarts. *)

Fault ==
  /\ faults < MaxFaults
  /\ faults' = faults + 1
  /\ calm' = FALSE
  /\ UNCHANGED <<ns, orgLabel, edits>>

\* Listing, pruning and the status update give up on an error. The write of a
\* failed call may have happened.
CallFails ==
  /\ Fault
  /\ w.pc \in {"list", "prune", "delete"}
  /\ ~(PruneDone /\ w.snap.phase = "deleting")
  /\ w' = [w EXCEPT !.pc = "failed"]
  /\ \/ UNCHANGED <<tmpl, rb>>
     \/ w.pc = "delete" /\ rb' = Removed(w.at) /\ UNCHANGED tmpl
     \/ PruneDone /\ StatusAccepted /\ tmpl' = StatusWritten /\ UNCHANGED rb

\* A namespace that cannot be read counts as out of scope.
CheckFails(n) ==
  /\ Fault
  /\ w.pc = "check" /\ n \in w.list
  /\ w' = [w EXCEPT !.list = @ \ {n}]
  /\ UNCHANGED <<tmpl, rb>>

\* A binding that cannot be read or written is left out of the status.
ApplyFails(n) ==
  /\ Fault
  /\ \/ w.pc = "apply" /\ n \in w.scope /\ UNCHANGED rb
     \/ /\ w.pc = "write" /\ n = w.at
        /\ \/ UNCHANGED rb
           \/ WriteAccepted(n) /\ rb' = Written(n)
  /\ w' = Done(n, FALSE)
  /\ UNCHANGED tmpl

Crash ==
  /\ Fault
  /\ w.pc # "idle"
  /\ w' = Idle
  /\ UNCHANGED <<tmpl, rb>>

FailingCall == CallFails \/ \E n \in Namespaces : CheckFails(n) \/ ApplyFails(n)

Failure == FailingCall \/ Crash

-----------------------------------------------------------------------------
(* Users, organization-operator and the namespace lifecycle. *)

Edit == edits < MaxEdits /\ edits' = edits + 1 /\ UNCHANGED <<faults, w>>

InWork(t) == w.pc # "idle" /\ w.cur = t

Created(t, s) ==
  /\ tmpl[t].phase = "absent"
  /\ tmpl' = [tmpl EXCEPT ![t] = NewTemplate(s, @.rv + 1)]

Edited(t, s) ==
  /\ tmpl[t].phase # "absent" /\ s # tmpl[t].spec
  /\ tmpl' = [tmpl EXCEPT ![t] = NewVersion([@ EXCEPT !.spec = s])]

CreateTemplate(t, s) ==
  /\ Edit /\ Created(t, s)
  /\ calm' = (calm /\ ~InWork(t))
  /\ UNCHANGED <<rb, ns, orgLabel>>

EditTemplate(t, s) ==
  /\ Edit /\ Edited(t, s)
  /\ calm' = (calm /\ ~InWork(t) /\ s.name = tmpl[t].spec.name)
  /\ UNCHANGED <<rb, ns, orgLabel>>

\* Without a finalizer the object goes at once.
DeleteTemplate(t) ==
  /\ Edit
  /\ tmpl[t].phase = "live"
  /\ LET phase == IF tmpl[t].fin THEN "deleting" ELSE "absent"
     IN  tmpl' = [tmpl EXCEPT ![t] = NewVersion([@ EXCEPT !.phase = phase])]
  /\ calm' = (calm /\ ~InWork(t))
  /\ UNCHANGED <<rb, ns, orgLabel>>

Relabel(o, l) ==
  /\ Edit
  /\ l # orgLabel[o]
  /\ orgLabel' = [orgLabel EXCEPT ![o] = l]
  /\ UNCHANGED <<tmpl, rb, ns, calm>>

\* A namespace that goes takes its bindings with it.
ChangeNamespace(n) ==
  /\ Edit
  /\ ns' = [ns EXCEPT ![n] = CASE @ = "absent" -> "active"
                               [] @ = "active" -> "terminating"
                               [] OTHER -> "absent"]
  /\ rb' = IF ns[n] = "terminating"
             THEN [rb EXCEPT ![n] = [nm \in Names |-> NoBinding]] ELSE rb
  /\ UNCHANGED <<tmpl, orgLabel, calm>>

\* Somebody deletes a binding the operator made.
DropBinding(n, nm) ==
  /\ Edit
  /\ rb[n][nm] # NoBinding
  /\ rb' = [rb EXCEPT ![n][nm] = NoBinding]
  /\ UNCHANGED <<tmpl, ns, orgLabel, calm>>

Environment ==
  \/ \E t \in Templates :
       \/ DeleteTemplate(t)
       \/ \E s \in Specs : CreateTemplate(t, s) \/ EditTemplate(t, s)
  \/ \E o \in Orgs, l \in Labels : Relabel(o, l)
  \/ \E n \in Namespaces :
       ChangeNamespace(n) \/ \E nm \in Names : DropBinding(n, nm)

Next == Round \/ (\E t \in Templates : Reconcile(t)) \/ Failure \/ Environment

Spec == Init /\ [][Next]_vars

\* The worker keeps going; the resync and the work queue bring every template
\* back to it. Users, faults and the namespace lifecycle owe nothing.
Fairness == /\ WF_vars(Round)
            /\ \A t \in Templates : SF_vars(Reconcile(t))

FairSpec == Spec /\ Fairness

-----------------------------------------------------------------------------
(* Properties. *)

\* Every variable has its type; in particular every service account a binding
\* names has a namespace, whatever the template left out.
TypeOK ==
  /\ tmpl \in [Templates -> Template]
  /\ rb \in [Namespaces -> [Names -> Binding \cup {NoBinding}]]
  /\ ns \in [Namespaces -> {"absent", "active", "terminating"}]
  /\ orgLabel \in [Orgs -> Labels]
  /\ w \in Worker
  /\ edits \in Nat /\ faults \in Nat
  /\ calm \in BOOLEAN

\* A binding is the whole of what one version of a template says, for its
\* namespace: no binding joins the role of one version with the subjects of
\* another, although updates compare subjects only and overwrite blindly.
GrantsAsSpecified ==
  \A n \in Namespaces, nm \in Names :
    rb[n][nm] # NoBinding =>
      \E s \in Specs : s.name = nm /\ s.role # BadRole /\ rb[n][nm] = Desired(s, n)

\* In a protected namespace only its own and the Flux service accounts are
\* ever granted anything (cleanSubjects).
ProtectedNamespacesClosed ==
  \A n \in ProtectedNamespaces, nm \in Names :
    rb[n][nm] # NoBinding =>
      \A sub \in rb[n][nm].subjects :
        sub.kind = "ServiceAccount" /\ sub.ns \in {FluxNamespace, n}

InStatus(n, nm) ==
  \E t \in Templates : /\ tmpl[t].phase # "absent"
                       /\ tmpl[t].spec.name = nm
                       /\ n \in tmpl[t].status

\* As long as no call fails, the operator is not restarted, no template is
\* touched while a round works on it and none is renamed, every binding is in
\* the status of a template, or about to be: none escapes pruning and deletion
\* (the doc of RoleBindingTemplateStatus.Namespaces).
BindingsAccounted ==
  calm =>
    \A n \in Namespaces, nm \in Names :
      rb[n][nm] # NoBinding =>
        \/ InStatus(n, nm)
        \/ w.pc # "idle" /\ BindingName = nm /\ n \in w.applied

\* The list of namespaces a status holds was computed from the spec next to
\* it: a status update never lands on a spec its round did not read.
StatusMatchesSpec ==
  [][\A t \in Templates :
       tmpl'[t].status # tmpl[t].status /\ tmpl'[t].phase # "absent"
         => /\ w.cur = t /\ w.snap.spec = tmpl[t].spec
            /\ w.snap.status = tmpl[t].status]_vars

\* A template goes only when none of the bindings its status records is left,
\* under the name its last round read, however calls failed before.
DeletedTemplateIsClean ==
  [][\A t \in Templates :
       tmpl[t].phase = "deleting" /\ tmpl'[t].phase = "absent"
         => \A n \in tmpl[t].status : rb[n][BindingName] = NoBinding]_vars

\* What makes the properties above inductive.

\* Only objects with a finalizer have a status.
TemplateShape ==
  \A t \in Templates :
    /\ (tmpl[t].phase = "absent" => ~tmpl[t].fin)
    /\ (~tmpl[t].fin => tmpl[t].status = {})
    /\ (tmpl[t].phase = "deleting" => tmpl[t].fin)

\* A resource version names one content of the template.
SnapshotVersion ==
  w.pc # "idle" =>
    /\ w.snap.phase # "absent" /\ w.snap.fin
    /\ w.snap.rv <= tmpl[w.cur].rv
    /\ (w.snap.rv = tmpl[w.cur].rv => w.snap = tmpl[w.cur])

\* A round on a template in deletion only prunes, and nobody else changes what
\* it has to prune.
DeletingRound ==
  w.pc # "idle" /\ w.snap.phase = "deleting" =>
    /\ w.pc \in {"prune", "delete", "failed"}
    /\ w.applied = {}
    /\ tmpl[w.cur].phase = "deleting" /\ tmpl[w.cur].status = w.snap.status

\* What the round has pruned stays pruned.
PrunedGone ==
  w.pc \in {"prune", "delete"} =>
    /\ (w.pc = "delete" => w.at \in w.prune)
    /\ \A n \in w.snap.status \ (w.prune \cup w.applied) :
         rb[n][BindingName] = NoBinding

\* What a round has applied it does not prune. It writes bindings with subjects
\* only, and is alone in making them.
RoundApart ==
  /\ w.pc \in {"prune", "delete"} => w.prune \cap w.applied = {}
  /\ w.pc = "write" => Want(w.at).subjects # {}
  /\ w.pc = "write" /\ ~w.seen => rb[w.at][BindingName] = NoBinding

\* A calm round works on the template as it is, and fails before it writes.
CalmRound ==
  calm /\ w.pc # "idle" => /\ w.snap = tmpl[w.cur]
                          /\ (w.pc \in {"list", "check", "failed"} => w.applied = {})

IInv == /\ TypeOK /\ TemplateShape /\ SnapshotVersion /\ DeletingRound
        /\ PrunedGone /\ RoundApart /\ CalmRound /\ BindingsAccounted

\* As long as nothing disturbs the operator, the controller is a ledger: what it
\* grants is what the template says at that moment, and what it revokes was in the
\* ledger. The ledger is the status, and what the round in work has added to it
\* or struck from it.
Ledger(t) ==
  IF ~InWork(t) THEN tmpl[t].status
  ELSE w.applied \cup IF w.pc \in {"prune", "delete"} THEN w.prune ELSE tmpl[t].status

Promise == INSTANCE TemplateGrants WITH
  Content <- [s \in Specs |-> [n \in Namespaces |-> Desired(s, n)]],
  phase <- [t \in Templates |-> tmpl[t].phase],
  spec <- [t \in Templates |-> tmpl[t].spec],
  ledger <- [t \in Templates |-> Ledger(t)],
  grants <- rb,
  settled <- calm

ImplementsPromise == Promise!Spec

Wanted(t, n) ==
  /\ tmpl[t].phase = "live" /\ tmpl[t].spec.role # BadRole
  /\ n \in Listed(tmpl[t].spec) /\ ns[n] = "active"
  /\ Desired(tmpl[t].spec, n).subjects # {}

Granted(t, n) ==
  LET have == rb[n][tmpl[t].spec.name]
  IN  have # NoBinding /\ have.subjects = Desired(tmpl[t].spec, n).subjects

\* Two templates that want a binding of one name in one namespace overwrite each
\* other for ever.
Contested(t, n) ==
  \E u \in Templates \ {t} : Wanted(u, n) /\ tmpl[u].spec.name = tmpl[t].spec.name

\* Every namespace in the scope of a template in the end has the binding with
\* the subjects the template names, whatever calls failed and rounds were cut
\* short; only a binding that a disturbed round left with another role, or another
\* template that wants it, may stand in the way.
GrantsArrive ==
  <>[]\A t \in Templates, n \in Namespaces :
        Wanted(t, n) /\ ~Contested(t, n) =>
          \/ Granted(t, n)
          \/ ~calm /\ rb[n][tmpl[t].spec.name] # NoBinding
                   /\ rb[n][tmpl[t].spec.name].role # tmpl[t].spec.role

\* A binding no template wants in the end is gone, be it that the scope or the
\* subjects left its namespace out, or that the template did go.
GrantsWithdrawn ==
  <>[](calm => \A n \in Namespaces, nm \in Names :
         rb[n][nm] # NoBinding =>
           \E t \in Templates : /\ tmpl[t].spec.name = nm
                                /\ tmpl[t].phase = "live"
                                /\ \/ /\ n \in Listed(tmpl[t].spec)
                                      /\ Desired(tmpl[t].spec, n).subjects # {}
                                   \/ tmpl[t].spec.role = BadRole)

\* A template that is being deleted goes.
DeletionCompletes ==
  \A t \in Templates : tmpl[t].phase = "deleting" ~> tmpl[t].phase = "absent"

\* api/v1alpha1/rolebindingtemplate_types.go:35: the status is the list of the
\* namespaces the binding is currently applied to; here, that a binding is in the
\* end recorded or gone, as long as a template of its name is there.
StatusListsBindings ==
  \A n \in Namespaces, nm \in Names :
    rb[n][nm] # NoBinding ~>
      \/ rb[n][nm] = NoBinding \/ InStatus(n, nm)
      \/ \A t \in Templates : tmpl[t].phase = "live" => tmpl[t].spec.name # nm

\* README.md:110: policies are defined once and "automatically applied across
\* all relevant namespaces"; here, that the binding a calm operator keeps has the
\* role the template names.
RolesArrive ==
  <>[](calm => \A t \in Templates, n \in Namespaces :
         Wanted(t, n) /\ rb[n][tmpl[t].spec.name] # NoBinding =>
           rb[n][tmpl[t].spec.name].role = tmpl[t].spec.role)
=============================================================================
