# A TLA+ verification of rbac-operator

rbac-operator is a Kubernetes operator. It watches namespaces, ClusterRoles and
RoleBindingTemplates and makes Roles, RoleBindings, ClusterRoleBindings and
ServiceAccounts out of them, so that access follows organizations and clusters
as they come and go. This directory holds TLA+ models of its controllers, the
TLC configurations that check them on small instances, and theorems about them
with proofs for TLAPS. `PROJECT.json` lists the runs, the definitions with the
lines of code they model, the hazards and the theorems.

## 1. The system

### 1.1 What all controllers share

The operator is one process with one replica (`Recreate` strategy).
`service/service.go` reads its settings (lists of access groups) and refuses them
without a group of Giant Swarm; then it boots: the resources of the default
namespace are ensured once, and an error there stops the process; then every
controller gets a goroutine. A controller is an operatorkit controller (external): a
watch, a work queue and *one* worker. A round of the worker takes a fresh copy of
one object and

- adds the finalizer of the controller if the object is live and has none, and
  ends;
- calls `EnsureCreated` of each resource in a fixed order if the object is live,
  and ends at the first error;
- calls `EnsureDeleted` of each resource if the object has a deletion timestamp,
  then drops the finalizer.

Each resource is wrapped by `retryresource` (external): a failing `EnsureX` is
called again *with the same, by then outdated object*, a bounded number of
times. All objects are visited again by a resync every few minutes. Reads are
not cached. The API server (external) gives every content of an object a resource
version; an update that carries a version fails when the object has another one,
and an update built from scratch carries none and overwrites. A role reference
cannot be changed; nothing can be created in a terminating namespace; a
namespace goes when no finalizer holds it, and what is in it goes with it.

The helpers of `pkg/rbac` (`CreateOrUpdateRoleBinding` and its relatives) are the
writes of almost all resources: a Get, then a Create, or an Update without a
version if the subjects (or rules) differ, or nothing. They tolerate
AlreadyExists and NotFound where the object is as wanted. They run as two calls,
so that others can step in between.

### 1.2 Components

| component | state it keeps | operations | correct when |
|---|---|---|---|
| RoleBindingTemplate controller (`rolebindingtemplate/`) | one RoleBinding per namespace in the scope of a template; the list of these namespaces in the status | round on a live template: scope, bindings, pruning, status; round on a template in deletion | bindings grant what one spec says; protected namespaces stay closed; the status accounts for the bindings; scope changes and deletions withdraw them |
| Crossplane ClusterRole controller (`crossplaneauth`) | the ClusterRoleBinding of the Crossplane role | list of the organization namespaces, create or overwrite; delete | no binding without the role; the subjects converge to the namespaces there are |
| Crossplane namespace controller (`crossplanenamespace`) | the same binding | read, add or remove one subject, write with version | changes its own subject and nothing else; nobody waits for a missing binding |
| rbac controller, `externalresources` | bindings to catalogs, releases, the Organization, and roles for cluster namespaces, for every organization namespace | gathers the subjects of all RoleBindings of the namespace, ensures five bindings; removes them | nobody gets more than a binding of the namespace gave; revocation spreads; deletion leaves nothing |
| rbac controller, `automation` | service account, bindings, and the RoleBinding all organizations share for patching charts | create; read-modify-write of the shared binding; delete | no organization drops the account of another |
| rbac controller, `namespaceauth` | a RoleBinding of the customer admin groups in every organization namespace | create, update, delete | admins keep access; protected namespaces are not touched |
| clusternamespace controller, `clusternamespaceresources` | Roles and RoleBindings for reading and writing in every cluster namespace | looks up the Organization, lists the RoleBindings of its namespace, ensures two pairs; deletes them | access to cluster namespaces follows access to the organization |
| clusternamespace controller, `rbacappoperator`, `rbaccleaner` | the service account and permissions of each cluster's app-operator | ensure three roles and their bindings; delete them and collect errors; remove what legacy releases left | an app-operator is never without permissions; a deletion leaves none, whichever call failed |
| defaultnamespace controller | ClusterRoles with labels, ClusterRoleBindings of customer groups, automation account, catalogs, releases, roles for cluster namespaces, RoleBindingTemplates for Flux | ensures each at boot, before any controller runs, and in rounds on the default namespace | the roles other controllers refer to exist before those run; the objects follow the configuration |
| helpers in `pkg/rbac`, `pkg/core` | none | create, update, delete one object | described above |
| access groups (`internal/accessgroup`) | none | merge the lists with the single groups of older settings, check them, make subjects of them | Giant Swarm keeps its access to the cluster |
| boot (`service/service.go`) | none | reads settings, boots, starts the controllers | controllers run behind a complete boot only |
| server, collector, flags | none | health endpoint, empty collector, names of flags | – |

### 1.3 How they interact

- RoleBindings are the messages. What `namespaceauth`, `automation`, users and
  the RoleBindingTemplate controller write in an organization namespace is read by
  `externalresources`, which writes two derived bindings *into the same
  namespace* and so reads them back in its next round. `clusternamespaceresources`
  reads all of them, in another controller, and writes into cluster namespaces.
- The ClusterRoleBinding of Crossplane is written by two controllers, one without
  and one with resource versions. Organization namespaces carry the finalizers of
  three controllers.
- `fluxauth` of the defaultnamespace controller writes RoleBindingTemplates, the
  input of the RoleBindingTemplate controller, which writes the status and the
  finalizer of the same objects.
- The namespaces `org-acme` and `acme` share the ClusterRole that `namespaceauth`
  makes for each, as its name has the prefix taken off.
- Users edit and delete templates, namespaces and bindings at any time, also in
  the middle of a round.

### 1.4 What is hard

Rounds of different controllers interleave call by call; a round works on a copy
that users outdate; retries repeat a round with that copy; a call may fail before
or after it took effect; the process may restart between two calls and forgets
everything; bookkeeping (the status of a template) and effect (the bindings) are
separate objects and are written one after the other; derived data is read back;
deletion has to undo effects in other namespaces before the last record of them
goes. `hazards` in `PROJECT.json` places each of these at its line, with the
properties that would show it going wrong.

## 2. The modules

| module | models | proofs |
|---|---|---|
| `RoleBindingTemplate` | the RoleBindingTemplate controller with its users | `RoleBindingTemplateProofs` |
| `TemplateGrants` | abstract: templates as a ledger of grants; `RoleBindingTemplate` and `BuiltinTemplates` implement it | `TemplateGrantsProofs` |
| `BuiltinTemplates` | `fluxauth` with the RoleBindingTemplate controller, in one process that boots | `BuiltinTemplatesProofs` |
| `Crossplane` | both Crossplane controllers, composed on their shared binding | `CrossplaneProofs` |
| `CrossplaneBinding` | abstract: the shared binding, changed one atomic change at a time; `Crossplane` implements it | – |
| `OrgAccess` | `externalresources` and `clusternamespaceresources`, composed over the RoleBindings of one organization | `OrgAccessProofs` |
| `OrgNamespace` | `automation` and `namespaceauth`, one round over all organizations | `OrgNamespaceProofs` |
| `SharedAccounts` | abstract: a binding that organizations share; `OrgNamespace` implements it | – |
| `ClusterNamespace` | `rbacappoperator` and `rbaccleaner` | `ClusterNamespaceProofs` |
| `DefaultNamespace` | the operator's start and the defaultnamespace controller | `DefaultNamespaceProofs` |
| `MC...` | constants of the instances TLC checks | – |

All modules have one shape. A worker is a record (`w`, `cw`, `nw`, `ow`, `f`) with a
program counter (`pc`, or `at` in `DefaultNamespace`) and the local variables of
its handler; one action is one call to the API server together with the code up to
the next call. Helper calls with a Get
and a write are two actions where somebody else may write in between. An object in
a controller's hands has a phase: `new` is live without the controller's
finalizer, `live` with it, `deleting` waits for the controller, `released` waits
for Kubernetes. `Environment` holds what users and other operators do. `edits`
and `faults` count what `MaxEdits` and `MaxFaults` bound; the bounds are guards of
the environment and of faults only, so the operator itself is never stopped by
them. A failing call (`CallFails` and the like) takes effect or not, and sends
the worker where the code's error path goes; `Crash` loses the worker's record.

Some definitions are preceded by a variant marked "Mutant": the same definition
with a mistake a programmer could make. No specification uses them. They are what
each property is tried against: putting the variant in its place makes TLC find
the property violated.

### 2.1 RoleBindingTemplate

| code | definitions |
|---|---|
| `EnsureCreated` (`create.go` 20–63) | `ListScope`, `CheckNamespace`, `ScopeRead`, `ReadBinding`, `WriteBinding`, `ApplyDone`, `PruneRead`, `PruneDelete`, `UpdateStatus`, `StatusConflict` |
| `EnsureDeleted` (`delete.go`) | `Enter` with a deleting snapshot, `PruneRead`, `PruneDelete`, `RemoveFinalizer` |
| `getRoleBindingFromTemplate`, `cleanSubjects` | `Resolved`, `Valid`, `Desired` |
| `getNamespacesFromScope` | `Listed`, `CheckNamespace`: a namespace that cannot be read is left out |
| `CreateOrUpdateRoleBinding`, `DeleteRoleBinding` | `NeedsUpdate`, `ReadBinding`, `WriteBinding`, `WriteAccepted`, `WriteTolerated`; `PruneRead`, `PruneDelete` |
| `retryresource` | `Retry`, `GiveUp`, with at most `MaxRetries` retries |

A template carries its resource version `rv`, as only this makes the status update
of an outdated round fail. `w.snap` is the copy the round works on. A binding is
its role reference and its set of subjects; labels, annotations and the order of
subjects are left out (a template's subjects keep their order, so order decides
nothing). Subjects are taken in the form the API server stores: it gives a group its
API group, so a template that leaves it out has its bindings written again in every
round, with the same result. The sets in the worker's record are loops of the code: the order of
namespaces, which the code takes from the API server's list, is left open.

`calm` is a history variable: no call failed, no restart happened, and no template
was renamed or touched while a round worked on it. `BindingsAccounted`,
`GrantsWithdrawn` and the ledger of `ImplementsPromise` speak of calm histories only,
and `rbt_leak` shows why for edits.

`TemplateGrants` is what a user of templates may think of: a ledger of namespaces
for each template. A binding is entered as it is made, from what the template says
at that moment, and struck as it is taken away; the template goes with an empty
ledger. It has no rounds, copies, versions, retries or status. `Promise` maps to it
with `Ledger`, which is the status of a template together with what the round at
work has done already and not written down yet: what it ensured is entered before
the status is, what it pruned is struck before. `settled` is `calm`. A disturbance
(an edit in the middle of a round, a failing call, a restart, a rename) gives up the
ledger for good, which `rbt_leak` shows to be necessary, but not `Whole`: a binding
is still all of what some spec of its name says.

### 2.2 BuiltinTemplates

`BuiltinTemplates` extends `RoleBindingTemplate` by a second writer of templates
and by the process both run in. Its `Next` takes the rounds, the users and the
lifecycle of namespaces from there as they are, and adds `fluxauth`:

| code | definitions |
|---|---|
| `EnsureCreated` of `fluxauth` | `FluxBegin`, `This`, `FluxGoOn`: the templates of `Order`, one after the other |
| `createOrUpdateRoleBindingTemplate` | `FluxRead` (the Get and the comparison of specs), `FluxWrite` (Create, or Update of the copy that was read, with its version) |
| `retryresource`, the error of `Boot` | `FluxRetry`, `FluxGiveUp` |
| `Boot` before the controllers | `proc`, `TemplatesTakenUp`, `Restart` |

`f` is the worker of `fluxauth`: its step, its place in `Order`, and the copy it
read, which it writes back with the finalizer it had; the status is a subresource
and not part of that write. `Restart` takes the place of `Crash`: it stops both
workers, and the process boots again. The other resources of the default namespace
write no templates and are in `DefaultNamespace`.

### 2.3 Crossplane

`Cw...` are the steps of `crossplaneauth` on the ClusterRole, `Nw...` those of
`crossplanenamespace` on a namespace. A binding is two sets of accounts: those of
the list `crossplaneauth` wrote, and those `crossplanenamespace` appended to it.
They are told apart because `ClusterRoleBindingNeedsUpdate` compares subjects in
their order, so appended ones make the next round of `crossplaneauth` rewrite the
binding. The default account and the admin groups are constant and left out. The
version `rv` is compared by the namespace controller only; the write of the
ClusterRole controller overwrites. `Watched` are the namespaces with the label the
second controller selects, `OrgNamespaces` those whose name `IsOrgNamespace`
accepts; they differ for cluster namespaces.

`CrossplaneBinding` has no versions and no rounds: the binding is rewritten from a
list (`Look`, `Rewrite`), or gets or loses one account, each at once and applied to
the binding as it is then. `Promise` hides the reads of the namespace controller, its
conflicts and both controllers' retries. The list of the ClusterRole controller stays
visible (`looked`, `view`): its overwrite is blind, so a namespace may come or go
behind a list that is written all the same, and `SharedAccounts`, which loses nothing,
would be too strong here. An organization in deletion is "cleared" between the write
without its account and the end of its finalizer.

### 2.4 OrgAccess

One organization namespace, its RoleBindings by others (`src`), the five derived
bindings (`der`), and the cluster namespaces. `Gathered` is what
`getUniqueSubjects` may return for all bindings, for those to `read-all` and for
those to `cluster-admin`; it is a set because of several subjects with one kind
and name one is kept, which depends on names. `InNamespace` adds the two derived
bindings to the list, as the code does. `Bound` is what
`clusternamespaceresources` binds. The Get and the write of a helper are one step
here: each derived object has a single writer. `known` says whether the
Organization can be found with the namespace in its status. `ever` is a history
variable: who was given what by any binding so far.

`externalresources` does nothing for a namespace without the label of an organization
or a customer, when it is created and when it is deleted (`labelled`, asked in
`OwBegin`); a namespace that lost its label is let go with its bindings to catalogs,
releases and the Organization. `kept`, a history variable, says that this did not
happen while the namespace was there; `DeletionRevokes` speaks of such histories, the
convergence properties of namespaces that have the label. That a namespace loses its
label and goes are two edits, so beyond the bound of `org_access`; the theorem has no
bound. Cluster namespaces are taken with the labels their controller selects by.

### 2.5 OrgNamespace

| code | definitions |
|---|---|
| `automation.EnsureCreated` | `Ensure` of `account`, `silences`, `kamaji`; `EnsurePatchChartsRole`, `ReadShared`, `WriteShared` |
| `automation.EnsureDeleted` | `ReadShared`, `WriteShared`, `Delete` |
| `namespaceauth` | `WriteOrgRole`; `Ensure` and `Delete` of `admins` |
| the order of the resources, and what each branches on | `Start`, `AfterCreate`, `AfterDelete`, `GoOn` |
| `createOrUpdateClusterRoleBinding`, `needsUpdate` | `Ensured`, `Accepted` |

Each namespace has four objects (`account`, `silences`, `kamaji`, `admins`) with
what the helpers tell apart in them: nothing, as the operator makes it, other
subjects or rules (`changed`), another role (`rebound`). The ClusterRole for reading
the Organization is kept by name (`orgRoles`): it is called after the namespace
without `org-` (`OrganizationName`), so `Namesakes` share it, and a deletion takes
it from those that are left until their next round. All organizations share the
patch-charts RoleBinding; only there the Get and the write are two steps and the
version is compared. `w.seen` and `w.rv` are what the round
read. `AccountUnread` is the error of the service account's Get that the code does
not look at: the round goes on without the account. `HasOrganizationOrCustomerLabel`
is asked when a round starts, in creation and deletion, so a namespace that loses
its label keeps what it has; `kept`, a history variable, is the namespaces that
never lost it, and `DeletionCleans` and `ImplementsPromise` speak of these.
The third resource of the controller, `externalresources`, is in `OrgAccess`; it
neither reads nor writes these objects, but for the bindings it takes as sources.

`SharedAccounts` says what an organization counts on: its account is in the binding
only while the operator holds the organization, accounts come and go one at a time
and take nobody else's with them. The refinement maps `members` to the accounts of
the shared binding, `held` to the namespaces with the finalizer, `others` to what
users have put into it.

### 2.6 ClusterNamespace

`Ensure`, `Delete` and `Clean` are one call each on an object of
`rbacappoperator` (a ClusterRole, a Role for catalogs, a Role in the namespace, and
a binding of each) or on one of the four that legacy releases of app-operator came
with. `w.errs` is the `errorOccurred` of the two loops that go on past errors,
with the objects it stands for. `After` is the order of objects and resources, `GoOn`
the way to the next one, to the end or to the error reported there. `EnsureAccess`
is the first resource of the round, reduced to what decides whether the others are
reached: whether it finds the Organization. `meddled` is a history variable: the
clusters whose permissions users touched.

### 2.7 DefaultNamespace

`proc` is the process: down, in `Boot`, or running its controllers. A round goes
through the fourteen places of `Order`, of which `Applies` leaves out those the
configuration does not ask for; `GoOn` finds the next, `Start` the first of the
resource that a retry repeats. In `Boot`, an error (`GiveUp`) or a panic (`Panic`)
ends the process, behind the last place it starts the controllers; a round of the
controller waits for the next resync instead. An object is what it `holds`: the
groups of a binding, the API resources of `read-all`, or "ours" where nothing
varies. `Wanted` drops empty names as `GroupsToSubjects` does. The subjects
it makes have no API group, while those the API server has stored do, so a binding of
groups (`GroupBinds`) is never found equal and is updated in each round
(`NeedsUpdate`). `Accepted` has the two errors that no retry mends: a list of empty
names, and an update of a binding that has another role (`right` is FALSE), which
for a binding of groups is any such binding, whatever its subjects. Objects ensured one after another in the
same way are one object (`writeRoles`, `accountBindings`, `sharedRoles`,
`templates`). Helpers are one step: the other writers of these objects are users.
The templates of `fluxauth` have their status written by another controller, and
a conflict there fails the resource: `BuiltinTemplates` has these calls one by one.
A `Setting` is what the Helm values give: lists of groups, maybe such that cannot
be parsed (`malformed`), and the single groups of older releases. `Effective` is
what `service.New` makes of it: malformed lists count as empty ones, an older group
is added to a list that does not name it (`WithOld`), and a setting without a group
of Giant Swarm is refused (`HasAdmins`), so that the process ends before `Boot`.
`Rollout` replaces the process by one with another configuration; the Deployment
recreates its one replica, so there is never a second.

## 3. What TLC checks

Deadlock checking is off in all runs: once users are out of edits and nothing is
left to reconcile the system rightly rests.

| run | instance | shows |
|---|---|---|
| `rbt_safety` | one template, five specs (another scope, another role and subjects, an incomplete role, another name), an ordinary and a protected namespace; 2 edits, 1 fault | `GrantsAsSpecified`, `ProtectedNamespacesClosed`, `BindingsAccounted`, `StatusMatchesSpec`, `DeletedTemplateIsClean`, `ImplementsPromise` |
| `rbt_live` | two templates and four specs, three of them with one name for the bindings, an ordinary and a protected namespace, both active at the start and of one organization; 1 edit, 1 fault, fair | `GrantsArrive`, `GrantsWithdrawn`, `DeletionCompletes` |
| `builtin_templates` | two templates of the operator, three specs, one namespace; Boot and restarts; 1 edit, 1 fault | `OwnWritesUndisturbed`, `StatusHeld`, `BuiltinsArrive` |
| `crossplane` | two organization namespaces, one of them not watched, and a cluster namespace; 3 edits, 1 fault | `NoOrphanBinding`, `NoDuplicates`, `AddsAreHeld`, `NamespaceWriteIsExact`, `ImplementsPromise`, `BindingConverges`, `DeletionsComplete` |
| `org_access` | one source binding with four contents, a user and two service accounts, one cluster; 1 edit, 1 fault | `NoEscalation`, `DeletionRevokes`, `RoundsAgree`, `OrganizationAccessConverges`, `ClusterAccessConverges`, `DeletionsComplete` |
| `org_namespace` | an ordinary and a protected organization and a cluster namespace with the name of the first, labelled or not; 1 edit, 1 fault | `DeletionCleans`, `ImplementsPromise`, `AccountsConverge`, `AdminsConverge`, `DeletionsComplete` |
| `cluster_namespace` | one cluster; 3 edits, 2 faults | `NothingLeft`, `DeletesAllItCan`, `NeverWithout`, `PermissionsConverge`, `DeletionsComplete` |
| `default_namespace` | three groups, one API resource, four settings (lists missing, of empty names, malformed, with and without older groups), two steps of users, releases or the cluster; 1 fault | `BootedFirst`, `BindingsHaveRoles`, `GiantSwarmKept`, `Converges` |

`rbt_safety` has its module's `TypeOK` as well; all type invariants are proved. Four further runs show where the code does
something else than its documentation says; TLC finds a counterexample in each.

| run | the documentation says | the code |
|---|---|---|
| `rbt_leak` | the status lists the namespaces a binding is applied to | a template that is narrowed in its first round makes the status update conflict, behind the bindings; the one outside the new scope is listed nowhere and stays, although the template is there |
| `rbt_role` | policies defined once are applied everywhere | a changed role reference is never applied, as updates compare subjects only |
| `xp_removal` | the account is removed when its namespace is deleted | the other controller read its list while the namespace was live and creates the binding from it after the namespace's round found none to take the account out of; a later round repairs it (`BindingConverges`) |
| `oa_same_name` | subjects with any sort of access can read catalogs, releases and the Organization | of two service accounts with one name in different namespaces one is dropped |

**Bounds.** Most hazards need one object, one concurrent change, and one failure at
the wrong point. A run starts with every combination of namespaces, labels and
source bindings (`Init`), so that the one edit of `org_access` and `org_namespace`
is a change or a deletion at any point of the rounds that follow, with a failure or
a restart at any other. So does `rbt_live`, from all pairs of specs. Two in
`rbt_safety` and `default_namespace` let a change and its reversal, or a change and
a deletion, meet in one round; three with two faults in `cluster_namespace` let two
objects of one deletion fail. Where code tells protected namespaces from others
(`rbt_safety`, `rbt_live`, `rbt_role`, `rbt_leak`, `org_namespace`) there is one of
each. `MaxRetries`
is 1 in the template runs: a retry repeats the handler with the same copy, so a
second retry starts from the state the first one started from. It is 0 in
`builtin_templates`, where the retries that matter are those of `fluxauth`, which
are unbounded. The templates of `rbt_live` may want the same binding with different
subjects and then overwrite each other for ever; `GrantsArrive` leaves such a binding
out (`Contested`, section 5). `GrantsWithdrawn` speaks of undisturbed histories: a
fault may leave a binding unrecorded, as the edit of `rbt_leak` does. Elsewhere retries are unbounded and giving up is a choice. The
theorems hold for all bounds.

**Fairness.** Each worker's rounds are weakly fair: the worker is a goroutine that
never waits for another. Taking up an object (`Reconcile`) is strongly fair per
object, because one worker serves all of them and the work queue and the resync
bring every object back. Giving up (`GiveUp`, `OwGiveUp`, `CwGiveUp`) is strongly
fair because the backoff of `retryresource` is bounded. In `BuiltinTemplates` the
steps of `fluxauth` are weakly fair (its errors end in a retry, a restart or the
next resync, never in rest) and taking up a template is strongly fair as before. In
`DefaultNamespace` the steps of the operator together are weakly fair: there is one
sequence of them, Kubernetes starts an ended pod again, and the resync brings the
next round. Kubernetes finishing a namespace deletion is weakly fair. Users, faults
and restarts are not fair; they are bounded, which is what "after things settle"
means in the `<>[]` properties. What users may leave behind that keeps the operator
from its end is excluded in the property, by name: bindings whose name is taken
(`Rebound`, `Taken`), and in `Converges` also an API that does not answer, a setting
without a group of Giant Swarm, lists of empty names, and a `cluster-admin` role
without any labels.

## 4. What is proved

The proofs are for every value of the constants that satisfies the assumptions of
the modules: any numbers of templates, namespaces, organizations, clusters,
groups, settings, specs, edits, faults and retries. `NamespaceAssumption`,
`NameAssumption` and the like say that sets are not empty and that the constants for
"none" differ from real values. Each proof module shows `Init => IInv` and one
lemma per action, that it keeps `IInv`; the theorems follow from these.

**RoleBindingTemplateProofs.** `TypeCorrect`, `GrantsSpecified`,
`ProtectedClosed`, `StatusesMatch`, `DeletedClean`, `CalmBindingsAccounted`.
The core of the invariant is `SnapshotVersion`: if the copy of
the round has the version of the template, it *is* the template; so an accepted
status update meets the spec its round read, and a status never describes another
spec. `DeletingRound` says that a template in deletion has nobody else changing
its status, `PrunedGone` that what was pruned from the recorded namespaces stays
away (one worker, one name per round), which together give `DeletedClean`.
`CalmRound` says that a calm round works on the template as it is, and fails before
it writes anything: this makes `BindingsAccounted` inductive. `GrantsSpecified`
is inductive with the type invariant and the fact that a round past `ScopeRead`
has a complete role reference or nothing in scope. `ProtectedClosed` follows from
`GrantsSpecified`, for every spec, by the definition of `Valid`.

The lemmas are stated for `OpenSpec`, in which somebody else may create or edit a
template at any time and things may fail elsewhere; `Spec` implies it.

**TemplateGrantsProofs.** `Implements`, `LedgerAccounts`. Steps that only read, decide
or fail map to a stutter; `WriteBinding` to `Grant`, or to `Confirm` with the binding
that `ReadBinding` found as wanted; `PruneDelete` to `Revoke`; the removal of the
finalizer to `LetGo`. The status update maps to a stutter: what it writes is what
`Ledger` had already, because in a calm history the round's copy has the status the
template has (`CalmRound`). The part of the invariant made for this is `RoundApart`:
what a round prunes is apart from what it has ensured, it only writes bindings with
subjects, and none is there that it is about to create; without it a namespace could
be struck that the round has just entered. `LedgerAccounts` is proved on the abstract
side: `Accounted` is kept by every step of `TemplateGrants`, and is what
`BindingsAccounted` says of statuses and rounds.

**BuiltinTemplatesProofs.** `BuiltinsTyped`, `StatusesHeld`, `BuiltinGrantsSpecified`,
`BuiltinProtectedClosed`, `BuiltinStatusesMatch`,
`BuiltinDeletedClean`, `BuiltinBindingsAccounted`, `BuiltinsUndisturbed`,
`BuiltinsImplement`. A write of
`fluxauth` is, for the RoleBindingTemplate controller, a creation or an edit by
somebody: the lemma that every step maps to one of `OpenSpec` carries the theorems of
`RoleBindingTemplateProofs` and the refinement over to the composition. It needs `FluxCopy`: a copy of
the version the template has *is* the template, so the finalizer that is written
back is the one it has. `BuiltinsUndisturbed` has an invariant of its own,
`QuietInv`: as long as nobody edits and nothing fails, the places `fluxauth` is
behind are as it wants them, and the process runs only when it is behind all.

**CrossplaneProofs.** `TypeCorrect`, `NoOrphans`, `SubjectsOnce`, `AddsHeld`,
`NamespaceWritesExact`, `Implements`. `RoundHoldsRole` and `RoundHoldsNamespace` say that the
finalizer holds an object as long as a round works on it, so the binding cannot be
recreated behind `CwDelete`, and an account is added only for a namespace that will
be reported as deleted. `SeenIsVersion` says that an unchanged version means an
unchanged binding, which is why the namespace controller's write is exact although
the other controller's is blind. In `Implements` an accepted write maps to `Add` or
`TakeOut` by that exactness, `CwUpdate` and `CwCreate` to `Rewrite`, and the end of a
namespace to `LetGo`, whose guard "cleared" stands for the place of the round; that a
namespace round holds a namespace in deletion with its finalizer until then is in
`RoundHoldsNamespace`.

**OrgAccessProofs.** `TypeCorrect`, `NothingEscalates`, `DeletionsRevoke`,
`RoundsAreExact`.
`SourcesGiven` and `GatheredGiven` say that what the bindings of others say, and what
a round holds in its hands, was given at some time; as a derived binding only ever
gets what was given, reading it back adds nothing (`ListedGiven`), and
`getUniqueSubjects` only drops subjects (`UniqueWithin`). `OrganizationHeld` and
`ClustersHeld` hold a namespace with its finalizer while a round works on it, and
`OutsideCleared` and `ClustersHeld` say what a deletion is past; no round of another
kind can bring that back. `OutsideCleared` also says that a namespace which never lost
a label and has none never had a round that bound anything: it is let go as it is, and
nothing is left all the same.
`RoundsAreExact` needs the same of creations: `OrganizationEnsured` and
`ClusterEnsured` say that what a round is past is as its listing said, *or* that
Kubernetes has emptied the terminating namespace in between. In the second case
nothing can be created there any more (`OwAccepted`, `CwAccepted`), so the round does
not end well: the last object of each round is inside of the namespace that may be
emptied. In another order of the objects it could.

**OrgNamespaceProofs.** `TypeCorrect`, `Cleans`, `Implements`, `SharedBindingCurrent`. `RoundHolds` holds
the namespace with the finalizer while a round works on it; `LabelledRound` and
`UnlabelledClean` say that nothing is made before a namespace has its label;
`RemovedSoFar` says, step by step, what a deletion has removed by then, and becomes
`DeletionCleans` at its end. `OrgRolesHeld` adds that a ClusterRole is there only
while some namespace of its name is held, or lost its label. `SeenIsVersion` makes
the write of the shared binding add or remove one account of the binding *as it is
then*; with it every step maps to one of `SharedAccounts` or to none (`Implements`),
and letting go of a namespace maps to `LetGo`, whose guard is `RemovedSoFar` at the
last step. `SharedBindingCurrent` is a two-line argument about `SharedAccounts` that
the refinement makes one about the code.

**ClusterNamespaceProofs.** `TypeCorrect`, `NothingIsLeft`, `AllItCan`,
`NeverLeftWithout`. `GoneSoFar`: the objects a deletion has been through are gone or
among its errors, and the finalizer is reached without errors. `EnsuredSoFar` with
`Untouched`: what a creation has been through is as wanted unless users touched it,
so `rbaccleaner`, behind the last object, takes excessive permissions from an
app-operator that has the reduced ones.

**DefaultNamespaceProofs.** `TypeCorrect`, `AfterBoot`, `RolesThere`,
`GiantSwarmBound`. `Reached` are
the places `Boot` is behind, all of them once controllers run; `SoFar` says that
these are done. It is kept because a step changes its own object only and in the
way wanted (`WriteDone`), because going on leaves out only places that do not apply
(`GoOnFacts`), and because a process with another configuration starts from the
first place. `RolesThere` uses `RolesFirst`, that a role's place is before that of
each of its bindings and applies whenever one of those does. `GiantSwarmBound` rests
on `Guarded`, that every configuration the process can have passed the check of its
start, and on that check being made of the names that `Wanted` keeps.

**Only model-checked.** All liveness properties: temporal proofs under fairness
are outside of what the proof system does. Every invariant and every action
property of the passing runs is a theorem.

## 5. What is not modelled

- Server, collector, flags, generated code, the Helm chart, and the wiring in
  `service.New`: no state of the system.
- `fluxauth/delete.go`: the default namespace is never deleted.
- In `OrgNamespace`, what an organization namespace takes with it when it goes is
  not deleted step by step where the handler leaves it to Kubernetes.
- Contents of rules, labels and annotations, except where a handler branches on
  them.
- Properties of three situations in which the code has no end to reach: two
  templates of one binding name with overlapping scopes and different specs
  overwrite each other's bindings in every round; a template whose role reference
  changes keeps its old bindings (`rbt_role`); and a binding of another role under the
  admins' name fails every round of `namespaceauth`, as it cannot be updated and is
  not replaced. The models have these steps, and the properties name what they exclude.
- The composition of all controllers in one module: where two of them meet on an
  object they are composed (`Crossplane`, `OrgAccess`), elsewhere the other one's
  steps are among the users'.

## 6. Plan

Done, in this order: templates and derived access, where access is given and
withdrawn; the two objects with several writers (the Crossplane binding and the
shared patch-charts RoleBinding); deletion with collected errors; the start of the
operator with its settings; the templates of the operator itself, with both
controllers that write them; the invariants of all modules as theorems; abstract
specifications of the three objects with several writers or rounds, and the proofs
that the code's steps implement them. Left:

1. A two-namespace instance of `OrgAccess`, once a reduced version of it is small
   enough, for service accounts that are bound in another organization.
2. What a creation round of `OrgNamespace` has made when it ends well, although an
   account that cannot be read is passed over: this needs a history of what users
   touched, as `ClusterNamespace` has.
3. The clusterroles and catalogs of `DefaultNamespace` as the objects the other
   modules find: today each of them starts with the roles it refers to.
