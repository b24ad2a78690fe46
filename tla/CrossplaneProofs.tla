--------------------------- MODULE CrossplaneProofs ---------------------------
(***************************************************************************)
(* Safety of the Crossplane controllers for every set of namespaces and    *)
(* every bound on edits and faults.                                        *)
(***************************************************************************)
EXTENDS Crossplane, TLAPS

\* The namespace an idle worker keeps is one.
LEMMA AnyNamespaceTyped == AnyNamespace \in Namespaces
BY NamespaceAssumption DEF AnyNamespace

\* Adding or removing an account of an organization makes a binding of a binding.
LEMMA ChangedTyped ==
  ASSUME NEW b \in Binding, NEW n \in OrgNamespaces, NEW mode
  PROVE  Changed(b, n, mode) \in Binding
BY DEF Changed, Binding

\* The worker of the namespace controller after each way a handler can end.
LEMMA IdleTyped == NwIdle \in NwWorker
BY AnyNamespaceTyped DEF NwIdle, NwWorker

LEMMA DoneTyped ==
  ASSUME nw \in NwWorker, NwDone
  PROVE  nw' \in NwWorker /\ nw'.pc \in {"idle", "release"}
BY IdleTyped DEF NwDone, NwWorker, NwIdle

LEMMA FailedTyped ==
  ASSUME nw \in NwWorker, NwFailed
  PROVE  \/ nw' = NwIdle
         \/ nw' \in NwWorker /\ nw'.pc = "get" /\ nw'.mode = nw.mode /\ nw'.at = nw.at
<1>1. CASE nw' = NwIdle BY <1>1
<1>2. CASE nw' = [NwIdle EXCEPT !.pc = "get", !.mode = nw.mode, !.at = nw.at]
  BY <1>2 DEF NwWorker, NwIdle
<1> QED BY <1>1, <1>2 DEF NwFailed

\* A write stores a binding under the next version.
LEMMA WriteTyped ==
  ASSUME rv \in Nat, NEW b \in Binding \cup {NoBinding}, Write(b)
  PROVE  crb' \in Binding \cup {NoBinding} /\ rv' \in Nat
BY DEF Write

LEMMA CwTyped ==
  ASSUME Shape, ClusterRoleRound
  PROVE  Shape'
<1> USE DEF Shape, RoundShape, TypeOK, RolePhase, NamespacePhase, cluster, budget
<1>1. CASE CwAddFinalizer BY <1>1 DEF CwAddFinalizer
<1>2. CASE CwBegin BY <1>2 DEF CwBegin, CwAt, CwWorker
<1>3. CASE CwList BY <1>3 DEF CwList, Present, CwWorker
<1>4. CASE CwGet BY <1>4 DEF CwGet, CwAt, CwWorker, CwIdle
<1>5. CASE CwWrite BY <1>5 DEF CwWrite, CwStored, CwFailed, Wanted, CwWorker,
                              CwIdle, CwAt, Write, Binding
<1>6. CASE CwCheck BY <1>6 DEF CwCheck, CwAt, CwWorker
<1>7. CASE CwDelete BY <1>7 DEF CwDelete, CwAt, CwWorker, Write
<1>8. CASE CwRelease BY <1>8 DEF CwRelease, CwWorker, CwIdle
<1> QED BY <1>1, <1>2, <1>3, <1>4, <1>5, <1>6, <1>7, <1>8 DEF ClusterRoleRound

\* Types are preserved by the namespace controller.
LEMMA NwTyped ==
  ASSUME Shape, NamespaceRound \/ \E n \in Namespaces : Reconcile(n)
  PROVE  Shape'
<1> USE DEF Shape, RoundShape, TypeOK, RolePhase, NamespacePhase, cluster, budget
<1>1. CASE NwGet
  <2>1. CASE NwDone BY <1>1, <2>1, DoneTyped DEF NwGet
  <2>2. CASE crb # NoBinding /\ nw' = [nw EXCEPT !.pc = "write", !.seen = crb, !.rv = rv]
    BY <1>1, <2>2 DEF NwGet, NwWorker
  <2> QED BY <1>1, <2>1, <2>2 DEF NwGet
<1>2. CASE NwWrite
  <2>1. CASE NwAccepted /\ Write(Changed(nw.seen, nw.at, nw.mode)) /\ NwDone
    <3>1. Changed(nw.seen, nw.at, nw.mode) \in Binding
      BY <1>2, ChangedTyped DEF NwWrite
    <3> QED BY <1>2, <2>1, <3>1, WriteTyped, DoneTyped DEF NwWrite
  <2>2. CASE NwFailed /\ UNCHANGED <<crb, rv>>
    BY <1>2, <2>2, FailedTyped, IdleTyped DEF NwWrite, NwIdle
  <2> QED BY <1>2, <2>1, <2>2 DEF NwWrite
<1>3. CASE NwRelease BY <1>3, IdleTyped DEF NwRelease, NwIdle, NsAt
<1>4. CASE \E n \in Namespaces : NwAddFinalizer(n) BY <1>4 DEF NwAddFinalizer, NsAt
<1>5. ASSUME NEW n \in Namespaces, NwBegin(n) PROVE Shape'
  <2>1. nw' \in NwWorker /\ nw'.pc # "write" /\ (nw'.pc = "get" => nw'.at \in OrgNamespaces)
    <3>1. CASE n \in OrgNamespaces /\ NwStart(n, "add", "get")
      BY <3>1, IdleTyped DEF NwStart, NwIdle, NwWorker
    <3>2. CASE n \in OrgNamespaces /\ NwStart(n, "remove", "get")
      BY <3>2, IdleTyped DEF NwStart, NwIdle, NwWorker
    <3>3. CASE NwStart(n, "remove", "release")
      BY <3>3, IdleTyped DEF NwStart, NwIdle, NwWorker
    <3> QED BY <1>5, <3>1, <3>2, <3>3 DEF NwBegin
  <2> QED BY <1>5, <2>1 DEF NwBegin
<1> QED BY <1>1, <1>2, <1>3, <1>4, <1>5 DEF NamespaceRound, Reconcile

\* Types are preserved by everything else.
LEMMA OthersTyped ==
  ASSUME Shape,
         \/ CwCallFails \/ NwCallFails \/ Crash \/ Environment
         \/ \E n \in Namespaces : NamespaceGone(n)
         \/ UNCHANGED vars
  PROVE  Shape'
<1> USE DEF Shape, RoundShape, TypeOK, RolePhase, NamespacePhase, NsAt, Fault, Edit,
            cluster, budget
<1>1. CASE CwCallFails
  BY <1>1 DEF CwCallFails, CwStored, CwFailed, Wanted, CwIdle, CwWorker, Write, Binding
<1>2. CASE NwCallFails
  <2>1. crb' \in Binding \cup {NoBinding} /\ rv' \in Nat
    BY <1>2, ChangedTyped, WriteTyped DEF NwCallFails
  <2>2. nw' = NwIdle \/ (nw.pc # "release" /\ NwFailed)
    BY <1>2 DEF NwCallFails
  <2>3. nw' \in NwWorker /\ nw'.pc # "write" /\ (nw'.pc = "get" => nw'.at = nw.at)
    BY <2>2, FailedTyped, IdleTyped DEF NwIdle
  <2>4. nw'.pc = "get" => nw.pc \in {"get", "write"}
    BY <1>2 DEF NwCallFails, NwIdle, NwWorker
  <2> QED BY <1>2, <2>1, <2>3, <2>4 DEF NwCallFails
<1>3. CASE Crash BY <1>3, IdleTyped DEF Crash, NwIdle, CwIdle, CwWorker
<1>4. CASE ChangeRole BY <1>4 DEF ChangeRole
<1>5. CASE DropBinding BY <1>5 DEF DropBinding, Write
<1>6. CASE \E n \in Namespaces : ChangeNamespace(n) BY <1>6 DEF ChangeNamespace
<1>7. CASE \E n \in Namespaces : NamespaceGone(n) BY <1>7 DEF NamespaceGone
<1>8. CASE UNCHANGED vars BY <1>8 DEF vars
<1> QED BY <1>1, <1>2, <1>3, <1>4, <1>5, <1>6, <1>7, <1>8 DEF Environment

LEMMA InitShape == Init => Shape
BY IdleTyped, BoundAssumption
   DEF Init, Shape, RoundShape, TypeOK, RolePhase, NamespacePhase, CwIdle,
       CwWorker, NwIdle

\* The types, and what they rest on, hold in every state.
LEMMA ShapeCorrect == Spec => []Shape
<1>1. Init => Shape
  BY InitShape
<1>2. Shape /\ [Next]_vars => Shape'
  BY CwTyped, NwTyped, OthersTyped DEF Next
<1> QED BY <1>1, <1>2, PTL DEF Spec

\* Every variable of the Crossplane controllers keeps its type: in particular
\* only organization namespaces are ever in the binding.
THEOREM TypeCorrect == Spec => []TypeOK
<1>1. Shape => TypeOK
  BY DEF Shape
<1> QED BY <1>1, ShapeCorrect, PTL

-----------------------------------------------------------------------------
(* The inductive invariant. *)

\* A write by anybody else makes the version the namespace worker holds stale.
LEMMA WriteIsNewer ==
  ASSUME Shape, NoDuplicates, SeenIsVersion, UNCHANGED nw,
         UNCHANGED <<crb, rv>> \/ Write(NoBinding)
           \/ \E l \in SUBSET OrgNamespaces : Write([listed |-> l, appended |-> {}])
  PROVE  NoDuplicates' /\ SeenIsVersion'
BY DEF Shape, TypeOK, RoundShape, Write, NoDuplicates, SeenIsVersion, NwWorker

LEMMA CwStep ==
  ASSUME IInv, ClusterRoleRound
  PROVE  IInv'
<1> USE DEF IInv
<1>1. Shape' BY CwTyped
<1>2. NoDuplicates' /\ SeenIsVersion'
  <2>1. UNCHANGED nw
    BY DEF ClusterRoleRound, CwAddFinalizer, CwBegin, CwList, CwGet, CwWrite, CwCheck,
           CwDelete, CwRelease
  <2>2. UNCHANGED <<crb, rv>> \/ Write(NoBinding) \/ Write([listed |-> cw.list, appended |-> {}])
    BY DEF ClusterRoleRound, CwAddFinalizer, CwBegin, CwList, CwGet, CwWrite, CwStored,
           Wanted, CwCheck, CwDelete, CwRelease, cluster
  <2>3. cw.list \in SUBSET OrgNamespaces
    BY DEF Shape, TypeOK, CwWorker
  <2> QED BY <2>1, <2>2, <2>3, WriteIsNewer
<1>3. RoundHoldsNamespace'
  BY DEF RoundHoldsNamespace, ClusterRoleRound, CwAddFinalizer, CwBegin, CwList, CwGet,
         CwWrite, CwCheck, CwDelete, CwRelease, cluster
<1>4. NoOrphanBinding' /\ RoundHoldsRole'
  <2> USE DEF NoOrphanBinding, RoundHoldsRole, Shape, TypeOK, CwWorker, CwAt, CwIdle, cluster
  <2>1. CASE CwAddFinalizer BY <2>1 DEF CwAddFinalizer
  <2>2. CASE CwBegin BY <2>2 DEF CwBegin
  <2>3. CASE CwList BY <2>3 DEF CwList
  <2>4. CASE CwGet BY <2>4 DEF CwGet
  <2>5. CASE CwWrite BY <2>5 DEF CwWrite, CwStored, CwFailed
  <2>6. CASE CwCheck BY <2>6 DEF CwCheck
  <2>7. CASE CwDelete BY <2>7 DEF CwDelete, Write
  <2>8. CASE CwRelease BY <2>8 DEF CwRelease
  <2> QED BY <2>1, <2>2, <2>3, <2>4, <2>5, <2>6, <2>7, <2>8 DEF ClusterRoleRound
<1> QED BY <1>1, <1>2, <1>3, <1>4

\* What the namespace worker writes has every account once, and there was a
\* binding when it was read: so there is one still.
LEMMA NwWriteKeeps ==
  ASSUME IInv, nw.pc = "write", NwAccepted, Write(Changed(nw.seen, nw.at, nw.mode))
  PROVE  NoDuplicates' /\ crb = nw.seen /\ crb # NoBinding
<1>1. crb = nw.seen /\ crb \in Binding
  BY DEF IInv, Shape, RoundShape, SeenIsVersion, NwAccepted
<1>2. crb # NoBinding
  BY <1>1, BindingAssumption
<1>3. CASE nw.mode = "add"
  BY <1>1, <1>2, <1>3 DEF IInv, Write, Changed, NoDuplicates, SeenIsVersion, Subjects, Binding
<1>4. CASE nw.mode # "add"
  BY <1>1, <1>2, <1>4 DEF IInv, Write, Changed, NoDuplicates, Binding
<1> QED BY <1>1, <1>2, <1>3, <1>4

LEMMA NwStep ==
  ASSUME IInv, NamespaceRound \/ \E n \in Namespaces : Reconcile(n)
  PROVE  IInv'
<1> USE DEF IInv
<1>1. Shape' BY NwTyped
<1>2. CASE NwGet
  <2> USE <1>2 DEF NwGet, cluster
  <2>1. NoDuplicates' /\ NoOrphanBinding' /\ RoundHoldsRole'
    BY DEF NoDuplicates, NoOrphanBinding, RoundHoldsRole
  <2>2. CASE NwDone
    BY <1>1, <2>1, <2>2, DoneTyped
       DEF Shape, TypeOK, NwDone, RoundHoldsNamespace, SeenIsVersion, NwIdle, NwWorker
  <2>3. CASE /\ crb # NoBinding /\ ~((nw.at \in Subjects(crb)) = (nw.mode = "add"))
             /\ nw' = [nw EXCEPT !.pc = "write", !.seen = crb, !.rv = rv]
    BY <1>1, <2>1, <2>3
       DEF Shape, TypeOK, RoundHoldsNamespace, SeenIsVersion, NwWorker, Subjects
  <2> QED BY <2>2, <2>3
<1>3. CASE NwWrite
  <2>1. CASE NwAccepted /\ Write(Changed(nw.seen, nw.at, nw.mode)) /\ NwDone
    <3>1. NoDuplicates' /\ crb # NoBinding
      BY <1>3, <2>1, NwWriteKeeps DEF NwWrite
    <3>2. nw'.pc # "write" /\ (nw'.pc # "idle" => nw.mode = "remove" /\ nw'.mode = nw.mode /\ nw'.at = nw.at)
      BY <2>1 DEF NwDone, NwIdle, Shape, TypeOK, NwWorker
    <3>3. NoOrphanBinding' /\ RoundHoldsRole'
      BY <1>3, <3>1 DEF NwWrite, NoOrphanBinding, RoundHoldsRole
    <3> QED BY <1>1, <1>3, <3>1, <3>2, <3>3 DEF NwWrite, RoundHoldsNamespace, SeenIsVersion
  <2>2. CASE NwFailed /\ UNCHANGED <<crb, rv>>
    <3>1. nw' = NwIdle \/ (nw'.pc = "get" /\ nw'.mode = nw.mode /\ nw'.at = nw.at)
      BY <2>2 DEF NwFailed, NwIdle
    <3>2. NoDuplicates' /\ NoOrphanBinding' /\ RoundHoldsRole'
      BY <1>3, <2>2 DEF NwWrite, NoDuplicates, NoOrphanBinding, RoundHoldsRole
    <3> QED BY <1>1, <1>3, <3>1, <3>2 DEF NwWrite, RoundHoldsNamespace, SeenIsVersion, NwIdle
  <2> QED BY <1>3, <2>1, <2>2 DEF NwWrite
<1>4. CASE NwRelease
  BY <1>1, <1>4 DEF NwRelease, NoDuplicates, NoOrphanBinding, RoundHoldsRole,
                    RoundHoldsNamespace, SeenIsVersion, NwIdle
<1>5. ASSUME NEW n \in Namespaces, Reconcile(n) PROVE IInv'
  <2>1. NoDuplicates' /\ NoOrphanBinding' /\ RoundHoldsRole'
    BY <1>5 DEF Reconcile, NwAddFinalizer, NwBegin, NoDuplicates, NoOrphanBinding,
                RoundHoldsRole, cluster
  <2>2. RoundHoldsNamespace' /\ SeenIsVersion'
    BY <1>5 DEF Reconcile, NwAddFinalizer, NwBegin, NwStart, NwIdle, RoundHoldsNamespace,
                SeenIsVersion, cluster
  <2> QED BY <1>1, <2>1, <2>2
<1> QED BY <1>2, <1>3, <1>4, <1>5 DEF NamespaceRound

LEMMA OtherStep ==
  ASSUME IInv,
         \/ CwCallFails \/ NwCallFails \/ Crash \/ Environment
         \/ \E n \in Namespaces : NamespaceGone(n)
         \/ UNCHANGED vars
  PROVE  IInv'
<1> USE DEF IInv
<1>1. Shape' BY OthersTyped
<1>2. CASE CwCallFails
  <2> USE <1>2 DEF CwCallFails, Fault
  <2>1. cw.list \in SUBSET OrgNamespaces
    BY DEF Shape, TypeOK, CwWorker
  <2>2. NoDuplicates' /\ SeenIsVersion'
    BY <2>1, WriteIsNewer DEF CwStored, Wanted
  <2>3. NoOrphanBinding' /\ RoundHoldsRole'
    BY DEF NoOrphanBinding, RoundHoldsRole, Shape, TypeOK, CwWorker, CwIdle, CwFailed,
           CwStored, Write
  <2>4. RoundHoldsNamespace'
    BY DEF RoundHoldsNamespace
  <2> QED BY <1>1, <2>2, <2>3, <2>4
<1>3. CASE NwCallFails
  <2> USE <1>3 DEF NwCallFails, Fault
  <2>1. /\ nw'.pc \in {"idle", "get"}
        /\ nw'.pc # "idle" => nw.pc # "idle" /\ nw'.mode = nw.mode /\ nw'.at = nw.at
    <3>1. CASE nw' = NwIdle
      BY <3>1 DEF NwIdle
    <3>2. CASE NwFailed
      BY <3>2, FailedTyped DEF NwIdle, Shape, TypeOK
    <3> QED BY <3>1, <3>2
  <2>2. RoundHoldsNamespace' /\ SeenIsVersion'
    BY <2>1 DEF RoundHoldsNamespace, SeenIsVersion
  <2>3. CASE UNCHANGED <<crb, rv>>
    BY <1>1, <2>2, <2>3 DEF NoDuplicates, NoOrphanBinding, RoundHoldsRole
  <2>4. CASE nw.pc = "write" /\ NwAccepted /\ Write(Changed(nw.seen, nw.at, nw.mode))
    BY <1>1, <2>2, <2>4, NwWriteKeeps DEF NoOrphanBinding, RoundHoldsRole
  <2> QED BY <2>3, <2>4
<1>4. CASE Crash
  BY <1>1, <1>4 DEF Crash, Fault, CwIdle, NwIdle, NoDuplicates, NoOrphanBinding,
                    RoundHoldsRole, RoundHoldsNamespace, SeenIsVersion
<1>5. CASE ChangeRole
  BY <1>1, <1>5 DEF ChangeRole, Edit, NoDuplicates, NoOrphanBinding, RoundHoldsRole,
                    RoundHoldsNamespace, SeenIsVersion
<1>6. CASE DropBinding
  <2>1. NoDuplicates' /\ SeenIsVersion'
    BY <1>6, WriteIsNewer DEF DropBinding, Edit
  <2>2. NoOrphanBinding' /\ RoundHoldsRole' /\ RoundHoldsNamespace'
    BY <1>6 DEF DropBinding, Edit, Write, NoOrphanBinding, RoundHoldsRole, RoundHoldsNamespace
  <2> QED BY <1>1, <2>1, <2>2
<1>7. ASSUME NEW n \in Namespaces, ChangeNamespace(n) \/ NamespaceGone(n) PROVE IInv'
  <2>1. NoDuplicates' /\ NoOrphanBinding' /\ RoundHoldsRole' /\ SeenIsVersion'
    BY <1>7 DEF ChangeNamespace, NamespaceGone, Edit, NoDuplicates, NoOrphanBinding,
                RoundHoldsRole, SeenIsVersion, budget
  <2>2. RoundHoldsNamespace'
    BY <1>7 DEF ChangeNamespace, NamespaceGone, Edit, NsAt, RoundHoldsNamespace, Shape,
                TypeOK, NwWorker
  <2> QED BY <1>1, <2>1, <2>2
<1>8. CASE UNCHANGED vars
  BY <1>1, <1>8 DEF vars, NoDuplicates, NoOrphanBinding, RoundHoldsRole,
                    RoundHoldsNamespace, SeenIsVersion
<1> QED BY <1>2, <1>3, <1>4, <1>5, <1>6, <1>7, <1>8 DEF Environment

\* The invariant the theorems below rest on.
LEMMA Invariant == Spec => []IInv
<1>1. Init => IInv
  BY InitShape DEF Init, IInv, NoOrphanBinding, NoDuplicates, RoundHoldsRole,
                   RoundHoldsNamespace, SeenIsVersion, CwIdle, NwIdle
<1>2. IInv /\ [Next]_vars => IInv'
  BY CwStep, NwStep, OtherStep DEF Next
<1> QED BY <1>1, <1>2, PTL DEF Spec

\* A ClusterRole in deletion takes its binding with it, and no interleaving of
\* the controllers, of failing calls and of restarts brings the binding back.
THEOREM NoOrphans == Spec => []NoOrphanBinding
<1>1. IInv => NoOrphanBinding
  BY DEF IInv
<1> QED BY <1>1, Invariant, PTL

\* The two controllers never make an account a subject twice.
THEOREM SubjectsOnce == Spec => []NoDuplicates
<1>1. IInv => NoDuplicates
  BY DEF IInv
<1> QED BY <1>1, Invariant, PTL

\* The namespace controller adds only accounts it will be asked to remove.
THEOREM AddsHeld == Spec => []AddsAreHeld
<1>1. IInv => AddsAreHeld
  BY DEF IInv, RoundHoldsNamespace, AddsAreHeld
<1> QED BY <1>1, Invariant, PTL

\* The read-modify-write of the namespace controller acts as one atomic change
\* of the binding, for every number of namespaces and every interleaving.
THEOREM NamespaceWritesExact == Spec => NamespaceWriteIsExact
<1> DEFINE Exact ==
      crb' # crb /\ nw' # nw =>
        /\ crb # NoBinding /\ crb' # NoBinding
        /\ Subjects(crb') = IF nw.mode = "add" THEN Subjects(crb) \cup {nw.at}
                                               ELSE Subjects(crb) \ {nw.at}
<1>1. IInv /\ [Next]_vars => [Exact]_vars
  <2> SUFFICES ASSUME IInv, Next, crb' # crb, nw' # nw PROVE Exact
    BY DEF vars
  <2>1. nw.pc = "write" /\ NwAccepted /\ Write(Changed(nw.seen, nw.at, nw.mode))
    <3>1. ~ClusterRoleRound /\ ~CwCallFails
      BY DEF ClusterRoleRound, CwAddFinalizer, CwBegin, CwList, CwGet, CwWrite, CwCheck,
             CwDelete, CwRelease, CwCallFails
    <3>2. ~Crash /\ ~Environment /\ \A n \in Namespaces : ~Reconcile(n) /\ ~NamespaceGone(n)
      BY DEF Crash, Environment, ChangeRole, DropBinding, ChangeNamespace, Edit, Reconcile,
             NwAddFinalizer, NwBegin, NamespaceGone, cluster
    <3> QED BY <3>1, <3>2 DEF Next, NamespaceRound, NwGet, NwWrite, NwRelease, NwCallFails,
                              cluster
  <2>2. crb = nw.seen /\ crb # NoBinding
    BY <2>1, NwWriteKeeps
  <2>3. crb \in Binding /\ nw.at \in OrgNamespaces
    BY <2>1, <2>2 DEF IInv, Shape, RoundShape
  <2>4. crb' = Changed(crb, nw.at, nw.mode) /\ crb' # NoBinding
    BY <2>1, <2>2, <2>3, ChangedTyped, BindingAssumption DEF Write
  <2> QED BY <2>2, <2>3, <2>4 DEF Changed, Subjects, Binding
<1> QED BY <1>1, Invariant, PTL DEF Spec, NamespaceWriteIsExact

-----------------------------------------------------------------------------
(* The controllers implement CrossplaneBinding. *)

RoleHeld == role \in {"live", "deleting"}
Members == IF crb = NoBinding THEN {} ELSE Subjects(crb)
View == IF Looked THEN cw.list ELSE {}
PhaseOf == [n \in OrgNamespaces |->
              IF nw.pc = "release" /\ nw.at = n THEN "cleared" ELSE ns[n]]

LEMMA InitMaps == Init => Promise!Init
BY NamespaceAssumption
   DEF Init, Promise!Init, CwIdle, NwIdle, Looked, Subjects

\* What a step leaves alone, the abstract state does not see change.
LEMMA SameList == UNCHANGED cw => Looked' = Looked /\ View' = View
BY DEF Looked, View

LEMMA SamePhase ==
  ASSUME UNCHANGED ns, nw.pc # "release", nw'.pc # "release"
  PROVE  PhaseOf' = PhaseOf
BY DEF PhaseOf

LEMMA SameWorker ==
  ASSUME UNCHANGED <<ns, nw>>
  PROVE  PhaseOf' = PhaseOf
BY DEF PhaseOf

LEMMA Unlooked == ~Looked /\ ~Looked' => Looked' = Looked /\ View' = View
BY DEF View, Looked

LEMMA Same ==
  ASSUME RoleHeld' = RoleHeld, UNCHANGED crb, Looked' = Looked, View' = View, PhaseOf' = PhaseOf
  PROVE  UNCHANGED Promise!vars
BY DEF Promise!vars, RoleHeld, Looked, View, PhaseOf, Subjects

\* The abstract steps of the controller of the role.
LEMMA MapsToLook ==
  ASSUME IInv, UNCHANGED <<role, crb, ns, nw>>, RoleHeld, Looked', cw'.list = Present
  PROVE  Promise!Look
<1>1. Looked' = TRUE /\ (IF Looked' THEN cw'.list ELSE {}) = Present
  OBVIOUS
<1>2. {a \in OrgNamespaces : PhaseOf[a] # "absent"} = Present
  BY DEF IInv, RoundHoldsNamespace, PhaseOf, Present
<1>. QED
  BY <1>1, <1>2 DEF Promise!Look, Promise!binding, RoleHeld, PhaseOf, Subjects

LEMMA MapsToRewrite ==
  ASSUME UNCHANGED <<role, ns, nw>>, RoleHeld, Looked, ~Looked',
         crb' = [listed |-> cw.list, appended |-> {}], crb' # NoBinding
  PROVE  Promise!Rewrite
BY DEF Promise!Rewrite, Promise!NoList, RoleHeld, Subjects

LEMMA MapsToForget ==
  ASSUME UNCHANGED <<role, crb, ns, nw>>, ~Looked'
  PROVE  Promise!Forget
BY DEF Promise!Forget, Promise!NoList, Promise!binding, Subjects

LEMMA MapsToDrop ==
  ASSUME UNCHANGED <<role, ns, nw>>, crb' = NoBinding, Looked' = Looked, View' = View
  PROVE  Promise!Drop
BY DEF Promise!Drop, Promise!list, View

LEMMA CwMaps ==
  ASSUME IInv, ClusterRoleRound
  PROVE  [Promise!Next]_(Promise!vars)
<1>0. Shape /\ RoundHoldsRole
  BY DEF IInv
<1>1. CASE CwAddFinalizer
  BY <1>1 DEF CwAddFinalizer, Promise!Next, Promise!HoldRole, Promise!binding,
              Promise!list, Looked, Subjects
<1>2. CASE CwBegin
  <2>1. ~Looked /\ ~Looked'
    BY <1>0, <1>2 DEF CwBegin, CwAt, Looked, Shape, TypeOK, CwWorker
  <2>. QED
    BY <1>2, <2>1, Unlooked, SameWorker, Same DEF CwBegin, cluster, RoleHeld
<1>3. CASE CwList
  <2>1. RoleHeld
    BY <1>0, <1>3 DEF RoundHoldsRole, CwList, RoleHeld
  <2>2. Looked' /\ cw'.list = Present
    BY <1>3 DEF CwList, Looked
  <2>. QED
    BY <1>3, <2>1, <2>2, MapsToLook DEF CwList, cluster, Promise!Next
<1>4. CASE CwGet
  <2>1. CASE CwAt("create") \/ CwAt("update")
    <3>1. Looked /\ Looked' /\ cw'.list = cw.list
      BY <1>0, <1>4, <2>1 DEF CwGet, CwAt, Looked, Shape, TypeOK, CwWorker
    <3>2. Looked' = Looked /\ View' = View
      BY <3>1 DEF View
    <3>. QED
      BY <1>4, <3>2, SameWorker, Same DEF CwGet, cluster, RoleHeld
  <2>2. CASE cw' = CwIdle
    BY <1>4, <2>2, MapsToForget DEF CwGet, cluster, Looked, CwIdle, Promise!Next
  <2>. QED
    BY <1>4, <2>1, <2>2 DEF CwGet
<1>5. CASE CwWrite
  <2>1. Looked /\ ~Looked' /\ RoleHeld
    BY <1>0, <1>5 DEF CwWrite, CwFailed, CwIdle, Looked, RoundHoldsRole, RoleHeld
  <2>2. CASE Write(Wanted)
    <3>1. crb' = Wanted /\ Wanted \in Binding
      BY <1>0, <2>2 DEF Write, Wanted, Binding, Shape, TypeOK, CwWorker
    <3>2. crb' # NoBinding
      BY <3>1, BindingAssumption
    <3>. QED
      BY <1>5, <2>1, <3>1, <3>2, MapsToRewrite DEF CwWrite, Wanted, Promise!Next
  <2>3. CASE UNCHANGED <<crb, rv>>
    BY <1>5, <2>1, <2>3, MapsToForget DEF CwWrite, Promise!Next
  <2>. QED
    BY <1>5, <2>2, <2>3 DEF CwWrite, CwStored
<1>6. CASE CwCheck \/ CwDelete
  <2>1. ~Looked /\ ~Looked' /\ UNCHANGED <<role, ns, nw>>
    BY <1>0, <1>6 DEF CwCheck, CwDelete, CwAt, Looked, Shape, TypeOK, CwWorker, cluster
  <2>2. CASE CwCheck
    BY <2>1, <2>2, Unlooked, SameWorker, Same DEF CwCheck, cluster, RoleHeld
  <2>3. CASE CwDelete
    BY <2>1, <2>3, Unlooked, MapsToDrop DEF CwDelete, Write, Promise!Next
  <2>. QED
    BY <1>6, <2>2, <2>3
<1>7. CASE CwRelease
  <2>1. crb = NoBinding /\ role' = "absent" /\ UNCHANGED <<crb, ns, nw>>
    BY <1>0, <1>7 DEF CwRelease, RoundHoldsRole
  <2>2. ~Looked /\ ~Looked'
    BY <1>7 DEF CwRelease, CwIdle, Looked
  <2>3. Promise!LetRoleGo
    BY <2>1, <2>2 DEF Promise!LetRoleGo, Promise!binding, Promise!list, Looked
  <2>. QED
    BY <2>3 DEF Promise!Next
<1>. QED
  BY <1>1, <1>2, <1>3, <1>4, <1>5, <1>6, <1>7 DEF ClusterRoleRound

\* The abstract steps of the controller of the namespaces.
LEMMA MapsToAdd ==
  ASSUME IInv, nw.pc # "release", nw'.pc # "release", UNCHANGED <<role, ns, cw>>,
         nw.at \in OrgNamespaces, ns[nw.at] \in {"live", "deleting"},
         crb # NoBinding, crb' # NoBinding, Subjects(crb') = Subjects(crb) \cup {nw.at}
  PROVE  Promise!Add(nw.at)
<1>1. PhaseOf' = PhaseOf /\ PhaseOf[nw.at] = ns[nw.at]
  BY SamePhase DEF PhaseOf
<1>. QED
  BY <1>1, SameList DEF Promise!Add, Promise!list, PhaseOf, View, Looked, Subjects

LEMMA MapsToTakeOut ==
  ASSUME IInv, nw.pc # "release", UNCHANGED <<role, ns, cw>>,
         nw.at \in OrgNamespaces, ns[nw.at] = "deleting",
         nw'.pc = "release" => nw'.at = nw.at,
         crb' = NoBinding <=> crb = NoBinding, Members' = Members \ {nw.at}
  PROVE  \E a \in OrgNamespaces : Promise!TakeOut(a)
<1>0. PICK a \in OrgNamespaces : a = nw.at
  OBVIOUS
<1>1. PhaseOf[a] = "deleting"
  BY <1>0 DEF PhaseOf
<1>2. PhaseOf' = PhaseOf \/ PhaseOf' = [PhaseOf EXCEPT ![a] = "cleared"]
  BY <1>0 DEF PhaseOf
<1>3. Promise!At(a, "cleared") \/ PhaseOf' = PhaseOf
  BY <1>2 DEF Promise!At, PhaseOf
<1>4. Members' = Members \ {a}
  BY <1>0
<1>. QED
  BY <1>1, <1>3, <1>4, SameList
     DEF Promise!TakeOut, Promise!list, PhaseOf, View, Looked, Members, Subjects

\* A namespace moves on.
LEMMA MapsToLifecycle ==
  ASSUME IInv, NEW n \in Namespaces, NEW p, ns' = [ns EXCEPT ![n] = p],
         UNCHANGED <<role, crb, cw>>,
         nw'.pc # "release" \/ nw' = nw, nw.pc = "release" => nw' = nw \/ nw.at = n,
         NEW q, q = IF nw.pc = "release" /\ nw.at = n THEN "cleared" ELSE ns[n],
         \/ q = "absent" /\ p = "new"
         \/ q = "new" /\ p \in {"live", "released"}
         \/ q = "live" /\ p = "deleting"
         \/ q = "cleared" /\ p = "released" /\ nw'.pc # "release"
         \/ q = "released" /\ p = "absent"
  PROVE  [Promise!Next]_(Promise!vars)
<1>1. nw'.pc = "release" => nw' = nw /\ nw.at # n
  BY DEF IInv, RoundHoldsNamespace
<1>2. CASE n \notin OrgNamespaces
  <2>1. PhaseOf' = PhaseOf
    BY <1>1, <1>2 DEF PhaseOf, IInv, Shape, TypeOK
  <2>. QED
    BY <2>1, SameList, Same DEF RoleHeld
<1>3. CASE n \in OrgNamespaces
  <2>1. PhaseOf[n] = q
    BY <1>3 DEF PhaseOf
  <2>2. PhaseOf' = [PhaseOf EXCEPT ![n] = p]
    <3>1. \A m \in OrgNamespaces : ns'[m] = IF m = n THEN p ELSE ns[m]
      BY NamespaceAssumption DEF IInv, Shape, TypeOK
    <3>. QED
      BY <1>1, <1>3, <3>1 DEF PhaseOf
  <2>4. Promise!Lifecycle(n)
    BY <2>1, <2>2, SameList
       DEF Promise!Lifecycle, Promise!Comes, Promise!Held, Promise!Leaves, Promise!LetGo,
           Promise!Goes, Promise!At, Promise!binding, Promise!list, PhaseOf, View, Looked,
           Subjects
  <2>. QED
    BY <1>3, <2>4 DEF Promise!Next
<1>. QED
  BY <1>2, <1>3

\* The write of the namespace controller, whether its answer arrives or not.
LEMMA AcceptedMaps ==
  ASSUME IInv, nw.pc = "write", NwAccepted, Write(Changed(nw.seen, nw.at, nw.mode)),
         UNCHANGED <<role, ns, cw>>, nw'.pc = "release" => nw.mode = "remove" /\ nw'.at = nw.at
  PROVE  [Promise!Next]_(Promise!vars)
<1>1. /\ crb = nw.seen /\ crb # NoBinding /\ crb \in Binding
      /\ nw.at \in OrgNamespaces /\ crb' = Changed(crb, nw.at, nw.mode)
  BY NwWriteKeeps DEF IInv, Shape, RoundShape, Write
<1>2. crb' # NoBinding
  BY <1>1, ChangedTyped, BindingAssumption
<1>3. /\ nw.mode \in {"add", "remove"}
      /\ ns[nw.at] = "deleting" \/ (nw.mode = "add" /\ ns[nw.at] = "live")
  BY DEF IInv, Shape, TypeOK, NwWorker, RoundHoldsNamespace
<1>4. CASE nw.mode = "add"
  <2>1. Subjects(crb') = Subjects(crb) \cup {nw.at} /\ nw'.pc # "release"
    BY <1>1, <1>4 DEF Changed, Subjects, Binding
  <2>. QED
    BY <1>1, <1>2, <1>3, <2>1, MapsToAdd DEF Promise!Next
<1>5. CASE nw.mode = "remove"
  <2>1. Members' = Members \ {nw.at}
    BY <1>1, <1>2, <1>5 DEF Changed, Members, Subjects, Binding
  <2>. QED
    BY <1>1, <1>2, <1>3, <1>5, <2>1, MapsToTakeOut DEF Promise!Next
<1>. QED
  BY <1>3, <1>4, <1>5

LEMMA NwMaps ==
  ASSUME IInv, NamespaceRound \/ \E n \in Namespaces : Reconcile(n)
  PROVE  [Promise!Next]_(Promise!vars)
<1>0. Shape /\ RoundHoldsNamespace
  BY DEF IInv
<1>1. CASE NwGet
  <2>1. UNCHANGED <<role, ns, crb, cw>> /\ nw.pc = "get" /\ nw.at \in OrgNamespaces
    BY <1>0, <1>1 DEF NwGet, cluster, Shape, RoundShape
  <2>2. CASE nw'.pc # "release"
    BY <2>1, <2>2, SameList, SamePhase, Same DEF RoleHeld
  <2>3. CASE nw'.pc = "release"
    <3>1. NwDone /\ (crb = NoBinding \/ ((nw.at \in Subjects(crb)) <=> nw.mode = "add"))
      BY <1>0, <1>1, <2>3 DEF NwGet, Shape, TypeOK, NwWorker
    <3>2. nw.mode # "add" /\ nw'.at = nw.at
      BY <1>0, <2>3, <3>1 DEF NwDone, NwIdle, Shape, TypeOK, NwWorker
    <3>3. ns[nw.at] = "deleting" /\ Members' = Members \ {nw.at}
      BY <1>0, <2>1, <3>1, <3>2 DEF RoundHoldsNamespace, Members, Subjects
    <3>. QED
      BY <2>1, <3>2, <3>3, MapsToTakeOut DEF Promise!Next
  <2>. QED
    BY <2>2, <2>3
<1>2. CASE NwWrite
  <2>1. CASE NwAccepted /\ Write(Changed(nw.seen, nw.at, nw.mode)) /\ NwDone
    <3>1. nw'.pc = "release" => nw.mode = "remove" /\ nw'.at = nw.at
      BY <1>0, <2>1 DEF NwDone, NwIdle, Shape, TypeOK, NwWorker
    <3>. QED
      BY <1>2, <2>1, <3>1, AcceptedMaps DEF NwWrite
  <2>2. CASE NwFailed /\ UNCHANGED <<crb, rv>>
    <3>1. nw.pc # "release" /\ nw'.pc # "release"
      BY <1>0, <1>2, <2>2, FailedTyped DEF NwWrite, NwIdle, Shape, TypeOK
    <3>. QED
      BY <1>2, <2>2, <3>1, SameList, SamePhase, Same DEF NwWrite, RoleHeld
  <2>. QED
    BY <1>2, <2>1, <2>2 DEF NwWrite
<1>3. CASE NwRelease
  <2>1. nw.at \in Namespaces /\ nw'.pc # "release"
    BY <1>0, <1>3 DEF NwRelease, NwIdle, Shape, TypeOK, NwWorker
  <2>. QED
    BY <1>3, <2>1, MapsToLifecycle DEF NwRelease, NsAt
<1>4. ASSUME NEW n \in Namespaces, NwAddFinalizer(n)
      PROVE  [Promise!Next]_(Promise!vars)
  BY <1>4, MapsToLifecycle DEF NwAddFinalizer, NsAt
<1>5. ASSUME NEW n \in Namespaces, NwBegin(n)
      PROVE  [Promise!Next]_(Promise!vars)
  <2>1. PhaseOf' = PhaseOf
    BY <1>5 DEF NwBegin, NwStart, NwIdle, PhaseOf, cluster
  <2>. QED
    BY <1>5, <2>1, SameList, Same DEF NwBegin, cluster, RoleHeld
<1>. QED
  BY <1>1, <1>2, <1>3, <1>4, <1>5 DEF NamespaceRound, Reconcile

\* A namespace in deletion whose round is lost is to be cleared again.
LEMMA ClearedLost ==
  ASSUME IInv, UNCHANGED ns, nw'.pc # "release"
  PROVE  PhaseOf' = [n \in OrgNamespaces |->
                       IF PhaseOf[n] = "cleared" THEN "deleting" ELSE PhaseOf[n]]
<1>1. \A n \in OrgNamespaces : ns[n] # "cleared"
  BY NamespaceAssumption DEF IInv, Shape, TypeOK, NamespacePhase, RolePhase
<1>2. nw.pc = "release" => ns[nw.at] = "deleting"
  BY DEF IInv, RoundHoldsNamespace
<1>. QED
  BY <1>1, <1>2 DEF PhaseOf

LEMMA FaultMaps ==
  ASSUME IInv, CwCallFails \/ NwCallFails \/ Crash
  PROVE  [Promise!Next]_(Promise!vars)
<1>0. Shape /\ RoundHoldsRole /\ RoundHoldsNamespace
  BY DEF IInv
<1>1. CASE CwCallFails
  <2>1. ~Looked' /\ UNCHANGED <<role, ns, nw>>
    BY <1>1 DEF CwCallFails, CwFailed, CwIdle, Looked, Fault
  <2>2. CASE UNCHANGED <<crb, rv>>
    BY <2>1, <2>2, MapsToForget DEF Promise!Next
  <2>3. CASE cw.pc \in {"create", "update"} /\ Write(Wanted)
    <3>1. crb' = Wanted /\ Wanted \in Binding
      BY <1>0, <2>3 DEF Write, Wanted, Binding, Shape, TypeOK, CwWorker
    <3>2. crb' # NoBinding
      BY <3>1, BindingAssumption
    <3>3. Looked /\ RoleHeld
      BY <1>0, <2>3 DEF Looked, RoundHoldsRole, RoleHeld
    <3>. QED
      BY <2>1, <3>1, <3>2, <3>3, MapsToRewrite DEF Wanted, Promise!Next
  <2>4. CASE cw.pc = "delete" /\ Write(NoBinding)
    <3>1. ~Looked
      BY <2>4 DEF Looked
    <3>. QED
      BY <2>1, <2>4, <3>1, Unlooked, MapsToDrop DEF Write, Promise!Next
  <2>. QED
    BY <1>1, <2>2, <2>3, <2>4 DEF CwCallFails, CwStored
<1>2. CASE NwCallFails
  <2>1. nw'.pc # "release" /\ UNCHANGED <<role, ns, cw>>
    BY <1>0, <1>2, FailedTyped DEF NwCallFails, NwIdle, Fault, Shape, TypeOK
  <2>2. CASE UNCHANGED <<crb, rv>>
    <3>1. Promise!Unclear
      BY <2>1, <2>2, ClearedLost, SameList
         DEF Promise!Unclear, Promise!Uncleared, Promise!binding, Promise!list, PhaseOf,
             View, Looked, Subjects
    <3>. QED
      BY <3>1 DEF Promise!Next
  <2>3. CASE nw.pc = "write" /\ NwAccepted /\ Write(Changed(nw.seen, nw.at, nw.mode))
    BY <2>1, <2>3, AcceptedMaps
  <2>. QED
    BY <1>2, <2>2, <2>3 DEF NwCallFails
<1>3. CASE Crash
  <2>1. nw'.pc # "release" /\ ~Looked' /\ UNCHANGED <<role, ns, crb>>
    BY <1>3 DEF Crash, Fault, NwIdle, CwIdle, Looked
  <2>2. Promise!Restart
    BY <2>1, ClearedLost
       DEF Promise!Restart, Promise!Uncleared, Promise!NoList, Promise!binding, PhaseOf, Subjects
  <2>. QED
    BY <2>2 DEF Promise!Next
<1>. QED
  BY <1>1, <1>2, <1>3

LEMMA EnvironmentMaps ==
  ASSUME IInv, Environment \/ \E n \in Namespaces : NamespaceGone(n)
  PROVE  [Promise!Next]_(Promise!vars)
<1>1. CASE ChangeRole
  <2>1. RoleHeld' = RoleHeld
    BY <1>1 DEF ChangeRole, RoleHeld
  <2>. QED
    BY <1>1, <2>1, SameList, SameWorker, Same DEF ChangeRole, Edit
<1>2. CASE DropBinding
  BY <1>2, SameList, MapsToDrop DEF DropBinding, Edit, Write, Promise!Next
<1>3. ASSUME NEW n \in Namespaces, ChangeNamespace(n)
      PROVE  [Promise!Next]_(Promise!vars)
  <2>1. ~(nw.pc = "release" /\ nw.at = n)
    BY <1>3 DEF ChangeNamespace, IInv, RoundHoldsNamespace
  <2>2. PICK p : /\ NsAt(n, p)
                 /\ \/ ns[n] = "absent" /\ p = "new"
                    \/ ns[n] = "new" /\ p = "released"
                    \/ ns[n] = "live" /\ p = "deleting"
    BY <1>3 DEF ChangeNamespace
  <2>. QED
    BY <1>3, <2>1, <2>2, MapsToLifecycle DEF ChangeNamespace, Edit, NsAt
<1>4. ASSUME NEW n \in Namespaces, NamespaceGone(n)
      PROVE  [Promise!Next]_(Promise!vars)
  <2>1. ~(nw.pc = "release" /\ nw.at = n)
    BY <1>4 DEF NamespaceGone, IInv, RoundHoldsNamespace
  <2>. QED
    BY <1>4, <2>1, MapsToLifecycle DEF NamespaceGone, NsAt
<1>. QED
  BY <1>1, <1>2, <1>3, <1>4 DEF Environment

LEMMA StepMaps == IInv /\ [Next]_vars => [Promise!Next]_(Promise!vars)
<1>1. UNCHANGED vars => UNCHANGED Promise!vars
  BY SameList, SameWorker, Same DEF vars, RoleHeld
<1>. QED
  BY <1>1, CwMaps, NwMaps, FaultMaps, EnvironmentMaps DEF Next

\* The two controllers, one of which overwrites blindly while the other compares
\* versions, keep what CrossplaneBinding promises: every change is one step on the
\* binding as it is, and no organization namespace is let go before its account was
\* taken out (crossplanenamespace/delete.go), whatever fails in between.
THEOREM Implements == Spec => ImplementsPromise
BY InitMaps, StepMaps, Invariant, PTL DEF Spec, ImplementsPromise, Promise!Spec
=============================================================================
