-------------------------- MODULE OrgNamespaceProofs --------------------------
(***************************************************************************)
(* Theorems about OrgNamespace, for any namespaces, any number of edits    *)
(* and any number of failing calls and restarts.                           *)
(***************************************************************************)
EXTENDS OrgNamespace, TLAPS

Automation == {"account", "silences", "kamaji", "patchRole", "read", "write"}

-----------------------------------------------------------------------------
(* The steps of the worker. *)

\* A worker at rest has its type.
LEMMA IdleTyped == /\ Idle \in Worker
                   /\ Idle.pc = "idle" /\ Idle.failed = FALSE
  BY NamespaceAssumption DEF Idle, Worker, Step

\* Going on leads to the next step of the same round, or to its end.
LEMMA GoOnFacts ==
  ASSUME w \in Worker, GoOn, ~w.failed, w.pc = "patchRole" => ~w.del,
         w.pc \notin {"idle", "release"}
  PROVE  /\ w' \in Worker /\ w'.failed = FALSE
         /\ w'.pc \notin {"write", "read"} \/ (w.pc = "patchRole" /\ w'.pc = "read")
         /\ w'.pc = "idle" \/ (w'.at = w.at /\ w'.del = w.del)
         /\ w'.pc \in Automation => w.pc \in Automation
         /\ w'.pc = "patchRole" => ~w.del
         /\ w'.pc = "release" => w.del /\ w.pc = "admins"
         /\ w.del => /\ w.pc \in {"read", "write"} => w'.pc = "silences"
                     /\ w.pc = "silences" => w'.pc = "kamaji"
                     /\ w.pc = "kamaji" => w'.pc = "account"
                     /\ w.pc = "account" => w'.pc = "orgRole"
                     /\ w.pc = "orgRole" => w'.pc = "admins"
                     /\ w.pc = "admins" => w'.pc = "release"
<1>1. CASE w.del
  <2>1. w.pc \in Object \cup {"read", "write", "orgRole"}
    BY <1>1 DEF Worker, Step
  <2>2. w' = [w EXCEPT !.pc = AfterDelete[w.pc]]
    BY <1>1, <2>1 DEF GoOn, AfterDelete, Object
  <2>3. /\ w'.pc = AfterDelete[w.pc]
        /\ w'.at = w.at /\ w'.del = w.del /\ w'.failed = w.failed
    BY <2>2 DEF Worker
  <2>4. /\ w.pc \in {"read", "write"} => w'.pc = "silences"
        /\ w.pc = "silences" => w'.pc = "kamaji"
        /\ w.pc = "kamaji" => w'.pc = "account"
        /\ w.pc = "account" => w'.pc = "orgRole"
        /\ w.pc = "orgRole" => w'.pc = "admins"
        /\ w.pc = "admins" => w'.pc = "release"
    BY <2>3 DEF AfterDelete
  <2>5. w' \in Worker
    BY <2>1, <2>2, <2>3, <2>4 DEF Worker, Step, Object
  <2>. QED
    BY <1>1, <2>1, <2>3, <2>4, <2>5 DEF Object, Automation
<1>2. CASE ~w.del /\ w.pc = "admins"
  <2>1. w' = Idle
    BY <1>2 DEF GoOn, AfterCreate
  <2>. QED
    BY <1>2, <2>1, IdleTyped DEF Automation
<1>3. CASE ~w.del /\ w.pc # "admins"
  <2>1. w.pc \in (Object \ {"admins"}) \cup {"patchRole", "read", "write", "orgRole"}
    BY <1>3 DEF Worker, Step
  <2>2. w' = [w EXCEPT !.pc = AfterCreate[w.pc]]
    BY <1>3, <2>1 DEF GoOn, AfterCreate, Object
  <2>. QED
    BY <1>3, <2>1, <2>2 DEF Worker, Step, Object, AfterCreate, Automation
<1>. QED
  BY <1>1, <1>2, <1>3

\* A failing step leaves the worker where it is.
LEMMA FailsFacts ==
  ASSUME w \in Worker, Fails
  PROVE  /\ w' \in Worker /\ w'.failed = TRUE /\ w'.pc = w.pc
         /\ w'.at = w.at /\ w'.del = w.del /\ w'.seen = w.seen /\ w'.rv = w.rv
  BY DEF Fails, Worker

\* What holds of the worker survives going on, failing, and coming to rest.
LEMMA WorkerKept ==
  ASSUME TypeOK, WorkerInv, w.pc \notin {"idle", "release"}, ~w.failed,
         UNCHANGED <<ns, labelled, kept>>, GoOn \/ Fails
  PROVE  w' \in Worker /\ WorkerInv'
<1>1. CASE GoOn
  BY <1>1, GoOnFacts
  DEF TypeOK, WorkerInv, RoundHolds, OrgRound, LabelledRound, Automation
<1>2. CASE Fails
  BY <1>2, FailsFacts DEF TypeOK, WorkerInv, RoundHolds, OrgRound, LabelledRound
<1>. QED
  BY <1>1, <1>2

LEMMA RestKept ==
  ASSUME TypeOK, w' = Idle
  PROVE  w' \in Worker /\ WorkerInv' /\ RemovedSoFar' /\ SeenIsVersion'
  BY IdleTyped
  DEF WorkerInv, RoundHolds, OrgRound, LabelledRound, RemovedSoFar, SeenIsVersion

\* Other than the worker's own namespace nothing changes in a round's steps.
OnlyOwn ==
  /\ \A n \in Namespaces \ {w.at} :
       /\ obj'[n] = obj[n]
       /\ n \in AccountsOf(shared') <=> n \in AccountsOf(shared)
  /\ w.at \notin OrgNamespaces => /\ obj'[w.at]["silences"] = obj[w.at]["silences"]
                                 /\ obj'[w.at]["kamaji"] = obj[w.at]["kamaji"]

LEMMA ObjectsKept ==
  ASSUME TypeOK, WorkerInv, ObjectInv, w.pc \notin {"idle", "release"},
         UNCHANGED <<ns, labelled, kept>>, OnlyOwn
  PROVE  ObjectInv'
<1>. USE DEF TypeOK, WorkerInv, ObjectInv, Worker
<1>1. OrgObjects'
  BY DEF OrgObjects, OnlyOwn
<1>2. UnlabelledClean'
  <2>. SUFFICES ASSUME NEW n \in kept \ labelled PROVE Clean(n)'
    BY DEF UnlabelledClean
  <2>1. n # w.at
    BY DEF LabelledRound
  <2>. QED
    BY <2>1 DEF UnlabelledClean, Clean, OnlyOwn, AccountsOf
<1>3. NamespacesCleaned'
  <2>. SUFFICES ASSUME NEW n \in kept, ~Held(n) PROVE Clean(n)'
    BY DEF NamespacesCleaned, Held
  <2>1. n # w.at
    BY DEF RoundHolds, Held
  <2>. QED
    BY <2>1 DEF NamespacesCleaned, Held, Clean, OnlyOwn, AccountsOf
<1>. QED
  BY <1>1, <1>2, <1>3

\* Setting an object sets it and nothing else.
AnyContent == {"none", "ours", "changed", "rebound"}

LEMMA SetFacts ==
  ASSUME TypeOK, NEW n \in Namespaces, NEW o \in Object, NEW c \in AnyContent,
         Set(n, o, c)
  PROVE  /\ obj' \in [Namespaces -> [Object -> AnyContent]]
         /\ obj'[n][o] = c
         /\ \A m \in Namespaces \ {n} : obj'[m] = obj[m]
         /\ \A p \in Object \ {o} : obj'[n][p] = obj[n][p]
  BY DEF TypeOK, Set, AnyContent

\* What EnsureCreated makes of an object is a content of it.
LEMMA EnsuredTyped ==
  ASSUME TypeOK, NEW n \in Namespaces, NEW o \in Object
  PROVE  Ensured(n, o) \in AnyContent
  BY DEF TypeOK, Ensured, AnyContent, Object

\* An accepted write acts on the shared binding as it is.
LEMMA StoreFacts ==
  ASSUME TypeOK, OrgRound, SeenIsVersion, w.pc = "write", Store
  PROVE  /\ shared' \in Shared \cup {NoBinding} /\ rv' \in Nat /\ rv <= rv'
         /\ ~WriteAccepted => shared' = shared
         /\ WriteAccepted =>
              /\ AccountsOf(shared') = IF w.del /\ shared # NoBinding
                                         THEN AccountsOf(shared) \ {w.at}
                                         ELSE AccountsOf(shared) \cup {w.at}
              /\ shared' # NoBinding
              /\ shared'.foreign = (shared # NoBinding /\ shared.foreign)
<1>. USE DEF TypeOK, Worker
<1>1. CASE ~WriteAccepted
  BY <1>1 DEF Store
<1>2. CASE WriteAccepted
  <2>1. w.seen = shared
    BY <1>2 DEF WriteAccepted, SeenIsVersion
  <2>2. shared' = Edited(shared) /\ rv' = rv + 1
    BY <1>2, <2>1 DEF Store
  <2>3. w.at \in OrgNamespaces
    BY DEF OrgRound
  <2>4. CASE shared = NoBinding
    <3>1. shared' = [accounts |-> {w.at}, foreign |-> FALSE]
      BY <2>2, <2>4 DEF Edited
    <3>2. shared' \in Shared
      BY <2>3, <3>1 DEF Shared
    <3>3. shared' # NoBinding
      BY <3>2, BindingAssumption
    <3>4. AccountsOf(shared') = {w.at} /\ shared'.foreign = FALSE
      BY <3>1, <3>3 DEF AccountsOf
    <3>5. AccountsOf(shared) = {}
      BY <2>4 DEF AccountsOf
    <3>6. rv' \in Nat /\ rv <= rv'
      BY <2>2
    <3>7. shared'.foreign = (shared # NoBinding /\ shared.foreign)
      BY <2>4, <3>4
    <3>8. AccountsOf(shared') = IF w.del /\ shared # NoBinding
                                  THEN AccountsOf(shared) \ {w.at}
                                  ELSE AccountsOf(shared) \cup {w.at}
      BY <2>4, <3>4, <3>5
    <3>. QED
      BY <1>2, <3>2, <3>3, <3>6, <3>7, <3>8
  <2>5. CASE shared # NoBinding
    <3>1. shared \in Shared
      BY <2>5
    <3>2. shared' = [shared EXCEPT !.accounts =
                       IF w.del THEN @ \ {w.at} ELSE @ \cup {w.at}]
      BY <2>2, <2>5 DEF Edited
    <3>3. shared' \in Shared
      BY <2>3, <3>1, <3>2 DEF Shared
    <3>. QED
      BY <1>2, <2>2, <2>5, <3>1, <3>2, <3>3, BindingAssumption DEF AccountsOf, Shared
  <2>. QED
    BY <2>4, <2>5
<1>. QED
  BY <1>1, <1>2

-----------------------------------------------------------------------------
(* Each step keeps the invariant. *)

\* A round's step on an object of its namespace.
LEMMA EnsureKeeps ==
  ASSUME IInv, NEW o \in Object, Ensure(o)
  PROVE  IInv'
<1>. USE DEF IInv
<1>1. /\ w \in Worker /\ w.at \in Namespaces /\ w.pc = o /\ ~w.failed /\ ~w.del
      /\ UNCHANGED <<ns, labelled, orgRoles, role, shared, rv, kept, edits, faults>>
  BY DEF Ensure, At, TypeOK, Worker, budget
<1>2. o \notin {"idle", "release", "patchRole", "read", "write"}
  BY DEF Object
<1>3. GoOn \/ Fails
  BY DEF Ensure
<1>4. w' \in Worker /\ WorkerInv'
  BY <1>1, <1>2, <1>3, WorkerKept
<1>5. /\ obj' \in [Namespaces -> [Object -> AnyContent]]
      /\ \A m \in Namespaces \ {w.at} : obj'[m] = obj[m]
      /\ \A p \in Object \ {o} : obj'[w.at][p] = obj[w.at][p]
  <2>1. CASE UNCHANGED obj
    BY <2>1 DEF TypeOK, AnyContent
  <2>2. CASE Set(w.at, o, Ensured(w.at, o))
    BY <1>1, <2>2, SetFacts, EnsuredTyped
  <2>. QED
    BY <1>1, <2>1, <2>2 DEF Ensure
<1>6. OnlyOwn
  BY <1>1, <1>5 DEF OnlyOwn, WorkerInv, OrgRound, Object
<1>7. ObjectInv'
  BY <1>1, <1>2, <1>6, ObjectsKept
<1>8. ~(w'.pc # "idle" /\ w'.del) /\ w'.pc # "write"
  BY <1>1, <1>2, <1>3, GoOnFacts, FailsFacts DEF Object
<1>9. TypeOK'
  BY <1>1, <1>4, <1>5 DEF TypeOK, AnyContent
<1>. QED
  BY <1>4, <1>7, <1>8, <1>9 DEF RemovedSoFar, SeenIsVersion

LEMMA DeleteKeeps ==
  ASSUME IInv, NEW o \in Object, Delete(o)
  PROVE  IInv'
<1>. USE DEF IInv
<1>1. /\ w \in Worker /\ w.at \in Namespaces /\ w.pc = o /\ ~w.failed /\ w.del
      /\ UNCHANGED <<ns, labelled, orgRoles, role, shared, rv, kept, edits, faults>>
  BY DEF Delete, At, TypeOK, Worker, budget
<1>2. o \notin {"idle", "release", "patchRole", "read", "write"}
  BY DEF Object
<1>3. GoOn /\ Set(w.at, o, "none")
  BY DEF Delete
<1>4. w' \in Worker /\ WorkerInv'
  BY <1>1, <1>2, <1>3, WorkerKept
<1>5. /\ obj' \in [Namespaces -> [Object -> AnyContent]]
      /\ obj'[w.at][o] = "none"
      /\ \A m \in Namespaces \ {w.at} : obj'[m] = obj[m]
      /\ \A p \in Object \ {o} : obj'[w.at][p] = obj[w.at][p]
  BY <1>1, <1>3, SetFacts DEF AnyContent
<1>6. OnlyOwn
  BY <1>1, <1>5 DEF OnlyOwn, WorkerInv, OrgRound, OrgObjects, ObjectInv, Object
<1>7. ObjectInv'
  BY <1>1, <1>2, <1>6, ObjectsKept
<1>8. TypeOK'
  BY <1>1, <1>4, <1>5 DEF TypeOK, AnyContent
<1>9. /\ w'.pc = "idle" \/ (w'.at = w.at /\ w'.del = w.del)
      /\ w'.pc # "write"
      /\ o = "silences" => w'.pc = "kamaji"
      /\ o = "kamaji" => w'.pc = "account"
      /\ o = "account" => w'.pc = "orgRole"
      /\ o = "orgRole" => w'.pc = "admins"
      /\ o = "admins" => w'.pc = "release"
  BY <1>1, <1>2, <1>3, GoOnFacts
<1>10. RemovedSoFar'
  BY <1>1, <1>5, <1>9 DEF RemovedSoFar, Object
<1>. QED
  BY <1>4, <1>7, <1>8, <1>9, <1>10 DEF SeenIsVersion

\* Both kinds of rounds write only names of namespaces.
LEMMA OrgRoleTyped ==
  ASSUME TypeOK
  PROVE  OrgRoleWritten \subseteq Names
  BY DEF TypeOK, Worker, OrgRoleWritten, Names

LEMMA OrgRoleKeeps ==
  ASSUME IInv, WriteOrgRole
  PROVE  IInv'
<1>. USE DEF IInv
<1>1. /\ w \in Worker /\ w.at \in Namespaces /\ w.pc = "orgRole" /\ ~w.failed
      /\ UNCHANGED <<ns, labelled, obj, role, shared, rv, kept, edits, faults>>
      /\ GoOn /\ orgRoles' = OrgRoleWritten
  BY DEF WriteOrgRole, At, TypeOK, Worker, budget
<1>2. w' \in Worker /\ WorkerInv'
  BY <1>1, WorkerKept
<1>3. ObjectInv'
  BY <1>1, ObjectsKept DEF OnlyOwn
<1>4. TypeOK'
  BY <1>1, <1>2, OrgRoleTyped DEF TypeOK
<1>5. /\ w'.pc = "idle" \/ (w'.at = w.at /\ w'.del = w.del)
      /\ w'.pc # "write"
      /\ w.del => w'.pc = "admins"
  BY <1>1, GoOnFacts
<1>6. RemovedSoFar'
  BY <1>1, <1>5 DEF RemovedSoFar
<1>. QED
  BY <1>2, <1>3, <1>4, <1>5, <1>6 DEF SeenIsVersion

LEMMA RoleKeeps ==
  ASSUME IInv, EnsurePatchChartsRole
  PROVE  IInv'
<1>. USE DEF IInv
<1>1. /\ w \in Worker /\ w.at \in Namespaces /\ w.pc = "patchRole" /\ ~w.failed /\ ~w.del
      /\ UNCHANGED <<ns, labelled, obj, orgRoles, shared, rv, kept, edits, faults>>
      /\ GoOn /\ role' = "ours"
  BY DEF EnsurePatchChartsRole, At, TypeOK, Worker, budget, WorkerInv, RoundHolds
<1>2. w' \in Worker /\ WorkerInv'
  BY <1>1, WorkerKept
<1>3. ObjectInv'
  BY <1>1, ObjectsKept DEF OnlyOwn
<1>4. TypeOK'
  BY <1>1, <1>2 DEF TypeOK
<1>5. ~(w'.pc # "idle" /\ w'.del) /\ w'.pc # "write"
  BY <1>1, GoOnFacts
<1>. QED
  BY <1>2, <1>3, <1>4, <1>5 DEF RemovedSoFar, SeenIsVersion

LEMMA ReadKeeps ==
  ASSUME IInv, ReadShared
  PROVE  IInv'
<1>. USE DEF IInv
<1>1. /\ w \in Worker /\ w.at \in Namespaces /\ w.pc = "read" /\ ~w.failed
      /\ UNCHANGED <<ns, labelled, obj, orgRoles, role, shared, rv, kept, edits, faults>>
  BY DEF ReadShared, At, TypeOK, Worker, cluster, budget
<1>2. ObjectInv'
  BY <1>1, ObjectsKept DEF OnlyOwn
<1>3. CASE (w.at \in AccountsOf(shared)) = ~w.del
  <2>1. GoOn
    BY <1>3 DEF ReadShared
  <2>2. w' \in Worker /\ WorkerInv'
    BY <1>1, <2>1, WorkerKept
  <2>3. /\ w'.pc = "idle" \/ (w'.at = w.at /\ w'.del = w.del)
        /\ w'.pc # "write"
        /\ w.del => w'.pc = "silences"
    BY <1>1, <2>1, GoOnFacts
  <2>4. RemovedSoFar'
    <3>. SUFFICES ASSUME w'.pc # "idle" /\ w'.del PROVE RemovedSoFar'
      BY DEF RemovedSoFar
    <3>1. w.del /\ w'.pc = "silences" /\ w'.at = w.at
      BY <2>3
    <3>2. w.at \notin AccountsOf(shared)
      BY <1>3, <3>1
    <3>3. AccountsOf(shared') = AccountsOf(shared)
      BY <1>1
    <3>. QED
      BY <3>1, <3>2, <3>3 DEF RemovedSoFar
  <2>. QED
    BY <1>1, <1>2, <2>2, <2>3, <2>4 DEF TypeOK, SeenIsVersion
<1>4. CASE (w.at \in AccountsOf(shared)) # ~w.del
  <2>1. w' = [w EXCEPT !.pc = "write", !.seen = shared, !.rv = rv]
    BY <1>4 DEF ReadShared
  <2>2. /\ w'.pc = "write" /\ w'.seen = shared /\ w'.rv = rv
        /\ w'.at = w.at /\ w'.del = w.del /\ w'.failed = w.failed
    BY <1>1, <2>1 DEF Worker
  <2>3. w' \in Worker
    BY <1>1, <2>1 DEF Worker, TypeOK, Step
  <2>4. WorkerInv'
    BY <1>1, <2>2 DEF WorkerInv, RoundHolds, OrgRound, LabelledRound
  <2>5. w.del => shared # NoBinding
    BY <1>1, <1>4 DEF AccountsOf, Worker
  <2>6. SeenIsVersion' /\ RemovedSoFar'
    BY <1>1, <2>2, <2>5 DEF SeenIsVersion, RemovedSoFar, TypeOK
  <2>. QED
    BY <1>1, <1>2, <2>3, <2>4, <2>6 DEF TypeOK
<1>. QED
  BY <1>3, <1>4

\* What a write to the shared binding changes, whether or not it succeeds.
LEMMA StoreKeeps ==
  ASSUME IInv, w.pc = "write", Store, UNCHANGED <<ns, labelled, obj, orgRoles, kept>>
  PROVE  /\ OnlyOwn /\ ObjectInv'
         /\ shared' \in Shared \cup {NoBinding} /\ rv' \in Nat
         /\ w.del /\ WriteAccepted => w.at \notin AccountsOf(shared')
<1>. USE DEF IInv
<1>1. /\ shared' \in Shared \cup {NoBinding} /\ rv' \in Nat
      /\ ~WriteAccepted => shared' = shared
      /\ WriteAccepted =>
           /\ AccountsOf(shared') = IF w.del /\ shared # NoBinding
                                      THEN AccountsOf(shared) \ {w.at}
                                      ELSE AccountsOf(shared) \cup {w.at}
  BY StoreFacts DEF WorkerInv
<1>2. w.at \in OrgNamespaces
  BY DEF WorkerInv, OrgRound
<1>3. \A n \in Namespaces \ {w.at} : n \in AccountsOf(shared') <=> n \in AccountsOf(shared)
  <2>1. CASE WriteAccepted
    BY <1>1, <2>1
  <2>2. CASE ~WriteAccepted
    BY <1>1, <2>2
  <2>. QED
    BY <2>1, <2>2
<1>4. OnlyOwn
  BY <1>3, <1>2 DEF OnlyOwn
<1>5. ObjectInv'
  BY <1>4, ObjectsKept
<1>6. ASSUME w.del, WriteAccepted PROVE w.at \notin AccountsOf(shared')
  <2>1. shared # NoBinding
    BY <1>6 DEF SeenIsVersion, WriteAccepted
  <2>. QED
    BY <1>1, <1>6, <2>1
<1>. QED
  BY <1>1, <1>4, <1>5, <1>6

LEMMA WriteKeeps ==
  ASSUME IInv, WriteShared
  PROVE  IInv'
<1>. USE DEF IInv
<1>1. /\ w \in Worker /\ w.at \in Namespaces /\ w.pc = "write" /\ ~w.failed /\ Store
      /\ UNCHANGED <<ns, labelled, obj, orgRoles, role, kept, edits, faults>>
      /\ IF WriteAccepted \/ WriteTolerated THEN GoOn ELSE Fails
  BY DEF WriteShared, At, TypeOK, Worker, budget
<1>2. /\ ObjectInv'
      /\ shared' \in Shared \cup {NoBinding} /\ rv' \in Nat /\ rv <= rv'
      /\ w.del /\ WriteAccepted => w.at \notin AccountsOf(shared')
      /\ ~WriteAccepted => shared' = shared /\ rv' = rv
  BY <1>1, StoreKeeps, StoreFacts DEF WorkerInv, Store
<1>3. w' \in Worker /\ WorkerInv'
  BY <1>1, WorkerKept
<1>4. TypeOK'
  BY <1>1, <1>2, <1>3 DEF TypeOK
<1>5. CASE WriteAccepted \/ WriteTolerated
  <2>1. /\ w'.pc = "idle" \/ (w'.at = w.at /\ w'.del = w.del)
        /\ w'.pc # "write"
        /\ w.del => w'.pc = "silences"
    BY <1>1, <1>5, GoOnFacts
  <2>2. w.del => WriteAccepted
    BY <1>1, <1>5 DEF WriteTolerated, SeenIsVersion
  <2>3. RemovedSoFar' /\ SeenIsVersion'
    BY <1>2, <2>1, <2>2 DEF RemovedSoFar, SeenIsVersion
  <2>. QED
    BY <1>2, <1>3, <1>4, <2>3
<1>6. CASE ~(WriteAccepted \/ WriteTolerated)
  <2>1. /\ w'.pc = "write" /\ w'.at = w.at /\ w'.del = w.del
        /\ w'.seen = w.seen /\ w'.rv = w.rv
    BY <1>1, <1>6, FailsFacts
  <2>2. RemovedSoFar' /\ SeenIsVersion'
    BY <1>1, <1>2, <1>6, <2>1 DEF RemovedSoFar, SeenIsVersion
  <2>. QED
    BY <1>2, <1>3, <1>4, <2>2
<1>. QED
  BY <1>5, <1>6

\* Steps that bring the worker to rest.
LEMMA RestKeeps ==
  ASSUME IInv, w' = Idle, UNCHANGED <<ns, labelled, obj, orgRoles, shared, kept, rv>>,
         role' \in {"none", "ours", "changed"}, edits' \in Nat, faults' \in Nat
  PROVE  IInv'
<1>. USE DEF IInv
<1>1. w' \in Worker /\ WorkerInv' /\ RemovedSoFar' /\ SeenIsVersion'
  BY RestKept
<1>2. TypeOK'
  BY <1>1 DEF TypeOK
<1>3. ObjectInv'
  BY DEF ObjectInv, OrgObjects, UnlabelledClean, NamespacesCleaned, Held, Clean
<1>. QED
  BY <1>1, <1>2, <1>3

LEMMA GiveUpKeeps == ASSUME IInv, GiveUp PROVE IInv'
  BY RestKeeps DEF GiveUp, cluster, budget, IInv, TypeOK

LEMMA CrashKeeps == ASSUME IInv, Crash PROVE IInv'
  BY RestKeeps DEF Crash, Fault, IInv, TypeOK

\* A namespace is let go when nothing is left: the round was a deletion that
\* has removed everything, or the namespace has lost its label.
LEMMA ReleaseKeeps ==
  ASSUME IInv, Release
  PROVE  IInv'
<1>. USE DEF IInv
<1>1. /\ w \in Worker /\ w.at \in Namespaces /\ w.pc = "release"
      /\ UNCHANGED <<labelled, obj, orgRoles, role, shared, rv, kept, edits, faults>>
      /\ w' = Idle /\ ns' = [ns EXCEPT ![w.at] = "released"]
  BY DEF Release, At, TypeOK, Worker, budget
<1>2. w' \in Worker /\ WorkerInv' /\ RemovedSoFar' /\ SeenIsVersion'
  BY <1>1, RestKept
<1>3. TypeOK'
  BY <1>1, <1>2 DEF TypeOK, Phase
<1>4. OrgObjects' /\ UnlabelledClean'
  BY <1>1 DEF ObjectInv, OrgObjects, UnlabelledClean, Clean
<1>5. w.at \in kept => Clean(w.at)
  BY <1>1 DEF WorkerInv, RoundHolds, RemovedSoFar, Clean, Object, Local
<1>6. NamespacesCleaned'
  BY <1>1, <1>5 DEF ObjectInv, NamespacesCleaned, Held, Clean, TypeOK
<1>. QED
  BY <1>2, <1>3, <1>4, <1>6 DEF ObjectInv

\* Only organizations have an account in the shared binding.
LEMMA OrgAccounts ==
  ASSUME TypeOK
  PROVE  \A n \in Namespaces \ OrgNamespaces : n \notin AccountsOf(shared)
  BY DEF TypeOK, AccountsOf, Shared

\* A round that starts anew, at the beginning of a handler.
LEMMA RetryKeeps ==
  ASSUME IInv, Retry
  PROVE  IInv'
<1>. USE DEF IInv
<1>1. /\ w \in Worker /\ w.at \in Namespaces /\ w.failed /\ w.pc # "idle" /\ w.pc # "release"
      /\ UNCHANGED <<ns, labelled, obj, orgRoles, role, shared, rv, kept, edits, faults>>
      /\ w' = [w EXCEPT !.failed = FALSE, !.pc = Start(w.pc, w.at, w.del)]
  BY DEF Retry, TypeOK, Worker, cluster, budget, WorkerInv, RoundHolds
<1>2. /\ w'.pc = Start(w.pc, w.at, w.del) /\ w'.failed = FALSE
      /\ w'.at = w.at /\ w'.del = w.del
  BY <1>1 DEF Worker
<1>9. /\ w'.pc \in {"orgRole", "read", "account"}
      /\ w'.pc # "orgRole" => w.at \in OrgNamespaces
      /\ w'.pc = "orgRole" => w.pc \in {"orgRole", "admins"} \/ w.at \notin OrgNamespaces
      /\ w.del => w'.pc # "account"
  BY <1>2 DEF Start
<1>3. w' \in Worker
  <2>1. w'.pc \in Step
    BY <1>9 DEF Step, Object
  <2>. QED
    BY <1>1, <1>2, <2>1 DEF Worker
<1>4. WorkerInv'
  BY <1>1, <1>2, <1>9 DEF WorkerInv, RoundHolds, OrgRound, LabelledRound
<1>5. RemovedSoFar'
  <2>3. CASE ~w.del \/ w.at \notin kept
    BY <1>1, <1>2, <2>3 DEF RemovedSoFar
  <2>4. CASE w.del /\ w'.pc = "read"
    BY <2>4 DEF RemovedSoFar
  <2>1. CASE w'.pc = "orgRole" /\ w.pc \in {"orgRole", "admins"}
    BY <1>1, <1>2, <1>9, <2>1 DEF RemovedSoFar
  <2>2. CASE w'.pc = "orgRole" /\ w.at \notin OrgNamespaces
    BY <1>1, <1>2, <2>2, OrgAccounts DEF RemovedSoFar, ObjectInv, OrgObjects
  <2>. QED
    BY <1>9, <2>1, <2>2, <2>3, <2>4
<1>6. SeenIsVersion'
  BY <1>9 DEF SeenIsVersion
<1>7. TypeOK'
  BY <1>1, <1>3 DEF TypeOK
<1>8. ObjectInv'
  BY <1>1 DEF ObjectInv, OrgObjects, UnlabelledClean, NamespacesCleaned, Held, Clean
<1>. QED
  BY <1>4, <1>5, <1>6, <1>7, <1>8

LEMMA BeginKeeps ==
  ASSUME IInv, NEW n \in Namespaces, Begin(n)
  PROVE  IInv'
<1>. USE DEF IInv
<1>1. /\ UNCHANGED <<ns, labelled, obj, orgRoles, role, shared, rv, kept, edits, faults>>
      /\ \/ /\ ns[n] = "live" /\ n \in labelled
            /\ w' = [Idle EXCEPT !.at = n, !.pc = Start("idle", n, FALSE)]
         \/ /\ ns[n] = "deleting"
            /\ w' = [Idle EXCEPT !.at = n, !.del = TRUE,
                       !.pc = IF n \in labelled THEN Start("idle", n, TRUE) ELSE "release"]
  BY DEF Begin, cluster, budget
<1>2. /\ w'.at = n /\ w'.failed = FALSE
      /\ \/ /\ ns[n] = "live" /\ n \in labelled
            /\ w'.pc = Start("idle", n, FALSE) /\ w'.del = FALSE
         \/ /\ ns[n] = "deleting" /\ w'.del = TRUE
            /\ w'.pc = IF n \in labelled THEN Start("idle", n, TRUE) ELSE "release"
  BY <1>1, IdleTyped DEF Worker, Idle
<1>9. /\ w'.pc \in {"orgRole", "read", "account", "release"}
      /\ w'.pc \in {"read", "account"} => n \in OrgNamespaces
      /\ w'.pc = "orgRole" => n \notin OrgNamespaces
      /\ w'.del => w'.pc # "account"
      /\ w'.pc # "release" => n \in labelled
      /\ w'.pc = "release" => w'.del
  BY <1>2 DEF Start
<1>3. w' \in Worker
  <2>1. w'.pc \in Step
    BY <1>9 DEF Step, Object
  <2>. QED
    BY <1>1, <1>2, <2>1, IdleTyped DEF Worker
<1>4. WorkerInv'
  BY <1>1, <1>2, <1>9 DEF WorkerInv, RoundHolds, OrgRound, LabelledRound
<1>5. RemovedSoFar'
  <2>1. CASE n \in labelled
    <3>1. w'.pc = "read" \/ ~w'.del \/ (w'.pc = "orgRole" /\ n \notin OrgNamespaces)
      BY <1>2, <1>9, <2>1 DEF Start
    <3>. QED
      BY <1>1, <1>2, <3>1, OrgAccounts DEF RemovedSoFar, ObjectInv, OrgObjects
  <2>2. CASE n \notin labelled
    BY <1>1, <1>2, <2>2
       DEF RemovedSoFar, ObjectInv, UnlabelledClean, Clean, Object, Local
  <2>. QED
    BY <2>1, <2>2
<1>6. SeenIsVersion'
  BY <1>9 DEF SeenIsVersion
<1>7. TypeOK'
  BY <1>1, <1>3 DEF TypeOK
<1>8. ObjectInv'
  BY <1>1 DEF ObjectInv, OrgObjects, UnlabelledClean, NamespacesCleaned, Held, Clean
<1>. QED
  BY <1>4, <1>5, <1>6, <1>7, <1>8

LEMMA FailsKeeps ==
  ASSUME IInv, CallFails
  PROVE  IInv'
<1>. USE DEF IInv
<1>1. /\ w \in Worker /\ w.at \in Namespaces /\ w.pc # "idle" /\ ~w.failed
      /\ UNCHANGED <<ns, labelled, kept, edits>> /\ faults' \in Nat
      /\ IF w.pc = "release" THEN w' = Idle ELSE Fails
  BY DEF CallFails, Fault, TypeOK, Worker
<1>2. CASE w.pc = "release"
  <2>1. UNCHANGED <<obj, orgRoles, role, shared, rv>> /\ w' = Idle
    BY <1>1, <1>2 DEF CallFails, Object
  <2>. QED
    BY <1>1, <2>1, RestKeeps DEF TypeOK
<1>3. CASE w.pc # "release"
  <2>1. /\ w'.pc = w.pc /\ w'.at = w.at /\ w'.del = w.del
        /\ w'.seen = w.seen /\ w'.rv = w.rv
    BY <1>1, <1>3, FailsFacts
  <2>2. w' \in Worker /\ WorkerInv'
    BY <1>1, <1>3, WorkerKept
  <2>3. CASE UNCHANGED <<obj, orgRoles, shared, rv>> /\ role' \in {role, "ours"}
    <3>1. ObjectInv'
      BY <1>1, <1>3, <2>3, ObjectsKept DEF OnlyOwn
    <3>2. TypeOK'
      BY <1>1, <2>2, <2>3 DEF TypeOK
    <3>3. RemovedSoFar' /\ SeenIsVersion'
      BY <1>1, <2>1, <2>3 DEF RemovedSoFar, SeenIsVersion
    <3>. QED
      BY <2>2, <3>1, <3>2, <3>3
  <2>6. CASE w.pc = "orgRole" /\ orgRoles' = OrgRoleWritten /\ UNCHANGED <<obj, role, shared, rv>>
    <3>1. ObjectInv'
      BY <1>1, <1>3, <2>6, ObjectsKept DEF OnlyOwn
    <3>2. TypeOK'
      BY <1>1, <2>2, <2>6, OrgRoleTyped DEF TypeOK
    <3>3. RemovedSoFar' /\ SeenIsVersion'
      BY <1>1, <2>1, <2>6 DEF RemovedSoFar, SeenIsVersion
    <3>. QED
      BY <2>2, <3>1, <3>2, <3>3
  <2>4. CASE w.pc = "write" /\ Store /\ UNCHANGED <<obj, orgRoles, role>>
    <3>1. /\ ObjectInv' /\ shared' \in Shared \cup {NoBinding} /\ rv' \in Nat
      BY <1>1, <2>4, StoreKeeps
    <3>2. (UNCHANGED <<shared, rv>>) \/ rv' = rv + 1
      BY <2>4 DEF Store
    <3>3. TypeOK'
      BY <1>1, <2>2, <2>4, <3>1 DEF TypeOK
    <3>4. RemovedSoFar'
      BY <2>1, <2>4 DEF RemovedSoFar
    <3>5. SeenIsVersion'
      BY <2>1, <2>4, <3>2 DEF SeenIsVersion, TypeOK, Worker
    <3>. QED
      BY <2>2, <3>1, <3>3, <3>4, <3>5
  <2>5. CASE /\ w.pc \in Object
             /\ Set(w.at, w.pc, IF w.del THEN "none" ELSE Ensured(w.at, w.pc))
             /\ UNCHANGED <<orgRoles, role, shared, rv>>
    <3>1. (IF w.del THEN "none" ELSE Ensured(w.at, w.pc)) \in AnyContent
      BY <1>1, <2>5, EnsuredTyped DEF AnyContent
    <3>2. /\ obj' \in [Namespaces -> [Object -> AnyContent]]
          /\ w.del => obj'[w.at][w.pc] = "none"
          /\ \A m \in Namespaces \ {w.at} : obj'[m] = obj[m]
          /\ \A p \in Object \ {w.pc} : obj'[w.at][p] = obj[w.at][p]
      BY <1>1, <2>5, <3>1, SetFacts
    <3>3. OnlyOwn
      BY <1>1, <2>5, <3>2 DEF OnlyOwn, WorkerInv, OrgRound, Object
    <3>4. ObjectInv'
      BY <1>1, <1>3, <3>3, ObjectsKept
    <3>5. TypeOK'
      BY <1>1, <2>2, <2>5, <3>2 DEF TypeOK, AnyContent
    <3>6. RemovedSoFar'
      BY <1>1, <2>1, <2>5, <3>2 DEF RemovedSoFar, Object
    <3>7. SeenIsVersion'
      BY <2>1, <2>5 DEF SeenIsVersion
    <3>. QED
      BY <2>2, <3>4, <3>5, <3>6, <3>7
  <2>. QED
    BY <1>1, <2>3, <2>4, <2>5, <2>6 DEF CallFails
<1>. QED
  BY <1>2, <1>3

LEMMA UnreadKeeps ==
  ASSUME IInv, AccountUnread
  PROVE  IInv'
<1>. USE DEF IInv
<1>1. /\ w \in Worker /\ w.at \in Namespaces /\ w.pc = "account" /\ ~w.failed /\ ~w.del
      /\ UNCHANGED <<ns, labelled, obj, orgRoles, role, shared, rv, kept, edits>>
      /\ GoOn /\ faults' \in Nat
  BY DEF AccountUnread, Fault, At, TypeOK, Worker
<1>2. w' \in Worker /\ WorkerInv'
  BY <1>1, WorkerKept
<1>3. ObjectInv'
  BY <1>1, ObjectsKept DEF OnlyOwn
<1>4. TypeOK'
  BY <1>1, <1>2 DEF TypeOK
<1>5. ~(w'.pc # "idle" /\ w'.del) /\ w'.pc # "write"
  BY <1>1, GoOnFacts
<1>. QED
  BY <1>2, <1>3, <1>4, <1>5 DEF RemovedSoFar, SeenIsVersion

-----------------------------------------------------------------------------
(* Users, and the lifecycle of namespaces. *)

\* What happens outside of the worker and of the objects.
LEMMA AddFinalizerKeeps ==
  ASSUME IInv, NEW n \in Namespaces, AddFinalizer(n)
  PROVE  IInv'
<1>. USE DEF IInv
<1>1. /\ w.pc = "idle" /\ ns[n] = "new" /\ ns' = [ns EXCEPT ![n] = "live"]
      /\ UNCHANGED <<labelled, obj, orgRoles, role, shared, rv, w, kept, edits, faults>>
  BY DEF AddFinalizer, budget
<1>2. TypeOK'
  BY <1>1 DEF TypeOK, Phase
<1>3. WorkerInv' /\ RemovedSoFar' /\ SeenIsVersion'
  BY <1>1
  DEF WorkerInv, RoundHolds, OrgRound, LabelledRound, RemovedSoFar, SeenIsVersion
<1>4. ObjectInv'
  BY <1>1
  DEF ObjectInv, OrgObjects, UnlabelledClean, NamespacesCleaned, Held, Clean, TypeOK
<1>. QED
  BY <1>2, <1>3, <1>4

LEMMA ChangeNamespaceKeeps ==
  ASSUME IInv, NEW n \in Namespaces, ChangeNamespace(n)
  PROVE  IInv'
<1>. USE DEF IInv
<1>1. /\ UNCHANGED <<labelled, obj, orgRoles, role, shared, rv, w, kept, faults>> /\ edits' \in Nat
      /\ \/ ns[n] = "absent" /\ ns' = [ns EXCEPT ![n] = "new"]
         \/ ns[n] = "new" /\ ns' = [ns EXCEPT ![n] = "released"]
         \/ ns[n] = "live" /\ ns' = [ns EXCEPT ![n] = "deleting"]
  BY DEF ChangeNamespace, Edit, TypeOK
<1>2. TypeOK'
  BY <1>1 DEF TypeOK, Phase
<1>3. RoundHolds'
  BY <1>1 DEF WorkerInv, RoundHolds, TypeOK, Worker
<1>4. OrgRound' /\ LabelledRound' /\ RemovedSoFar' /\ SeenIsVersion'
  BY <1>1 DEF WorkerInv, OrgRound, LabelledRound, RemovedSoFar, SeenIsVersion
<1>5. ObjectInv'
  BY <1>1
  DEF ObjectInv, OrgObjects, UnlabelledClean, NamespacesCleaned, Held, Clean, TypeOK
<1>. QED
  BY <1>2, <1>3, <1>4, <1>5 DEF WorkerInv

LEMMA LabelKeeps ==
  ASSUME IInv, NEW n \in Namespaces, Label(n)
  PROVE  IInv'
<1>. USE DEF IInv
<1>1. /\ UNCHANGED <<ns, obj, orgRoles, role, shared, rv, w, kept, faults>> /\ edits' \in Nat
      /\ labelled' = labelled \cup {n}
  BY DEF Label, Edit, TypeOK
<1>2. TypeOK'
  BY <1>1 DEF TypeOK
<1>3. WorkerInv' /\ RemovedSoFar' /\ SeenIsVersion'
  BY <1>1
  DEF WorkerInv, RoundHolds, OrgRound, LabelledRound, RemovedSoFar, SeenIsVersion
<1>4. ObjectInv'
  BY <1>1 DEF ObjectInv, OrgObjects, UnlabelledClean, NamespacesCleaned, Held, Clean
<1>. QED
  BY <1>2, <1>3, <1>4

LEMMA UnlabelKeeps ==
  ASSUME IInv, NEW n \in Namespaces, Unlabel(n)
  PROVE  IInv'
<1>. USE DEF IInv
<1>1. /\ UNCHANGED <<ns, obj, orgRoles, role, shared, rv, w, faults>> /\ edits' \in Nat
      /\ labelled' = labelled \ {n} /\ kept' = kept \ {n}
  BY DEF Unlabel, Edit, TypeOK
<1>2. TypeOK'
  BY <1>1 DEF TypeOK
<1>3. WorkerInv' /\ RemovedSoFar' /\ SeenIsVersion'
  BY <1>1
  DEF WorkerInv, RoundHolds, OrgRound, LabelledRound, RemovedSoFar, SeenIsVersion
<1>4. ObjectInv'
  BY <1>1 DEF ObjectInv, OrgObjects, UnlabelledClean, NamespacesCleaned, Held, Clean
<1>. QED
  BY <1>2, <1>3, <1>4

LEMMA SpoilKeeps ==
  ASSUME IInv, NEW n \in Namespaces, NEW o \in Object, Spoil(n, o)
  PROVE  IInv'
<1>. USE DEF IInv
<1>1. /\ UNCHANGED <<ns, labelled, orgRoles, role, shared, rv, w, kept, faults>> /\ edits' \in Nat
      /\ obj[n][o] # "none"
  BY DEF Spoil, Edit, TypeOK
<1>2. PICK c \in Content(o) \ {"ours"} : Set(n, o, c)
  BY DEF Spoil
<1>3. /\ obj' \in [Namespaces -> [Object -> AnyContent]]
      /\ \A m \in Namespaces, p \in Object : obj[m][p] = "none" => obj'[m][p] = "none"
  <2>1. c \in AnyContent
    BY DEF Content, AnyContent
  <2>. QED
    BY <1>1, <1>2, <2>1, SetFacts
<1>4. TypeOK'
  BY <1>1, <1>3 DEF TypeOK, AnyContent
<1>5. WorkerInv' /\ SeenIsVersion'
  BY <1>1 DEF WorkerInv, RoundHolds, OrgRound, LabelledRound, SeenIsVersion
<1>6. RemovedSoFar'
  BY <1>1, <1>3 DEF RemovedSoFar, Object, TypeOK, Worker
<1>7. OrgObjects'
  BY <1>1, <1>3 DEF ObjectInv, OrgObjects, Object
<1>8. UnlabelledClean' /\ NamespacesCleaned'
  BY <1>1, <1>3 DEF ObjectInv, UnlabelledClean, NamespacesCleaned, Held, Clean, TypeOK
<1>. QED
  BY <1>4, <1>5, <1>6, <1>7, <1>8 DEF ObjectInv

LEMMA SpoilOrgRoleKeeps ==
  ASSUME IInv, NEW n \in Namespaces, SpoilOrgRole(n)
  PROVE  IInv'
<1>. USE DEF IInv
<1>1. /\ UNCHANGED <<ns, labelled, obj, role, shared, rv, w, kept, faults>> /\ edits' \in Nat
      /\ orgRoles' \subseteq orgRoles
  BY DEF SpoilOrgRole, Edit, TypeOK
<1>2. TypeOK'
  BY <1>1 DEF TypeOK
<1>3. WorkerInv' /\ RemovedSoFar' /\ SeenIsVersion'
  BY <1>1
  DEF WorkerInv, RoundHolds, OrgRound, LabelledRound, RemovedSoFar, SeenIsVersion
<1>4. ObjectInv'
  BY <1>1 DEF ObjectInv, OrgObjects, UnlabelledClean, NamespacesCleaned, Held, Clean
<1>. QED
  BY <1>2, <1>3, <1>4

LEMMA SpoilRoleKeeps ==
  ASSUME IInv, SpoilRole
  PROVE  IInv'
<1>. USE DEF IInv
<1>1. /\ UNCHANGED <<ns, labelled, obj, orgRoles, shared, rv, w, kept, faults>> /\ edits' \in Nat
      /\ role' \in {"none", "changed"}
  BY DEF SpoilRole, Edit, TypeOK
<1>2. TypeOK'
  BY <1>1 DEF TypeOK
<1>3. WorkerInv' /\ RemovedSoFar' /\ SeenIsVersion'
  BY <1>1
  DEF WorkerInv, RoundHolds, OrgRound, LabelledRound, RemovedSoFar, SeenIsVersion
<1>4. ObjectInv'
  BY <1>1 DEF ObjectInv, OrgObjects, UnlabelledClean, NamespacesCleaned, Held, Clean
<1>. QED
  BY <1>2, <1>3, <1>4

\* Others do not put accounts into the shared binding.
LEMMA SpoilSharedFacts ==
  ASSUME TypeOK, SpoilShared
  PROVE  /\ shared' \in Shared \cup {NoBinding}
         /\ AccountsOf(shared') \subseteq AccountsOf(shared)
         /\ \/ shared' = NoBinding
            \/ /\ shared' # NoBinding /\ shared'.foreign \in BOOLEAN
               /\ AccountsOf(shared') = AccountsOf(shared)
<1>1. CASE shared = NoBinding
  <2>1. shared' = [accounts |-> {}, foreign |-> TRUE]
    BY <1>1 DEF SpoilShared
  <2>2. shared' \in Shared
    BY <2>1 DEF Shared
  <2>3. shared' # NoBinding
    BY <2>2, BindingAssumption
  <2>4. AccountsOf(shared') = {}
    BY <2>1, <2>3 DEF AccountsOf
  <2>5. AccountsOf(shared) = {}
    BY <1>1 DEF AccountsOf
  <2>. QED
    BY <2>1, <2>2, <2>3, <2>4, <2>5
<1>2. CASE shared # NoBinding /\ shared' = [shared EXCEPT !.foreign = ~@]
  <2>1. shared \in Shared
    BY <1>2 DEF TypeOK
  <2>2. shared' \in Shared /\ shared'.foreign \in BOOLEAN /\ shared'.accounts = shared.accounts
    BY <1>2, <2>1 DEF Shared
  <2>3. shared' # NoBinding
    BY <2>2, BindingAssumption
  <2>. QED
    BY <1>2, <2>2, <2>3 DEF AccountsOf
<1>3. CASE shared' = NoBinding
  BY <1>3 DEF AccountsOf
<1>. QED
  BY <1>1, <1>2, <1>3 DEF SpoilShared

LEMMA SpoilSharedKeeps ==
  ASSUME IInv, SpoilShared
  PROVE  IInv'
<1>. USE DEF IInv
<1>1. /\ UNCHANGED <<ns, labelled, obj, orgRoles, role, w, kept, faults>> /\ edits' \in Nat
      /\ rv' = rv + 1
  BY DEF SpoilShared, Edit, TypeOK
<1>2. /\ shared' \in Shared \cup {NoBinding}
      /\ \A n : n \notin AccountsOf(shared) => n \notin AccountsOf(shared')
  BY SpoilSharedFacts
<1>3. TypeOK'
  BY <1>1, <1>2 DEF TypeOK
<1>4. WorkerInv'
  BY <1>1 DEF WorkerInv, RoundHolds, OrgRound, LabelledRound
<1>5. RemovedSoFar'
  BY <1>1, <1>2 DEF RemovedSoFar
<1>6. SeenIsVersion'
  BY <1>1 DEF SeenIsVersion, TypeOK, Worker
<1>7. ObjectInv'
  BY <1>1, <1>2
  DEF ObjectInv, OrgObjects, UnlabelledClean, NamespacesCleaned, Held, Clean
<1>. QED
  BY <1>3, <1>4, <1>5, <1>6, <1>7

LEMMA NamespaceGoesKeeps ==
  ASSUME IInv, NEW n \in Namespaces, NamespaceGoes(n)
  PROVE  IInv'
<1>. USE DEF IInv
<1>1. /\ UNCHANGED <<labelled, orgRoles, role, shared, rv, w, kept, edits, faults>>
      /\ ns[n] \in Terminating
      /\ obj' = [obj EXCEPT ![n] = [o \in Object |-> IF o \in Local THEN "none" ELSE @[o]]]
      /\ ns' = [ns EXCEPT ![n] = IF @ = "released" THEN "absent" ELSE @]
  BY DEF NamespaceGoes, budget
<1>2. \A m \in Namespaces : ns'[m] = ns[m] \/ (ns[m] = "released" /\ ns'[m] = "absent")
  BY <1>1 DEF TypeOK
<1>3. /\ obj' \in [Namespaces -> [Object -> AnyContent]]
      /\ \A m \in Namespaces, o \in Object : obj[m][o] = "none" => obj'[m][o] = "none"
  BY <1>1 DEF TypeOK, AnyContent
<1>4. TypeOK'
  BY <1>1, <1>3 DEF TypeOK, AnyContent, Phase
<1>5. WorkerInv'
  BY <1>1, <1>2 DEF WorkerInv, RoundHolds, OrgRound, LabelledRound, TypeOK, Worker
<1>6. RemovedSoFar' /\ SeenIsVersion'
  BY <1>1, <1>3 DEF RemovedSoFar, SeenIsVersion, Object, TypeOK, Worker
<1>7. OrgObjects'
  BY <1>1, <1>3 DEF ObjectInv, OrgObjects, Object
<1>8. UnlabelledClean' /\ NamespacesCleaned'
  BY <1>1, <1>2, <1>3
  DEF ObjectInv, UnlabelledClean, NamespacesCleaned, Held, Clean, TypeOK
<1>. QED
  BY <1>4, <1>5, <1>6, <1>7, <1>8 DEF ObjectInv

-----------------------------------------------------------------------------
(* The invariant, and what follows from it. *)

LEMMA InitHolds == Init => IInv
<1>. SUFFICES ASSUME Init PROVE IInv
  OBVIOUS
<1>1. AccountsOf(shared) = {}
  BY DEF Init, AccountsOf
<1>2. TypeOK
  BY IdleTyped DEF Init, TypeOK, Phase
<1>3. w = Idle
  BY DEF Init
<1>4. WorkerInv /\ RemovedSoFar /\ SeenIsVersion
  BY <1>3, IdleTyped
     DEF WorkerInv, RoundHolds, OrgRound, LabelledRound, RemovedSoFar, SeenIsVersion
<1>5. \A n \in Namespaces, o \in Object : obj[n][o] = "none"
  BY DEF Init
<1>6. OrgObjects
  BY <1>5 DEF OrgObjects, Object
<1>7. UnlabelledClean /\ NamespacesCleaned
  BY <1>1, <1>2, <1>5 DEF UnlabelledClean, NamespacesCleaned, Held, Clean, TypeOK
<1>. QED
  BY <1>2, <1>4, <1>6, <1>7 DEF IInv, ObjectInv

LEMMA StepKeeps == IInv /\ [Next]_vars => IInv'
<1>. SUFFICES ASSUME IInv, [Next]_vars PROVE IInv'
  OBVIOUS
<1>1. CASE Round
  BY <1>1, EnsureKeeps, DeleteKeeps, OrgRoleKeeps, RoleKeeps, ReadKeeps, WriteKeeps, ReleaseKeeps,
     RetryKeeps, GiveUpKeeps
     DEF Round
<1>2. CASE CallFails \/ AccountUnread \/ Crash
  BY <1>2, FailsKeeps, UnreadKeeps, CrashKeeps
<1>3. CASE Environment
  BY <1>3, SpoilRoleKeeps, SpoilSharedKeeps, ChangeNamespaceKeeps, LabelKeeps,
     UnlabelKeeps, SpoilKeeps, SpoilOrgRoleKeeps
     DEF Environment
<1>4. CASE \E n \in Namespaces : Reconcile(n) \/ NamespaceGoes(n)
  BY <1>4, AddFinalizerKeeps, BeginKeeps, NamespaceGoesKeeps DEF Reconcile
<1>5. CASE UNCHANGED vars
  <2>1. w \in Worker /\ UNCHANGED <<ns, labelled, obj, orgRoles, role, shared, rv, w, kept, edits, faults>>
    BY <1>5 DEF vars, IInv, TypeOK
  <2>. QED
    BY <2>1 DEF IInv, TypeOK, WorkerInv, RoundHolds, OrgRound, LabelledRound, ObjectInv,
                OrgObjects, UnlabelledClean, NamespacesCleaned, Held, Clean, RemovedSoFar,
                SeenIsVersion, AccountsOf
<1>. QED
  BY <1>1, <1>2, <1>3, <1>4, <1>5 DEF Next

\* In every reachable state the invariant holds.
THEOREM Inductive == Spec => []IInv
  BY InitHolds, StepKeeps, PTL DEF Spec

\* Every variable keeps its type: the worker is always at a step of its round,
\* with what it read in hand (automation, namespaceauth: EnsureCreated and
\* EnsureDeleted).
THEOREM TypeCorrect == Spec => []TypeOK
<1>1. IInv => TypeOK
  BY DEF IInv
<1>. QED
  BY <1>1, Inductive, PTL

-----------------------------------------------------------------------------
(* The ClusterRoles that namesakes share. *)

Past == w.del /\ w.pc \in {"admins", "release"}

\* Steps that make no ClusterRole, and after which whoever needed one still does.
LEMMA OrgRolesLeft ==
  ASSUME OrgRolesHeld, orgRoles' \subseteq orgRoles, kept' \subseteq kept,
         labelled \cap kept' \subseteq labelled',
         \A m \in labelled : Held(m) => Held(m)' \/ (m = w.at /\ Past),
         Past' => w'.at \notin labelled \/ (w'.at = w.at /\ Past)
  PROVE  OrgRolesHeld'
<1>. SUFFICES ASSUME NEW n \in Namespaces, Namesakes(n) \subseteq kept',
                     OrganizationName[n] \in orgRoles'
              PROVE  \E m \in Namesakes(n) \cap labelled' :
                       Held(m)' /\ (m = w'.at => ~Past')
  BY DEF OrgRolesHeld, Past, Namesakes
<1>1. PICK m \in Namesakes(n) \cap labelled : Held(m) /\ (m = w.at => ~Past)
  BY DEF OrgRolesHeld, Past
<1>2. m \in labelled' /\ Held(m)'
  BY <1>1
<1>3. m = w'.at => ~Past'
  BY <1>1
<1>. QED
  BY <1>1, <1>2, <1>3

\* A creation makes the role for its own namespace; a deletion removes it for all.
LEMMA OrgRoleWrittenKeeps ==
  ASSUME IInv, OrgRolesHeld, w.pc = "orgRole", orgRoles' = OrgRoleWritten,
         UNCHANGED <<ns, labelled, kept>>, w'.at = w.at, w'.del = w.del
  PROVE  OrgRolesHeld'
<1>. SUFFICES ASSUME NEW n \in Namespaces, Namesakes(n) \subseteq kept,
                     OrganizationName[n] \in orgRoles'
              PROVE  \E m \in Namesakes(n) \cap labelled : Held(m) /\ (m = w.at => ~Past')
  BY DEF OrgRolesHeld, Past, Namesakes, Held
<1>1. w.at \in Namespaces /\ w.del \in BOOLEAN
  BY DEF IInv, TypeOK, Worker
<1>2. CASE OrganizationName[n] = OrganizationName[w.at]
  <2>1. ~w.del /\ ~Past'
    BY <1>1, <1>2 DEF OrgRoleWritten, Past
  <2>2. w.at \in Namesakes(n)
    BY <1>1, <1>2 DEF Namesakes
  <2>3. w.at \in labelled /\ Held(w.at)
    BY <2>1, <2>2 DEF IInv, WorkerInv, LabelledRound, RoundHolds, Held
  <2>. QED
    BY <2>1, <2>2, <2>3
<1>3. CASE OrganizationName[n] # OrganizationName[w.at]
  <2>1. OrganizationName[n] \in orgRoles
    BY <1>3 DEF OrgRoleWritten
  <2>2. PICK m \in Namesakes(n) \cap labelled : Held(m)
    BY <2>1 DEF OrgRolesHeld
  <2>3. m # w.at
    BY <1>3 DEF Namesakes
  <2>. QED
    BY <2>2, <2>3
<1>. QED
  BY <1>2, <1>3

\* Where the worker goes within a round.
LEMMA RoundPast ==
  ASSUME IInv, w.pc \notin {"idle", "release", "orgRole"}, ~w.failed, GoOn \/ Fails
  PROVE  Past' => w'.at = w.at /\ Past
<1>1. w \in Worker /\ (w.pc = "patchRole" => ~w.del)
  BY DEF IInv, TypeOK, WorkerInv, RoundHolds
<1>2. CASE GoOn
  <2>1. /\ w'.pc = "idle" \/ (w'.at = w.at /\ w'.del = w.del)
        /\ w.del => /\ w.pc \in {"read", "write"} => w'.pc = "silences"
                    /\ w.pc = "silences" => w'.pc = "kamaji"
                    /\ w.pc = "kamaji" => w'.pc = "account"
                    /\ w.pc = "account" => w'.pc = "orgRole"
    BY <1>1, <1>2, GoOnFacts
  <2>. QED
    BY <1>1, <2>1 DEF Past, Worker, Step, Object
<1>3. CASE Fails
  BY <1>1, <1>3, FailsFacts DEF Past
<1>. QED
  BY <1>2, <1>3

LEMMA OrgRolesKept ==
  ASSUME IInv, OrgRolesHeld, [Next]_vars
  PROVE  OrgRolesHeld'
<1>. USE DEF Held
<1>0. w \in Worker /\ (w.pc = "idle" => ~Past)
  BY DEF IInv, TypeOK, Past
<1>1. CASE WriteOrgRole
  <2>1. GoOn /\ w.pc = "orgRole" /\ ~w.failed
    BY <1>1 DEF WriteOrgRole, At
  <2>2. w'.pc = "idle" \/ (w'.at = w.at /\ w'.del = w.del)
    BY <1>0, <2>1, GoOnFacts
  <2>3. w'.at = w.at /\ w'.del = w.del
    BY <1>0, <2>1, <2>2 DEF GoOn, AfterCreate, AfterDelete, Worker
  <2>. QED
    BY <1>1, <2>1, <2>3, OrgRoleWrittenKeeps DEF WriteOrgRole, budget
<1>2. CASE EnsurePatchChartsRole \/ WriteShared \/ AccountUnread
           \/ \E o \in Object : Ensure(o) \/ Delete(o)
  <2>1. /\ w.pc \notin {"idle", "release", "orgRole"} /\ ~w.failed /\ (GoOn \/ Fails)
        /\ UNCHANGED <<ns, labelled, orgRoles, kept>>
    BY <1>2 DEF EnsurePatchChartsRole, WriteShared, AccountUnread, Ensure, Delete, At,
                Object, budget, Fault
  <2>. QED
    BY <2>1, RoundPast, OrgRolesLeft
<1>3. CASE ReadShared
  <2>1. w.pc = "read" /\ ~w.failed /\ UNCHANGED <<ns, labelled, orgRoles, kept>>
    BY <1>3 DEF ReadShared, At, cluster, budget
  <2>2. Past' => w'.at = w.at /\ Past
    <3>1. CASE GoOn
      BY <2>1, <3>1, RoundPast
    <3>2. CASE w' = [w EXCEPT !.pc = "write", !.seen = shared, !.rv = rv]
      BY <1>0, <3>2 DEF Past, Worker
    <3>. QED
      BY <1>3, <3>1, <3>2 DEF ReadShared
  <2>. QED
    BY <2>1, <2>2, OrgRolesLeft
<1>4. CASE Release
  <2>1. /\ Past /\ w' = Idle /\ w.at \in Namespaces /\ ns' = [ns EXCEPT ![w.at] = "released"]
        /\ UNCHANGED <<labelled, orgRoles, kept>>
    BY <1>4 DEF Release, At, IInv, TypeOK, WorkerInv, RoundHolds, Past, budget, Worker
  <2>2. ~Past' /\ \A m \in labelled : Held(m) => Held(m)' \/ m = w.at
    BY <2>1, IdleTyped DEF Past, IInv, TypeOK
  <2>. QED
    BY <2>1, <2>2, OrgRolesLeft
<1>5. CASE GiveUp \/ Crash
  BY <1>5, IdleTyped, OrgRolesLeft DEF GiveUp, Crash, Fault, cluster, budget, Past
<1>6. CASE Retry
  <2>1. /\ w' = [w EXCEPT !.failed = FALSE, !.pc = Start(w.pc, w.at, w.del)]
        /\ UNCHANGED <<ns, labelled, orgRoles, kept>>
    BY <1>6 DEF Retry, cluster, budget
  <2>2. ~Past'
    BY <1>0, <2>1 DEF Past, Worker, Start
  <2>. QED
    BY <2>1, <2>2, OrgRolesLeft
<1>7. CASE CallFails
  <2>1. /\ w.pc # "idle" /\ ~w.failed /\ UNCHANGED <<ns, labelled, kept>>
        /\ IF w.pc = "release" THEN w' = Idle ELSE Fails
    BY <1>7 DEF CallFails, Fault
  <2>2. CASE w.pc = "release"
    <3>1. UNCHANGED orgRoles
      BY <1>7, <2>2 DEF CallFails, Object
    <3>. QED
      BY <2>1, <2>2, <3>1, IdleTyped, OrgRolesLeft DEF Past
  <2>3. CASE w.pc = "orgRole" /\ orgRoles' = OrgRoleWritten
    BY <1>0, <2>1, <2>3, FailsFacts, OrgRoleWrittenKeeps
  <2>4. CASE w.pc # "release" /\ UNCHANGED orgRoles
    BY <1>0, <2>1, <2>4, FailsFacts, OrgRolesLeft DEF Past
  <2>. QED
    BY <1>7, <2>2, <2>3, <2>4 DEF CallFails, Object
<1>8. ASSUME NEW n \in Namespaces, Begin(n)
      PROVE  OrgRolesHeld'
  <2>1. UNCHANGED <<ns, labelled, orgRoles, kept>>
    BY <1>8 DEF Begin, cluster, budget
  <2>2. Past' => w'.at \notin labelled
    BY <1>8, IdleTyped DEF Begin, Past, Worker, Start
  <2>. QED
    BY <2>1, <2>2, OrgRolesLeft
<1>9. ASSUME NEW n \in Namespaces,
             AddFinalizer(n) \/ NamespaceGoes(n) \/ ChangeNamespace(n)
      PROVE  OrgRolesHeld'
  <2>1. /\ UNCHANGED <<labelled, orgRoles, kept, w>>
        /\ \A m \in Namespaces : Held(m) => Held(m)'
    BY <1>9 DEF AddFinalizer, NamespaceGoes, ChangeNamespace, Edit, budget, IInv, TypeOK
  <2>2. labelled \subseteq Namespaces
    BY DEF IInv, TypeOK
  <2>. QED
    BY <2>1, <2>2, OrgRolesLeft DEF Past
<1>10. ASSUME NEW n \in Namespaces, Label(n) \/ Unlabel(n) \/ SpoilOrgRole(n)
       PROVE  OrgRolesHeld'
  <2>1. /\ UNCHANGED <<ns, w>> /\ orgRoles' \subseteq orgRoles /\ kept' \subseteq kept
        /\ labelled \cap kept' \subseteq labelled'
    BY <1>10 DEF Label, Unlabel, SpoilOrgRole, Edit
  <2>. QED
    BY <2>1, OrgRolesLeft DEF Past
<1>11. CASE SpoilRole \/ SpoilShared \/ UNCHANGED vars
            \/ \E n \in Namespaces : \E o \in Object : Spoil(n, o)
  <2>1. UNCHANGED <<ns, labelled, orgRoles, kept, w>>
    BY <1>11 DEF SpoilRole, SpoilShared, Spoil, Edit, vars
  <2>. QED
    BY <2>1, OrgRolesLeft DEF Past
<1>. QED
  BY <1>1, <1>2, <1>3, <1>4, <1>5, <1>6, <1>7, <1>8, <1>9, <1>10, <1>11
     DEF Next, Round, Environment, Reconcile

\* A namespace that never lost its label is let go only when the bindings of
\* its account and its place in the shared binding are gone, and the last of a
\* name when the ClusterRole of that name is (automation/delete.go,
\* namespaceauth/delete.go).
THEOREM Cleans == Spec => []DeletionCleans
<1>1. Init => OrgRolesHeld
  BY DEF Init, OrgRolesHeld
<1>2. IInv /\ OrgRolesHeld /\ [Next]_vars => OrgRolesHeld'
  BY OrgRolesKept
<1>3. IInv /\ OrgRolesHeld => DeletionCleans
  BY DEF IInv, ObjectInv, OrgRolesHeld, OrgRolesCleaned, DeletionCleans
<1>. QED
  BY <1>1, <1>2, <1>3, Inductive, PTL DEF Spec

-----------------------------------------------------------------------------
(* The shared binding implements SharedAccounts. *)

Members == AccountsOf(shared) \cap kept
HeldSet == {n \in kept : Held(n)}
Others == shared # NoBinding /\ shared.foreign

LEMMA InitMaps == Init => Promise!Init
  BY DEF Init, Promise!Init, AccountsOf, Held

\* Steps that leave the binding, the namespaces and their labels alone.
LEMMA Stutters ==
  ASSUME UNCHANGED <<ns, shared, kept>>
  PROVE  UNCHANGED Promise!vars
  BY DEF Promise!vars, AccountsOf, Held

\* A write adds or removes the account of the worker's namespace, which the
\* operator holds.
LEMMA StoreMaps ==
  ASSUME IInv, w.pc = "write", Store, UNCHANGED <<ns, kept>>
  PROVE  [Promise!Next]_(Promise!vars)
<1>. USE DEF IInv
<1>1. CASE ~WriteAccepted
  BY <1>1, Stutters DEF Store
<1>2. CASE WriteAccepted
  <2>1. /\ AccountsOf(shared') = IF w.del /\ shared # NoBinding
                                   THEN AccountsOf(shared) \ {w.at}
                                   ELSE AccountsOf(shared) \cup {w.at}
        /\ shared' # NoBinding
        /\ shared'.foreign = (shared # NoBinding /\ shared.foreign)
    BY <1>2, StoreFacts DEF WorkerInv
  <2>2. Others' = Others /\ HeldSet' = HeldSet
    BY <2>1 DEF Others, HeldSet, Held
  <2>3. w.at \in Namespaces /\ ns[w.at] \in {"live", "deleting"}
    BY DEF TypeOK, Worker, WorkerInv, RoundHolds
  <2>4. CASE w.at \notin kept
    <3>1. Members' = Members
      BY <2>1, <2>4 DEF Members
    <3>. QED
      BY <2>2, <3>1 DEF Promise!vars, Members, HeldSet, Held, Others
  <2>5. CASE w.at \in kept /\ w.del /\ shared # NoBinding
    <3>1. Members' = Members \ {w.at}
      BY <2>1, <2>5 DEF Members
    <3>. QED
      BY <2>2, <2>3, <3>1
      DEF Promise!Next, Promise!Remove, Members, HeldSet, Held, Others
  <2>6. CASE w.at \in kept /\ ~(w.del /\ shared # NoBinding)
    <3>1. Members' = Members \cup {w.at}
      BY <2>1, <2>6 DEF Members
    <3>2. w.at \in HeldSet
      BY <2>3, <2>6 DEF HeldSet, Held
    <3>. QED
      BY <2>2, <2>3, <3>1, <3>2
      DEF Promise!Next, Promise!Add, Members, HeldSet, Held, Others
  <2>. QED
    BY <2>4, <2>5, <2>6
<1>. QED
  BY <1>1, <1>2

\* What a namespace's lifecycle does is a Take, a LetGo or nothing.
LEMMA LifecycleMaps ==
  ASSUME IInv, NEW n \in Namespaces, UNCHANGED <<shared, kept>>, NEW p \in Phase,
         ns' = [ns EXCEPT ![n] = p],
         n \in kept /\ p \notin {"live", "deleting"} => n \notin AccountsOf(shared)
  PROVE  [Promise!Next]_(Promise!vars)
<1>. USE DEF IInv, TypeOK
<1>1. Members' = Members /\ Others' = Others
  BY DEF Members, Others, AccountsOf
<1>2. CASE n \notin kept
  <2>1. HeldSet' = HeldSet
    BY <1>2 DEF HeldSet, Held
  <2>. QED
    BY <1>1, <2>1 DEF Promise!vars, Members, HeldSet, Held, Others
<1>3. CASE n \in kept /\ p \in {"live", "deleting"}
  <2>1. HeldSet' = HeldSet \cup {n}
    BY <1>3 DEF HeldSet, Held
  <2>. QED
    BY <1>1, <2>1 DEF Promise!Next, Promise!Take, Members, HeldSet, Held, Others
<1>4. CASE n \in kept /\ p \notin {"live", "deleting"}
  <2>1. HeldSet' = HeldSet \ {n}
    BY <1>4 DEF HeldSet, Held
  <2>2. n \notin Members
    BY <1>4 DEF Members
  <2>. QED
    BY <1>1, <2>1, <2>2 DEF Promise!Next, Promise!LetGo, Members, HeldSet, Held, Others
<1>. QED
  BY <1>2, <1>3, <1>4

LEMMA RoundMaps ==
  ASSUME IInv, Round
  PROVE  [Promise!Next]_(Promise!vars)
<1>1. CASE WriteShared
  BY <1>1, StoreMaps DEF WriteShared, At, budget
<1>2. CASE Release
  <2>1. /\ w.at \in Namespaces /\ ns' = [ns EXCEPT ![w.at] = "released"]
        /\ UNCHANGED <<shared, kept>>
    BY <1>2 DEF Release, IInv, TypeOK, Worker, budget
  <2>2. w.at \in kept => w.at \notin AccountsOf(shared)
    BY <1>2 DEF Release, At, IInv, WorkerInv, RoundHolds, RemovedSoFar
  <2>. QED
    BY <2>1, <2>2, LifecycleMaps DEF Phase
<1>3. CASE ~WriteShared /\ ~Release
  BY <1>3, Stutters
     DEF Round, WriteOrgRole, EnsurePatchChartsRole, ReadShared, Retry, GiveUp,
         Ensure, Delete, cluster,
         budget
<1>. QED
  BY <1>1, <1>2, <1>3

LEMMA FaultMaps ==
  ASSUME IInv, CallFails \/ AccountUnread \/ Crash
  PROVE  [Promise!Next]_(Promise!vars)
<1>1. UNCHANGED <<ns, kept>>
  BY DEF CallFails, AccountUnread, Crash, Fault
<1>2. CASE w.pc = "write" /\ Store
  BY <1>1, <1>2, StoreMaps
<1>3. CASE UNCHANGED shared
  BY <1>1, <1>3, Stutters
<1>. QED
  BY <1>2, <1>3 DEF CallFails, AccountUnread, Crash

LEMMA ClusterMaps ==
  ASSUME IInv, NEW n \in Namespaces,
         AddFinalizer(n) \/ NamespaceGoes(n) \/ ChangeNamespace(n)
  PROVE  [Promise!Next]_(Promise!vars)
<1>1. UNCHANGED <<shared, kept>>
  BY DEF AddFinalizer, NamespaceGoes, ChangeNamespace, budget
<1>2. n \in kept /\ ns[n] \notin {"live", "deleting"} => n \notin AccountsOf(shared)
  BY DEF IInv, ObjectInv, NamespacesCleaned, Held, Clean
<1>3. CASE AddFinalizer(n)
  BY <1>1, <1>3, LifecycleMaps DEF AddFinalizer, Phase
<1>4. CASE NamespaceGoes(n)
  <2>1. ns' = [ns EXCEPT ![n] = IF ns[n] = "released" THEN "absent" ELSE ns[n]]
    BY <1>4 DEF NamespaceGoes
  <2>2. (IF ns[n] = "released" THEN "absent" ELSE ns[n]) \in Phase
    BY DEF Phase, IInv, TypeOK
  <2>. QED
    BY <1>1, <1>2, <2>1, <2>2, LifecycleMaps
<1>5. CASE ChangeNamespace(n)
  BY <1>1, <1>2, <1>5, LifecycleMaps DEF ChangeNamespace, Phase
<1>. QED
  BY <1>3, <1>4, <1>5

LEMMA UserMaps ==
  ASSUME IInv,
         \/ SpoilRole \/ SpoilShared
         \/ \E n \in Namespaces : Label(n) \/ Unlabel(n) \/ SpoilOrgRole(n)
                                \/ \E o \in Object : Spoil(n, o)
  PROVE  [Promise!Next]_(Promise!vars)
<1>1. CASE SpoilRole \/ \E n \in Namespaces : Label(n) \/ SpoilOrgRole(n)
                                           \/ \E o \in Object : Spoil(n, o)
  BY <1>1, Stutters DEF SpoilRole, SpoilOrgRole, Label, Spoil
<1>2. ASSUME NEW n \in Namespaces, Unlabel(n)
      PROVE  [Promise!Next]_(Promise!vars)
  <2>1. UNCHANGED <<ns, shared>> /\ kept' = kept \ {n}
    BY <1>2 DEF Unlabel
  <2>2. Members' = Members \ {n} /\ HeldSet' = HeldSet \ {n} /\ Others' = Others
    BY <2>1 DEF Members, HeldSet, Held, Others, AccountsOf
  <2>. QED
    BY <2>2 DEF Promise!Next, Promise!Disown, Members, HeldSet, Held, Others
<1>3. CASE SpoilShared
  <2>1. UNCHANGED <<ns, kept>>
    BY <1>3 DEF SpoilShared
  <2>2. HeldSet' = HeldSet
    BY <2>1 DEF HeldSet, Held
  <2>3. CASE shared' = NoBinding
    <3>1. Members' = {} /\ Others' = FALSE
      BY <2>3 DEF Members, Others, AccountsOf
    <3>. QED
      BY <2>2, <3>1 DEF Promise!Next, Promise!Reset, Members, HeldSet, Held, Others
  <2>4. CASE /\ shared' # NoBinding /\ shared'.foreign \in BOOLEAN
             /\ AccountsOf(shared') = AccountsOf(shared)
    <3>1. Members' = Members
      BY <2>1, <2>4 DEF Members
    <3>2. Others' \in BOOLEAN
      BY <2>4 DEF Others
    <3>. QED
      BY <2>2, <3>1, <3>2
      DEF Promise!Next, Promise!EditOthers, Members, HeldSet, Held, Others
  <2>. QED
    BY <1>3, <2>3, <2>4, SpoilSharedFacts DEF IInv
<1>. QED
  BY <1>1, <1>2, <1>3

LEMMA StepMaps == IInv /\ [Next]_vars => [Promise!Next]_(Promise!vars)
<1>. SUFFICES ASSUME IInv, [Next]_vars PROVE [Promise!Next]_(Promise!vars)
  OBVIOUS
<1>1. CASE UNCHANGED vars
  BY <1>1, Stutters DEF vars
<1>2. CASE \E n \in Namespaces : Begin(n)
  BY <1>2, Stutters DEF Begin, cluster, budget
<1>. QED
  BY <1>1, <1>2, RoundMaps, FaultMaps, ClusterMaps, UserMaps
     DEF Next, Environment, Reconcile

\* The shared binding keeps its promise: one organization's account comes or
\* goes at a time, no write of the operator drops another one or what others
\* have put there, and no organization is let go with its account in it
\* (automation/create.go:183-230, automation/delete.go:89-115).
THEOREM Implements == Spec => ImplementsPromise
  BY InitMaps, StepMaps, Inductive, PTL DEF Spec, ImplementsPromise, Promise!Spec

\* Whoever reads the shared binding finds accounts in it only of organizations that
\* the operator still holds, however their rounds, retries and restarts interleave:
\* what SharedAccounts guarantees, the RoleBinding in the giantswarm namespace has.
THEOREM SharedBindingCurrent == Spec => []Promise!NoneLeftBehind
<1>1. Promise!Init => Promise!NoneLeftBehind
  BY DEF Promise!Init, Promise!NoneLeftBehind
<1>2. Promise!NoneLeftBehind /\ [Promise!Next]_(Promise!vars) => Promise!NoneLeftBehind'
  BY DEF Promise!NoneLeftBehind, Promise!Next, Promise!vars, Promise!Take, Promise!Add,
         Promise!Remove, Promise!LetGo, Promise!Disown, Promise!EditOthers, Promise!Reset
<1>. QED
  BY <1>1, <1>2, Implements, PTL DEF ImplementsPromise, Promise!Spec
=============================================================================
