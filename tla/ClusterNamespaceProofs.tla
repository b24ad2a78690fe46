------------------------ MODULE ClusterNamespaceProofs ------------------------
(***************************************************************************)
(* Theorems about ClusterNamespace, for any clusters, any number of edits  *)
(* and any number of failing calls and restarts.                           *)
(***************************************************************************)
EXTENDS ClusterNamespace, TLAPS

AnyContent == {"none", "ours", "changed", "rebound", "taken"}

-----------------------------------------------------------------------------
(* The steps of the worker. *)

\* A worker at rest has its type.
LEMMA IdleTyped == Idle \in Worker /\ Idle.pc = "idle" /\ ~Idle.failed /\ Idle.errs = {}
  BY ClusterAssumption DEF Idle, Worker, Step

\* The two handlers' steps, one by one.
LEMMA Tables ==
  /\ DOMAIN AppOperator =
       {"clusterRole", "clusterBinding", "catalogRole", "catalogBinding", "ownRole"}
  /\ AppOperator["clusterRole"] = "clusterBinding"
  /\ AppOperator["clusterBinding"] = "catalogRole"
  /\ AppOperator["catalogRole"] = "catalogBinding"
  /\ AppOperator["catalogBinding"] = "ownRole"
  /\ AppOperator["ownRole"] = "ownBinding"
  /\ DOMAIN Cleaner = {"oldBinding", "oldRole", "chartBinding"}
  /\ Cleaner["oldBinding"] = "oldRole" /\ Cleaner["oldRole"] = "chartBinding"
  /\ Cleaner["chartBinding"] = "chartRole"
  BY DEF AppOperator, Cleaner

\* Each step is followed by one that has just that step more behind it.
LEMMA AfterFacts ==
  ASSUME NEW pc \in Object \cup Legacy \cup {"access"}, NEW del \in BOOLEAN,
         pc \in Legacy => ~del
  PROVE  /\ After(pc, del) \in Object \cup Legacy \cup {"idle", "release"}
         /\ After(pc, del) = "idle" => pc = "chartRole"
         /\ After(pc, del) = "release" => del /\ pc = "ownBinding"
         /\ After(pc, del) \in Legacy => ~del
         /\ pc \in Legacy => After(pc, del) \in Legacy \cup {"idle"}
         /\ After(pc, del) # "idle" => Before(After(pc, del)) \subseteq Before(pc) \cup {pc}
<1>1. CASE pc = "access"
  <2>1. After(pc, del) = "clusterRole"
    BY <1>1, Tables DEF After
  <2>. QED
    BY <1>1, <2>1 DEF Before, Object, Legacy
<1>2. CASE pc \in DOMAIN AppOperator
  <2>1. After(pc, del) = AppOperator[pc] /\ pc # "ownBinding"
    BY <1>2, Tables DEF After
  <2>2. CASE pc = "clusterRole"
    BY <2>1, <2>2, Tables DEF Before, Object, Legacy
  <2>3. CASE pc = "clusterBinding"
    BY <2>1, <2>3, Tables DEF Before, Object, Legacy
  <2>4. CASE pc = "catalogRole"
    BY <2>1, <2>4, Tables DEF Before, Object, Legacy
  <2>5. CASE pc = "catalogBinding"
    BY <2>1, <2>5, Tables DEF Before, Object, Local, Legacy
  <2>6. CASE pc = "ownRole"
    BY <2>1, <2>6, Tables DEF Before, Object, Local, Legacy
  <2>. QED
    BY <1>2, <2>2, <2>3, <2>4, <2>5, <2>6, Tables
<1>3. CASE pc = "ownBinding"
  <2>1. After(pc, del) = IF del THEN "release" ELSE "oldBinding"
    BY <1>3, Tables DEF After
  <2>2. CASE del
    BY <1>3, <2>1, <2>2 DEF Before, Object, Legacy
  <2>3. CASE ~del
    BY <1>3, <2>1, <2>3 DEF Before, Object, Legacy
  <2>. QED
    BY <2>2, <2>3
<1>4. CASE pc \in DOMAIN Cleaner
  <2>1. After(pc, del) = Cleaner[pc]
    BY <1>4, Tables DEF After
  <2>2. After(pc, del) \in Legacy /\ Before(pc) = Object /\ Before(After(pc, del)) = Object
    BY <1>4, <2>1, Tables DEF Before, Legacy
  <2>3. pc \in Legacy
    BY <1>4, Tables DEF Legacy
  <2>. QED
    BY <2>2, <2>3 DEF Legacy
<1>5. CASE pc = "chartRole"
  <2>1. After(pc, del) = "idle"
    BY <1>5, Tables DEF After
  <2>. QED
    BY <1>5, <2>1 DEF Legacy
<1>. QED
  BY <1>1, <1>2, <1>3, <1>4, <1>5, Tables DEF Object, Legacy

\* The facts about the worker on which the other lemmas rest.
Working ==
  /\ w \in Worker /\ w.pc \in Object \cup Legacy \cup {"access"} /\ ~w.failed
  /\ w.pc \in Legacy => ~w.del

\* A handler is through, with errors; a round goes on to its next step.
Through(errs) ==
  /\ w'.at = w.at /\ w'.del = w.del /\ w'.errs = errs /\ w'.failed
  /\ w'.pc = w.pc /\ w.pc \in {"ownBinding", "chartRole"}

Onward(errs) ==
  /\ w'.at = w.at /\ w'.del = w.del /\ w'.errs = errs /\ ~w'.failed
  /\ w'.pc \in Object \cup Legacy \cup {"release"}
  /\ w'.pc = "release" => w.del /\ errs = {}
  /\ w'.pc \in Legacy => ~w.del
  /\ w.pc \in Legacy => w'.pc \in Legacy
  /\ Before(w'.pc) \subseteq Before(w.pc) \cup {w.pc}

\* Going on leads to the end of the round, to the next step, or to a failure
\* after the last step of a handler.
LEMMA GoOnFacts ==
  ASSUME Working, NEW errs \in SUBSET (Object \cup Legacy), GoOn(errs)
  PROVE  w' \in Worker /\ (w' = Idle \/ Through(errs) \/ Onward(errs))
<1>. DEFINE next == After(w.pc, w.del)
<1>1. /\ next \in Object \cup Legacy \cup {"idle", "release"}
      /\ next = "idle" => w.pc = "chartRole"
      /\ next = "release" => w.del /\ w.pc = "ownBinding"
      /\ next \in Legacy => ~w.del
      /\ w.pc \in Legacy => next \in Legacy \cup {"idle"}
      /\ next # "idle" => Before(next) \subseteq Before(w.pc) \cup {w.pc}
  BY AfterFacts DEF Working, Worker
<1>2. w' = IF next \in {"idle", "release"} /\ errs # {}
             THEN [w EXCEPT !.failed = TRUE, !.errs = errs]
           ELSE IF next = "idle" THEN Idle
           ELSE [w EXCEPT !.pc = next, !.errs = errs]
  BY DEF GoOn
<1>. HIDE DEF next
<1>3. CASE next \in {"idle", "release"} /\ errs # {}
  <2>1. w' = [w EXCEPT !.failed = TRUE, !.errs = errs]
    BY <1>2, <1>3
  <2>. QED
    BY <1>1, <1>3, <2>1 DEF Working, Worker, Through
<1>4. CASE next = "idle" /\ errs = {}
  <2>1. w' = Idle
    BY <1>2, <1>4
  <2>. QED
    BY <2>1, IdleTyped
<1>5. CASE next # "idle" /\ ~(next \in {"idle", "release"} /\ errs # {})
  <2>1. w' = [w EXCEPT !.pc = next, !.errs = errs]
    BY <1>2, <1>5
  <2>2. /\ w'.at = w.at /\ w'.del = w.del /\ w'.errs = errs /\ ~w'.failed /\ w'.pc = next
        /\ w' \in Worker
    BY <1>1, <2>1 DEF Working, Worker, Step
  <2>. QED
    BY <1>1, <1>5, <2>2 DEF Onward
<1>. QED
  BY <1>3, <1>4, <1>5

\* A failing step leaves the worker where it is.
LEMMA FailsFacts ==
  ASSUME w \in Worker, Fails
  PROVE  /\ w' \in Worker /\ w'.failed /\ w'.pc = w.pc
         /\ w'.at = w.at /\ w'.del = w.del /\ w'.errs = w.errs
  BY DEF Fails, Worker

\* The invariant's parts about the round hold of a worker at rest.
RoundInv == RoundHolds /\ GoneSoFar /\ EnsuredSoFar /\ DeletesAllItCan

LEMMA RestKept ==
  ASSUME w' = Idle
  PROVE  w' \in Worker /\ w'.errs = {} /\ RoundInv'
  BY IdleTyped DEF RoundInv, RoundHolds, GoneSoFar, EnsuredSoFar, DeletesAllItCan, Object, Legacy

\* Setting an object sets it and nothing else.
LEMMA SetFacts ==
  ASSUME TypeOK, NEW c \in Clusters, NEW o \in Object, NEW content \in AnyContent,
         Set(c, o, content)
  PROVE  /\ obj' \in [Clusters -> [Object -> AnyContent]]
         /\ obj'[c][o] = content
         /\ \A d \in Clusters \ {c} : obj'[d] = obj[d]
         /\ \A p \in Object \ {o} : obj'[c][p] = obj[c][p]
  BY DEF TypeOK, Set, AnyContent

\* The objects a round has been through are objects.
LEMMA BeforeObjects == \A pc : Before(pc) \subseteq Object
  BY DEF Before, Object, Local

-----------------------------------------------------------------------------
(* Each step keeps the invariant. *)

\* A round's step that goes on, with what it says about the object it is at.
LEMMA GoOnKeeps ==
  ASSUME IInv, Working, NEW errs \in SUBSET (Object \cup Legacy), GoOn(errs),
         w.errs \subseteq errs, errs \subseteq IF w.del THEN Object ELSE Legacy,
         errs # {} => w.pc \in IF w.del THEN Object ELSE Legacy,
         UNCHANGED <<ns, meddled>>,
         \A o \in Object \ {w.pc} : obj'[w.at][o] = obj[w.at][o],
         w.del /\ w.pc \in Object => obj'[w.at][w.pc] = "none" \/ w.pc \in errs,
         ~w.del /\ w.pc \in Object /\ w.at \notin meddled => obj'[w.at][w.pc] = "ours"
  PROVE  w' \in Worker /\ RoundInv' /\ w'.errs \subseteq IF w'.del THEN Object ELSE Legacy
<1>. USE DEF IInv
<1>1. CASE w' = Idle
  BY <1>1, RestKept
<1>2. ASSUME w.pc # "idle", w.del
      PROVE  \A o \in Before(w.pc) \cup ({w.pc} \cap Object) : obj'[w.at][o] = "none" \/ o \in errs
  BY <1>2, BeforeObjects DEF GoneSoFar
<1>3. ASSUME w.pc # "idle", ~w.del, ns[w.at] = "live", w.at \notin meddled
      PROVE  \A o \in Before(w.pc) \cup ({w.pc} \cap Object) : obj'[w.at][o] = "ours"
  BY <1>3, BeforeObjects DEF EnsuredSoFar
<1>4. w.pc # "idle"
  BY DEF Working, Object, Legacy
<1>5. CASE Through(errs)
  <2>1. w' \in Worker
    BY GoOnFacts
  <2>2. RoundHolds'
    BY <1>4, <1>5 DEF Through, RoundHolds, Object, Legacy
  <2>3. GoneSoFar'
    BY <1>2, <1>4, <1>5 DEF Through, GoneSoFar
  <2>4. EnsuredSoFar'
    BY <1>3, <1>4, <1>5 DEF Through, EnsuredSoFar
  <2>5. DeletesAllItCan'
    <3>1. w.del => w.pc = "ownBinding"
      BY <1>5 DEF Through, Working, Legacy
    <3>2. w.pc = "ownBinding" => Before(w.pc) \cup ({w.pc} \cap Object) = Object
      BY DEF Before, Object
    <3>. QED
      BY <1>2, <1>4, <1>5, <3>1, <3>2 DEF Through, DeletesAllItCan
  <2>. QED
    BY <1>5, <2>1, <2>2, <2>3, <2>4, <2>5 DEF Through, RoundInv
<1>6. CASE Onward(errs)
  <2>1. w' \in Worker
    BY GoOnFacts
  <2>2. RoundHolds'
    BY <1>4, <1>6 DEF Onward, RoundHolds, Object, Legacy
  <2>3. Before(w'.pc) \subseteq Before(w.pc) \cup ({w.pc} \cap Object)
    BY <1>6, BeforeObjects DEF Onward
  <2>4. GoneSoFar'
    BY <1>2, <1>4, <1>6, <2>3 DEF Onward, GoneSoFar
  <2>5. EnsuredSoFar'
    BY <1>3, <1>4, <1>6, <2>3 DEF Onward, EnsuredSoFar
  <2>6. DeletesAllItCan'
    BY <1>6 DEF Onward, DeletesAllItCan
  <2>. QED
    BY <1>6, <2>1, <2>2, <2>4, <2>5, <2>6 DEF Onward, RoundInv
<1>. QED
  BY <1>1, <1>5, <1>6, GoOnFacts

\* A creation that fails stays at its step.
LEMMA FailsKeeps ==
  ASSUME IInv, Working, Fails, w.pc = "access" \/ ~w.del,
         UNCHANGED <<ns, meddled>>,
         \A o \in Object \ {w.pc} : obj'[w.at][o] = obj[w.at][o]
  PROVE  w' \in Worker /\ RoundInv' /\ w'.errs \subseteq IF w'.del THEN Object ELSE Legacy
<1>. USE DEF IInv
<1>1. /\ w' \in Worker /\ w'.failed /\ w'.pc = w.pc
      /\ w'.at = w.at /\ w'.del = w.del /\ w'.errs = w.errs
  BY FailsFacts DEF TypeOK
<1>2. RoundHolds' /\ DeletesAllItCan'
  BY <1>1 DEF RoundHolds, DeletesAllItCan, Working, Object, Legacy
<1>3. \A o \in Before(w.pc) : o # w.pc
  BY DEF Before, Object, Local, Working, Legacy
<1>4. GoneSoFar' /\ EnsuredSoFar'
  BY <1>1, <1>3, BeforeObjects DEF GoneSoFar, EnsuredSoFar
<1>. QED
  BY <1>1, <1>2, <1>4 DEF TypeOK, RoundInv

\* What a step of the round on the objects of its namespace leaves true.
LEMMA ObjectsKept ==
  ASSUME IInv, w.pc # "idle", UNCHANGED <<ns, meddled>>,
         obj' \in [Clusters -> [Object -> AnyContent]],
         \A c \in Clusters \ {w.at} : obj'[c] = obj[c],
         w.at \notin meddled => \A o \in Object : obj'[w.at][o] \in {"none", "ours"}
  PROVE  Untouched' /\ NothingLeft'
<1>. USE DEF IInv
<1>1. Untouched'
  <2>. SUFFICES ASSUME NEW c \in Clusters \ meddled, NEW o \in Object
                PROVE  obj'[c][o] \in {"none", "ours"}
    BY DEF Untouched
  <2>1. CASE c = w.at
    BY <2>1
  <2>2. CASE c # w.at
    BY <2>2 DEF Untouched
  <2>. QED
    BY <2>1, <2>2
<1>2. NothingLeft'
  <2>. SUFFICES ASSUME NEW c \in Clusters, ns[c] \notin {"live", "deleting"},
                       NEW o \in Object \ Local
                PROVE  obj'[c][o] = "none"
    BY DEF NothingLeft
  <2>1. c # w.at
    BY DEF RoundHolds
  <2>. QED
    BY <2>1 DEF NothingLeft
<1>. QED
  BY <1>1, <1>2

LEMMA EnsureKeeps ==
  ASSUME IInv, NEW o \in Object, Ensure(o)
  PROVE  IInv'
<1>. USE DEF IInv
<1>1. /\ Working /\ w.at \in Clusters /\ w.pc = o /\ ~w.del /\ o # "access"
      /\ UNCHANGED <<ns, known, legacy, meddled, edits, faults>>
  BY DEF Ensure, At, Working, TypeOK, Worker, RoundHolds, Object, Legacy
<1>2. w.errs \subseteq Legacy
  BY <1>1 DEF TypeOK
<1>3. CASE Set(w.at, o, Ensured(w.at, o)) /\ GoOn({})
  <2>1. Ensured(w.at, o) \in AnyContent
    BY DEF Ensured, AnyContent
  <2>2. /\ obj' \in [Clusters -> [Object -> AnyContent]]
        /\ obj'[w.at][o] = Ensured(w.at, o)
        /\ \A d \in Clusters \ {w.at} : obj'[d] = obj[d]
        /\ \A p \in Object \ {o} : obj'[w.at][p] = obj[w.at][p]
    BY <1>1, <1>3, <2>1, SetFacts
  <2>3. w.at \notin meddled => Ensured(w.at, o) = "ours"
    BY <1>1 DEF Untouched, Ensured
  <2>4. w.errs = {}
    BY <1>1 DEF RoundHolds, Object, Legacy
  <2>5. w' \in Worker /\ RoundInv' /\ w'.errs \subseteq IF w'.del THEN Object ELSE Legacy
    BY <1>1, <1>3, <2>2, <2>3, <2>4, GoOnKeeps
  <2>6. Untouched' /\ NothingLeft'
    BY <1>1, <2>2, <2>3, ObjectsKept DEF Untouched, Working, Object, Legacy
  <2>7. TypeOK'
    BY <1>1, <2>2, <2>5 DEF TypeOK, AnyContent
  <2>. QED
    BY <2>5, <2>6, <2>7 DEF RoundInv
<1>4. CASE Fails /\ UNCHANGED obj
  <2>1. w' \in Worker /\ RoundInv' /\ w'.errs \subseteq IF w'.del THEN Object ELSE Legacy
    BY <1>1, <1>4, FailsKeeps
  <2>2. Untouched' /\ NothingLeft'
    BY <1>1, <1>4 DEF Untouched, NothingLeft
  <2>3. TypeOK'
    BY <1>1, <1>4, <2>1 DEF TypeOK
  <2>. QED
    BY <2>1, <2>2, <2>3 DEF RoundInv
<1>. QED
  BY <1>1, <1>3, <1>4 DEF Ensure

LEMMA DeleteKeeps ==
  ASSUME IInv, NEW o \in Object, Delete(o)
  PROVE  IInv'
<1>. USE DEF IInv
<1>1. /\ Working /\ w.at \in Clusters /\ w.pc = o /\ w.del
      /\ UNCHANGED <<ns, known, legacy, meddled, edits, faults>>
      /\ Set(w.at, o, "none") /\ GoOn(w.errs)
  BY DEF Delete, At, Working, TypeOK, Worker, RoundHolds
<1>2. w.errs \in SUBSET (Object \cup Legacy) /\ w.errs \subseteq Object /\ o # "access"
  BY <1>1 DEF TypeOK, Object
<1>3. /\ obj' \in [Clusters -> [Object -> AnyContent]]
      /\ obj'[w.at][o] = "none"
      /\ \A d \in Clusters \ {w.at} : obj'[d] = obj[d]
      /\ \A p \in Object \ {o} : obj'[w.at][p] = obj[w.at][p]
  BY <1>1, SetFacts DEF AnyContent
<1>4. w' \in Worker /\ RoundInv' /\ w'.errs \subseteq IF w'.del THEN Object ELSE Legacy
  BY <1>1, <1>2, <1>3, GoOnKeeps
<1>5. Untouched' /\ NothingLeft'
  BY <1>1, <1>3, ObjectsKept DEF Untouched, Working, Object, Legacy
<1>6. TypeOK'
  BY <1>1, <1>3, <1>4 DEF TypeOK, AnyContent
<1>. QED
  BY <1>4, <1>5, <1>6 DEF RoundInv

LEMMA AccessKeeps ==
  ASSUME IInv, EnsureAccess
  PROVE  IInv'
<1>. USE DEF IInv
<1>1. /\ Working /\ w.at \in Clusters /\ w.pc = "access"
      /\ UNCHANGED <<ns, known, obj, legacy, meddled, edits, faults>>
      /\ GoOn({}) \/ Fails
  BY DEF EnsureAccess, At, Working, TypeOK, Worker, RoundHolds, Legacy
<1>2. w.errs = {} /\ w.pc \notin Object
  BY <1>1 DEF RoundHolds, Object, Legacy
<1>3. w' \in Worker /\ RoundInv' /\ w'.errs \subseteq IF w'.del THEN Object ELSE Legacy
  <2>1. CASE GoOn({})
    BY <1>1, <1>2, <2>1, GoOnKeeps
  <2>2. CASE Fails
    BY <1>1, <2>2, FailsKeeps
  <2>. QED
    BY <1>1, <2>1, <2>2
<1>4. Untouched' /\ NothingLeft'
  BY <1>1 DEF Untouched, NothingLeft
<1>5. TypeOK'
  BY <1>1, <1>3 DEF TypeOK
<1>. QED
  BY <1>3, <1>4, <1>5 DEF RoundInv

LEMMA CleanKeeps ==
  ASSUME IInv, NEW l \in Legacy, Clean(l)
  PROVE  IInv'
<1>. USE DEF IInv
<1>1. /\ Working /\ w.at \in Clusters /\ w.pc = l /\ ~w.del
      /\ UNCHANGED <<ns, known, obj, meddled, edits, faults>>
      /\ GoOn(w.errs) /\ legacy' = [legacy EXCEPT ![w.at] = @ \ {l}]
  BY DEF Clean, At, Working, TypeOK, Worker, RoundHolds
<1>2. w.errs \in SUBSET (Object \cup Legacy) /\ w.errs \subseteq Legacy /\ l \notin Object
  BY <1>1 DEF TypeOK, Object, Legacy
<1>3. w' \in Worker /\ RoundInv' /\ w'.errs \subseteq IF w'.del THEN Object ELSE Legacy
  BY <1>1, <1>2, GoOnKeeps
<1>4. Untouched' /\ NothingLeft'
  BY <1>1 DEF Untouched, NothingLeft
<1>5. TypeOK'
  BY <1>1, <1>3 DEF TypeOK
<1>. QED
  BY <1>3, <1>4, <1>5 DEF RoundInv

\* Steps that bring the worker to rest.
LEMMA RestKeeps ==
  ASSUME IInv, w' = Idle, UNCHANGED <<ns, known, obj, legacy, meddled>>,
         edits' \in Nat, faults' \in Nat
  PROVE  IInv'
<1>. USE DEF IInv
<1>1. w' \in Worker /\ w'.errs = {} /\ RoundInv'
  BY RestKept
<1>2. TypeOK'
  BY <1>1 DEF TypeOK
<1>3. Untouched' /\ NothingLeft'
  BY DEF Untouched, NothingLeft
<1>. QED
  BY <1>1, <1>2, <1>3 DEF RoundInv

LEMMA GiveUpKeeps == ASSUME IInv, GiveUp PROVE IInv'
  BY RestKeeps DEF GiveUp, IInv, TypeOK

LEMMA CrashKeeps == ASSUME IInv, Crash PROVE IInv'
  BY RestKeeps DEF Crash, Fault, IInv, TypeOK

\* The finalizer is dropped after a handler that had no errors.
LEMMA ReleaseKeeps ==
  ASSUME IInv, Release
  PROVE  IInv'
<1>. USE DEF IInv
<1>1. /\ w.at \in Clusters /\ w.pc = "release" /\ w' = Idle
      /\ UNCHANGED <<known, obj, legacy, meddled, edits, faults>>
      /\ ns' = [ns EXCEPT ![w.at] = "released"]
  BY DEF Release, At, TypeOK, Worker
<1>2. w' \in Worker /\ w'.errs = {} /\ RoundInv'
  BY <1>1, RestKept
<1>3. TypeOK'
  BY <1>1, <1>2 DEF TypeOK, Phase
<1>4. Untouched'
  BY <1>1 DEF Untouched
<1>5. w.del /\ w.errs = {} /\ Before(w.pc) = Object
  BY <1>1 DEF RoundHolds, Before, Object, Legacy
<1>6. \A o \in Object : obj[w.at][o] = "none"
  BY <1>1, <1>5 DEF GoneSoFar
<1>7. NothingLeft'
  BY <1>1, <1>6 DEF NothingLeft, TypeOK
<1>. QED
  BY <1>2, <1>3, <1>4, <1>7 DEF RoundInv

LEMMA RetryKeeps ==
  ASSUME IInv, Retry
  PROVE  IInv'
<1>. USE DEF IInv
<1>1. /\ w \in Worker /\ w.failed /\ w.pc \notin {"idle", "release"}
      /\ UNCHANGED <<ns, known, obj, legacy, meddled, edits, faults>>
      /\ w' = [w EXCEPT !.failed = FALSE, !.pc = Start(w.pc), !.errs = {}]
  BY DEF Retry, TypeOK, RoundHolds
<1>2. /\ ~w'.failed /\ w'.pc = Start(w.pc) /\ w'.errs = {}
      /\ w'.at = w.at /\ w'.del = w.del
  BY <1>1 DEF Worker
<1>3. /\ w'.pc \in {"access", "clusterRole", "oldBinding"}
      /\ w'.pc = "oldBinding" => w.pc \in Legacy
  BY <1>2 DEF Start
<1>4. w' \in Worker
  BY <1>1, <1>2, <1>3 DEF Worker, Step, Object, Legacy
<1>5. RoundHolds' /\ DeletesAllItCan'
  BY <1>1, <1>2, <1>3 DEF RoundHolds, DeletesAllItCan, Legacy
<1>6. CASE w'.pc \in {"access", "clusterRole"}
  <2>1. Before(w'.pc) = {}
    BY <1>6 DEF Before
  <2>. QED
    BY <1>1, <1>2, <1>4, <1>5, <2>1
       DEF GoneSoFar, EnsuredSoFar, TypeOK, Untouched, NothingLeft
<1>7. CASE w'.pc = "oldBinding"
  <2>1. w.pc \in Legacy /\ ~w.del
    BY <1>3, <1>7 DEF RoundHolds
  <2>2. Before(w.pc) = Object /\ Before(w'.pc) = Object
    BY <1>7, <2>1 DEF Before, Object, Legacy
  <2>3. GoneSoFar' /\ EnsuredSoFar'
    BY <1>1, <1>2, <2>1, <2>2 DEF GoneSoFar, EnsuredSoFar
  <2>. QED
    BY <1>1, <1>2, <1>4, <1>5, <2>3 DEF TypeOK, Untouched, NothingLeft
<1>. QED
  BY <1>3, <1>6, <1>7

LEMMA BeginKeeps ==
  ASSUME IInv, NEW c \in Clusters, Begin(c)
  PROVE  IInv'
<1>. USE DEF IInv
<1>1. /\ UNCHANGED <<ns, known, obj, legacy, meddled, edits, faults>>
      /\ ns[c] \in {"live", "deleting"}
      /\ w' = [Idle EXCEPT !.pc = "access", !.at = c, !.del = ns[c] = "deleting"]
  BY DEF Begin
<1>2. /\ w'.pc = "access" /\ w'.at = c /\ w'.errs = {} /\ ~w'.failed
      /\ w'.del = (ns[c] = "deleting")
  BY <1>1 DEF Idle
<1>3. w' \in Worker
  BY <1>1, IdleTyped DEF Worker, Step
<1>4. Before(w'.pc) = {} /\ w'.pc \notin Legacy /\ w'.pc \notin Object
  BY <1>2 DEF Before, Object, Legacy
<1>5. RoundHolds'
  BY <1>1, <1>2, <1>4 DEF RoundHolds
<1>6. GoneSoFar' /\ EnsuredSoFar' /\ DeletesAllItCan'
  BY <1>2, <1>4 DEF GoneSoFar, EnsuredSoFar, DeletesAllItCan
<1>7. TypeOK' /\ Untouched' /\ NothingLeft'
  BY <1>1, <1>2, <1>3 DEF TypeOK, Untouched, NothingLeft
<1>. QED
  BY <1>5, <1>6, <1>7

\* Steps that leave the worker, the permissions and the rounds alone.
LEMMA LifecycleKeeps ==
  ASSUME IInv, NEW c \in Clusters, NEW phase \in Phase, ns' = [ns EXCEPT ![c] = phase],
         <<ns[c], phase>> \in {<<"absent", "new">>, <<"new", "live">>,
                               <<"new", "released">>, <<"live", "deleting">>},
         UNCHANGED <<known, obj, legacy, meddled, w>>, edits' \in Nat, faults' \in Nat
  PROVE  IInv'
<1>. USE DEF IInv
<1>1. /\ ns' \in [Clusters -> Phase]
      /\ \A d \in Clusters : ns'[d] = ns[d] \/ (d = c /\ ns'[d] = phase)
  BY DEF TypeOK
<1>2. TypeOK' /\ Untouched'
  BY <1>1 DEF TypeOK, Untouched
<1>3. w.pc # "idle" => w.at \in Clusters
  BY DEF TypeOK, Worker
<1>4. RoundHolds' /\ EnsuredSoFar'
  BY <1>1, <1>3 DEF RoundHolds, EnsuredSoFar
<1>5. GoneSoFar' /\ DeletesAllItCan' /\ NothingLeft'
  BY <1>1 DEF GoneSoFar, DeletesAllItCan, NothingLeft
<1>. QED
  BY <1>2, <1>4, <1>5

LEMMA AddFinalizerKeeps == ASSUME IInv, NEW c \in Clusters, AddFinalizer(c) PROVE IInv'
<1>1. edits \in Nat /\ faults \in Nat /\ "live" \in Phase
  BY DEF IInv, TypeOK, Phase
<1>. QED
  BY <1>1, LifecycleKeeps DEF AddFinalizer

LEMMA ChangeNamespaceKeeps ==
  ASSUME IInv, NEW c \in Clusters, ChangeNamespace(c)
  PROVE  IInv'
<1>1. /\ edits' \in Nat /\ faults' \in Nat
      /\ {"new", "released", "deleting"} \subseteq Phase
  BY DEF ChangeNamespace, Edit, IInv, TypeOK, Phase
<1>2. UNCHANGED <<known, obj, legacy, meddled, w>>
  BY DEF ChangeNamespace, Edit
<1>3. CASE ns[c] = "absent" /\ ns' = [ns EXCEPT ![c] = "new"]
  BY <1>1, <1>2, <1>3, LifecycleKeeps
<1>4. CASE ns[c] = "new" /\ ns' = [ns EXCEPT ![c] = "released"]
  BY <1>1, <1>2, <1>4, LifecycleKeeps
<1>5. CASE ns[c] = "live" /\ ns' = [ns EXCEPT ![c] = "deleting"]
  BY <1>1, <1>2, <1>5, LifecycleKeeps
<1>. QED
  BY <1>3, <1>4, <1>5 DEF ChangeNamespace

\* Organizations and legacy releases touch nothing the invariant is about.
LEMMA ElsewhereKeeps ==
  ASSUME IInv, UNCHANGED <<ns, obj, meddled, w>>, known' \subseteq Clusters,
         legacy' \in [Clusters -> SUBSET Legacy], edits' \in Nat, faults' \in Nat
  PROVE  IInv'
<1>. USE DEF IInv
<1>1. TypeOK'
  BY DEF TypeOK
<1>2. Untouched' /\ NothingLeft' /\ RoundHolds'
  BY DEF Untouched, NothingLeft, RoundHolds
<1>3. GoneSoFar' /\ EnsuredSoFar' /\ DeletesAllItCan'
  BY DEF GoneSoFar, EnsuredSoFar, DeletesAllItCan
<1>. QED
  BY <1>1, <1>2, <1>3

LEMMA ChangeOrganizationKeeps ==
  ASSUME IInv, NEW c \in Clusters, ChangeOrganization(c)
  PROVE  IInv'
<1>1. known' \subseteq Clusters /\ edits' \in Nat /\ faults' \in Nat
  BY DEF ChangeOrganization, Edit, IInv, TypeOK
<1>2. legacy' \in [Clusters -> SUBSET Legacy]
  BY DEF ChangeOrganization, IInv, TypeOK
<1>. QED
  BY <1>1, <1>2, ElsewhereKeeps DEF ChangeOrganization, Edit

LEMMA DeployLegacyKeeps ==
  ASSUME IInv, NEW c \in Clusters, DeployLegacy(c)
  PROVE  IInv'
<1>1. known' \subseteq Clusters /\ edits' \in Nat /\ faults' \in Nat
  BY DEF DeployLegacy, Edit, IInv, TypeOK
<1>2. legacy' \in [Clusters -> SUBSET Legacy]
  BY DEF DeployLegacy, IInv, TypeOK
<1>. QED
  BY <1>1, <1>2, ElsewhereKeeps DEF DeployLegacy, Edit

\* Users cannot bring back what is gone.
LEMMA SpoilKeeps ==
  ASSUME IInv, NEW c \in Clusters, NEW o \in Object, Spoil(c, o)
  PROVE  IInv'
<1>. USE DEF IInv
<1>1. /\ obj[c][o] # "none" /\ meddled' = meddled \cup {c}
      /\ UNCHANGED <<ns, known, legacy, w, faults>> /\ edits' \in Nat
  BY DEF Spoil, Edit, TypeOK
<1>2. PICK content \in Content(o) \ {"ours"} : Set(c, o, content)
  BY DEF Spoil
<1>3. content \in AnyContent
  BY <1>2 DEF Content, AnyContent
<1>4. /\ obj' \in [Clusters -> [Object -> AnyContent]]
      /\ \A d \in Clusters \ {c} : obj'[d] = obj[d]
      /\ \A p \in Object \ {o} : obj'[c][p] = obj[c][p]
  BY <1>2, <1>3, SetFacts
<1>5. \A d \in Clusters, p \in Object : obj[d][p] = "none" => obj'[d][p] = "none"
  BY <1>1, <1>4
<1>6. TypeOK'
  BY <1>1, <1>4 DEF TypeOK, AnyContent
<1>7. w.pc # "idle" => w.at \in Clusters /\ Before(w.pc) \subseteq Object
  BY BeforeObjects DEF TypeOK, Worker
<1>8. RoundHolds' /\ Untouched'
  BY <1>1, <1>4 DEF RoundHolds, Untouched
<1>9. NothingLeft'
  BY <1>1, <1>5 DEF NothingLeft
<1>10. GoneSoFar'
  BY <1>1, <1>5, <1>7 DEF GoneSoFar
<1>11. EnsuredSoFar'
  <2>. SUFFICES ASSUME w.pc # "idle", ~w.del, ns[w.at] = "live", w.at \notin meddled,
                       w.at # c, NEW p \in Before(w.pc)
                PROVE  obj'[w.at][p] = "ours"
    BY <1>1 DEF EnsuredSoFar
  <2>. QED
    BY <1>4, <1>7 DEF EnsuredSoFar
<1>12. DeletesAllItCan'
  <2>1. w.at \in Clusters
    BY DEF TypeOK, Worker
  <2>. QED
    BY <1>1, <1>5, <2>1 DEF DeletesAllItCan
<1>. QED
  BY <1>6, <1>8, <1>9, <1>10, <1>11, <1>12

LEMMA NamespaceGoesKeeps ==
  ASSUME IInv, NEW c \in Clusters, NamespaceGoes(c)
  PROVE  IInv'
<1>. USE DEF IInv
<1>1. /\ ns[c] \in Terminating /\ UNCHANGED <<known, legacy, w, meddled, edits, faults>>
      /\ obj' = [obj EXCEPT ![c] = [o \in Object |-> IF o \in Local THEN "none" ELSE obj[c][o]]]
      /\ ns' = [ns EXCEPT ![c] = IF ns[c] = "released" THEN "absent" ELSE ns[c]]
  BY DEF NamespaceGoes
<1>2. /\ ns' \in [Clusters -> Phase]
      /\ ns'[c] = ns[c] \/ (ns[c] = "released" /\ ns'[c] = "absent")
      /\ \A d \in Clusters \ {c} : ns'[d] = ns[d]
  BY <1>1 DEF TypeOK, Phase
<1>3. /\ obj' \in [Clusters -> [Object -> AnyContent]]
      /\ \A d \in Clusters \ {c} : obj'[d] = obj[d]
      /\ \A o \in Object : obj'[c][o] = obj[c][o] \/ obj'[c][o] = "none"
  BY <1>1 DEF TypeOK, AnyContent
<1>4. w.pc # "idle" => w.at \in Clusters /\ ns'[w.at] = ns[w.at] /\ Before(w.pc) \subseteq Object
  BY <1>2, BeforeObjects DEF RoundHolds, TypeOK, Worker
<1>5. \A d \in Clusters, p \in Object : obj[d][p] = "none" => obj'[d][p] = "none"
  BY <1>3
<1>6. TypeOK'
  BY <1>1, <1>2, <1>3 DEF TypeOK, AnyContent
<1>7. RoundHolds'
  BY <1>1, <1>4 DEF RoundHolds
<1>8. Untouched'
  BY <1>1, <1>3 DEF Untouched
<1>9. NothingLeft'
  BY <1>2, <1>5 DEF NothingLeft
<1>10. GoneSoFar'
  BY <1>1, <1>4, <1>5 DEF GoneSoFar
<1>11. EnsuredSoFar'
  <2>. SUFFICES ASSUME w.pc # "idle", ~w.del, ns[w.at] = "live", w.at \notin meddled,
                       NEW p \in Before(w.pc)
                PROVE  obj'[w.at][p] = "ours"
    BY <1>1, <1>4 DEF EnsuredSoFar
  <2>1. w.at # c
    BY <1>1 DEF Terminating
  <2>. QED
    BY <1>3, <1>4, <2>1 DEF EnsuredSoFar
<1>12. DeletesAllItCan'
  <2>1. w.at \in Clusters
    BY DEF TypeOK, Worker
  <2>. QED
    BY <1>1, <1>5, <2>1 DEF DeletesAllItCan
<1>. QED
  BY <1>6, <1>7, <1>8, <1>9, <1>10, <1>11, <1>12

\* A failing call: its write has happened or not, the handler goes on or fails.
LEMMA CallFailsKeeps ==
  ASSUME IInv, CallFails
  PROVE  IInv'
<1>. USE DEF IInv
<1>1. /\ w.pc # "idle" /\ ~w.failed /\ w.at \in Clusters /\ w \in Worker
      /\ UNCHANGED <<ns, known, meddled, edits>> /\ edits \in Nat /\ faults' \in Nat
  BY DEF CallFails, Fault, TypeOK, Worker
<1>2. CASE w.pc \in Object
  <2>. DEFINE content == IF w.del THEN "none" ELSE Ensured(w.at, w.pc)
  <2>1. /\ Working /\ w.pc \notin Legacy /\ w.pc # "access" /\ legacy' = legacy
        /\ obj' = obj \/ Set(w.at, w.pc, content)
    BY <1>1, <1>2 DEF CallFails, Working, Object, Legacy
  <2>2. content \in AnyContent
    BY DEF Ensured, AnyContent
  <2>3. w.at \notin meddled => content \in {"none", "ours"}
    BY <1>1, <1>2 DEF Untouched, Ensured
  <2>. HIDE DEF content
  <2>4. /\ obj' \in [Clusters -> [Object -> AnyContent]]
        /\ obj'[w.at][w.pc] \in {obj[w.at][w.pc], content}
        /\ \A d \in Clusters \ {w.at} : obj'[d] = obj[d]
        /\ \A p \in Object \ {w.pc} : obj'[w.at][p] = obj[w.at][p]
    <3>1. CASE obj' = obj
      BY <3>1 DEF TypeOK, AnyContent
    <3>2. CASE Set(w.at, w.pc, content)
      BY <1>1, <1>2, <2>2, <3>2, SetFacts
    <3>. QED
      BY <2>1, <3>1, <3>2
  <2>5. w' \in Worker /\ RoundInv' /\ w'.errs \subseteq IF w'.del THEN Object ELSE Legacy
    <3>1. CASE w.del
      <4>1. GoOn(w.errs \cup {w.pc}) /\ w.errs \subseteq Object
        BY <1>2, <2>1, <3>1 DEF CallFails, TypeOK, Object
      <4>. QED
        BY <1>1, <1>2, <2>1, <2>4, <3>1, <4>1, GoOnKeeps
    <3>2. CASE ~w.del
      <4>1. Fails
        BY <1>2, <2>1, <3>2 DEF CallFails, Object
      <4>. QED
        BY <1>1, <2>1, <2>4, <3>2, <4>1, FailsKeeps
    <3>. QED
      BY <3>1, <3>2
  <2>6. Untouched' /\ NothingLeft'
    <3>1. w.at \notin meddled => \A p \in Object : obj'[w.at][p] \in {"none", "ours"}
      BY <1>1, <1>2, <2>3, <2>4 DEF Untouched
    <3>. QED
      BY <1>1, <2>4, <3>1, ObjectsKept
  <2>7. TypeOK'
    BY <1>1, <2>1, <2>4, <2>5 DEF TypeOK, AnyContent
  <2>. QED
    BY <2>5, <2>6, <2>7 DEF RoundInv
<1>3. CASE w.pc \in Legacy
  <2>1. /\ Working /\ w.pc \notin Object /\ ~w.del /\ obj' = obj
        /\ GoOn(w.errs \cup {w.pc}) /\ w.errs \subseteq Legacy
        /\ legacy' = legacy \/ legacy' = [legacy EXCEPT ![w.at] = legacy[w.at] \ {w.pc}]
    BY <1>1, <1>3 DEF CallFails, Working, RoundHolds, TypeOK, Object, Legacy
  <2>2. w' \in Worker /\ RoundInv' /\ w'.errs \subseteq IF w'.del THEN Object ELSE Legacy
    BY <1>1, <1>3, <2>1, GoOnKeeps
  <2>3. Untouched' /\ NothingLeft'
    BY <1>1, <2>1 DEF Untouched, NothingLeft
  <2>4. legacy' \in [Clusters -> SUBSET Legacy]
    BY <1>1, <2>1 DEF TypeOK
  <2>5. TypeOK'
    BY <1>1, <2>1, <2>2, <2>4 DEF TypeOK
  <2>. QED
    BY <2>2, <2>3, <2>5 DEF RoundInv
<1>4. CASE w.pc = "access"
  <2>1. Working /\ Fails /\ UNCHANGED <<obj, legacy>>
    BY <1>1, <1>4 DEF CallFails, Working, Object, Legacy
  <2>2. w' \in Worker /\ RoundInv' /\ w'.errs \subseteq IF w'.del THEN Object ELSE Legacy
    BY <1>1, <1>4, <2>1, FailsKeeps
  <2>3. Untouched' /\ NothingLeft'
    BY <1>1, <2>1 DEF Untouched, NothingLeft
  <2>4. TypeOK'
    BY <1>1, <2>1, <2>2 DEF TypeOK
  <2>. QED
    BY <2>2, <2>3, <2>4 DEF RoundInv
<1>5. CASE w.pc = "release"
  <2>1. w' = Idle /\ UNCHANGED <<obj, legacy>>
    BY <1>5 DEF CallFails, Object, Legacy
  <2>. QED
    BY <1>1, <2>1, RestKeeps
<1>. QED
  BY <1>1, <1>2, <1>3, <1>4, <1>5 DEF Worker, Step

-----------------------------------------------------------------------------
(* The theorems. *)

LEMMA InitHolds == Init => IInv
<1>. SUFFICES ASSUME Init PROVE IInv
  OBVIOUS
<1>1. w = Idle /\ w \in Worker /\ w.pc = "idle" /\ ~w.failed /\ w.errs = {}
  BY IdleTyped DEF Init
<1>2. TypeOK
  BY <1>1, BoundAssumption DEF Init, TypeOK, Phase, Legacy
<1>3. Untouched /\ NothingLeft
  BY DEF Init, Untouched, NothingLeft
<1>4. RoundHolds /\ GoneSoFar /\ EnsuredSoFar /\ DeletesAllItCan
  BY <1>1 DEF RoundHolds, GoneSoFar, EnsuredSoFar, DeletesAllItCan, Object, Legacy
<1>. QED
  BY <1>2, <1>3, <1>4 DEF IInv

LEMMA StepKeeps == IInv /\ [Next]_vars => IInv'
<1>. SUFFICES ASSUME IInv, [Next]_vars PROVE IInv'
  OBVIOUS
<1>1. CASE Round
  BY <1>1, AccessKeeps, ReleaseKeeps, RetryKeeps, GiveUpKeeps, EnsureKeeps, DeleteKeeps,
     CleanKeeps DEF Round
<1>2. CASE CallFails \/ Crash
  BY <1>2, CallFailsKeeps, CrashKeeps
<1>3. CASE Environment
  BY <1>3, ChangeNamespaceKeeps, ChangeOrganizationKeeps, DeployLegacyKeeps, SpoilKeeps
     DEF Environment
<1>4. CASE \E c \in Clusters : Reconcile(c) \/ NamespaceGoes(c)
  BY <1>4, AddFinalizerKeeps, BeginKeeps, NamespaceGoesKeeps DEF Reconcile
<1>5. CASE UNCHANGED vars
  BY <1>5 DEF vars, IInv, TypeOK, RoundHolds, GoneSoFar, EnsuredSoFar, Untouched,
     NothingLeft, DeletesAllItCan
<1>. QED
  BY <1>1, <1>2, <1>3, <1>4, <1>5 DEF Next

\* The invariant holds in every reachable state.
THEOREM Inductive == Spec => []IInv
  BY InitHolds, StepKeeps, PTL DEF Spec

\* The state has its type.
THEOREM TypeCorrect == Spec => []TypeOK
<1>1. IInv => TypeOK
  BY DEF IInv
<1>. QED
  BY <1>1, Inductive, PTL

\* The controller lets go of a namespace only when none of the permissions made
\* for it is left outside of it (rbacappoperator/delete.go).
THEOREM NothingIsLeft == Spec => []NothingLeft
<1>1. IInv => NothingLeft
  BY DEF IInv
<1>. QED
  BY <1>1, Inductive, PTL

\* A deletion that fails has removed all it could (rbacappoperator/delete.go).
THEOREM AllItCan == Spec => []DeletesAllItCan
<1>1. IInv => DeletesAllItCan
  BY DEF IInv
<1>. QED
  BY <1>1, Inductive, PTL

\* Only rbaccleaner takes legacy permissions away, and it comes last.
LEMMA CleanersStep ==
  ASSUME IInv, [Next]_vars, NEW c \in Clusters, ~(legacy[c] \subseteq legacy'[c])
  PROVE  w.pc \in Legacy /\ c = w.at
<1>. USE DEF IInv
<1>1. legacy' # legacy
  OBVIOUS
<1>2. CASE \E l \in Legacy : Clean(l)
  BY <1>2 DEF Clean, At, TypeOK
<1>3. CASE CallFails
  BY <1>1, <1>3 DEF CallFails, TypeOK
<1>4. CASE \E d \in Clusters : DeployLegacy(d)
  BY <1>4 DEF DeployLegacy, TypeOK
<1>. QED
  BY <1>1, <1>2, <1>3, <1>4
     DEF Next, Round, EnsureAccess, Release, Retry, GiveUp, Ensure, Delete, Crash, Fault,
         Environment, ChangeNamespace, ChangeOrganization, Spoil, Reconcile, AddFinalizer,
         Begin, NamespaceGoes, vars

\* The operator takes the excessive permissions of a live cluster away only when
\* the reduced ones are there, or users changed them (rbaccleaner/create.go).
THEOREM NeverLeftWithout == Spec => NeverWithout
<1>1. ASSUME IInv, [Next]_vars
      PROVE  [\A c \in Clusters :
                ns[c] = "live" /\ c \notin meddled /\ ~(legacy[c] \subseteq legacy'[c]) =>
                  \A o \in Object : obj[c][o] = "ours"]_vars
  <2>. SUFFICES ASSUME NEW c \in Clusters, ns[c] = "live", c \notin meddled,
                       ~(legacy[c] \subseteq legacy'[c]), NEW o \in Object
                PROVE  obj[c][o] = "ours"
    OBVIOUS
  <2>1. w.pc \in Legacy /\ c = w.at
    BY <1>1, CleanersStep
  <2>2. w.pc # "idle" /\ ~w.del /\ Before(w.pc) = Object
    BY <1>1, <2>1 DEF IInv, RoundHolds, Before, Object, Legacy
  <2>. QED
    BY <1>1, <2>1, <2>2 DEF IInv, EnsuredSoFar
<1>. QED
  BY <1>1, Inductive, PTL DEF Spec, NeverWithout
=============================================================================
