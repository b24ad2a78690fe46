------------------------ MODULE DefaultNamespaceProofs ------------------------
(***************************************************************************)
(* Theorems about DefaultNamespace, for any groups, APIs, settings, any    *)
(* number of edits and any number of failing calls and restarts.           *)
(***************************************************************************)
EXTENDS DefaultNamespace, TLAPS

Step == Object \cup {"discovery", "labels"}

-----------------------------------------------------------------------------
(* The steps of a round, and what is ensured. *)

\* Each place of a round has its step.
LEMMA OrderFacts == \A i \in Places : Order[i] \in Step
<1>. SUFFICES ASSUME NEW i \in 1..14 PROVE Order[i] \in Step
  BY DEF Places
<1>1. CASE i \in 1..7
  BY <1>1 DEF Order, Step, Object
<1>2. CASE i \in 8..14
  BY <1>2 DEF Order, Step, Object
<1>. QED
  BY <1>1, <1>2

\* A resource starts at or before each of its places.
LEMMA StartFacts == \A i \in Places : Start(i) \in Places /\ Start(i) <= i
  BY DEF Places, Start

\* The roles of the bindings, one by one.
LEMMA RoleTable ==
  /\ DOMAIN RoleOf = {"accountBindings", "awsAccountBinding", "readers", "admins", "awsAdmins"}
  /\ RoleOf["accountBindings"] = "writeRoles" /\ RoleOf["awsAccountBinding"] = "awsRole"
  /\ RoleOf["readers"] = "readAll" /\ RoleOf["admins"] = "writeRoles"
  /\ RoleOf["awsAdmins"] = "awsRole"
  BY DEF RoleOf

\* The role of a binding comes earlier in the round, and whenever the binding does.
LEMMA RolesFirst ==
  ASSUME NEW i \in Places, Order[i] \in DOMAIN RoleOf, Applies(Order[i])
  PROVE  /\ RoleOf[Order[i]] \in Object
         /\ \E j \in Places : j < i /\ Order[j] = RoleOf[Order[i]] /\ Applies(Order[j])
<1>1. Order[2] = "readAll" /\ Order[3] = "writeRoles" /\ Order[4] = "awsRole"
  BY DEF Order
<1>2. i > 6
  <2>. SUFFICES ASSUME i \in 1..6 PROVE Order[i] \notin DOMAIN RoleOf
    BY DEF Places
  <2>. QED
    BY RoleTable DEF Order
<1>3. CASE Order[i] \in {"accountBindings", "admins"}
  <2>1. RoleOf[Order[i]] = "writeRoles" /\ Applies("writeRoles")
    BY <1>3, RoleTable DEF Applies
  <2>. QED
    BY <1>1, <1>2, <2>1 DEF Places, Object
<1>4. CASE Order[i] \in {"awsAccountBinding", "awsAdmins"}
  <2>1. RoleOf[Order[i]] = "awsRole" /\ Applies("awsRole")
    BY <1>4, RoleTable DEF Applies
  <2>. QED
    BY <1>1, <1>2, <2>1 DEF Places, Object
<1>5. CASE Order[i] = "readers"
  <2>1. RoleOf[Order[i]] = "readAll" /\ Applies("readAll")
    BY <1>5, RoleTable DEF Applies
  <2>. QED
    BY <1>1, <1>2, <2>1 DEF Places, Object
<1>. QED
  BY <1>3, <1>4, <1>5, RoleTable

\* Whatever the settings, the configuration is one of lists of groups.
LEMMA ConfigFacts == Configs \subseteq Config
<1>. SUFFICES ASSUME NEW s \in Settings PROVE Effective(s) \in Config
  BY DEF Configs
<1>1. s \in Setting
  BY SettingAssumption
<1>2. /\ s.capa \in BOOLEAN /\ s.admins \in Names /\ s.readers \in Names /\ s.gs \in Names
      /\ s.oldAdmin \in Groups \cup {Blank} /\ s.oldGs \in Groups \cup {Blank}
  BY <1>1 DEF Setting
<1>3. \A groups \in Names, old \in Groups \cup {Blank} : WithOld(groups, old) \in Names
  BY DEF WithOld, Names
<1>4. {} \in Names
  BY DEF Names
<1>. HIDE DEF Names, WithOld
<1>. QED
  BY <1>2, <1>3, <1>4 DEF Effective, Config

\* Empty names never become subjects.
LEMMA WantedHeld ==
  ASSUME TypeOK, NEW o \in Object
  PROVE  Wanted(o) \subseteq Held
<1>1. /\ config.admins \subseteq Groups \cup {Blank} /\ config.readers \subseteq Groups \cup {Blank}
      /\ config.gs \subseteq Groups \cup {Blank}
  BY ConfigFacts DEF TypeOK, Config, Names
<1>2. w.seen \subseteq Apis
  BY DEF TypeOK, Worker
<1>. QED
  BY <1>1, <1>2 DEF Wanted, Held

\* What is written is an object as wanted.
LEMMA WrittenFacts ==
  ASSUME TypeOK, NEW o \in Object
  PROVE  /\ Written(o) \in Content /\ Written(o).there
         /\ o \notin {"readAll", "account"} => Written(o).holds = Wanted(o)
<1>1. Wanted(o) \in SUBSET Held /\ obj[o] \in Content
  BY WantedHeld DEF TypeOK
<1>. HIDE DEF Wanted
<1>2. CASE ~obj[o].there
  BY <1>1, <1>2 DEF Written, Content
<1>3. CASE obj[o].there /\ NeedsUpdate(o)
  BY <1>1, <1>3 DEF Written, Content
<1>4. CASE obj[o].there /\ ~NeedsUpdate(o)
  BY <1>1, <1>4 DEF Written, NeedsUpdate
<1>. QED
  BY <1>2, <1>3, <1>4

-----------------------------------------------------------------------------
(* The invariant. *)

\* The places a process has been through since it started.
Reached(i) == proc = "running" \/ (proc = "booting" /\ i < w.at)

SoFar ==
  \A i \in Places :
    Reached(i) /\ Applies(Order[i]) /\ Order[i] \notin meddled => Done(Order[i])

RoundHolds ==
  /\ proc = "down" => w.at = 0
  /\ w.failed => w.at # 0
  /\ w.at # 0 => Applies(Order[w.at])

IInv == TypeOK /\ RoundHolds /\ SoFar /\ BindingsHaveRoles

\* What is done stays done while its object and the configuration stay.
LEMMA DoneKept ==
  ASSUME NEW s \in Step, Done(s), config' = config,
         s \in Object => obj'[s] = obj[s],
         s = "labels" => clusterAdmin' \in {clusterAdmin, "labelled"}
  PROVE  Done(s)'
<1>1. CASE s \in {"discovery", "labels"}
  BY <1>1 DEF Done
<1>2. CASE s \in {"readAll", "account"}
  BY <1>2 DEF Done, Object
<1>3. CASE s \in Object \ {"readAll", "account"}
  <2>1. Wanted(s)' = Wanted(s)
    BY <1>3 DEF Wanted
  <2>2. obj[s].there /\ obj[s].holds = Wanted(s)
    BY <1>3 DEF Done, Object
  <2>. QED
    BY <1>3, <2>1, <2>2 DEF Done, Object
<1>. QED
  BY <1>1, <1>2, <1>3 DEF Step

\* A write leaves its object done, and all others as they are.
LEMMA WriteDone ==
  ASSUME TypeOK, NEW o \in Object, config' = config, clusterAdmin' = clusterAdmin,
         obj' = [obj EXCEPT ![o] = Written(o)],
         NEW s \in Step, Done(s) \/ s = o
  PROVE  Done(s)'
<1>1. CASE s # o
  <2>1. s \in Object => obj'[s] = obj[s]
    BY <1>1 DEF TypeOK
  <2>. QED
    BY <1>1, <2>1, DoneKept
<1>2. CASE s = o
  <2>1. obj'[o] = Written(o)
    BY DEF TypeOK
  <2>2. /\ obj'[o].there
        /\ o \notin {"readAll", "account"} => obj'[o].holds = Wanted(o)
    BY <2>1, WrittenFacts
  <2>3. CASE o \in {"readAll", "account"}
    BY <1>2, <2>2, <2>3 DEF Done, Object
  <2>4. CASE o \notin {"readAll", "account"}
    <3>1. Wanted(o)' = Wanted(o)
      BY <2>4 DEF Wanted
    <3>. QED
      BY <1>2, <2>2, <2>4, <3>1 DEF Done, Object
  <2>. QED
    BY <2>3, <2>4
<1>. QED
  BY <1>1, <1>2

\* A binding is written only behind its role.
LEMMA WriteBehindRole ==
  ASSUME IInv, NEW o \in Object, w.at \in Places, Order[w.at] = o,
         obj' = [obj EXCEPT ![o] = Written(o)],
         meddled' \in {meddled, meddled \ {o}}
  PROVE  BindingsHaveRoles'
<1>. USE DEF IInv
<1>. SUFFICES ASSUME NEW b \in DOMAIN RoleOf, obj'[b].there,
                     b \notin meddled', RoleOf[b] \notin meddled'
              PROVE  obj'[RoleOf[b]].there
  BY DEF BindingsHaveRoles
<1>1. /\ b \in Object /\ RoleOf[b] \in Object
      /\ \A c \in DOMAIN RoleOf : RoleOf[b] # c
  BY RoleTable DEF Object
<1>2. /\ obj'[o] = Written(o) /\ Written(o).there
      /\ \A p \in Object \ {o} : obj'[p] = obj[p]
  BY WrittenFacts DEF TypeOK
<1>3. CASE RoleOf[b] = o
  BY <1>2, <1>3
<1>4. CASE RoleOf[b] # o /\ b # o
  <2>1. b \notin meddled /\ RoleOf[b] \notin meddled /\ obj[b].there
    BY <1>1, <1>2, <1>4
  <2>. QED
    BY <1>1, <1>2, <1>4, <2>1 DEF BindingsHaveRoles
<1>5. CASE b = o
  <2>1. RoleOf[o] # o /\ RoleOf[o] \notin meddled
    BY <1>1, <1>5
  <2>2. Applies(o) /\ proc # "down"
    BY DEF RoundHolds, Places
  <2>3. PICK j \in Places : j < w.at /\ Order[j] = RoleOf[o] /\ Applies(Order[j])
    BY <1>5, <2>2, RolesFirst
  <2>4. Reached(j)
    BY <2>2, <2>3 DEF Reached, TypeOK
  <2>5. Done(RoleOf[o])
    BY <2>1, <2>3, <2>4 DEF SoFar
  <2>6. obj[RoleOf[o]].there
    BY <1>1, <1>5, <2>5 DEF Done, Object
  <2>. QED
    BY <1>1, <1>2, <1>5, <2>1, <2>6
<1>. QED
  BY <1>3, <1>4, <1>5

\* Where going on leads.
LEMMA GoOnFacts ==
  ASSUME w \in Worker, w.at \in Places, ~w.failed, NEW seen \in SUBSET Apis, GoOn(seen)
  PROVE  /\ w' \in Worker /\ ~w'.failed
         /\ \/ /\ w'.at = 0 /\ proc' = "running"
               /\ \A j \in Places : Applies(Order[j]) => j <= w.at
            \/ /\ w'.at \in Places /\ proc' = proc /\ Applies(Order[w'.at])
               /\ \A j \in Places : j < w'.at /\ Applies(Order[j]) => j <= w.at
<1>1. CASE Rest = {}
  <2>1. w' = Idle /\ proc' = "running"
    BY <1>1 DEF GoOn
  <2>2. w' \in Worker /\ w'.at = 0 /\ ~w'.failed
    BY <2>1 DEF Idle, Worker
  <2>3. \A j \in Places : Applies(Order[j]) => j <= w.at
    BY <1>1 DEF Rest, Places
  <2>. QED
    BY <2>1, <2>2, <2>3
<1>2. CASE Rest # {}
  <2>1. PICK i \in Rest : /\ \A j \in (w.at + 1)..(i - 1) : ~Applies(Order[j])
                          /\ w' = [w EXCEPT !.at = i, !.seen = seen]
    BY <1>2 DEF GoOn
  <2>2. i \in Places /\ Applies(Order[i])
    BY <2>1 DEF Rest
  <2>3. w' \in Worker /\ w'.at = i /\ ~w'.failed
    BY <2>1, <2>2 DEF Worker
  <2>4. \A j \in Places : j < i /\ Applies(Order[j]) => j <= w.at
    <3>1. \A j \in Places : j < i /\ j > w.at => j \in (w.at + 1)..(i - 1)
      BY <2>2 DEF Places
    <3>. QED
      BY <2>1, <2>2, <3>1 DEF Places
  <2>5. proc' = proc
    BY <1>2 DEF GoOn
  <2>. QED
    BY <2>2, <2>3, <2>4, <2>5
<1>. QED
  BY <1>1, <1>2

\* Going on from a step that is done keeps the parts about the round.
LEMMA GoOnKeeps ==
  ASSUME TypeOK, RoundHolds, w.at \in Places, ~w.failed, NEW seen \in SUBSET Apis, GoOn(seen),
         config' = config,
         \A i \in Places :
           (Reached(i) \/ i = w.at) /\ Applies(Order[i]) /\ Order[i] \notin meddled' =>
             Done(Order[i])'
  PROVE  w' \in Worker /\ proc' \in {"booting", "running"} /\ RoundHolds' /\ SoFar'
<1>1. proc \in {"booting", "running"} /\ w \in Worker
  BY DEF TypeOK, RoundHolds, Places
<1>2. \A s : Applies(s)' = Applies(s)
  BY DEF Applies
<1>3. /\ w' \in Worker /\ ~w'.failed
      /\ \/ /\ w'.at = 0 /\ proc' = "running"
            /\ \A j \in Places : Applies(Order[j]) => j <= w.at
         \/ /\ w'.at \in Places /\ proc' = proc /\ Applies(Order[w'.at])
            /\ \A j \in Places : j < w'.at /\ Applies(Order[j]) => j <= w.at
  BY <1>1, GoOnFacts
<1>4. RoundHolds'
  BY <1>1, <1>2, <1>3 DEF RoundHolds
<1>5. SoFar'
  <2>. SUFFICES ASSUME NEW i \in Places, Reached(i)', Applies(Order[i]), Order[i] \notin meddled'
                PROVE  Done(Order[i])'
    BY <1>2 DEF SoFar
  <2>1. Reached(i) \/ i <= w.at
    BY <1>1, <1>3 DEF Reached
  <2>2. Reached(i) \/ i = w.at
    BY <1>1, <2>1 DEF Reached, Places
  <2>. QED
    BY <2>2
<1>. QED
  BY <1>1, <1>3, <1>4, <1>5

-----------------------------------------------------------------------------
(* Each step keeps the invariant. *)

LEMMA EnsureKeeps ==
  ASSUME IInv, NEW o \in Object, Ensure(o)
  PROVE  IInv'
<1>. USE DEF IInv
<1>1. /\ w.at \in Places /\ Order[w.at] = o /\ ~w.failed
      /\ UNCHANGED <<config, clusterAdmin, apis, healthy, edits, faults>>
  BY DEF Ensure, At, TypeOK, Worker
<1>2. CASE /\ obj' = [obj EXCEPT ![o] = Written(o)] /\ meddled' = meddled \ {o} /\ GoOn({})
  <2>1. \A i \in Places :
          (Reached(i) \/ i = w.at) /\ Applies(Order[i]) /\ Order[i] \notin meddled' =>
             Done(Order[i])'
    <3>. SUFFICES ASSUME NEW i \in Places, Reached(i) \/ i = w.at, Applies(Order[i]),
                         Order[i] \notin meddled'
                  PROVE  Done(Order[i])'
      OBVIOUS
    <3>1. Order[i] \in Step
      BY OrderFacts
    <3>2. Done(Order[i]) \/ Order[i] = o
      BY <1>1, <1>2 DEF SoFar
    <3>. QED
      BY <1>1, <1>2, <3>1, <3>2, WriteDone
  <2>2. w' \in Worker /\ proc' \in {"booting", "running"} /\ RoundHolds' /\ SoFar'
    BY <1>1, <1>2, <2>1, GoOnKeeps
  <2>3. BindingsHaveRoles'
    BY <1>1, <1>2, WriteBehindRole
  <2>4. Written(o) \in Content
    BY WrittenFacts
  <2>5. TypeOK'
    BY <1>1, <1>2, <2>2, <2>4 DEF TypeOK
  <2>. QED
    BY <2>2, <2>3, <2>5
<1>3. CASE Fails /\ UNCHANGED <<obj, meddled>>
  <2>1. /\ w' \in Worker /\ w'.at = w.at /\ proc' = proc
    BY <1>1, <1>3 DEF Fails, TypeOK, Worker
  <2>2. TypeOK' /\ BindingsHaveRoles'
    BY <1>1, <1>3, <2>1 DEF TypeOK, BindingsHaveRoles
  <2>3. RoundHolds'
    BY <1>1, <2>1 DEF RoundHolds, Applies, Places
  <2>4. SoFar'
    <3>. SUFFICES ASSUME NEW i \in Places, Reached(i), Applies(Order[i]), Order[i] \notin meddled
                  PROVE  Done(Order[i])'
      BY <1>1, <1>3, <2>1 DEF SoFar, Reached, Applies
    <3>. QED
      BY <1>1, <1>3, OrderFacts, DoneKept DEF SoFar
  <2>. QED
    BY <2>2, <2>3, <2>4
<1>. QED
  BY <1>1, <1>2, <1>3 DEF Ensure

\* Steps that change neither an object nor the configuration.
LEMMA ObjectsKept ==
  ASSUME IInv, UNCHANGED <<config, obj>>, meddled \subseteq meddled',
         clusterAdmin' = clusterAdmin \/ "labels" \in meddled',
         \A i \in Places : Reached(i)' => Reached(i)
  PROVE  SoFar' /\ BindingsHaveRoles'
<1>. USE DEF IInv
<1>1. SoFar'
  <2>. SUFFICES ASSUME NEW i \in Places, Reached(i), Applies(Order[i]), Order[i] \notin meddled'
                PROVE  Done(Order[i])'
    BY DEF SoFar, Applies
  <2>. QED
    BY OrderFacts, DoneKept DEF SoFar
<1>2. BindingsHaveRoles'
  BY DEF BindingsHaveRoles
<1>. QED
  BY <1>1, <1>2

\* Steps of the process that change nothing else.
LEMMA ProcessKeeps ==
  ASSUME IInv, UNCHANGED <<config, obj, clusterAdmin, apis, healthy, meddled, edits>>,
         faults' \in Nat,
         proc' \in {"down", "booting", "running"}, w' \in Worker, RoundHolds',
         \A i \in Places : Reached(i)' => Reached(i)
  PROVE  IInv'
<1>1. SoFar' /\ BindingsHaveRoles'
  BY ObjectsKept
<1>2. TypeOK'
  BY DEF IInv, TypeOK
<1>. QED
  BY <1>1, <1>2 DEF IInv

\* A round begins with the discovery.
LEMMA FirstPlace ==
  ASSUME w' = [Idle EXCEPT !.at = 1]
  PROVE  w' \in Worker /\ w'.at = 1 /\ ~w'.failed
<1>1. Idle \in Worker /\ Idle.failed = FALSE
  BY DEF Idle, Worker
<1>2. 1 \in {0} \cup Places
  BY DEF Places
<1>. QED
  BY <1>1, <1>2 DEF Worker

LEMMA StartProcessKeeps ==
  ASSUME IInv, StartProcess
  PROVE  IInv'
<1>1. /\ proc' = "booting" /\ w' \in Worker /\ w'.at = 1 /\ ~w'.failed
      /\ UNCHANGED <<config, obj, clusterAdmin, apis, healthy, meddled, edits, faults>>
      /\ faults \in Nat
  BY FirstPlace DEF StartProcess, cluster, IInv, TypeOK
<1>2. Applies(Order[1])'
  BY DEF Order, Applies
<1>3. RoundHolds'
  BY <1>1, <1>2 DEF RoundHolds
<1>4. \A i \in Places : ~Reached(i)'
  BY <1>1 DEF Reached, Places
<1>. QED
  BY <1>1, <1>3, <1>4, ProcessKeeps

LEMMA BeginKeeps ==
  ASSUME IInv, Begin
  PROVE  IInv'
<1>1. /\ proc = "running" /\ proc' = proc /\ w' \in Worker /\ w'.at = 1 /\ ~w'.failed
      /\ UNCHANGED <<config, obj, clusterAdmin, apis, healthy, meddled, edits, faults>>
      /\ faults \in Nat
  BY FirstPlace DEF Begin, cluster, IInv, TypeOK
<1>2. Applies(Order[1])'
  BY DEF Order, Applies
<1>3. RoundHolds'
  BY <1>1, <1>2 DEF RoundHolds
<1>4. \A i \in Places : Reached(i)
  BY <1>1 DEF Reached
<1>. QED
  BY <1>1, <1>3, <1>4, ProcessKeeps

\* A failing step leaves everything where it is.
LEMMA FailsKeeps ==
  ASSUME IInv, Fails, w.at \in Places, faults' \in Nat,
         UNCHANGED <<config, obj, clusterAdmin, apis, healthy, meddled, edits>>
  PROVE  IInv'
<1>1. proc' = proc /\ w' \in Worker /\ w'.at = w.at
  BY DEF Fails, Worker, IInv, TypeOK
<1>2. RoundHolds'
  BY <1>1 DEF RoundHolds, IInv, Applies, Places
<1>3. \A i \in Places : Reached(i)' => Reached(i)
  BY <1>1 DEF Reached
<1>4. proc' \in {"down", "booting", "running"}
  BY <1>1 DEF IInv, TypeOK
<1>. QED
  BY <1>1, <1>2, <1>3, <1>4, ProcessKeeps

\* Coming to rest keeps a running process running or ends it, and ends Boot.
LEMMA RestKeeps ==
  ASSUME IInv, w' = Idle, proc' = "down" \/ (proc' = proc /\ proc # "booting"), faults' \in Nat,
         UNCHANGED <<config, obj, clusterAdmin, apis, healthy, meddled, edits>>
  PROVE  IInv'
<1>1. w' \in Worker /\ w'.at = 0 /\ ~w'.failed
  BY DEF Idle, Worker
<1>2. RoundHolds'
  BY <1>1 DEF RoundHolds
<1>3. \A i \in Places : Reached(i)' => Reached(i)
  BY DEF Reached
<1>4. proc' \in {"down", "booting", "running"}
  BY DEF IInv, TypeOK
<1>. QED
  BY <1>1, <1>2, <1>3, <1>4, ProcessKeeps

LEMMA GiveUpKeeps == ASSUME IInv, GiveUp PROVE IInv'
<1>1. faults' \in Nat
  BY DEF GiveUp, IInv, TypeOK
<1>. QED
  BY <1>1, RestKeeps DEF GiveUp, cluster

LEMMA CrashKeeps == ASSUME IInv, Crash PROVE IInv'
<1>1. faults' \in Nat
  BY DEF Crash, Fault, IInv, TypeOK
<1>. QED
  BY <1>1, RestKeeps DEF Crash, Fault

LEMMA RetryKeeps ==
  ASSUME IInv, Retry
  PROVE  IInv'
<1>1. /\ w \in Worker /\ w.at \in Places /\ proc # "down"
      /\ UNCHANGED <<proc, config, obj, clusterAdmin, apis, healthy, meddled, edits, faults>>
      /\ w' = [w EXCEPT !.failed = FALSE, !.at = Start(w.at), !.seen = {}]
      /\ faults \in Nat
  BY DEF Retry, cluster, IInv, RoundHolds, TypeOK, Worker
<1>2. w'.at = Start(w.at) /\ ~w'.failed /\ w'.at \in Places /\ w'.at <= w.at /\ w' \in Worker
  BY <1>1, StartFacts DEF Worker
<1>3. Applies(Order[w'.at])
  <2>1. Start(w.at) \in {1, 6, 9} \/ (w.at \in {13, 14} /\ Start(w.at) = w.at)
    BY <1>1 DEF Start, Places
  <2>. QED
    BY <1>2, <2>1 DEF Order, Applies
<1>4. RoundHolds'
  BY <1>1, <1>2, <1>3 DEF RoundHolds, Applies
<1>5. \A i \in Places : Reached(i)' => Reached(i)
  BY <1>1, <1>2 DEF Reached, Places
<1>6. proc' \in {"down", "booting", "running"}
  BY <1>1 DEF IInv, TypeOK
<1>. QED
  BY <1>1, <1>2, <1>4, <1>5, <1>6, ProcessKeeps

LEMMA DiscoverKeeps ==
  ASSUME IInv, Discover
  PROVE  IInv'
<1>. USE DEF IInv
<1>1. /\ w.at \in Places /\ Order[w.at] = "discovery" /\ ~w.failed
      /\ UNCHANGED <<config, obj, clusterAdmin, apis, healthy, meddled, edits, faults>>
      /\ faults \in Nat /\ apis \in SUBSET Apis
      /\ GoOn(apis) \/ Fails
  BY DEF Discover, At, cluster, TypeOK, Worker
<1>2. CASE GoOn(apis)
  <2>1. \A i \in Places :
          (Reached(i) \/ i = w.at) /\ Applies(Order[i]) /\ Order[i] \notin meddled' =>
             Done(Order[i])'
    <3>. SUFFICES ASSUME NEW i \in Places, Reached(i) \/ i = w.at, Applies(Order[i]),
                         Order[i] \notin meddled
                  PROVE  Done(Order[i])'
      BY <1>1
    <3>1. Done(Order[i])
      BY <1>1 DEF SoFar, Done
    <3>. QED
      BY <1>1, <3>1, OrderFacts, DoneKept
  <2>2. w' \in Worker /\ proc' \in {"booting", "running"} /\ RoundHolds' /\ SoFar'
    BY <1>1, <1>2, <2>1, GoOnKeeps
  <2>. QED
    BY <1>1, <2>2 DEF TypeOK, BindingsHaveRoles
<1>3. CASE Fails
  BY <1>1, <1>3, FailsKeeps
<1>. QED
  BY <1>1, <1>2, <1>3

LEMMA LabelKeeps ==
  ASSUME IInv, Label
  PROVE  IInv'
<1>. USE DEF IInv
<1>1. /\ w.at \in Places /\ Order[w.at] = "labels" /\ ~w.failed /\ "labels" \notin Object
      /\ UNCHANGED <<config, obj, apis, healthy, edits, faults>>
      /\ faults \in Nat
  BY DEF Label, At, TypeOK, Worker, Object
<1>2. CASE Panic /\ UNCHANGED <<clusterAdmin, meddled>>
  <2>1. w' = Idle /\ (proc' = "down" \/ (proc' = proc /\ proc # "booting"))
    BY <1>1, <1>2 DEF Panic, RoundHolds, TypeOK, Places
  <2>. QED
    BY <1>1, <1>2, <2>1, RestKeeps
<1>3. CASE /\ GoOn({}) /\ meddled' = meddled \ {"labels"}
           /\ clusterAdmin # "bare"
           /\ clusterAdmin' = IF clusterAdmin = "none" THEN "none" ELSE "labelled"
  <2>1. clusterAdmin' \in {"labelled", "none"} /\ clusterAdmin' \in {clusterAdmin, "labelled"}
    BY <1>3
  <2>2. \A i \in Places :
          (Reached(i) \/ i = w.at) /\ Applies(Order[i]) /\ Order[i] \notin meddled' =>
             Done(Order[i])'
    <3>. SUFFICES ASSUME NEW i \in Places, Reached(i) \/ i = w.at, Applies(Order[i]),
                         Order[i] \notin meddled'
                  PROVE  Done(Order[i])'
      OBVIOUS
    <3>1. CASE Order[i] = "labels"
      BY <2>1, <3>1 DEF Done
    <3>2. CASE Order[i] # "labels"
      <4>1. Done(Order[i])
        BY <1>1, <1>3, <3>2 DEF SoFar
      <4>. QED
        BY <1>1, <2>1, <3>2, <4>1, OrderFacts, DoneKept
    <3>. QED
      BY <3>1, <3>2
  <2>3. w' \in Worker /\ proc' \in {"booting", "running"} /\ RoundHolds' /\ SoFar'
    BY <1>1, <1>3, <2>2, GoOnKeeps
  <2>4. BindingsHaveRoles'
    <3>1. \A b \in DOMAIN RoleOf : b # "labels" /\ RoleOf[b] # "labels"
      BY RoleTable
    <3>. QED
      BY <1>1, <1>3, <3>1 DEF BindingsHaveRoles
  <2>5. TypeOK'
    BY <1>1, <1>3, <2>1, <2>3 DEF TypeOK
  <2>. QED
    BY <2>3, <2>4, <2>5
<1>. QED
  BY <1>2, <1>3 DEF Label

LEMMA CallFailsKeeps ==
  ASSUME IInv, CallFails
  PROVE  IInv'
<1>. USE DEF IInv
<1>0. w \in Worker /\ w.at \in Places /\ faults \in Nat
  BY DEF CallFails, TypeOK, Worker
<1>1. /\ w.at \in Places /\ ~w.failed /\ faults' \in Nat /\ Fails
      /\ UNCHANGED <<config, apis, healthy, meddled, edits>>
      /\ proc' = proc /\ w' \in Worker /\ w'.at = w.at
  <2>1. ~w.failed /\ faults' = faults + 1 /\ Fails
        /\ UNCHANGED <<config, apis, healthy, meddled, edits>>
    BY DEF CallFails, Fault
  <2>2. proc' = proc /\ w' = [w EXCEPT !.failed = TRUE]
    BY <2>1 DEF Fails
  <2>3. w' \in Worker /\ w'.at = w.at
    BY <1>0, <2>2 DEF Worker
  <2>. QED
    BY <1>0, <2>1, <2>2, <2>3
<1>2. RoundHolds' /\ \A i \in Places : Reached(i)' => Reached(i)
  BY <1>1 DEF RoundHolds, Applies, Places, Reached
<1>3. CASE UNCHANGED <<obj, clusterAdmin>>
  BY <1>1, <1>3, FailsKeeps
<1>4. CASE clusterAdmin' = "labelled" /\ UNCHANGED obj
  <2>1. SoFar'
    <3>. SUFFICES ASSUME NEW i \in Places, Reached(i), Applies(Order[i]), Order[i] \notin meddled
                  PROVE  Done(Order[i])'
      BY <1>1, <1>2 DEF SoFar, Applies
    <3>. QED
      BY <1>1, <1>4, OrderFacts, DoneKept DEF SoFar
  <2>2. BindingsHaveRoles' /\ TypeOK'
    BY <1>1, <1>4 DEF BindingsHaveRoles, TypeOK
  <2>. QED
    BY <1>2, <2>1, <2>2
<1>5. ASSUME NEW o \in Object, o = Order[w.at], obj' = [obj EXCEPT ![o] = Written(o)],
             UNCHANGED clusterAdmin
      PROVE  IInv'
  <2>1. SoFar'
    <3>. SUFFICES ASSUME NEW i \in Places, Reached(i), Applies(Order[i]), Order[i] \notin meddled
                  PROVE  Done(Order[i])'
      BY <1>1, <1>2 DEF SoFar, Applies
    <3>1. Done(Order[i]) /\ Order[i] \in Step
      BY OrderFacts DEF SoFar
    <3>. QED
      BY <1>1, <1>5, <3>1, WriteDone
  <2>2. BindingsHaveRoles'
    BY <1>1, <1>5, WriteBehindRole
  <2>3. TypeOK'
    <3>1. Written(o) \in Content
      BY <1>5, WrittenFacts
    <3>. QED
      BY <1>1, <1>5, <3>1 DEF TypeOK
  <2>. QED
    BY <1>2, <2>1, <2>2, <2>3
<1>. QED
  BY <1>3, <1>4, <1>5 DEF CallFails
LEMMA RolloutKeeps ==
  ASSUME IInv, NEW c \in Configs, Rollout(c)
  PROVE  IInv'
<1>. USE DEF IInv
<1>1. /\ proc' = "down" /\ w' = Idle /\ config' = c /\ edits' \in Nat
      /\ UNCHANGED <<obj, clusterAdmin, apis, healthy, meddled, faults>>
  BY DEF Rollout, Edit, cluster, TypeOK
<1>2. w' \in Worker /\ w'.at = 0 /\ ~w'.failed
  BY <1>1 DEF Idle, Worker
<1>3. TypeOK' /\ BindingsHaveRoles'
  BY <1>1, <1>2 DEF TypeOK, BindingsHaveRoles
<1>4. RoundHolds'
  BY <1>1, <1>2 DEF RoundHolds
<1>5. SoFar'
  BY <1>1, <1>2 DEF SoFar, Reached, Places
<1>. QED
  BY <1>3, <1>4, <1>5

LEMMA SpoilKeeps ==
  ASSUME IInv, NEW o \in Object, Spoil(o)
  PROVE  IInv'
<1>. USE DEF IInv
<1>1. /\ UNCHANGED <<proc, config, clusterAdmin, apis, healthy, w, faults>>
      /\ edits' \in Nat /\ meddled' = meddled \cup {o}
  BY DEF Spoil, Edit, TypeOK
<1>2. PICK content \in Content : obj' = [obj EXCEPT ![o] = content]
  <2>1. CASE obj' = [obj EXCEPT ![o] = Absent]
    BY <2>1 DEF Absent, Content
  <2>2. ASSUME NEW holds \in {{}, obj[o].holds}, NEW right \in BOOLEAN,
               obj' = [obj EXCEPT ![o] = [there |-> TRUE, holds |-> holds, right |-> right]]
        PROVE  \E content \in Content : obj' = [obj EXCEPT ![o] = content]
    <3>1. holds \in SUBSET Held
      BY DEF TypeOK, Content
    <3>. QED
      BY <2>2, <3>1 DEF Content
  <2>. QED
    BY <2>1, <2>2 DEF Spoil
<1>3. TypeOK'
  BY <1>1, <1>2 DEF TypeOK
<1>4. RoundHolds'
  BY <1>1 DEF RoundHolds, Applies
<1>5. SoFar'
  <2>. SUFFICES ASSUME NEW i \in Places, Reached(i), Applies(Order[i]),
                       Order[i] \notin meddled, Order[i] # o
                PROVE  Done(Order[i])'
    BY <1>1 DEF SoFar, Reached, Applies
  <2>1. Done(Order[i]) /\ Order[i] \in Step
    BY OrderFacts DEF SoFar
  <2>2. Order[i] \in Object => obj'[Order[i]] = obj[Order[i]]
    BY <1>2 DEF TypeOK
  <2>. QED
    BY <1>1, <2>1, <2>2, DoneKept
<1>6. BindingsHaveRoles'
  <2>. SUFFICES ASSUME NEW b \in DOMAIN RoleOf, obj'[b].there,
                       {b, RoleOf[b]} \cap (meddled \cup {o}) = {}
                PROVE  obj'[RoleOf[b]].there
    BY <1>1 DEF BindingsHaveRoles
  <2>1. b \in Object /\ RoleOf[b] \in Object /\ b # o /\ RoleOf[b] # o
    BY RoleTable DEF Object
  <2>2. obj'[b] = obj[b] /\ obj'[RoleOf[b]] = obj[RoleOf[b]]
    BY <1>2, <2>1 DEF TypeOK
  <2>. QED
    BY <2>2 DEF BindingsHaveRoles
<1>. QED
  BY <1>3, <1>4, <1>5, <1>6

LEMMA UnlabelKeeps ==
  ASSUME IInv, Unlabel
  PROVE  IInv'
<1>. USE DEF IInv
<1>1. /\ UNCHANGED <<proc, config, obj, apis, healthy, w, faults>>
      /\ edits' \in Nat /\ meddled' = meddled \cup {"labels"}
      /\ clusterAdmin' \in {"unlabelled", "bare", "none"}
  BY DEF Unlabel, Edit, TypeOK
<1>2. TypeOK' /\ RoundHolds'
  BY <1>1 DEF TypeOK, RoundHolds, Applies
<1>3. \A i \in Places : Reached(i)' => Reached(i)
  BY <1>1 DEF Reached
<1>4. SoFar' /\ BindingsHaveRoles'
  BY <1>1, <1>3, ObjectsKept
<1>. QED
  BY <1>2, <1>4

LEMMA ChangeApisKeeps ==
  ASSUME IInv, ChangeApis
  PROVE  IInv'
<1>. USE DEF IInv
<1>1. /\ UNCHANGED <<proc, config, obj, clusterAdmin, meddled, w, faults>>
      /\ edits' \in Nat /\ apis' \in SUBSET Apis /\ healthy' \in BOOLEAN
  BY DEF ChangeApis, Edit, TypeOK
<1>2. TypeOK' /\ RoundHolds'
  BY <1>1 DEF TypeOK, RoundHolds, Applies
<1>3. \A i \in Places : Reached(i)' => Reached(i)
  BY <1>1 DEF Reached
<1>4. SoFar' /\ BindingsHaveRoles'
  BY <1>1, <1>3, ObjectsKept
<1>. QED
  BY <1>2, <1>4

-----------------------------------------------------------------------------
(* The theorems. *)

LEMMA InitHolds == Init => IInv
<1>. SUFFICES ASSUME Init PROVE IInv
  OBVIOUS
<1>1. w \in Worker /\ w.at = 0 /\ ~w.failed
  BY DEF Init, Idle, Worker
<1>2. Absent \in Content /\ ~Absent.there
  BY DEF Absent, Content
<1>3. TypeOK
  BY <1>1, <1>2 DEF Init, TypeOK
<1>4. RoundHolds
  BY <1>1 DEF Init, RoundHolds
<1>5. SoFar
  BY <1>1 DEF Init, SoFar, Reached, Places
<1>6. BindingsHaveRoles
  <2>. SUFFICES ASSUME NEW b \in DOMAIN RoleOf PROVE ~obj[b].there
    BY DEF BindingsHaveRoles
  <2>1. b \in Object
    BY RoleTable DEF Object
  <2>. QED
    BY <1>2, <2>1 DEF Init
<1>. QED
  BY <1>3, <1>4, <1>5, <1>6 DEF IInv

LEMMA StutterKeeps ==
  ASSUME IInv, UNCHANGED vars
  PROVE  IInv'
<1>1. UNCHANGED <<proc, config, obj, clusterAdmin, apis, healthy, w, meddled, edits, faults>>
  BY DEF vars, cluster
<1>2. TypeOK' /\ RoundHolds'
  BY <1>1 DEF IInv, TypeOK, RoundHolds, Applies
<1>3. \A i \in Places : Reached(i)' => Reached(i)
  BY <1>1 DEF Reached
<1>4. SoFar' /\ BindingsHaveRoles'
  BY <1>1, <1>3, ObjectsKept
<1>. QED
  BY <1>2, <1>4 DEF IInv

\* The invariant holds in every state the operator can reach.
THEOREM Inductive == Spec => []IInv
<1>1. Init => IInv
  BY InitHolds
<1>2. IInv /\ [Next]_vars => IInv'
  <2>. SUFFICES ASSUME IInv, [Next]_vars PROVE IInv'
    OBVIOUS
  <2>1. CASE Operator
    BY <2>1, StartProcessKeeps, BeginKeeps, DiscoverKeeps, LabelKeeps, RetryKeeps,
       GiveUpKeeps, EnsureKeeps DEF Operator
  <2>2. CASE CallFails
    BY <2>2, CallFailsKeeps
  <2>3. CASE Crash
    BY <2>3, CrashKeeps
  <2>4. CASE Environment
    BY <2>4, RolloutKeeps, SpoilKeeps, UnlabelKeeps, ChangeApisKeeps DEF Environment
  <2>5. CASE UNCHANGED vars
    BY <2>5, StutterKeeps
  <2>. QED
    BY <2>1, <2>2, <2>3, <2>4, <2>5 DEF Next
<1>. QED
  BY <1>1, <1>2, PTL DEF Spec

\* Every variable keeps its type.
THEOREM TypeCorrect == Spec => []TypeOK
<1>1. IInv => TypeOK
  BY DEF IInv
<1>. QED
  BY <1>1, Inductive, PTL

\* While controllers run, every object of service.go's Boot that users left
\* alone is there as the configuration of the process asks for.
THEOREM AfterBoot == Spec => []BootedFirst
<1>1. IInv => BootedFirst
  BY DEF IInv, SoFar, Reached, BootedFirst
<1>. QED
  BY <1>1, Inductive, PTL

\* No binding the operator made is to a role that is not there yet.
THEOREM RolesThere == Spec => []BindingsHaveRoles
<1>1. IInv => BindingsHaveRoles
  BY DEF IInv
<1>. QED
  BY <1>1, Inductive, PTL

-----------------------------------------------------------------------------
(* The binding of Giant Swarm. *)

\* No process starts without a group of Giant Swarm to bind.
Guarded == (proc # "down" => HasAdmins(config)) /\ GiantSwarmKept

\* What the operator writes into the binding is a group.
LEMMA GiantSwarmWritten ==
  ASSUME IInv, Guarded, w.at # 0, NEW o \in Object, obj' = [obj EXCEPT ![o] = Written(o)],
         meddled' = meddled \/ meddled' = meddled \ {o}
  PROVE  GiantSwarmKept'
<1>1. proc # "down" /\ HasAdmins(config)
  BY DEF IInv, RoundHolds, Guarded
<1>2. "gsAdmins" \in Object
  BY DEF Object
<1>3. CASE o = "gsAdmins"
  <2>1. Wanted(o) # {}
    BY <1>1, <1>3 DEF Wanted, HasAdmins
  <2>2. Written(o).holds = Wanted(o)
    BY <1>3, WrittenFacts DEF IInv
  <2>3. obj'["gsAdmins"] = Written(o)
    BY <1>2, <1>3 DEF IInv, TypeOK
  <2>. QED
    BY <2>1, <2>2, <2>3 DEF GiantSwarmKept
<1>4. CASE o # "gsAdmins"
  <2>1. obj'["gsAdmins"] = obj["gsAdmins"]
    BY <1>2, <1>4 DEF IInv, TypeOK
  <2>. QED
    BY <1>4, <2>1 DEF Guarded, GiantSwarmKept
<1>. QED
  BY <1>3, <1>4

\* A step that leaves the binding alone, and the process under its configuration.
LEMMA GiantSwarmLeft ==
  ASSUME Guarded, obj'["gsAdmins"] = obj["gsAdmins"] \/ "gsAdmins" \in meddled',
         meddled \ {"labels"} \subseteq meddled',
         proc' = "down" \/ (config' = config /\ (proc # "down" \/ HasAdmins(config)))
  PROVE  Guarded'
<1>1. HasAdmins(config) /\ config' = config => HasAdmins(config)'
  BY DEF HasAdmins
<1>. QED
  BY <1>1 DEF Guarded, GiantSwarmKept

\* Each step keeps a group in the binding.
LEMMA GuardedKept ==
  ASSUME IInv, Guarded, Next
  PROVE  Guarded'
<1>0. w.at # 0 => proc # "down"
  BY DEF IInv, RoundHolds
<1>1. CASE StartProcess
  BY <1>1, GiantSwarmLeft DEF StartProcess, cluster
<1>2. CASE Begin \/ Discover
  BY <1>0, <1>2, GiantSwarmLeft DEF Begin, Discover, At, cluster
<1>3. CASE Label
  BY <1>0, <1>3, GiantSwarmLeft DEF Label, At
<1>4. CASE Retry \/ GiveUp
  <2>1. w.failed /\ proc # "down"
    BY <1>4 DEF Retry, GiveUp, IInv, RoundHolds
  <2>. QED
    BY <1>4, <2>1, GiantSwarmLeft DEF Retry, GiveUp, cluster
<1>5. ASSUME NEW o \in Object, Ensure(o)
      PROVE  Guarded'
  <2>1. w.at # 0 /\ config' = config
    BY <1>5 DEF Ensure, At
  <2>2. CASE obj' = [obj EXCEPT ![o] = Written(o)] /\ meddled' = meddled \ {o}
    <3>1. GiantSwarmKept'
      BY <2>1, <2>2, GiantSwarmWritten
    <3>. QED
      BY <1>0, <2>1, <3>1 DEF Guarded, HasAdmins
  <2>3. CASE UNCHANGED <<obj, meddled>>
    BY <1>0, <2>1, <2>3, GiantSwarmLeft
  <2>. QED
    BY <1>5, <2>2, <2>3 DEF Ensure
<1>6. CASE CallFails
  <2>1. w.at # 0 /\ config' = config /\ meddled' = meddled
    BY <1>6 DEF CallFails, Fault
  <2>2. CASE UNCHANGED obj
    BY <1>0, <2>1, <2>2, GiantSwarmLeft
  <2>3. ASSUME NEW o \in Object, obj' = [obj EXCEPT ![o] = Written(o)]
        PROVE  Guarded'
    <3>1. GiantSwarmKept'
      BY <2>1, <2>3, GiantSwarmWritten
    <3>. QED
      BY <1>0, <2>1, <3>1 DEF Guarded, HasAdmins
  <2>. QED
    BY <1>6, <2>2, <2>3 DEF CallFails
<1>7. CASE Crash \/ \E c \in Configs : Rollout(c)
  BY <1>7, GiantSwarmLeft DEF Crash, Rollout, cluster
<1>8. ASSUME NEW o \in Object, Spoil(o)
      PROVE  Guarded'
  <2>1. /\ meddled' = meddled \cup {o} /\ UNCHANGED <<proc, config>>
        /\ "gsAdmins" # o => obj'["gsAdmins"] = obj["gsAdmins"]
    BY <1>8 DEF Spoil, IInv, TypeOK, Object
  <2>. QED
    BY <2>1 DEF Guarded, GiantSwarmKept, HasAdmins
<1>9. CASE Unlabel \/ ChangeApis
  BY <1>9 DEF Unlabel, ChangeApis, Guarded, GiantSwarmKept, HasAdmins
<1>. QED
  BY <1>1, <1>2, <1>3, <1>4, <1>5, <1>6, <1>7, <1>8, <1>9 DEF Next, Operator, Environment

\* Whatever lists of groups later releases come with, the operator's binding to
\* cluster-admin for Giant Swarm keeps a subject: New refuses to start without.
THEOREM GiantSwarmBound == Spec => []GiantSwarmKept
<1>1. Init => Guarded
  <2>1. "gsAdmins" \in Object /\ ~Absent.there
    BY DEF Object, Absent
  <2>. QED
    BY <2>1 DEF Init, Guarded, GiantSwarmKept
<1>2. IInv /\ Guarded /\ [Next]_vars => Guarded'
  <2>1. ASSUME Guarded, UNCHANGED vars PROVE Guarded'
    BY <2>1 DEF Guarded, GiantSwarmKept, HasAdmins, vars, cluster
  <2>. QED
    BY <2>1, GuardedKept
<1>3. Guarded => GiantSwarmKept
  BY DEF Guarded
<1>. QED
  BY <1>1, <1>2, <1>3, Inductive, PTL DEF Spec
=============================================================================
