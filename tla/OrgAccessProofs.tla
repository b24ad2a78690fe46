--------------------------- MODULE OrgAccessProofs ---------------------------
(***************************************************************************)
(* Theorems about OrgAccess, for any subjects, bindings of others, cluster *)
(* namespaces, and any number of edits, failing calls and restarts.        *)
(***************************************************************************)
EXTENDS OrgAccess, TLAPS

\* The workers' records.
OwWorker ==
  [pc : {"idle", "list", "ensure", "remove", "release", "failed", "removeFailed"},
   at : Derived, want : Gatherable]

CwWorker ==
  [pc : {"idle", "org", "list", "role", "binding", "unbind", "unrole", "release",
         "failed", "removeFailed"},
   at : Clusters, acc : Access, want : [Access -> SUBSET Subjects]]

-----------------------------------------------------------------------------
(* Workers and what they read. *)

\* The two workers' records, one by one.
LEMMA Workers == TypeOK => ow \in OwWorker /\ cw \in CwWorker
  BY DEF TypeOK, OwWorker, CwWorker

\* A worker at rest has its type.
LEMMA IdleTyped ==
  /\ OwIdle \in OwWorker /\ OwIdle.pc = "idle" /\ OwIdle.want = Nobody
  /\ CwIdle \in CwWorker /\ CwIdle.pc = "idle" /\ CwIdle.acc = "read"
  /\ CwIdle.want = [a \in Access |-> {}]
<1>1. Nobody \in Gatherable
  BY DEF Nobody, Gatherable
<1>2. (CHOOSE c \in Clusters : TRUE) \in Clusters
  BY SubjectAssumption
<1>. QED
  BY <1>1, <1>2 DEF OwIdle, CwIdle, OwWorker, CwWorker, Derived, Outside, Access

\* The order of the derived bindings.
LEMMA AfterFacts ==
  /\ After["catalogs"] = "releases" /\ After["releases"] = "organization"
  /\ After["organization"] = "readCluster" /\ After["readCluster"] = "writeCluster"
  BY DEF After

\* A round goes on to the next binding.
LEMMA NextFacts ==
  ASSUME ow \in OwWorker, NEW last \in OwWorker
  PROVE  /\ OwNext(last) \in OwWorker
         /\ ow.at = "writeCluster" => OwNext(last) = last
         /\ ow.at # "writeCluster" => /\ OwNext(last).pc = ow.pc
                                      /\ OwNext(last).want = ow.want
                                      /\ OwNext(last).at = After[ow.at]
<1>1. CASE ow.at = "writeCluster"
  BY <1>1 DEF OwNext
<1>2. CASE ow.at # "writeCluster"
  <2>1. After[ow.at] \in Derived
    BY <1>2, AfterFacts DEF OwWorker, Derived, Outside, Inside
  <2>2. OwNext(last) = [ow EXCEPT !.at = After[ow.at]]
    BY <1>2 DEF OwNext
  <2>. QED
    BY <1>2, <2>1, <2>2 DEF OwWorker
<1>. QED
  BY <1>1, <1>2

\* getUniqueSubjects drops subjects and never adds one.
LEMMA UniqueWithin ==
  ASSUME NEW bindings, NEW S \in Unique(bindings)
  PROVE  S \subseteq SubjectsOf(bindings)
  BY DEF Unique, SubjectsOf, WithSubject

\* What a binding in the namespace says was given by some source.
LEMMA ListedGiven ==
  ASSUME TypeOK, SourcesGiven, NoEscalation, NEW b \in InNamespace
  PROVE  /\ b.subjects \subseteq Subjects /\ b.subjects \subseteq ever.any
         /\ b.role \in {"readAll", "readApps"} => b.subjects \subseteq ever.read
         /\ b.role \in {"admin", "writeApps"} => b.subjects \subseteq ever.write
<1>1. CASE b \in Holders
  <2>1. b \in Grants
    BY <1>1 DEF TypeOK, Holders
  <2>. QED
    BY <1>1, <2>1, SubjectAssumption DEF SourcesGiven
<1>2. CASE der["readCluster"] # NoBinding /\ b = [role |-> "readApps", subjects |-> der["readCluster"]]
  <2>1. der["readCluster"] \in SUBSET Subjects /\ der["readCluster"] \subseteq ever.read
    BY <1>2 DEF TypeOK, Derived, Inside, MaybeSubjects, NoEscalation, Within
  <2>. QED
    BY <1>2, <2>1 DEF SourcesGiven
<1>3. CASE der["writeCluster"] # NoBinding /\ b = [role |-> "writeApps", subjects |-> der["writeCluster"]]
  <2>1. der["writeCluster"] \in SUBSET Subjects /\ der["writeCluster"] \subseteq ever.write
    BY <1>3 DEF TypeOK, Derived, Inside, MaybeSubjects, NoEscalation, Within
  <2>. QED
    BY <1>3, <2>1 DEF SourcesGiven
<1>. QED
  BY <1>1, <1>2, <1>3 DEF InNamespace

\* So was everything a round of externalresources gathers.
LEMMA GatheredWithin ==
  ASSUME TypeOK, SourcesGiven, NoEscalation, NEW want \in Gathered(InNamespace)
  PROVE  /\ want \in Gatherable
         /\ want.any \subseteq ever.any
         /\ want.read \subseteq ever.read /\ want.write \subseteq ever.write
<1>1. /\ want.any \in Unique(InNamespace)
      /\ want.read \in Unique(Referencing(InNamespace, "readAll"))
      /\ want.write \in Unique(Referencing(InNamespace, "admin"))
      /\ want = [any |-> want.any, read |-> want.read, write |-> want.write]
  BY DEF Gathered
<1>2. /\ want.any \subseteq SubjectsOf(InNamespace)
      /\ want.read \subseteq SubjectsOf(Referencing(InNamespace, "readAll"))
      /\ want.write \subseteq SubjectsOf(Referencing(InNamespace, "admin"))
  BY <1>1, UniqueWithin
<1>3. /\ SubjectsOf(InNamespace) \subseteq Subjects \cap ever.any
      /\ SubjectsOf(Referencing(InNamespace, "readAll")) \subseteq Subjects \cap ever.read
      /\ SubjectsOf(Referencing(InNamespace, "admin")) \subseteq Subjects \cap ever.write
  BY ListedGiven DEF SubjectsOf, Referencing
<1>. QED
  BY <1>1, <1>2, <1>3 DEF Gatherable

\* And everything clusternamespaceresources binds.
LEMMA BoundWithin ==
  ASSUME TypeOK, SourcesGiven, NoEscalation
  PROVE  /\ Bound(InNamespace) \in [Access -> SUBSET Subjects]
         /\ Bound(InNamespace)["read"] \subseteq ever.read
         /\ Bound(InNamespace)["write"] \subseteq ever.write
<1>1. RoleFor["read"] = "readApps" /\ RoleFor["write"] = "writeApps"
  BY DEF RoleFor
<1>2. /\ SubjectsOf(Referencing(InNamespace, "readApps")) \subseteq Subjects \cap ever.read
      /\ SubjectsOf(Referencing(InNamespace, "writeApps")) \subseteq Subjects \cap ever.write
  BY ListedGiven DEF SubjectsOf, Referencing
<1>. QED
  BY <1>1, <1>2 DEF Bound, Access

\* What externalresources writes is what it gathered.
LEMMA WantedWithin ==
  ASSUME TypeOK, NEW d \in Derived
  PROVE  /\ Wanted(ow.want, d) \in SUBSET Subjects
         /\ d \in Outside => Wanted(ow.want, d) = ow.want.any
         /\ d = "readCluster" => Wanted(ow.want, d) = ow.want.read
         /\ d = "writeCluster" => Wanted(ow.want, d) = ow.want.write
  BY Workers DEF OwWorker, Gatherable, Wanted, Derived, Outside, Inside

-----------------------------------------------------------------------------
(* Types, and that nothing is bound that was not given. *)

WasGiven == SourcesGiven /\ GatheredGiven /\ NoEscalation
Spread == TypeOK /\ WasGiven

\* At the start nothing is bound but what others bound.
LEMMA SpreadInit == Init => Spread
<1>. SUFFICES ASSUME Init PROVE Spread
  OBVIOUS
<1>1. src \in [Sources -> Grants \cup {NoBinding}]
  BY DEF Init
<1>2. \A b \in Holders : b \in Grants /\ b.subjects \in SUBSET Subjects
  BY <1>1, SubjectAssumption DEF Holders
<1>3. ever \in Gatherable /\ SourcesGiven
  <2>1. ever = Given(Holders)
    BY DEF Init
  <2>. QED
    BY <1>2, <2>1 DEF Given, Gatherable, SourcesGiven, SubjectsOf
<1>4. TypeOK
  <2>1. ow \in OwWorker /\ cw \in CwWorker
    BY IdleTyped DEF Init
  <2>2. der \in [Derived -> MaybeSubjects] /\ cbind \in [Clusters -> [Access -> MaybeSubjects]]
    BY DEF Init, MaybeSubjects
  <2>. QED
    BY <1>1, <1>3, <2>1, <2>2 DEF Init, TypeOK, Phase, OwWorker, CwWorker
<1>5. GatheredGiven
  BY IdleTyped DEF Init, GatheredGiven, Nobody, Access
<1>6. NoEscalation
  BY DEF Init, NoEscalation, Within, Derived, Inside, Access
<1>. QED
  BY <1>3, <1>4, <1>5, <1>6 DEF Spread, WasGiven

\* Steps of a worker that write nothing, with what it has gathered.
LEMMA WorkerSteps ==
  ASSUME Spread, ow' \in OwWorker, cw' \in CwWorker,
         ow'.want \in {ow.want, Nobody} \cup Gathered(InNamespace),
         cw'.want \in {cw.want, [a \in Access |-> {}], Bound(InNamespace)},
         org' \in Phase, cl' \in [Clusters -> Phase], faults' \in Nat, edits' \in Nat,
         labelled' \in BOOLEAN, known' \in BOOLEAN, kept' \in BOOLEAN,
         crole' \in [Clusters -> SUBSET Access],
         UNCHANGED <<src, der, cbind, ever>>
  PROVE  Spread'
<1>1. TypeOK'
  BY DEF Spread, TypeOK, OwWorker, CwWorker
<1>2. SourcesGiven' /\ NoEscalation'
  BY DEF Spread, WasGiven, SourcesGiven, NoEscalation, Holders, Within
<1>3. /\ ow'.want.any \subseteq ever.any
      /\ ow'.want.read \subseteq ever.read /\ ow'.want.write \subseteq ever.write
  BY GatheredWithin DEF Spread, WasGiven, GatheredGiven, Nobody
<1>4. cw'.want["read"] \subseteq ever.read /\ cw'.want["write"] \subseteq ever.write
  BY BoundWithin DEF Spread, WasGiven, GatheredGiven, Access
<1>. QED
  BY <1>1, <1>2, <1>3, <1>4 DEF Spread, WasGiven, GatheredGiven

\* A step that writes into the namespace, or takes bindings away.
LEMMA BindingSteps ==
  ASSUME Spread, ow' \in OwWorker, ow'.want \in {ow.want, Nobody},
         org' \in Phase, faults' \in Nat,
         src' \in [Sources -> Grants \cup {NoBinding}],
         \A s \in Sources : src'[s] \in {src[s], NoBinding},
         der' \in [Derived -> MaybeSubjects],
         \A d \in Derived : der'[d] \in {der[d], NoBinding, Wanted(ow.want, d)},
         UNCHANGED <<labelled, known, clVars, cw, ever, kept, edits>>
  PROVE  Spread'
<1>1. TypeOK'
  BY DEF Spread, TypeOK, OwWorker, clVars
<1>2. SourcesGiven'
  <2>1. Holders' \subseteq Holders
    BY DEF Holders
  <2>. QED
    BY <2>1 DEF Spread, WasGiven, SourcesGiven
<1>3. GatheredGiven'
  BY DEF Spread, WasGiven, SourcesGiven, GatheredGiven, Nobody
<1>4. NoEscalation'
  <2>1. \A d \in Outside : Within(der'[d], ever.any)
    BY WantedWithin DEF Spread, WasGiven, GatheredGiven, NoEscalation, Within, Derived
  <2>2. Within(der'["readCluster"], ever.read) /\ Within(der'["writeCluster"], ever.write)
    BY WantedWithin
    DEF Spread, WasGiven, GatheredGiven, NoEscalation, Within, Derived, Inside
  <2>. QED
    BY <2>1, <2>2 DEF Spread, WasGiven, NoEscalation, clVars, Within
<1>. QED
  BY <1>1, <1>2, <1>3, <1>4 DEF Spread, WasGiven

\* A step that writes into cluster namespaces.
LEMMA ClusterSteps ==
  ASSUME Spread, cw' \in CwWorker, cw'.want \in {cw.want, [a \in Access |-> {}]},
         cl' \in [Clusters -> Phase], crole' \in [Clusters -> SUBSET Access], faults' \in Nat,
         cbind' \in [Clusters -> [Access -> MaybeSubjects]],
         \A c \in Clusters, a \in Access :
           cbind'[c][a] \in {cbind[c][a], NoBinding, cw.want[a]},
         UNCHANGED <<orgVars, ow, ever, kept, edits>>
  PROVE  Spread'
<1>1. TypeOK'
  BY DEF Spread, TypeOK, CwWorker, orgVars
<1>2. SourcesGiven'
  BY DEF Spread, WasGiven, SourcesGiven, Holders, orgVars
<1>3. GatheredGiven'
  BY DEF Spread, WasGiven, GatheredGiven, Access
<1>4. NoEscalation'
  BY DEF Spread, WasGiven, GatheredGiven, NoEscalation, Within, Access, orgVars
<1>. QED
  BY <1>1, <1>2, <1>3, <1>4 DEF Spread, WasGiven

\* Somebody makes a binding: from now on it was given.
LEMMA GrantSpreads ==
  ASSUME Spread, NEW s \in Sources, NEW g \in Grants, Grant(s, g)
  PROVE  Spread'
<1>1. /\ src' = [src EXCEPT ![s] = g]
      /\ UNCHANGED <<org, labelled, known, der, clVars, ow, cw, kept, faults>>
      /\ edits' = edits + 1
  BY DEF Grant, Edit
<1>2. g.subjects \in SUBSET Subjects /\ g.role \in RoleName
  BY SubjectAssumption
<1>3. /\ ever'.any = ever.any \cup g.subjects
      /\ ever'.read = ever.read \cup IF g.role \in {"readAll", "readApps"} THEN g.subjects ELSE {}
      /\ ever'.write = ever.write \cup IF g.role \in {"admin", "writeApps"} THEN g.subjects ELSE {}
      /\ ever' = [any |-> ever'.any, read |-> ever'.read, write |-> ever'.write]
  BY DEF Grant, Remember, Given, SubjectsOf
<1>4. ever' \in Gatherable
  BY <1>2, <1>3 DEF Spread, TypeOK, Gatherable
<1>5. /\ ever.any \subseteq ever'.any /\ ever.read \subseteq ever'.read
      /\ ever.write \subseteq ever'.write
  BY <1>3
<1>6. TypeOK'
  BY <1>1, <1>4 DEF Spread, TypeOK, clVars
<1>7. SourcesGiven'
  <2>1. ever'.read \subseteq ever'.any /\ ever'.write \subseteq ever'.any
    BY <1>3 DEF Spread, WasGiven, SourcesGiven
  <2>2. Holders' \subseteq Holders \cup {g}
    BY <1>1 DEF Holders, Spread, TypeOK
  <2>3. ASSUME NEW b \in Holders'
        PROVE  /\ b.subjects \subseteq ever'.any
               /\ b.role \in {"readAll", "readApps"} => b.subjects \subseteq ever'.read
               /\ b.role \in {"admin", "writeApps"} => b.subjects \subseteq ever'.write
    BY <1>3, <1>5, <2>2 DEF Spread, WasGiven, SourcesGiven
  <2>. QED
    BY <2>1, <2>3 DEF SourcesGiven
<1>8. GatheredGiven'
  BY <1>1, <1>5 DEF Spread, WasGiven, GatheredGiven
<1>9. NoEscalation'
  BY <1>1, <1>5 DEF Spread, WasGiven, NoEscalation, Within, clVars
<1>. QED
  BY <1>6, <1>7, <1>8, <1>9 DEF Spread, WasGiven

\* Every step of the rbac controller.
LEMMA OrganizationSpreads ==
  ASSUME Spread, OrganizationRound \/ OwCallFails
  PROVE  Spread'
<1>. USE Workers DEF Spread, OwWorker
<1>1. TypeOK
  OBVIOUS
<1>2. CASE OwAddFinalizer
  BY <1>2, WorkerSteps DEF OwAddFinalizer, TypeOK, Phase, clVars, budget
<1>3. CASE OwBegin
  BY <1>3, WorkerSteps
  DEF OwBegin, OwAt, TypeOK, Derived, Outside, orgVars, clVars, budget
<1>4. CASE OwList
  <2>1. CASE InNamespace = {}
    BY <1>4, <2>1, IdleTyped, WorkerSteps DEF OwList, TypeOK, orgVars, clVars, budget
  <2>2. CASE InNamespace # {}
    <3>1. PICK want \in Gathered(InNamespace) :
            ow' = [pc |-> "ensure", at |-> "catalogs", want |-> want]
      BY <1>4, <2>2 DEF OwList
    <3>2. want \in Gatherable
      BY <3>1, GatheredWithin DEF WasGiven
    <3>3. ow' \in OwWorker /\ ow'.want = want
      BY <3>1, <3>2 DEF Derived, Outside
    <3>. QED
      BY <1>4, <3>1, <3>3, WorkerSteps DEF OwList, TypeOK, orgVars, clVars, budget
  <2>. QED
    BY <2>1, <2>2
<1>5. CASE OwEnsure
  <2>1. CASE OwAccepted
    <3>1. ow' \in OwWorker /\ ow'.want \in {ow.want, Nobody}
      BY <1>5, <2>1, IdleTyped, NextFacts DEF OwEnsure
    <3>2. der' = [der EXCEPT ![ow.at] = Wanted(ow.want, ow.at)]
      BY <1>5, <2>1 DEF OwEnsure, OwStored
    <3>. QED
      BY <1>5, <3>1, <3>2, WantedWithin, BindingSteps
      DEF OwEnsure, TypeOK, MaybeSubjects, budget
  <2>2. CASE ~OwAccepted
    BY <1>5, <2>2, IdleTyped, WorkerSteps DEF OwEnsure, OwFailed, TypeOK, clVars, budget
  <2>. QED
    BY <2>1, <2>2
<1>6. CASE OwRemove
  <2>1. ow' \in OwWorker /\ ow'.want \in {ow.want, Nobody}
    BY <1>6, IdleTyped, NextFacts DEF OwRemove
  <2>2. der' = [der EXCEPT ![ow.at] = NoBinding]
    BY <1>6 DEF OwRemove, OwGone
  <2>. QED
    BY <1>6, <2>1, <2>2, BindingSteps DEF OwRemove, TypeOK, MaybeSubjects, budget
<1>7. CASE OwRelease
  BY <1>7, IdleTyped, WorkerSteps DEF OwRelease, TypeOK, Phase, clVars, budget
<1>8. CASE OwRetry
  BY <1>8, WorkerSteps
  DEF OwRetry, OwAt, TypeOK, Derived, Outside, orgVars, clVars, budget
<1>9. CASE OwGiveUp
  BY <1>9, IdleTyped, WorkerSteps DEF OwGiveUp, TypeOK, orgVars, clVars, budget
<1>10. CASE OwCallFails
  <2>1. /\ ow' \in OwWorker /\ ow'.want \in {ow.want, Nobody} /\ faults' \in Nat
        /\ UNCHANGED <<org, labelled, known, src, clVars, cw, ever, kept, edits>>
    BY <1>10, IdleTyped DEF OwCallFails, OwFailed, Fault, TypeOK
  <2>2. CASE UNCHANGED der
    BY <2>1, <2>2, BindingSteps DEF TypeOK
  <2>3. CASE OwStored
    <3>1. der' = [der EXCEPT ![ow.at] = Wanted(ow.want, ow.at)]
      BY <2>3 DEF OwStored
    <3>. QED
      BY <2>1, <3>1, WantedWithin, BindingSteps DEF TypeOK, MaybeSubjects
  <2>4. CASE OwGone
    BY <2>1, <2>4, BindingSteps DEF OwGone, TypeOK, MaybeSubjects
  <2>. QED
    BY <1>10, <2>2, <2>3, <2>4 DEF OwCallFails
<1>. QED
  BY <1>2, <1>3, <1>4, <1>5, <1>6, <1>7, <1>8, <1>9, <1>10 DEF OrganizationRound

\* Every step of the clusternamespace controller.
LEMMA ClustersSpread ==
  ASSUME Spread, ClusterRound \/ CwCallFails \/ \E c \in Clusters : Reconcile(c)
  PROVE  Spread'
<1>. USE Workers DEF Spread, CwWorker
<1>1. CASE \E c \in Clusters : Reconcile(c)
  <2>1. PICK c \in Clusters : CwAddFinalizer(c) \/ CwBegin(c)
    BY <1>1 DEF Reconcile
  <2>2. CASE CwAddFinalizer(c)
    BY <2>2, WorkerSteps DEF CwAddFinalizer, TypeOK, Phase, orgVars, budget
  <2>3. CASE CwBegin(c)
    <3>1. cw' \in CwWorker /\ cw'.want = [a \in Access |-> {}]
      BY <2>3, IdleTyped DEF CwBegin
    <3>. QED
      BY <2>3, <3>1, WorkerSteps DEF CwBegin, TypeOK, orgVars, clVars, budget
  <2>. QED
    BY <2>1, <2>2, <2>3
<1>2. CASE CwFindOrganization
  BY <1>2, IdleTyped, WorkerSteps
     DEF CwFindOrganization, CwFailed, TypeOK, orgVars, clVars, budget
<1>3. CASE CwList
  <2>1. Bound(InNamespace) \in [Access -> SUBSET Subjects]
    BY BoundWithin DEF WasGiven
  <2>. QED
    BY <1>3, <2>1, IdleTyped, WorkerSteps DEF CwList, TypeOK, orgVars, clVars, budget
<1>4. CASE CwRole
  <2>0. crole \in [Clusters -> SUBSET Access] /\ (UNCHANGED crole \/ CwRoleStored)
    BY <1>4 DEF CwRole, TypeOK
  <2>1. crole' \in [Clusters -> SUBSET Access]
    BY <2>0 DEF CwRoleStored
  <2>2. cw' \in CwWorker /\ cw'.want \in {cw.want, [a \in Access |-> {}]}
    BY <1>4, IdleTyped DEF CwRole, CwFailed
  <2>. QED
    BY <1>4, <2>1, <2>2, WorkerSteps DEF CwRole, TypeOK, orgVars, budget
<1>5. CASE CwBinding
  <2>1. cw' \in CwWorker /\ cw'.want \in {cw.want, [a \in Access |-> {}]}
    BY <1>5, IdleTyped DEF CwBinding, CwFailed, Access
  <2>2. CASE UNCHANGED cbind
    BY <1>5, <2>1, <2>2, ClusterSteps DEF CwBinding, TypeOK, budget
  <2>3. CASE CwBindingStored
    BY <1>5, <2>1, <2>3, ClusterSteps
       DEF CwBinding, CwBindingStored, TypeOK, MaybeSubjects, budget
  <2>. QED
    BY <1>5, <2>2, <2>3 DEF CwBinding
<1>6. CASE CwUnbind
  BY <1>6, ClusterSteps DEF CwUnbind, CwUnbound, TypeOK, MaybeSubjects, budget
<1>7. CASE CwUnrole
  <2>1. crole' \in [Clusters -> SUBSET Access] /\ cw' \in CwWorker /\ cw'.want = cw.want
    BY <1>7 DEF CwUnrole, CwRoleGone, TypeOK, Access
  <2>. QED
    BY <1>7, <2>1, WorkerSteps DEF CwUnrole, TypeOK, orgVars, budget
<1>8. CASE CwRelease
  BY <1>8, IdleTyped, WorkerSteps DEF CwRelease, TypeOK, Phase, orgVars, budget
<1>9. CASE CwRetry
  BY <1>9, WorkerSteps DEF CwRetry, TypeOK, orgVars, clVars, budget
<1>10. CASE CwGiveUp
  BY <1>10, IdleTyped, WorkerSteps DEF CwGiveUp, TypeOK, orgVars, clVars, budget
<1>11. CASE CwCallFails
  <2>1. /\ cw' \in CwWorker /\ cw'.want \in {cw.want, [a \in Access |-> {}]}
        /\ faults' \in Nat /\ UNCHANGED <<orgVars, cl, ow, ever, kept, edits>>
    <3>1. cw' = CwIdle \/ CwFailed
      BY <1>11 DEF CwCallFails
    <3>2. cw' \in CwWorker /\ cw'.want \in {cw.want, [a \in Access |-> {}]}
      BY <3>1, IdleTyped DEF CwFailed
    <3>. QED
      BY <1>11, <3>2 DEF CwCallFails, Fault, TypeOK
  <2>2. CASE UNCHANGED <<crole, cbind>>
    BY <2>1, <2>2, ClusterSteps DEF TypeOK
  <2>3. CASE CwRoleStored /\ UNCHANGED cbind
    BY <2>1, <2>3, ClusterSteps DEF TypeOK, CwRoleStored
  <2>4. CASE CwBindingStored /\ UNCHANGED crole
    BY <2>1, <2>4, ClusterSteps DEF TypeOK, CwBindingStored, MaybeSubjects
  <2>5. CASE CwUnbound /\ UNCHANGED crole
    BY <2>1, <2>5, ClusterSteps DEF TypeOK, CwUnbound, MaybeSubjects
  <2>6. CASE CwRoleGone /\ UNCHANGED cbind
    BY <2>1, <2>6, ClusterSteps DEF TypeOK, CwRoleGone
  <2>. QED
    BY <1>11, <2>2, <2>3, <2>4, <2>5, <2>6 DEF CwCallFails
<1>. QED
  BY <1>1, <1>2, <1>3, <1>4, <1>5, <1>6, <1>7, <1>8, <1>9, <1>10, <1>11 DEF ClusterRound

\* Every step, of the workers and of others.
LEMMA SpreadStep == Spread /\ [Next]_vars => Spread'
<1>. SUFFICES ASSUME Spread, [Next]_vars PROVE Spread'
  OBVIOUS
<1>. USE Workers DEF Spread
<1>1. CASE OrganizationRound \/ OwCallFails
  BY <1>1, OrganizationSpreads
<1>2. CASE ClusterRound \/ CwCallFails \/ \E c \in Clusters : Reconcile(c)
  BY <1>2, ClustersSpread
<1>3. CASE Crash
  BY <1>3, IdleTyped, WorkerSteps DEF Crash, Fault, TypeOK, orgVars, clVars
<1>4. CASE ChangeOrganization \/ ChangeOrgNamespace \/ ChangeLabel
  <2>1. /\ org' \in Phase /\ edits' \in Nat
        /\ labelled' \in BOOLEAN /\ known' \in BOOLEAN /\ kept' \in BOOLEAN
    <3>1. Changed(org) \in Phase
      BY DEF Changed, Phase
    <3>2. org' \in {org, Changed(org)} /\ edits' = edits + 1
      BY <1>4, Zenon DEF ChangeOrganization, ChangeOrgNamespace, ChangeLabel, Edit
    <3>3. labelled' \in BOOLEAN /\ known' \in BOOLEAN /\ kept' \in BOOLEAN
      BY <1>4, Zenon DEF ChangeOrganization, ChangeOrgNamespace, ChangeLabel, TypeOK
    <3>. QED
      BY <3>1, <3>2, <3>3 DEF TypeOK
  <2>2. UNCHANGED <<src, der, clVars, ow, cw, ever, faults>>
    BY <1>4 DEF ChangeOrganization, ChangeOrgNamespace, ChangeLabel, Edit
  <2>. QED
    BY <2>1, <2>2, WorkerSteps DEF TypeOK, clVars
<1>5. ASSUME NEW s \in Sources, Revoke(s) PROVE Spread'
  <2>1. /\ src' = [src EXCEPT ![s] = NoBinding]
        /\ UNCHANGED <<org, labelled, known, der, clVars, ow, cw, ever, kept, faults>>
        /\ edits' = edits + 1
    BY <1>5 DEF Revoke, Edit
  <2>2. TypeOK'
    BY <2>1 DEF TypeOK, clVars
  <2>3. Holders' \subseteq Holders
    BY <2>1 DEF Holders, TypeOK
  <2>. QED
    BY <2>1, <2>2, <2>3
       DEF WasGiven, SourcesGiven, GatheredGiven, NoEscalation, Within, clVars
<1>6. ASSUME NEW s \in Sources, NEW g \in Grants, Grant(s, g) PROVE Spread'
  BY <1>6, GrantSpreads
<1>7. ASSUME NEW c \in Clusters, ChangeCluster(c) PROVE Spread'
  BY <1>7, WorkerSteps DEF ChangeCluster, Changed, Edit, TypeOK, Phase, orgVars
<1>8. CASE OrgNamespaceGoes
  BY <1>8, BindingSteps
     DEF OrgNamespaceGoes, TypeOK, Phase, MaybeSubjects, budget
<1>9. ASSUME NEW c \in Clusters, ClusterGoes(c) PROVE Spread'
  <2>1. /\ crole' = [crole EXCEPT ![c] = {}]
        /\ cbind' = [cbind EXCEPT ![c] = [a \in Access |-> NoBinding]]
        /\ cl' \in [Clusters -> Phase]
    BY <1>9 DEF ClusterGoes, TypeOK, Phase
  <2>. QED
    BY <1>9, <2>1, ClusterSteps DEF ClusterGoes, TypeOK, MaybeSubjects, budget
<1>10. CASE UNCHANGED vars
  BY <1>10
  DEF vars, TypeOK, WasGiven, SourcesGiven, Holders, GatheredGiven, NoEscalation,
      Within
<1>. QED
  BY <1>1, <1>2, <1>3, <1>4, <1>5, <1>6, <1>7, <1>8, <1>9, <1>10
     DEF Next, Environment

-----------------------------------------------------------------------------
(* Deletions. *)

\* At the start nobody holds anything, and nothing is there.
LEMMA HeldInit == Init => OrganizationHeld /\ OutsideCleared /\ ClustersHeld
<1>. SUFFICES ASSUME Init PROVE OrganizationHeld /\ OutsideCleared /\ ClustersHeld
  OBVIOUS
<1>1. ow.pc = "idle" /\ cw.pc = "idle" /\ OwBehind = {} /\ CwBehind = {}
  BY IdleTyped DEF Init, OwBehind, CwBehind
<1>. QED
  BY <1>1 DEF Init, OrganizationHeld, OutsideCleared, ClustersHeld, Derived

\* What the rbac controller holds depends on nothing else.
LEMMA OrganizationAlone ==
  ASSUME OrganizationHeld, OutsideCleared, UNCHANGED <<org, labelled, kept, der, ow>>
  PROVE  OrganizationHeld' /\ OutsideCleared'
<1>1. OwBehind' = OwBehind
  BY DEF OwBehind
<1>. QED
  BY <1>1 DEF OrganizationHeld, OutsideCleared

\* Nor does what the clusternamespace controller holds.
LEMMA ClustersAlone ==
  ClustersHeld /\ UNCHANGED <<clVars, cw>> => ClustersHeld'
  BY DEF ClustersHeld, CwBehind, clVars

\* A worker that is not past a removal has nothing behind it.
LEMMA NothingBehind ==
  ASSUME \/ ow'.pc \notin {"remove", "release"}
         \/ ow'.pc = "remove" /\ ow'.at = "catalogs",
         ow'.pc # "idle" => org' \in {"live", "deleting"},
         ow'.pc \in {"remove", "removeFailed", "release"} => org' = "deleting",
         kept' /\ ~labelled' => ow'.pc = "idle",
         kept' /\ (~labelled' \/ org' \notin {"live", "deleting"}) =>
           \A d \in Outside : der'[d] = NoBinding
  PROVE  OrganizationHeld' /\ OutsideCleared'
<1>1. OwBehind' = {}
  BY DEF OwBehind, Inside
<1>. QED
  BY <1>1 DEF OrganizationHeld, OutsideCleared

\* A removal has one more binding behind it.
LEMMA OwBehindGrows ==
  ASSUME TypeOK, ow.pc = "remove", ow' = OwNext([OwIdle EXCEPT !.pc = "release"])
  PROVE  ow'.pc \in {"remove", "release"} /\ OwBehind' \subseteq OwBehind \cup {ow.at}
<1>1. /\ [OwIdle EXCEPT !.pc = "release"] \in OwWorker
      /\ [OwIdle EXCEPT !.pc = "release"].pc = "release"
  BY IdleTyped DEF OwWorker
<1>2. ow \in OwWorker
  BY Workers
<1>3. CASE ow.at = "writeCluster"
  <2>1. ow'.pc = "release"
    BY <1>1, <1>2, <1>3, NextFacts
  <2>. QED
    BY <1>3, <2>1 DEF OwBehind, Outside, Inside
<1>4. CASE ow.at # "writeCluster"
  <2>1. ow'.pc = "remove" /\ ow'.at = After[ow.at]
    BY <1>1, <1>2, <1>4, NextFacts
  <2>2. ow.at \in {"catalogs", "releases", "organization", "readCluster"}
    BY <1>2, <1>4 DEF OwWorker, Derived, Outside, Inside
  <2>3. CASE ow.at = "catalogs"
    BY <2>1, <2>3, AfterFacts DEF OwBehind, Inside
  <2>4. CASE ow.at = "releases"
    BY <2>1, <2>4, AfterFacts DEF OwBehind, Inside
  <2>5. CASE ow.at = "organization"
    BY <2>1, <2>5, AfterFacts DEF OwBehind, Outside, Inside
  <2>6. CASE ow.at = "readCluster"
    BY <2>1, <2>6, AfterFacts DEF OwBehind, Outside, Inside
  <2>. QED
    BY <2>2, <2>3, <2>4, <2>5, <2>6
<1>. QED
  BY <1>3, <1>4

\* Every step of the rbac controller.
LEMMA OrganizationHeldStep ==
  ASSUME TypeOK, OrganizationHeld, OutsideCleared, OrganizationRound \/ OwCallFails
  PROVE  OrganizationHeld' /\ OutsideCleared'
<1>1. /\ ow \in OwWorker
      /\ ow.pc # "idle" => org \in {"live", "deleting"}
      /\ ow.pc \in {"remove", "removeFailed", "release"} => org = "deleting"
      /\ kept /\ ~labelled => ow.pc \in {"idle", "release"}
      /\ kept /\ (~labelled \/ org \notin {"live", "deleting"}) =>
           \A d \in Outside : der[d] = NoBinding
  BY Workers DEF OrganizationHeld, OutsideCleared
<1>2. UNCHANGED <<labelled, kept>>
  BY Zenon
  DEF OrganizationRound, OwAddFinalizer, OwBegin, OwList, OwEnsure, OwRemove, OwRelease,
      OwRetry, OwGiveUp, OwCallFails, Fault, orgVars, budget
<1>3. CASE OwAddFinalizer
  BY <1>1, <1>2, <1>3, NothingBehind DEF OwAddFinalizer
<1>4. CASE OwBegin
  <2>1. CASE labelled
    BY <1>1, <1>2, <1>4, <2>1, NothingBehind DEF OwBegin, OwAt, orgVars, OwWorker
  <2>2. CASE ~labelled
    <3>1. /\ org' = "deleting" /\ ow'.pc = "release" /\ UNCHANGED der
      BY <1>1, <1>4, <2>2 DEF OwBegin, OwAt, orgVars, OwWorker
    <3>2. OwBehind' = Outside
      BY <3>1 DEF OwBehind
    <3>. QED
      BY <1>1, <1>2, <2>2, <3>1, <3>2 DEF OrganizationHeld, OutsideCleared
  <2>. QED
    BY <2>1, <2>2
<1>5. CASE OwList
  <2>1. ow'.pc \in {"idle", "ensure"}
    BY <1>5, IdleTyped DEF OwList
  <2>. QED
    BY <1>1, <1>2, <1>5, <2>1, NothingBehind DEF OwList, orgVars
<1>6. CASE OwEnsure
  <2>1. /\ org \in {"live", "deleting"} /\ UNCHANGED org
        /\ kept => labelled
    BY <1>1, <1>6 DEF OwEnsure
  <2>2. ow'.pc \in {"idle", "ensure", "failed"}
    <3>1. CASE ow' = OwNext(OwIdle)
      BY <1>1, <1>6, <3>1, IdleTyped, NextFacts DEF OwEnsure
    <3>2. CASE OwFailed
      BY <1>6, <3>2, IdleTyped DEF OwEnsure, OwFailed, OwWorker
    <3>. QED
      BY <1>6, <3>1, <3>2 DEF OwEnsure
  <2>. QED
    BY <1>2, <2>1, <2>2, NothingBehind
<1>7. CASE OwRemove
  <2>1. /\ org = "deleting" /\ UNCHANGED org /\ der' = [der EXCEPT ![ow.at] = NoBinding]
        /\ kept => labelled
    BY <1>1, <1>7 DEF OwRemove, OwGone
  <2>2. ow'.pc \in {"remove", "release"} /\ OwBehind' \subseteq OwBehind \cup {ow.at}
    BY <1>7, OwBehindGrows DEF OwRemove
  <2>3. OwBehind \subseteq Derived /\ der \in [Derived -> MaybeSubjects]
    BY DEF OwBehind, Derived, Outside, TypeOK
  <2>4. ow.at \in Derived
    BY <1>1 DEF OwWorker
  <2>5. kept => \A d \in OwBehind' : der'[d] = NoBinding
    BY <2>1, <2>2, <2>3, <2>4 DEF OutsideCleared
  <2>. QED
    BY <1>2, <2>1, <2>2, <2>5 DEF OrganizationHeld, OutsideCleared
<1>8. CASE OwRelease
  <2>1. kept => \A d \in Outside : der[d] = NoBinding
    <3>1. OwBehind = Outside
      BY <1>8 DEF OwRelease, OwBehind
    <3>. QED
      BY <3>1 DEF OutsideCleared
  <2>2. ow'.pc = "idle" /\ UNCHANGED der
    BY <1>8, IdleTyped DEF OwRelease
  <2>. QED
    BY <1>2, <2>1, <2>2, NothingBehind
<1>9. CASE OwRetry
  <2>1. /\ org \in {"live", "deleting"} /\ UNCHANGED <<org, der>>
        /\ kept => labelled
    BY <1>1, <1>9 DEF OwRetry, orgVars
  <2>2. /\ ow'.pc \in {"list", "remove"} /\ ow'.at = "catalogs"
        /\ ow'.pc = "remove" => org = "deleting"
    BY <1>1, <1>9 DEF OwRetry, OwAt, OwWorker
  <2>. QED
    BY <1>2, <2>1, <2>2, NothingBehind
<1>10. CASE OwGiveUp
  <2>1. ow'.pc = "idle" /\ UNCHANGED <<org, der>>
    BY <1>10, IdleTyped DEF OwGiveUp, orgVars
  <2>. QED
    BY <1>1, <1>2, <2>1, NothingBehind
<1>11. CASE OwCallFails
  <2>1. org \in {"live", "deleting"} /\ UNCHANGED org
    BY <1>1, <1>11 DEF OwCallFails
  <2>2. /\ ow'.pc \in {"idle", "failed", "removeFailed"}
        /\ ow'.pc = "removeFailed" => org = "deleting"
        /\ ow.pc = "release" => ow'.pc = "idle" /\ UNCHANGED der
    BY <1>1, <1>11, IdleTyped DEF OwCallFails, OwFailed, OwWorker
  <2>3. kept /\ ~labelled => ow.pc = "release"
    BY <1>1, <1>11 DEF OwCallFails
  <2>. QED
    BY <1>1, <1>2, <2>1, <2>2, <2>3, NothingBehind
<1>. QED
  BY <1>3, <1>4, <1>5, <1>6, <1>7, <1>8, <1>9, <1>10, <1>11 DEF OrganizationRound

\* A cluster namespace its controller let go has nothing.
HeldAt(c) ==
  cl[c] \notin {"live", "deleting"} =>
    crole[c] = {} /\ \A a \in Access : cbind[c][a] = NoBinding

\* A worker that is not past a removal.
LEMMA NothingRemoved ==
  ASSUME \/ cw'.pc \notin {"unbind", "unrole", "release"}
         \/ cw'.pc = "unbind" /\ cw'.acc = "read",
         cw'.pc # "idle" => cl'[cw'.at] \in {"live", "deleting"},
         cw'.pc \in {"unbind", "removeFailed"} => cl'[cw'.at] = "deleting",
         cw'.pc = "removeFailed" => cw'.acc = "read",
         \A c \in Clusters : HeldAt(c)'
  PROVE  ClustersHeld'
<1>1. CwBehind' = {}
  BY DEF CwBehind
<1>. QED
  BY <1>1 DEF ClustersHeld, HeldAt

\* Every step of the clusternamespace controller.
LEMMA ClustersHeldStep ==
  ASSUME TypeOK, ClustersHeld,
         ClusterRound \/ CwCallFails \/ \E c \in Clusters : Reconcile(c)
  PROVE  ClustersHeld'
<1>1. /\ cw \in CwWorker /\ cw.at \in Clusters /\ cw.acc \in Access
      /\ cl \in [Clusters -> Phase] /\ crole \in [Clusters -> SUBSET Access]
      /\ cbind \in [Clusters -> [Access -> MaybeSubjects]]
  BY Workers DEF TypeOK, CwWorker
<1>2. /\ cw.pc # "idle" => cl[cw.at] \in {"live", "deleting"}
      /\ cw.pc \in {"unbind", "unrole", "removeFailed", "release"} => cl[cw.at] = "deleting"
      /\ cw.pc = "removeFailed" => cw.acc = "read"
      /\ \A c \in Clusters : HeldAt(c)
  BY DEF ClustersHeld, HeldAt
<1>3. ASSUME NEW c \in Clusters, CwAddFinalizer(c) PROVE ClustersHeld'
  <2>1. cw'.pc = "idle" /\ cl' = [cl EXCEPT ![c] = "live"] /\ UNCHANGED <<crole, cbind>>
    BY <1>3 DEF CwAddFinalizer
  <2>2. \A d \in Clusters : HeldAt(d)'
    BY <1>1, <1>2, <2>1 DEF HeldAt
  <2>. QED
    BY <2>1, <2>2, NothingRemoved
<1>4. ASSUME NEW c \in Clusters, CwBegin(c) PROVE ClustersHeld'
  <2>1. /\ cw'.at = c /\ cw'.acc = "read" /\ UNCHANGED <<cl, crole, cbind>>
        /\ \/ cl[c] = "live" /\ cw'.pc = "org"
           \/ cl[c] = "deleting" /\ cw'.pc = "unbind"
    BY <1>4, IdleTyped DEF CwBegin, CwWorker, clVars
  <2>2. \A d \in Clusters : HeldAt(d)'
    BY <1>2, <2>1 DEF HeldAt
  <2>. QED
    BY <2>1, <2>2, NothingRemoved
<1>5. CASE CwFindOrganization \/ CwList \/ CwRetry \/ CwGiveUp
  <2>1. UNCHANGED <<cl, crole, cbind>>
    BY <1>5 DEF CwFindOrganization, CwList, CwRetry, CwGiveUp, clVars
  <2>2. \A c \in Clusters : HeldAt(c)'
    BY <1>2, <2>1 DEF HeldAt
  <2>3. /\ cw'.pc \in {"idle", "failed", "list", "role", "org", "unbind"}
        /\ cw'.pc = "unbind" => cw.pc = "removeFailed" /\ cw'.acc = cw.acc
        /\ cw'.pc # "idle" => cw.pc # "idle" /\ cw'.at = cw.at
    <3>1. CASE CwFindOrganization
      BY <1>1, <3>1, IdleTyped DEF CwFindOrganization, CwFailed, CwWorker
    <3>2. CASE CwList
      BY <1>1, <3>2, IdleTyped DEF CwList, CwWorker
    <3>3. CASE CwRetry
      BY <1>1, <3>3 DEF CwRetry, CwWorker
    <3>4. CASE CwGiveUp
      BY <3>4, IdleTyped DEF CwGiveUp
    <3>. QED
      BY <1>5, <3>1, <3>2, <3>3, <3>4
  <2>. QED
    BY <1>2, <2>1, <2>2, <2>3, NothingRemoved
<1>6. CASE CwRole \/ CwBinding
  <2>1. /\ cl[cw.at] \in {"live", "deleting"} /\ UNCHANGED cl
        /\ \A c \in Clusters \ {cw.at} : crole'[c] = crole[c] /\ cbind'[c] = cbind[c]
    BY <1>1, <1>2, <1>6 DEF CwRole, CwBinding, CwRoleStored, CwBindingStored
  <2>2. \A c \in Clusters : HeldAt(c)'
    BY <1>1, <1>2, <2>1 DEF HeldAt
  <2>3. /\ cw'.pc \in {"idle", "failed", "role", "binding"}
        /\ cw'.pc # "idle" => cw'.at = cw.at
    BY <1>1, <1>6, IdleTyped DEF CwRole, CwBinding, CwFailed, CwWorker
  <2>. QED
    BY <2>1, <2>2, <2>3, NothingRemoved
<1>7. CASE CwUnbind \/ CwUnrole
  <2>1. /\ cl[cw.at] = "deleting" /\ UNCHANGED cl
        /\ \A c \in Clusters \ {cw.at} : crole'[c] = crole[c] /\ cbind'[c] = cbind[c]
    BY <1>1, <1>2, <1>7 DEF CwUnbind, CwUnrole, CwUnbound, CwRoleGone
  <2>2. \A c \in Clusters : HeldAt(c)'
    BY <1>1, <1>2, <2>1 DEF HeldAt
  <2>3. CASE CwUnbind
    <3>1. /\ cw' = [cw EXCEPT !.pc = "unrole"] /\ UNCHANGED crole
          /\ cbind' = [cbind EXCEPT ![cw.at][cw.acc] = NoBinding]
      BY <2>3 DEF CwUnbind, CwUnbound
    <3>2. cw'.pc = "unrole" /\ cw'.acc = cw.acc /\ cw'.at = cw.at /\ cw.pc = "unbind"
      BY <1>1, <2>3, <3>1 DEF CwWorker, CwUnbind
    <3>3. CwBehind' = CwBehind /\ CwBehind \subseteq Access
      BY <3>2 DEF CwBehind, Access
    <3>4. /\ cbind'[cw.at][cw.acc] = NoBinding
          /\ \A a \in Access : cbind'[cw.at][a] \in {cbind[cw.at][a], NoBinding}
      BY <1>1, <3>1
    <3>5. \A a \in CwBehind : cbind'[cw.at][a] = NoBinding /\ a \notin crole'[cw.at]
      BY <3>1, <3>3, <3>4 DEF ClustersHeld
    <3>. QED
      BY <2>1, <2>2, <3>2, <3>3, <3>4, <3>5 DEF ClustersHeld, HeldAt
  <2>4. CASE CwUnrole
    <3>1. /\ crole' = [crole EXCEPT ![cw.at] = @ \ {cw.acc}] /\ UNCHANGED cbind
          /\ cw' = IF cw.acc = "read" THEN [cw EXCEPT !.pc = "unbind", !.acc = "write"]
                                      ELSE [cw EXCEPT !.pc = "release"]
      BY <2>4 DEF CwUnrole, CwRoleGone
    <3>2. /\ cw.pc = "unrole" /\ cw'.at = cw.at /\ cw'.pc \in {"unbind", "release"}
          /\ cbind[cw.at][cw.acc] = NoBinding
      BY <1>1, <2>4, <3>1 DEF CwWorker, CwUnrole, ClustersHeld
    <3>3. CwBehind' \subseteq CwBehind \cup {cw.acc}
      <4>1. CASE cw.acc = "read"
        BY <1>1, <3>1, <3>2, <4>1 DEF CwBehind, CwWorker
      <4>2. CASE cw.acc = "write"
        BY <1>1, <3>1, <3>2, <4>2 DEF CwBehind, CwWorker, Access
      <4>. QED
        BY <1>1, <4>1, <4>2 DEF Access
    <3>4. \A a \in CwBehind' : cbind'[cw.at][a] = NoBinding /\ a \notin crole'[cw.at]
      BY <1>1, <3>1, <3>2, <3>3 DEF ClustersHeld
    <3>. QED
      BY <2>1, <2>2, <3>2, <3>4 DEF ClustersHeld, HeldAt
  <2>. QED
    BY <1>7, <2>3, <2>4
<1>8. CASE CwRelease
  <2>1. /\ cl' = [cl EXCEPT ![cw.at] = "released"] /\ UNCHANGED <<crole, cbind>>
        /\ cw'.pc = "idle" /\ cw.pc = "release"
    BY <1>8, IdleTyped DEF CwRelease
  <2>2. crole[cw.at] = {} /\ \A a \in Access : cbind[cw.at][a] = NoBinding
    <3>1. CwBehind = Access
      BY <2>1 DEF CwBehind
    <3>. QED
      BY <1>1, <3>1 DEF ClustersHeld
  <2>3. \A c \in Clusters : HeldAt(c)'
    BY <1>1, <1>2, <2>1, <2>2 DEF HeldAt
  <2>. QED
    BY <2>1, <2>3, NothingRemoved
<1>9. CASE CwCallFails
  <2>1. /\ cl[cw.at] \in {"live", "deleting"} /\ UNCHANGED cl
        /\ \A c \in Clusters \ {cw.at} : crole'[c] = crole[c] /\ cbind'[c] = cbind[c]
    BY <1>1, <1>2, <1>9
       DEF CwCallFails, CwRoleStored, CwBindingStored, CwUnbound, CwRoleGone
  <2>2. \A c \in Clusters : HeldAt(c)'
    BY <1>1, <1>2, <2>1 DEF HeldAt
  <2>3. /\ cw'.pc \in {"idle", "failed", "removeFailed"}
        /\ cw'.pc # "idle" => cw'.at = cw.at /\ cw'.acc = "read"
        /\ cw'.pc = "removeFailed" => cw.pc \in {"unbind", "unrole"}
    <3>1. cw' = CwIdle \/ CwFailed
      BY <1>9 DEF CwCallFails
    <3>. QED
      BY <1>1, <3>1, IdleTyped DEF CwFailed, CwWorker
  <2>. QED
    BY <1>2, <2>1, <2>2, <2>3, NothingRemoved
<1>. QED
  BY <1>3, <1>4, <1>5, <1>6, <1>7, <1>8, <1>9 DEF ClusterRound, Reconcile

\* Every step, of the workers and of others.
LEMMA HeldStep ==
  ASSUME TypeOK, OrganizationHeld, OutsideCleared, ClustersHeld, [Next]_vars
  PROVE  OrganizationHeld' /\ OutsideCleared' /\ ClustersHeld'
<1>1. CASE OrganizationRound \/ OwCallFails
  <2>1. UNCHANGED <<clVars, cw>>
    BY <1>1, Zenon
    DEF OrganizationRound, OwAddFinalizer, OwBegin, OwList, OwEnsure, OwRemove,
                OwRelease, OwRetry, OwGiveUp, OwCallFails
  <2>. QED
    BY <1>1, <2>1, OrganizationHeldStep, ClustersAlone
<1>2. CASE ClusterRound \/ CwCallFails \/ \E c \in Clusters : Reconcile(c)
  <2>1. UNCHANGED <<org, labelled, kept, der, ow>>
    BY <1>2, Zenon
    DEF ClusterRound, CwFindOrganization, CwList, CwRole, CwBinding, CwUnbind,
                CwUnrole, CwRelease, CwRetry, CwGiveUp, CwCallFails, Reconcile,
                CwAddFinalizer, CwBegin, Fault, orgVars, budget
  <2>. QED
    BY <1>2, <2>1, ClustersHeldStep, OrganizationAlone
<1>3. CASE Crash
  <2>1. ow'.pc = "idle" /\ cw'.pc = "idle" /\ UNCHANGED <<org, labelled, kept, der, cl, crole, cbind>>
    BY <1>3, IdleTyped DEF Crash, Fault, orgVars, clVars
  <2>2. OrganizationHeld' /\ OutsideCleared'
    BY <2>1, NothingBehind DEF OrganizationHeld, OutsideCleared
  <2>3. ClustersHeld'
    BY <2>1, NothingRemoved DEF ClustersHeld, HeldAt
  <2>. QED
    BY <2>2, <2>3
<1>4. ASSUME \/ UNCHANGED vars \/ ChangeOrganization
             \/ \E s \in Sources : Revoke(s) \/ \E g \in Grants : Grant(s, g)
      PROVE  OrganizationHeld' /\ OutsideCleared' /\ ClustersHeld'
  <2>1. UNCHANGED <<org, labelled, kept, der, ow, clVars, cw>>
    BY <1>4, Zenon DEF vars, clVars, ChangeOrganization, Revoke, Grant, Edit
  <2>. QED
    BY <2>1, OrganizationAlone, ClustersAlone
<1>5. CASE ChangeOrgNamespace
  <2>1. /\ UNCHANGED <<labelled, kept, der, ow, clVars, cw>>
        /\ org \in {"absent", "new", "live"} /\ org' = Changed(org)
    BY <1>5 DEF ChangeOrgNamespace, Edit
  <2>2. (org = "live" => org' = "deleting") /\ (org # "live" => org' \notin {"live", "deleting"})
    BY <2>1 DEF Changed
  <2>3. OrganizationHeld' /\ OutsideCleared'
    BY <2>1, <2>2 DEF OrganizationHeld, OutsideCleared, OwBehind
  <2>. QED
    BY <2>1, <2>3, ClustersAlone
<1>6. ASSUME NEW c \in Clusters, ChangeCluster(c) PROVE OrganizationHeld' /\ OutsideCleared' /\ ClustersHeld'
  <2>1. /\ UNCHANGED <<org, labelled, kept, der, ow, crole, cbind, cw>>
        /\ cl[c] \in {"absent", "new", "live"}
        /\ cl' = [cl EXCEPT ![c] = Changed(cl[c])]
    BY <1>6 DEF ChangeCluster, Edit, orgVars
  <2>2. /\ cl[c] = "live" => Changed(cl[c]) = "deleting"
        /\ cl[c] # "live" => Changed(cl[c]) \notin {"live", "deleting"}
    BY <2>1 DEF Changed
  <2>3. cl \in [Clusters -> Phase] /\ cw.at \in Clusters
    BY Workers DEF TypeOK, CwWorker
  <2>4. ClustersHeld'
    BY <2>1, <2>2, <2>3 DEF ClustersHeld, CwBehind
  <2>. QED
    BY <2>1, <2>4, OrganizationAlone
<1>7. CASE OrgNamespaceGoes
  <2>1. /\ UNCHANGED <<labelled, kept, ow, clVars, cw>> /\ org \in Terminating
        /\ org' = IF org = "released" THEN "absent" ELSE org
        /\ \A d \in Derived : der'[d] \in {der[d], NoBinding}
    BY <1>7 DEF OrgNamespaceGoes, budget
  <2>2. OwBehind' = OwBehind /\ OwBehind \subseteq Derived /\ Outside \subseteq Derived
    BY <2>1 DEF OwBehind, Derived, Outside
  <2>3. OrganizationHeld' /\ OutsideCleared'
    BY <2>1, <2>2 DEF OrganizationHeld, OutsideCleared, Terminating
  <2>. QED
    BY <2>1, <2>3, ClustersAlone
<1>8. ASSUME NEW c \in Clusters, ClusterGoes(c) PROVE OrganizationHeld' /\ OutsideCleared' /\ ClustersHeld'
  <2>1. /\ UNCHANGED <<org, labelled, kept, der, ow, cw>>
        /\ cl[c] \in Terminating
        /\ cl' = [cl EXCEPT ![c] = IF @ = "released" THEN "absent" ELSE @]
        /\ crole' = [crole EXCEPT ![c] = {}]
        /\ cbind' = [cbind EXCEPT ![c] = [a \in Access |-> NoBinding]]
    BY <1>8 DEF ClusterGoes, orgVars, budget
  <2>2. /\ cl \in [Clusters -> Phase] /\ cw.at \in Clusters /\ cw.acc \in Access
        /\ crole \in [Clusters -> SUBSET Access] /\ cbind \in [Clusters -> [Access -> MaybeSubjects]]
        /\ CwBehind' = CwBehind /\ CwBehind \subseteq Access
    BY <2>1, Workers DEF TypeOK, CwWorker, CwBehind, Access
  <2>3. \A d \in Clusters, a \in Access :
          /\ cbind'[d][a] \in {cbind[d][a], NoBinding}
          /\ crole'[d] \subseteq crole[d]
    BY <2>1, <2>2
  <2>4. \A d \in Clusters :
          cl'[d] = cl[d] \/ (cl[d] = "released" /\ cl'[d] = "absent")
    BY <2>1, <2>2
  <2>5. ClustersHeld'
    BY <2>1, <2>2, <2>3, <2>4 DEF ClustersHeld
  <2>. QED
    BY <2>1, <2>5, OrganizationAlone
<1>9. CASE ChangeLabel
  <2>1. /\ UNCHANGED <<org, der, ow, clVars, cw>>
        /\ labelled' = ~labelled /\ kept' = (kept /\ (labelled => org = "absent"))
    BY <1>9 DEF ChangeLabel, Edit
  <2>2. OrganizationHeld' /\ OwBehind' = OwBehind
    BY <2>1 DEF OrganizationHeld, OwBehind
  <2>3. CASE kept' /\ labelled
    <3>1. kept /\ org = "absent" /\ ow.pc = "idle"
      BY <2>1, <2>3 DEF OrganizationHeld
    <3>. QED
      BY <2>1, <2>2, <2>3, <3>1, ClustersAlone DEF OutsideCleared
  <2>4. CASE ~(kept' /\ labelled)
    BY <2>1, <2>2, <2>4, ClustersAlone DEF OutsideCleared
  <2>. QED
    BY <2>3, <2>4
<1>. QED
  BY <1>1, <1>2, <1>3, <1>4, <1>5, <1>6, <1>7, <1>8, <1>9, Zenon DEF Next, Environment

-----------------------------------------------------------------------------
(* What a round is past. *)

\* A step that does not write, or takes away what is inside of a namespace that
\* is emptied.
LEMMA OrganizationStays ==
  ASSUME ow.at \in Derived, OrganizationEnsured, OwEnsured' \subseteq OwEnsured,
         OwEnsured' # {} => ow'.want = ow.want,
         \/ UNCHANGED der
         \/ /\ \A d \in Outside : der'[d] = der[d]
            /\ \A d \in Inside : der'[d] = NoBinding
            /\ OwEnsured' # {} => org' = "deleting",
         OwEnsured' # {} /\ org = "deleting" => org' = "deleting"
  PROVE  OrganizationEnsured'
<1>1. OwEnsured' \subseteq Outside \cup Inside
  <2>1. OwEnsured \subseteq Outside \cup Inside
    BY DEF OwEnsured, Derived, Inside, Outside
  <2>. QED
    BY <2>1
<1>2. ASSUME NEW d \in OwEnsured'
      PROVE  der'[d] = Wanted(ow'.want, d) \/ (d \in Inside /\ OrganizationEmptied')
  <2>1. der[d] = Wanted(ow.want, d) \/ (d \in Inside /\ OrganizationEmptied)
    BY <1>2 DEF OrganizationEnsured
  <2>2. ow'.want = ow.want
    BY <1>2
  <2>3. CASE UNCHANGED der
    BY <1>2, <2>1, <2>2, <2>3 DEF OrganizationEmptied
  <2>4. CASE /\ \A e \in Outside : der'[e] = der[e]
             /\ \A e \in Inside : der'[e] = NoBinding
             /\ org' = "deleting"
    BY <1>1, <1>2, <2>1, <2>2, <2>4 DEF OrganizationEmptied
  <2>. QED
    BY <1>2, <2>3, <2>4
<1>. QED
  BY <1>2 DEF OrganizationEnsured, Wanted

\* Every step keeps what a round of externalresources is past.
LEMMA OrganizationEnsuredStep ==
  ASSUME TypeOK, OrganizationHeld, OrganizationEnsured, [Next]_vars
  PROVE  OrganizationEnsured'
<1>1. /\ ow \in OwWorker /\ ow.at \in Derived /\ der \in [Derived -> MaybeSubjects]
      /\ ow.pc # "idle" => org \in {"live", "deleting"}
  BY Workers DEF TypeOK, OwWorker, OrganizationHeld
<1>2. ASSUME UNCHANGED <<org, der, ow>> PROVE OrganizationEnsured'
  BY <1>1, <1>2, OrganizationStays DEF OwEnsured
<1>3. ASSUME OwEnsured' = {} PROVE OrganizationEnsured'
  BY <1>3 DEF OrganizationEnsured
<1>4. ow'.pc # "ensure" => OwEnsured' = {}
  BY DEF OwEnsured
<1>5. CASE OwEnsure
  <2>1. CASE OwAccepted /\ ow.at # "writeCluster"
    <3>1. /\ der' = [der EXCEPT ![ow.at] = Wanted(ow.want, ow.at)] /\ UNCHANGED org
          /\ ow.pc = "ensure" /\ ow'.pc = "ensure" /\ ow'.want = ow.want
          /\ ow'.at = After[ow.at]
      BY <1>1, <1>5, <2>1, IdleTyped, NextFacts DEF OwEnsure, OwStored
    <3>2. OwEnsured' = OwEnsured \cup {ow.at} /\ ow.at \notin OwEnsured
          /\ OwEnsured \cap Inside = {}
      <4>1. CASE ow.at = "catalogs"
        BY <3>1, <4>1, AfterFacts DEF OwEnsured, Inside
      <4>2. CASE ow.at = "releases"
        BY <3>1, <4>2, AfterFacts DEF OwEnsured, Inside
      <4>3. CASE ow.at = "organization"
        BY <3>1, <4>3, AfterFacts DEF OwEnsured, Inside, Outside
      <4>4. CASE ow.at = "readCluster"
        BY <3>1, <4>4, AfterFacts DEF OwEnsured, Inside, Outside
      <4>. QED
        BY <1>1, <2>1, <4>1, <4>2, <4>3, <4>4 DEF Derived, Inside, Outside
    <3>3. ASSUME NEW d \in OwEnsured' PROVE der'[d] = Wanted(ow.want, d)
      BY <1>1, <3>1, <3>2, <3>3 DEF OrganizationEnsured
    <3>. QED
      BY <3>1, <3>3 DEF OrganizationEnsured, Wanted
  <2>2. CASE ~(OwAccepted /\ ow.at # "writeCluster")
    <3>1. ow' = OwIdle \/ OwFailed
      BY <1>1, <1>5, <2>2, IdleTyped, NextFacts DEF OwEnsure
    <3>2. ow'.pc # "ensure"
      BY <3>1, IdleTyped DEF OwFailed, OwWorker
    <3>. QED
      BY <1>3, <1>4, <3>2
  <2>. QED
    BY <2>1, <2>2
<1>6. CASE OwAddFinalizer \/ OwBegin \/ OwRelease \/ OwRetry \/ OwGiveUp \/ OwCallFails \/ Crash
  <2>1. ow'.pc # "ensure"
    BY <1>1, <1>6, IdleTyped
    DEF OwAddFinalizer, OwBegin, OwRelease, OwRetry, OwGiveUp, OwCallFails, Crash, OwAt,
        OwFailed, OwWorker
  <2>. QED
    BY <1>3, <1>4, <2>1
<1>7. CASE OwList
  <2>1. ow'.pc # "ensure" \/ ow'.at = "catalogs"
    BY <1>7, IdleTyped DEF OwList
  <2>. QED
    BY <1>3, <2>1 DEF OwEnsured
<1>8. CASE OwRemove
  <2>1. ow'.pc # "ensure"
    BY <1>8, OwBehindGrows DEF OwRemove
  <2>. QED
    BY <1>3, <1>4, <2>1
<1>9. CASE ClusterRound \/ CwCallFails \/ \E c \in Clusters : Reconcile(c)
  <2>1. UNCHANGED <<org, der, ow>>
    BY <1>9, Zenon
    DEF ClusterRound, CwFindOrganization, CwList, CwRole, CwBinding, CwUnbind,
                CwUnrole, CwRelease, CwRetry, CwGiveUp, CwCallFails, Reconcile,
                CwAddFinalizer, CwBegin, orgVars
  <2>. QED
    BY <1>2, <2>1
<1>10. CASE \/ UNCHANGED vars \/ ChangeOrganization \/ ChangeLabel
            \/ \E s \in Sources : Revoke(s) \/ \E g \in Grants : Grant(s, g)
            \/ \E c \in Clusters : ChangeCluster(c) \/ ClusterGoes(c)
  <2>1. UNCHANGED <<org, der, ow>>
    BY <1>10, Zenon
    DEF vars, ChangeOrganization, ChangeLabel, Revoke, Grant, ChangeCluster, ClusterGoes, Edit,
        orgVars
  <2>. QED
    BY <1>2, <2>1
<1>11. CASE ChangeOrgNamespace
  <2>1. /\ UNCHANGED <<der, ow>> /\ org \in {"absent", "new", "live"}
    BY <1>11 DEF ChangeOrgNamespace, Edit
  <2>2. OwEnsured' = OwEnsured
    BY <2>1 DEF OwEnsured
  <2>. QED
    BY <1>1, <2>1, <2>2, OrganizationStays
<1>12. CASE OrgNamespaceGoes
  <2>1. /\ UNCHANGED ow /\ org \in Terminating
        /\ org' = IF org = "released" THEN "absent" ELSE org
        /\ \A d \in Outside : der'[d] = der[d]
        /\ \A d \in Inside : der'[d] = NoBinding
    BY <1>12 DEF OrgNamespaceGoes, Derived, Outside, Inside
  <2>2. OwEnsured' = OwEnsured /\ (OwEnsured # {} => ow.pc # "idle")
    BY <2>1 DEF OwEnsured
  <2>3. OwEnsured # {} => org' = "deleting"
    BY <1>1, <2>1, <2>2 DEF Terminating
  <2>. QED
    BY <1>1, <2>1, <2>2, <2>3, OrganizationStays
<1>. QED
  BY <1>5, <1>6, <1>7, <1>8, <1>9, <1>10, <1>11, <1>12, Zenon
  DEF Next, Environment, OrganizationRound

\* A step that takes the worker out of its writes leaves nothing to keep.
LEMMA ClusterPasses ==
  ASSUME \/ cw'.pc \notin {"role", "binding"}
         \/ cw'.pc = "role" /\ cw'.acc = "read",
         cw'.pc \in {"org", "list", "failed"} => cw'.acc = "read"
  PROVE  ClusterEnsured'
  BY DEF ClusterEnsured

\* Every step keeps what a round of clusternamespaceresources is past.
LEMMA ClusterEnsuredStep ==
  ASSUME TypeOK, ClustersHeld, ClusterEnsured, [Next]_vars
  PROVE  ClusterEnsured'
<1>1. /\ cw \in CwWorker /\ cw.at \in Clusters /\ cw.acc \in Access
      /\ cl \in [Clusters -> Phase] /\ crole \in [Clusters -> SUBSET Access]
      /\ cbind \in [Clusters -> [Access -> MaybeSubjects]]
      /\ cw.pc # "idle" => cl[cw.at] \in {"live", "deleting"}
  BY Workers DEF TypeOK, CwWorker, ClustersHeld
<1>2. ASSUME UNCHANGED <<clVars, cw>> PROVE ClusterEnsured'
  BY <1>2 DEF ClusterEnsured, ClusterEmptied, clVars
<1>3. CASE CwFindOrganization \/ CwList \/ CwRetry \/ CwGiveUp
  <2>1. CASE CwFindOrganization
    BY <1>1, <2>1, IdleTyped, ClusterPasses
    DEF CwFindOrganization, CwFailed, CwWorker, ClusterEnsured
  <2>2. CASE CwList
    BY <1>1, <2>2, IdleTyped, ClusterPasses DEF CwList, CwWorker, ClusterEnsured
  <2>3. CASE CwRetry
    BY <1>1, <2>3, ClusterPasses DEF CwRetry, CwWorker, ClusterEnsured
  <2>4. CASE CwGiveUp
    BY <2>4, IdleTyped, ClusterPasses DEF CwGiveUp
  <2>. QED
    BY <1>3, <2>1, <2>2, <2>3, <2>4
<1>4. ASSUME CwFailed PROVE ClusterEnsured'
  <2>1. cw'.pc \in {"failed", "removeFailed"} /\ cw'.acc = "read"
    BY <1>4, IdleTyped DEF CwFailed, CwWorker
  <2>. QED
    BY <2>1, ClusterPasses
<1>5. CASE CwRole
  <2>1. CASE CwAccepted(cw.acc \in crole[cw.at])
    <3>1. /\ cw' = [cw EXCEPT !.pc = "binding"] /\ UNCHANGED cbind /\ cw.pc = "role"
          /\ crole' = [crole EXCEPT ![cw.at] = @ \cup {cw.acc}]
      BY <1>5, <2>1 DEF CwRole, CwRoleStored
    <3>2. ~ClusterEmptied
      BY <2>1 DEF CwAccepted, ClusterEmptied, Terminating
    <3>3. /\ cw'.pc = "binding" /\ cw'.at = cw.at /\ cw'.acc = cw.acc /\ cw'.want = cw.want
          /\ crole'[cw.at] = crole[cw.at] \cup {cw.acc}
      BY <1>1, <3>1 DEF CwWorker
    <3>. QED
      BY <3>1, <3>2, <3>3 DEF ClusterEnsured
  <2>. QED
    BY <1>4, <1>5, <2>1 DEF CwRole
<1>6. CASE CwBinding
  <2>1. CASE CwAccepted(cbind[cw.at][cw.acc] # NoBinding) /\ cw.acc = "read"
    <3>1. /\ cw' = [cw EXCEPT !.pc = "role", !.acc = "write"] /\ UNCHANGED crole
          /\ cw.pc = "binding"
          /\ cbind' = [cbind EXCEPT ![cw.at][cw.acc] = cw.want[cw.acc]]
      BY <1>6, <2>1 DEF CwBinding, CwBindingStored
    <3>2. ~ClusterEmptied
      BY <1>1, <2>1 DEF CwAccepted, ClusterEmptied, Terminating
    <3>3. /\ cw'.pc = "role" /\ cw'.at = cw.at /\ cw'.want = cw.want
          /\ cbind'[cw.at]["read"] = cw.want["read"]
      BY <1>1, <2>1, <3>1 DEF CwWorker
    <3>. QED
      BY <2>1, <3>1, <3>2, <3>3 DEF ClusterEnsured
  <2>2. CASE CwAccepted(cbind[cw.at][cw.acc] # NoBinding) /\ cw.acc # "read"
    BY <1>6, <2>2, IdleTyped, ClusterPasses DEF CwBinding
  <2>. QED
    BY <1>4, <1>6, <2>1, <2>2 DEF CwBinding
<1>7. CASE CwUnbind \/ CwUnrole \/ CwRelease
  <2>1. cw'.pc \in {"unrole", "unbind", "release", "idle"}
    BY <1>1, <1>7, IdleTyped DEF CwUnbind, CwUnrole, CwRelease, CwWorker
  <2>. QED
    BY <2>1, ClusterPasses
<1>8. CASE CwCallFails
  BY <1>4, <1>8, IdleTyped, ClusterPasses DEF CwCallFails
<1>9. CASE Crash
  BY <1>9, IdleTyped, ClusterPasses DEF Crash
<1>10. ASSUME NEW c \in Clusters, Reconcile(c) PROVE ClusterEnsured'
  <2>1. CASE CwAddFinalizer(c)
    BY <2>1, ClusterPasses DEF CwAddFinalizer
  <2>2. CASE CwBegin(c)
    <3>1. cw'.pc \in {"org", "unbind"} /\ cw'.acc = "read"
      BY <1>10, <2>2, IdleTyped DEF CwBegin, CwWorker
    <3>. QED
      BY <3>1, ClusterPasses
  <2>. QED
    BY <1>10, <2>1, <2>2 DEF Reconcile
<1>11. ASSUME NEW c \in Clusters, ChangeCluster(c) PROVE ClusterEnsured'
  <2>1. /\ UNCHANGED <<crole, cbind, cw>> /\ cl[c] \in {"absent", "new", "live"}
        /\ cl' = [cl EXCEPT ![c] = Changed(@)]
    BY <1>11 DEF ChangeCluster, Edit
  <2>2. cl[cw.at] = "deleting" => cl'[cw.at] = "deleting"
    BY <1>1, <2>1
  <2>. QED
    BY <2>1, <2>2 DEF ClusterEnsured, ClusterEmptied
<1>12. ASSUME NEW c \in Clusters, ClusterGoes(c) PROVE ClusterEnsured'
  <2>1. /\ UNCHANGED cw /\ cl[c] \in Terminating
        /\ cl' = [cl EXCEPT ![c] = IF @ = "released" THEN "absent" ELSE @]
        /\ crole' = [crole EXCEPT ![c] = {}]
        /\ cbind' = [cbind EXCEPT ![c] = [a \in Access |-> NoBinding]]
    BY <1>12 DEF ClusterGoes
  <2>2. CASE cw.pc \notin {"role", "binding"}
    BY <2>1, <2>2, ClusterPasses DEF ClusterEnsured
  <2>3. CASE cw.pc \in {"role", "binding"} /\ c = cw.at
    <3>1. cl[c] = "deleting"
      BY <1>1, <2>1, <2>3 DEF Terminating
    <3>2. ClusterEmptied'
      BY <1>1, <2>1, <2>3, <3>1 DEF ClusterEmptied
    <3>. QED
      BY <2>1, <2>3, <3>2 DEF ClusterEnsured
  <2>4. CASE c # cw.at
    <3>1. cl'[cw.at] = cl[cw.at] /\ crole'[cw.at] = crole[cw.at] /\ cbind'[cw.at] = cbind[cw.at]
      BY <1>1, <2>1, <2>4
    <3>. QED
      BY <2>1, <3>1 DEF ClusterEnsured, ClusterEmptied
  <2>. QED
    BY <2>2, <2>3, <2>4
<1>13. CASE OrganizationRound \/ OwCallFails
  <2>1. UNCHANGED <<clVars, cw>>
    BY <1>13, Zenon
    DEF OrganizationRound, OwAddFinalizer, OwBegin, OwList, OwEnsure, OwRemove, OwRelease,
        OwRetry, OwGiveUp, OwCallFails
  <2>. QED
    BY <1>2, <2>1
<1>14. CASE \/ UNCHANGED vars \/ ChangeOrganization \/ ChangeLabel
            \/ ChangeOrgNamespace \/ OrgNamespaceGoes
            \/ \E s \in Sources : Revoke(s) \/ \E g \in Grants : Grant(s, g)
  <2>1. UNCHANGED <<clVars, cw>>
    BY <1>14, Zenon
    DEF vars, clVars, ChangeOrganization, ChangeLabel, ChangeOrgNamespace, OrgNamespaceGoes,
        Revoke, Grant, Edit
  <2>. QED
    BY <1>2, <2>1
<1>. QED
  BY <1>3, <1>5, <1>6, <1>7, <1>8, <1>9, <1>10, <1>11, <1>12, <1>13, <1>14, Zenon
  DEF Next, Environment, ClusterRound

\* At the start no round is past anything.
LEMMA EnsuredInit == Init => OrganizationEnsured /\ ClusterEnsured
  BY IdleTyped DEF Init, OrganizationEnsured, OwEnsured, ClusterEnsured

\* A round that ends well has passed all its bindings, and the last one too.
LEMMA RoundsEndEnsured ==
  ASSUME IInv, Next, faults' = faults
  PROVE  /\ ow.pc = "ensure" /\ ow'.pc = "idle" =>
              \A d \in Derived : der'[d] = Wanted(ow.want, d)
         /\ cw.pc = "binding" /\ cw'.pc = "idle" =>
              \A a \in Access : a \in crole'[cw.at] /\ cbind'[cw.at][a] = cw.want[a]
<1>1. /\ ow \in OwWorker /\ cw \in CwWorker /\ der \in [Derived -> MaybeSubjects]
      /\ crole \in [Clusters -> SUBSET Access]
      /\ cbind \in [Clusters -> [Access -> MaybeSubjects]] /\ faults \in Nat
  BY Workers DEF IInv, TypeOK
<1>2. ~OwCallFails /\ ~CwCallFails /\ ~Crash
  <2>1. ~Fault
    BY <1>1 DEF Fault
  <2>. QED
    BY <2>1, Zenon DEF OwCallFails, CwCallFails, Crash
<1>3. ASSUME ow.pc = "ensure", ow'.pc = "idle"
      PROVE  \A d \in Derived : der'[d] = Wanted(ow.want, d)
  <2>1. ow' # ow
    BY <1>3
  <2>2. OrganizationRound
    BY <1>2, <2>1, Zenon
    DEF Next, ClusterRound, CwFindOrganization, CwList, CwRole, CwBinding, CwUnbind, CwUnrole,
        CwRelease, CwRetry, CwGiveUp, Reconcile, CwAddFinalizer, CwBegin, ClusterGoes,
        OrgNamespaceGoes, Environment, ChangeOrganization, ChangeLabel, ChangeOrgNamespace,
        ChangeCluster, Revoke, Grant, Edit
  <2>3. OwEnsure
    BY <1>3, <2>2
    DEF OrganizationRound, OwAddFinalizer, OwBegin, OwList, OwRemove, OwRelease, OwRetry,
        OwGiveUp
  <2>4. OwAccepted
    BY <1>1, <1>3, <2>3, IdleTyped DEF OwEnsure, OwFailed, OwWorker
  <2>5. ow.at = "writeCluster"
    BY <1>1, <1>3, <2>3, <2>4, IdleTyped, NextFacts DEF OwEnsure
  <2>6. ~OrganizationEmptied
    BY <2>4, <2>5 DEF OwAccepted, OrganizationEmptied, Inside, Terminating
  <2>7. OwEnsured = Derived \ {"writeCluster"}
    BY <1>3, <2>5 DEF OwEnsured, Derived, Inside, Outside
  <2>8. der' = [der EXCEPT !["writeCluster"] = Wanted(ow.want, "writeCluster")]
    BY <2>3, <2>4, <2>5 DEF OwEnsure, OwStored
  <2>. QED
    BY <1>1, <2>6, <2>7, <2>8 DEF IInv, OrganizationEnsured
<1>4. ASSUME cw.pc = "binding", cw'.pc = "idle"
      PROVE  \A a \in Access : a \in crole'[cw.at] /\ cbind'[cw.at][a] = cw.want[a]
  <2>1. cw' # cw
    BY <1>4
  <2>2. ClusterRound \/ \E c \in Clusters : Reconcile(c)
    BY <1>2, <2>1, Zenon
    DEF Next, OrganizationRound, OwAddFinalizer, OwBegin, OwList, OwEnsure, OwRemove,
        OwRelease, OwRetry, OwGiveUp, ClusterGoes, OrgNamespaceGoes, Environment,
        ChangeOrganization, ChangeLabel, ChangeOrgNamespace, ChangeCluster, Revoke, Grant, Edit
  <2>3. CwBinding
    BY <1>4, <2>2
    DEF ClusterRound, CwFindOrganization, CwList, CwRole, CwUnbind, CwUnrole, CwRelease,
        CwRetry, CwGiveUp, Reconcile, CwAddFinalizer, CwBegin
  <2>4. CwAccepted(cbind[cw.at][cw.acc] # NoBinding)
    BY <1>1, <1>4, <2>3, IdleTyped DEF CwBinding, CwFailed, CwWorker
  <2>5. cw.acc = "write"
    BY <1>1, <1>4, <2>3, <2>4 DEF CwBinding, CwWorker, Access
  <2>6. ~ClusterEmptied
    BY <2>4 DEF CwAccepted, ClusterEmptied, Terminating, IInv, TypeOK
  <2>7. /\ cbind' = [cbind EXCEPT ![cw.at]["write"] = cw.want["write"]]
        /\ UNCHANGED crole
    BY <2>3, <2>4, <2>5 DEF CwBinding, CwBindingStored
  <2>8. /\ "write" \in crole[cw.at] /\ "read" \in crole[cw.at]
        /\ cbind[cw.at]["read"] = cw.want["read"]
    BY <1>4, <2>5, <2>6 DEF IInv, ClusterEnsured
  <2>. QED
    BY <1>1, <2>7, <2>8 DEF CwWorker, Access
<1>. QED
  BY <1>3, <1>4

-----------------------------------------------------------------------------
(* The theorems. *)

\* The inductive invariant of the spread of access.
THEOREM Inductive == Spec => []IInv
<1>1. Init => IInv
  BY SpreadInit, HeldInit, EnsuredInit DEF IInv, Spread, WasGiven
<1>2. IInv /\ [Next]_vars => IInv'
  BY SpreadStep, HeldStep, OrganizationEnsuredStep, ClusterEnsuredStep
  DEF IInv, Spread, WasGiven
<1>. QED
  BY <1>1, <1>2, PTL DEF Spec

\* The variables keep their types; in particular, only subjects are ever bound.
THEOREM TypeCorrect == Spec => []TypeOK
<1>1. IInv => TypeOK
  BY DEF IInv
<1>. QED
  BY <1>1, Inductive, PTL

\* getUniqueSubjects and referencedClusterRoles hand on what was given: nobody gets
\* through externalresources and clusternamespaceresources what no RoleBinding of
\* the organization ever gave.
THEOREM NothingEscalates == Spec => []NoEscalation
<1>1. IInv => NoEscalation
  BY DEF IInv
<1>. QED
  BY <1>1, Inductive, PTL

\* EnsureDeleted of both resources: nothing is left of a namespace's access when
\* its finalizer is dropped, and nothing comes back, but for an organization
\* namespace that lost its label while it was there.
THEOREM DeletionsRevoke == Spec => []DeletionRevokes
<1>1. IInv => DeletionRevokes
  BY DEF IInv, OutsideCleared, ClustersHeld, DeletionRevokes
<1>. QED
  BY <1>1, Inductive, PTL

\* ensureAll with ensureClusterNamespaceAccess, and EnsureCreated of
\* clusternamespaceresources: a round that ends well leaves what its one listing
\* said, whatever users and Kubernetes did to the namespaces meanwhile.
THEOREM RoundsAreExact == Spec => RoundsAgree
<1>1. IInv /\ [Next]_vars =>
        [/\ ow.pc = "ensure" /\ ow'.pc = "idle" /\ faults' = faults =>
              \A d \in Derived : der'[d] = Wanted(ow.want, d)
         /\ cw.pc = "binding" /\ cw'.pc = "idle" /\ faults' = faults =>
              \A a \in Access : a \in crole'[cw.at] /\ cbind'[cw.at][a] = cw.want[a]]_vars
  BY RoundsEndEnsured
<1>. QED
  BY <1>1, Inductive, PTL DEF Spec, RoundsAgree
=============================================================================
