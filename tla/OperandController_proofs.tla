---------------------- MODULE OperandController_proofs ----------------------
(***************************************************************************)
(* Proofs about OperandController, for any steps, specs and bounds: type   *)
(* correctness, that create-only mode leaves existing objects alone, and,  *)
(* while no API request fails, that the controller implements OperandCR    *)
(* and never reverts an edit of the spec.  The last part, what a pass may  *)
(* publish, is for OperandRest_proofs.                                     *)
(***************************************************************************)
EXTENDS OperandController, InformerTheorems

(***************************************************************************)
(* The pure parts of a pass.                                               *)
(***************************************************************************)

\* The step after the i-th is a later one, or one past the last.
LEMMA NextStepType ==
    ASSUME NEW i \in Nat, NEW spec
    PROVE  /\ NextStep(i, spec) \in 1..(Len(Steps) + 1)
           /\ i = 0 => NextStep(i, spec) \in DOMAIN Steps
<1> DEFINE later == {j \in DOMAIN Steps : j > i /\ Applies(Steps[j], spec)}
<1>1. DOMAIN Steps = 1..Len(Steps) /\ Len(Steps) \in Nat
  BY StepsAssumption
<1>2. CASE later = {}
  <2>1. i # 0
    BY <1>1, <1>2, StepsAssumption DEF Applies
  <2>2. NextStep(i, spec) = Len(Steps) + 1
    BY <1>2 DEF NextStep
  <2>3. QED
    BY <1>1, <2>1, <2>2
<1>3. CASE later # {}
  <2>1. later \in SUBSET Nat
    BY <1>1
  <2>2. \E j \in later : \A k \in later : j <= k
    <3> HIDE DEF later
    <3> QED BY <1>3, <2>1, LeastElement
  <2>3. (CHOOSE j \in later : \A k \in later : j <= k) \in later
    <3> HIDE DEF later
    <3> QED BY <2>2
  <2>4. NextStep(i, spec) \in later
    BY <1>3, <2>3 DEF NextStep
  <2>5. QED
    BY <1>1, <2>4
<1>4. QED
  BY <1>2, <1>3

\* The conditions a step may report in.
LEMMA CondTypesLemma ==
    /\ "Ready" \in CondTypes /\ "CreateOnlyMode" \in CondTypes
    /\ \A i \in DOMAIN Steps :
          /\ Steps[i] \in StepType
          /\ Steps[i].cond \in CondTypes \ NotOperational
<1>1. \A i \in DOMAIN Steps : Steps[i] \in StepType
  BY StepsAssumption
<1>2. QED
  BY <1>1 DEF CondTypes, StepType

\* The summary is a verdict.
LEMMA ReadySummary ==
    ASSUME NEW conds
    PROVE  SetReadyCondition(conds) \in {"True", "False", "Progressing"}
BY DEF SetReadyCondition

\* What ApplyStatus publishes, and what it makes of Ready.
LEMMA PublishedType ==
    ASSUME NEW old \in [CondTypes -> CondVal], NEW conds \in [CondTypes -> CondVal]
    PROVE  /\ Published(old, conds) \in [CondTypes -> CondVal]
           /\ Published(old, conds)["Ready"] = IF conds["Ready"] = "None"
                                               THEN SetReadyCondition(conds) ELSE conds["Ready"]
<1> DEFINE ready == IF conds["Ready"] = "None" THEN SetReadyCondition(conds)
                                               ELSE conds["Ready"]
<1>1. ready \in CondVal
  BY ReadySummary, CondTypesLemma DEF CondVal
<1>2. Published(old, conds) = [c \in CondTypes |-> IF c = "Ready" THEN ready
                                ELSE IF conds[c] = "None" THEN old[c] ELSE conds[c]]
  BY DEF Published
<1> HIDE DEF ready
<1>3. Published(old, conds) \in [CondTypes -> CondVal] /\ Published(old, conds)["Ready"] = ready
  BY <1>1, <1>2, CondTypesLemma
<1>4. QED
  BY <1>3 DEF ready

\* The empty CR, object and pass, and a CR as created.
LEMMA EmptyTypes ==
    /\ NoConditions(CondTypes) \in [CondTypes -> CondVal]
    /\ NoCR \in CRVersion /\ NoCR.uid = 0 /\ NoCR.conds["Ready"] = "None"
    /\ NoObject \in ObjectVersion /\ ~NoObject.exists
    /\ NoPass \in Pass /\ NoPass.cr = NoCR
    /\ \A u \in 1..MaxUid, s \in Specs :
          /\ NewCR(u, s) \in CRVersion
          /\ NewCR(u, s).conds["Ready"] = "None"
<1> USE BoundsAssumption
<1>1. /\ NoConditions(CondTypes) \in [CondTypes -> CondVal]
      /\ NoConditions(CondTypes)["Ready"] = "None"
  BY CondTypesLemma DEF NoConditions, CondVal
<1>2. NoCR \in CRVersion /\ NoCR.uid = 0 /\ NoCR.conds["Ready"] = "None"
  BY <1>1 DEF NoCR, CRVersion
<1>3. NoObject \in ObjectVersion /\ ~NoObject.exists
  BY DEF NoObject, ObjectVersion, NoContent
<1>4. NoPass \in Pass /\ NoPass.cr = NoCR
  BY <1>1, <1>2, StepsAssumption DEF NoPass, Pass
<1>5. ASSUME NEW u \in 1..MaxUid, NEW s \in Specs
      PROVE  /\ NewCR(u, s) \in CRVersion
             /\ NewCR(u, s).conds["Ready"] = "None"
  BY <1>1 DEF NewCR, CRVersion
<1>6. QED
  BY <1>1, <1>2, <1>3, <1>4, <1>5

\* Generated objects, and the ones an update leaves behind.
LEMMA DesiredType ==
    ASSUME NEW step \in StepType, NEW cr \in CRVersion, NEW u \in 0..MaxUid
    PROVE  /\ Desired(step, cr, u) \in ObjectVersion
           /\ \A v \in ObjectVersion : Updated(v, Desired(step, cr, u)) \in ObjectVersion
<1> USE BoundsAssumption
<1>1. cr.spec.id \in Nat /\ cr.uid \in 0..MaxUid
  BY SpecsAssumption DEF CRVersion, NoSpec, SpecType
<1>2. Desired(step, cr, u) \in ObjectVersion
  BY <1>1 DEF Desired, ObjectVersion
<1>3. ASSUME NEW d \in ObjectVersion, NEW v \in ObjectVersion PROVE Updated(v, d) \in ObjectVersion
  BY DEF Updated, ObjectVersion
<1>4. QED
  BY <1>2, <1>3

\* What an earlier process left behind.
LEMMA DeployedType ==
    ASSUME NEW s \in Specs
    PROVE  /\ \A o \in Objects : Deployed(o, s) \in ObjectVersion
           /\ DeployedConds(s) \in [CondTypes -> CondVal]
           /\ DeployedConds(s)["Ready"] \in {"True", "False", "Progressing"}
<1> USE BoundsAssumption
<1>1. ASSUME NEW o \in Objects PROVE Deployed(o, s) \in ObjectVersion
  <2> DEFINE use == {i \in StepsOf(o) : /\ Steps[i].kind # "health"
                                        /\ Applies(Steps[i], s)
                                        /\ Steps[i].kind = "route" => "managedRoute" \in s.enabled}
             step == Steps[CHOOSE i \in use : TRUE]
  <2>1. CASE use = {}
    BY <2>1, EmptyTypes DEF Deployed
  <2>2. CASE use # {}
    <3>1. (CHOOSE i \in use : TRUE) \in use
      BY <2>2
    <3>2. step \in StepType
      BY <3>1, CondTypesLemma DEF StepsOf
    <3>3. Deployed(o, s) = [Desired(step, NewCR(1, s), 1) EXCEPT !.healthy = o \in Workloads]
      BY <2>2 DEF Deployed
    <3> HIDE DEF step
    <3>4. NewCR(1, s) \in CRVersion
      BY EmptyTypes
    <3>5. Desired(step, NewCR(1, s), 1) \in ObjectVersion
      BY <3>2, <3>4, DesiredType
    <3>6. (o \in Workloads) \in BOOLEAN
      OBVIOUS
    <3>7. QED
      BY <3>3, <3>5, <3>6, Zenon DEF ObjectVersion
  <2>3. QED
    BY <2>1, <2>2
<1> DEFINE conds == [c \in CondTypes |->
                      IF \A i \in DOMAIN Steps : Steps[i].cond # c \/ ~Applies(Steps[i], s)
                      THEN "None"
                      ELSE IF c = "RouteAvailable" /\ "managedRoute" \notin s.enabled
                      THEN "False" ELSE "True"]
<1>2. DeployedConds(s) = Published(NoConditions(CondTypes), conds)
  BY DEF DeployedConds
<1>3. conds \in [CondTypes -> CondVal]
  BY DEF CondVal
<1>4. conds["Ready"] = "None"
  BY CondTypesLemma DEF NotOperational
<1> HIDE DEF conds
<1>5. /\ DeployedConds(s) \in [CondTypes -> CondVal]
      /\ DeployedConds(s)["Ready"] \in {"True", "False", "Progressing"}
  BY <1>2, <1>3, <1>4, PublishedType, EmptyTypes, ReadySummary
<1>6. QED
  BY <1>1, <1>5

(***************************************************************************)
(* Type correctness.                                                       *)
(***************************************************************************)
\* The initial states are well typed.
LEMMA TypeInit == Init => TypeOK
<1> SUFFICES ASSUME Init PROVE TypeOK
  OBVIOUS
<1> USE BoundsAssumption
<1> DEFINE Single == /\ \E v \in CRVersion : crW = <<v>>
                     /\ \E f \in [Objects -> ObjectVersion] : objW = [o \in Objects |-> <<f[o]>>]
                     /\ \E u \in 0..MaxUid : ztwimW = <<u>>
<1>1. Single
  <2> DEFINE none == [o \in Objects |-> NoObject]
  <2>1. none \in [Objects -> ObjectVersion]
    BY EmptyTypes
  <2>2. CASE /\ crW = <<NoCR>> /\ ztwimW \in {<<0>>, <<1>>}
             /\ objW = [o \in Objects |-> <<NoObject>>]
    <3>1. objW = [o \in Objects |-> <<none[o]>>]
      BY <2>2
    <3> HIDE DEF none
    <3>2. QED
      BY <2>1, <2>2, <3>1, EmptyTypes
  <2>3. ASSUME NEW s \in Specs,
               crW = <<NewCR(1, s)>>, ztwimW \in {<< 0 >>, << 1 >>},
               objW = [o \in Objects |-> <<NoObject>>]
        PROVE  Single
    <3>1. objW = [o \in Objects |-> <<none[o]>>]
      BY <2>3
    <3>2. NewCR(1, s) \in CRVersion
      BY EmptyTypes
    <3> HIDE DEF none
    <3>3. QED
      BY <2>1, <2>3, <3>1, <3>2
  <2>4. ASSUME NEW s \in Specs,
               crW = <<[uid |-> 1, spec |-> s, owner |-> 1, conds |-> DeployedConds(s)]>>,
               ztwimW = << 1 >>, objW = [o \in Objects |-> <<Deployed(o, s)>>]
        PROVE  Single
    <3> DEFINE f == [o \in Objects |-> Deployed(o, s)]
    <3>1. f \in [Objects -> ObjectVersion] /\ objW = [o \in Objects |-> <<f[o]>>]
      BY <2>4, DeployedType
    <3>2. [uid |-> 1, spec |-> s, owner |-> 1, conds |-> DeployedConds(s)] \in CRVersion
      BY DeployedType DEF CRVersion
    <3> HIDE DEF f
    <3>3. QED
      BY <2>4, <3>1, <3>2
  <2>5. QED
    BY <2>2, <2>3, <2>4 DEF Init
<1>2. crW \in Seq(CRVersion) /\ Len(crW) > 0
  BY <1>1, SingletonLemma
<1>3. ztwimW \in Seq(0..MaxUid) /\ Len(ztwimW) > 0
  BY <1>1, SingletonLemma
<1>4. objW \in [Objects -> Seq(ObjectVersion)] /\ \A o \in Objects : Len(objW[o]) > 0
  BY <1>1, SingletonLemma
<1>5. pass \in Pass /\ pc = "idle"
  BY EmptyTypes DEF Init
<1>6. queued \in BOOLEAN /\ lost \in BOOLEAN /\ createOnly \in BOOLEAN
  BY DEF Init, SomethingListed
<1>7. changes \in 0..MaxChanges /\ faults \in 0..MaxFaults
  <2>1. changes = MaxChanges /\ faults = MaxFaults
    BY DEF Init
  <2>2. QED
    BY <2>1
<1>8. QED
  BY <1>2, <1>3, <1>4, <1>5, <1>6, <1>7 DEF TypeOK

\* The types of the parts of the state an action reads.
LEMMA PartTypes ==
    ASSUME TypeOK
    PROVE  /\ Cached(crW) \in CRVersion /\ Api(crW) \in CRVersion
           /\ Cached(ztwimW) \in 0..MaxUid /\ Api(ztwimW) \in 0..MaxUid
           /\ \A o \in Objects : Api(objW[o]) \in ObjectVersion
           /\ pass \in Pass /\ pass.cr \in CRVersion
           /\ pass.conds \in [CondTypes -> CondVal] /\ pass.cr.conds \in [CondTypes -> CondVal]
<1>1. Cached(crW) \in CRVersion /\ Api(crW) \in CRVersion
  BY ApiLemma DEF TypeOK
<1>2. Cached(ztwimW) \in 0..MaxUid /\ Api(ztwimW) \in 0..MaxUid
  BY ApiLemma DEF TypeOK
<1>3. \A o \in Objects : Api(objW[o]) \in ObjectVersion
  BY ApiLemma DEF TypeOK
<1>4. pass \in Pass /\ pass.cr \in CRVersion /\ pass.conds \in [CondTypes -> CondVal]
  BY DEF TypeOK, Pass
<1>5. pass.cr.conds \in [CondTypes -> CondVal]
  BY <1>4 DEF CRVersion
<1>6. QED
  BY <1>1, <1>2, <1>3, <1>4, <1>5

\* Users, workloads and the garbage collector keep the types.
LEMMA TypeWrite ==
    ASSUME TypeOK, createOnly' = createOnly, queued' = queued, pc' = pc, lost' = lost,
           faults' = faults, changes' \in 0..MaxChanges
    PROVE  /\ \A v \in CRVersion : WriteCR(v) => TypeOK'
           /\ \A o \in Objects, v \in ObjectVersion : WriteObject(o, v) => TypeOK'
           /\ \A u \in 0..MaxUid : WriteZTWIM(u) => TypeOK'
<1>1. ASSUME NEW v \in CRVersion, WriteCR(v) PROVE TypeOK'
  <2>1. Append(crW, v) \in Seq(CRVersion) /\ Len(Append(crW, v)) > 0
    BY AppendLemma DEF TypeOK
  <2>2. pass' \in Pass /\ pass'.next = pass.next
    BY <1>1 DEF WriteCR, TypeOK, Pass
  <2>3. QED
    BY <1>1, <2>1, <2>2 DEF WriteCR, TypeOK
<1>2. ASSUME NEW o \in Objects, NEW v \in ObjectVersion, WriteObject(o, v) PROVE TypeOK'
  <2>1. Append(objW[o], v) \in Seq(ObjectVersion) /\ Len(Append(objW[o], v)) > 0
    BY AppendLemma DEF TypeOK
  <2>2. QED
    BY <1>2, <2>1 DEF WriteObject, TypeOK
<1>3. ASSUME NEW u \in 0..MaxUid, WriteZTWIM(u) PROVE TypeOK'
  <2>1. Append(ztwimW, u) \in Seq(0..MaxUid) /\ Len(Append(ztwimW, u)) > 0
    BY AppendLemma DEF TypeOK
  <2>2. QED
    BY <1>3, <2>1 DEF WriteZTWIM, TypeOK
<1>4. QED
  BY <1>1, <1>2, <1>3

\* The actions of users, workloads and the garbage collector, restarts aside.
LEMMA TypeUsers ==
    ASSUME TypeOK, Users \/ GarbageCollector, ~Restart
    PROVE  TypeOK'
<1> USE BoundsAssumption, EmptyTypes, PartTypes
<1>1. Change => /\ changes' \in 0..MaxChanges /\ createOnly' = createOnly /\ queued' = queued
                /\ pc' = pc /\ lost' = lost /\ faults' = faults
  BY DEF Change, TypeOK
<1>2. ASSUME NEW s \in Specs, CreateCR(s) PROVE TypeOK'
  BY <1>1, <1>2, TypeWrite DEF CreateCR
<1>3. ASSUME NEW s \in Specs, EditCR(s) PROVE TypeOK'
  <2>1. [Api(crW) EXCEPT !.spec = s] \in CRVersion
    BY DEF CRVersion
  <2>2. QED
    BY <1>1, <1>3, <2>1, TypeWrite DEF EditCR
<1>4. CASE RemoveOwnerReference
  <2>1. [Api(crW) EXCEPT !.owner = 0] \in CRVersion
    BY DEF CRVersion
  <2>2. QED
    BY <1>1, <1>4, <2>1, TypeWrite DEF RemoveOwnerReference
<1>5. CASE DeleteCR
  BY <1>1, <1>5, TypeWrite DEF DeleteCR
<1>6. CASE CreateZTWIM
  <2>1. \E u \in 0..MaxUid : Change /\ WriteZTWIM(u)
    BY <1>6 DEF CreateZTWIM
  <2>2. QED
    BY <1>1, <2>1, TypeWrite
<1>7. CASE DeleteZTWIM
  <2>1. Change /\ WriteZTWIM(0) /\ 0 \in 0..MaxUid
    BY <1>7 DEF DeleteZTWIM
  <2>2. QED
    BY <1>1, <2>1, TypeWrite
<1>8. ASSUME NEW o \in Objects, TamperWithObject(o) PROVE TypeOK'
  <2>1. [Api(objW[o]) EXCEPT !.content = NoContent, !.healthy = FALSE] \in ObjectVersion
    BY DEF ObjectVersion, NoContent
  <2>2. \A l \in Tampering \ {"content"} : [Api(objW[o]) EXCEPT !.labels = l] \in ObjectVersion
    BY DEF ObjectVersion
  <2>3. Change /\ \E v \in ObjectVersion : WriteObject(o, v)
    BY <1>8, <2>1, <2>2 DEF TamperWithObject
  <2>4. QED
    BY <1>1, <2>3, TypeWrite
<1>9. ASSUME NEW o \in Objects, DeleteObject(o) PROVE TypeOK'
  BY <1>1, <1>9, TypeWrite DEF DeleteObject
<1>10. ASSUME NEW o \in Objects, WorkloadStatus(o) PROVE TypeOK'
  <2>1. [Api(objW[o]) EXCEPT !.healthy = ~@] \in ObjectVersion
    BY DEF ObjectVersion
  <2>2. QED
    BY <1>1, <1>10, <2>1, TypeWrite DEF WorkloadStatus
<1>11. CASE CollectCR
  <2>1. changes' \in 0..MaxChanges
    BY <1>11 DEF CollectCR, TypeOK
  <2>2. QED
    BY <1>11, <2>1, TypeWrite DEF CollectCR
<1>12. ASSUME NEW o \in Objects, CollectObject(o) PROVE TypeOK'
  <2>1. changes' \in 0..MaxChanges
    BY <1>12 DEF CollectObject, TypeOK
  <2>2. QED
    BY <1>12, <2>1, TypeWrite DEF CollectObject
<1>13. QED
  BY <1>2, <1>3, <1>4, <1>5, <1>6, <1>7, <1>8, <1>9, <1>10, <1>11, <1>12
     DEF Users, GarbageCollector

\* Watch events, the resync and a restart keep the types.
LEMMA TypeWatch ==
    ASSUME TypeOK, Watch \/ Resync \/ Restart
    PROVE  TypeOK'
<1> USE BoundsAssumption, EmptyTypes
<1>1. CASE DeliverCR
  <2>1. Deliver(crW) \in Seq(CRVersion) /\ Len(Deliver(crW)) > 0
    BY <1>1, DeliverLemma DEF DeliverCR, TypeOK
  <2>2. queued' \in BOOLEAN
    BY <1>1, Zenon DEF DeliverCR, crPredicate, TypeOK
  <2>3. QED
    BY <1>1, <2>1, <2>2 DEF DeliverCR, TypeOK, env
<1>2. CASE DeliverZTWIM
  <2>1. Deliver(ztwimW) \in Seq(0..MaxUid) /\ Len(Deliver(ztwimW)) > 0
    BY <1>2, DeliverLemma DEF DeliverZTWIM, TypeOK
  <2>2. QED
    BY <1>2, <2>1 DEF DeliverZTWIM, TypeOK, env
<1>3. ASSUME NEW o \in Objects, DeliverObject(o) PROVE TypeOK'
  <2>1. Deliver(objW[o]) \in Seq(ObjectVersion) /\ Len(Deliver(objW[o])) > 0
    BY <1>3, DeliverLemma DEF DeliverObject, TypeOK
  <2>2. queued' \in BOOLEAN
    BY <1>3, Zenon DEF DeliverObject, TypeOK
  <2>3. QED
    BY <1>3, <2>1, <2>2 DEF DeliverObject, TypeOK, env
<1>4. CASE Resync
  BY <1>4 DEF Resync, TypeOK, env
<1>5. CASE Restart
  <2>1. Relist(crW) \in Seq(CRVersion) /\ Len(Relist(crW)) > 0
    BY RelistLemma DEF TypeOK
  <2>2. Relist(ztwimW) \in Seq(0..MaxUid) /\ Len(Relist(ztwimW)) > 0
    BY RelistLemma DEF TypeOK
  <2>3. \A o \in Objects : Relist(objW[o]) \in Seq(ObjectVersion) /\ Len(Relist(objW[o])) > 0
    BY RelistLemma DEF TypeOK
  <2>4. queued' \in BOOLEAN
    BY <1>5, Zenon DEF Restart, SomethingListed
  <2>5. changes' \in 0..MaxChanges
    BY <1>5 DEF Restart, TypeOK
  <2>6. QED
    BY <1>5, <2>1, <2>2, <2>3, <2>4, <2>5 DEF Restart, TypeOK
<1>6. QED
  BY <1>1, <1>2, <1>3, <1>4, <1>5 DEF Watch

(***************************************************************************)
(* The steps of a pass, seen from outside: they move on or stop, and write *)
(* at most the object they are about.                                      *)
(***************************************************************************)

\* A step goes on with conditions that say nothing about Ready, or ends the pass with
\* its own condition at False (only a fault can end it with something else).
StepOutcome ==
    \/ \E c \in [CondTypes -> CondVal] : c["Ready"] = pass.conds["Ready"] /\ Continue(c)
    \/ \E v \in CondVal, e \in BOOLEAN : Stop(v, e) /\ (v = "False" \/ Fault)

AStep == Validate \/ Mark \/ ReconcileObject \/ CreateOnce \/ CheckHealth \/ ReconcileRoute

\* Reporting in the condition of the present step.
LEMMA ReportType ==
    ASSUME TypeOK, pc = "step"
    PROVE  /\ ThisStep \in StepType
           /\ \A v \in CondVal : /\ [pass.conds EXCEPT ![ThisStep.cond] = v] \in [CondTypes -> CondVal]
                                 /\ [pass.conds EXCEPT ![ThisStep.cond] = v]["Ready"] = pass.conds["Ready"]
           /\ Success => StepOutcome
<1>1. ThisStep \in StepType /\ ThisStep.cond \in CondTypes /\ ThisStep.cond # "Ready"
  BY CondTypesLemma DEF TypeOK, ThisStep, NotOperational
<1>2. pass.conds \in [CondTypes -> CondVal]
  BY PartTypes
<1>3. \A v \in CondVal : /\ [pass.conds EXCEPT ![ThisStep.cond] = v] \in [CondTypes -> CondVal]
                         /\ [pass.conds EXCEPT ![ThisStep.cond] = v]["Ready"] = pass.conds["Ready"]
  BY <1>1, <1>2, CondTypesLemma
<1>4. "True" \in CondVal
  BY DEF CondVal
<1>5. Success => StepOutcome
  BY <1>2, <1>3, <1>4 DEF Success, StepOutcome
<1>6. QED
  BY <1>1, <1>3, <1>5

\* Every step has such an outcome.
LEMMA StepHasOutcome ==
    ASSUME TypeOK, AStep
    PROVE  StepOutcome
<1> USE ReportType
<1>1. "True" \in CondVal /\ "False" \in CondVal /\ "Progressing" \in CondVal
  BY DEF CondVal
<1>2. pass.conds \in [CondTypes -> CondVal]
  BY PartTypes
<1>3. pc = "step"
  BY DEF AStep, Validate, Mark, ReconcileObject, CreateOnce, CheckHealth, ReconcileRoute
<1>4. \A e \in BOOLEAN : Stop("False", e) => StepOutcome
  BY <1>1 DEF StepOutcome
<1>5. \A v \in CondVal : Continue([pass.conds EXCEPT ![ThisStep.cond] = v]) => StepOutcome
  BY <1>3 DEF StepOutcome
<1>6. Continue(pass.conds) => StepOutcome
  BY <1>2 DEF StepOutcome
<1>7. CASE Validate
  BY <1>1, <1>4, <1>5, <1>7 DEF Validate
<1>8. CASE Mark
  BY <1>3, <1>8 DEF Mark
<1>9. CASE ReconcileObject
  <2>1. CASE Success
    BY <1>3, <2>1
  <2>2. CASE Stop("False", TRUE)
    BY <1>4, <2>2
  <2>3. CASE Fault /\ Stop(IF ThisStep.silent THEN pass.conds[ThisStep.cond] ELSE "False", TRUE)
    <3>1. pass.conds[ThisStep.cond] \in CondVal
      BY <1>2, <1>3, CondTypesLemma DEF ThisStep, TypeOK
    <3>2. QED
      BY <1>1, <2>3, <3>1 DEF StepOutcome
  <2>4. QED
    BY <1>9, <2>1, <2>2, <2>3, Zenon DEF ReconcileObject
<1>10. CASE CreateOnce
  BY <1>3, <1>4, <1>10 DEF CreateOnce
<1>11. CASE CheckHealth
  <2>1. \E v \in CondVal : Continue([pass.conds EXCEPT ![ThisStep.cond] = v])
    BY <1>1, <1>11 DEF CheckHealth
  <2>2. QED
    BY <1>5, <2>1
<1>12. CASE ReconcileRoute
  BY <1>1, <1>3, <1>4, <1>5, <1>6, <1>12, Zenon DEF ReconcileRoute, RouteFound
<1>13. QED
  BY <1>7, <1>8, <1>9, <1>10, <1>11, <1>12 DEF AStep

\* The pass after a step that goes on, and after one that stops.
LEMMA OutcomeLemma ==
    ASSUME TypeOK, pc = "step"
    PROVE  /\ \A c \in [CondTypes -> CondVal] : Continue(c) =>
                /\ pass' = [cr |-> pass.cr, current |-> pass.current, ztwim |-> pass.ztwim,
                            next |-> NextStep(pass.next, pass.cr.spec), conds |-> c,
                            err |-> pass.err]
                /\ pass' \in Pass
                /\ \/ pc' = "final" /\ pass'.next = Len(Steps) + 1
                   \/ pc' = "step" /\ pass'.next \in DOMAIN Steps
           /\ \A v \in CondVal, e \in BOOLEAN : Stop(v, e) =>
                /\ pass' = [cr |-> pass.cr, current |-> pass.current, ztwim |-> pass.ztwim,
                            next |-> pass.next,
                            conds |-> [pass.conds EXCEPT ![ThisStep.cond] = v], err |-> e]
                /\ pass' \in Pass
                /\ pc' = "final"
<1>1. pass \in Pass /\ pass.next \in Nat
  BY DEF TypeOK, Pass
<1>2. NextStep(pass.next, pass.cr.spec) \in 1..(Len(Steps) + 1)
  BY <1>1, NextStepType
<1>3. Len(Steps) \in Nat /\ DOMAIN Steps = 1..Len(Steps)
  BY StepsAssumption
<1>4. ASSUME NEW c \in [CondTypes -> CondVal], Continue(c)
      PROVE  /\ pass' = [cr |-> pass.cr, current |-> pass.current, ztwim |-> pass.ztwim,
                         next |-> NextStep(pass.next, pass.cr.spec), conds |-> c,
                         err |-> pass.err]
             /\ pass' \in Pass
             /\ \/ pc' = "final" /\ pass'.next = Len(Steps) + 1
                \/ pc' = "step" /\ pass'.next \in DOMAIN Steps
  <2>1. pass' = [cr |-> pass.cr, current |-> pass.current, ztwim |-> pass.ztwim,
                 next |-> NextStep(pass.next, pass.cr.spec), conds |-> c, err |-> pass.err]
    BY <1>1, <1>4 DEF Continue, Pass
  <2>2. pass' \in Pass
    BY <1>1, <1>2, <2>1 DEF Pass
  <2>3. pc' = IF NextStep(pass.next, pass.cr.spec) > Len(Steps) THEN "final" ELSE "step"
    BY <1>4 DEF Continue
  <2>4. \/ pc' = "final" /\ pass'.next = Len(Steps) + 1
        \/ pc' = "step" /\ pass'.next \in DOMAIN Steps
    <3>1. pass'.next = NextStep(pass.next, pass.cr.spec)
      BY <2>1
    <3>2. \A n \in 1..(Len(Steps) + 1) :
             IF n > Len(Steps) THEN n = Len(Steps) + 1 ELSE n \in DOMAIN Steps
      BY <1>3
    <3>3. QED
      BY <1>2, <2>3, <3>1, <3>2, Zenon
  <2>5. QED
    BY <2>1, <2>2, <2>4
<1>5. ASSUME NEW v \in CondVal, NEW e \in BOOLEAN, Stop(v, e)
      PROVE  /\ pass' = [cr |-> pass.cr, current |-> pass.current, ztwim |-> pass.ztwim,
                         next |-> pass.next,
                         conds |-> [pass.conds EXCEPT ![ThisStep.cond] = v], err |-> e]
             /\ pass' \in Pass
             /\ pc' = "final"
  <2>1. pass' = [cr |-> pass.cr, current |-> pass.current, ztwim |-> pass.ztwim,
                 next |-> pass.next,
                 conds |-> [pass.conds EXCEPT ![ThisStep.cond] = v], err |-> e]
    BY <1>1, <1>5 DEF Stop, Pass
  <2>2. [pass.conds EXCEPT ![ThisStep.cond] = v] \in [CondTypes -> CondVal]
    BY ReportType
  <2>3. pass' \in Pass
    BY <1>1, <2>1, <2>2 DEF Pass
  <2>4. QED
    BY <1>5, <2>1, <2>3 DEF Stop
<1>6. QED
  BY <1>4, <1>5

\* What a step writes: it creates an absent object, or updates the one it is about,
\* the latter in create-only mode only if the object is not guarded.
LEMMA StepWrites ==
    ASSUME TypeOK, AStep
    PROVE  \/ UNCHANGED objW
           \/ \E v \in ObjectVersion :
                 /\ ~Api(objW[ThisStep.obj]).exists
                 /\ objW' = [objW EXCEPT ![ThisStep.obj] = Append(@, v)]
           \/ \E v \in ObjectVersion :
                 /\ createOnly => ThisStep.obj \in Unguarded
                 /\ objW' = [objW EXCEPT ![ThisStep.obj] =
                               Store(@, Updated(Api(objW[ThisStep.obj]), v))]
<1>1. pc = "step"
  BY DEF AStep, Validate, Mark, ReconcileObject, CreateOnce, CheckHealth, ReconcileRoute
<1>2. ThisStep \in StepType /\ pass.cr \in CRVersion /\ pass.ztwim \in 0..MaxUid
  BY <1>1, ReportType, PartTypes DEF Pass
<1>3. Desired(ThisStep, pass.cr, pass.ztwim) \in ObjectVersion
  BY <1>2, DesiredType
<1>4. ThisStep.kind = "unguarded" => ThisStep.obj \in Unguarded
  BY <1>1 DEF TypeOK, ThisStep, Unguarded, OfKind
<1>5. CASE Validate \/ Mark \/ CheckHealth
  BY <1>5 DEF Validate, Mark, CheckHealth
<1>6. CASE ReconcileObject
  BY <1>3, <1>4, <1>6, Zenon DEF ReconcileObject, CreateSucceeds, CreateFails,
     UpdateSucceeds, UpdateFails, SkipsUpdate
<1>7. CASE CreateOnce
  BY <1>3, <1>7, Zenon DEF CreateOnce, CreateSucceeds
<1>8. CASE ReconcileRoute
  BY <1>3, <1>8, Zenon DEF ReconcileRoute, CreateSucceeds, CreateFails,
     UpdateSucceeds, UpdateFails
<1>9. QED
  BY <1>5, <1>6, <1>7, <1>8 DEF AStep

\* What a step leaves alone.
LEMMA StepKeeps ==
    ASSUME TypeOK, AStep
    PROVE  /\ pc = "step"
           /\ UNCHANGED <<crW, ztwimW, queued, createOnly, changes>>
           /\ lost' \in BOOLEAN /\ (faults' = faults \/ Fault)
BY DEF AStep, Validate, Mark, ReconcileObject, CreateOnce, CheckHealth, ReconcileRoute, env,
       CreateSucceeds, CreateFails, UpdateSucceeds, UpdateFails, TypeOK

\* The steps keep the types.
LEMMA TypeStep ==
    ASSUME TypeOK, AStep
    PROVE  TypeOK'
<1>1. pc = "step" /\ UNCHANGED <<crW, ztwimW, queued, createOnly, changes>> /\ lost' \in BOOLEAN
  BY StepKeeps
<1>2. faults' \in 0..MaxFaults
  <2>1. faults' = faults \/ Fault
    BY StepKeeps
  <2>2. QED
    BY <2>1, BoundsAssumption DEF TypeOK, Fault
<1>3. pass' \in Pass /\ pc' \in {"step", "final"} /\ (pc' = "step" => pass'.next \in DOMAIN Steps)
  BY <1>1, StepHasOutcome, OutcomeLemma DEF StepOutcome
<1>4. objW' \in [Objects -> Seq(ObjectVersion)] /\ \A o \in Objects : Len(objW'[o]) > 0
  <2>1. objW \in [Objects -> Seq(ObjectVersion)] /\ \A o \in Objects : Len(objW[o]) > 0
    BY DEF TypeOK
  <2>2. CASE UNCHANGED objW
    BY <2>1, <2>2
  <2>3. \A o \in Objects, v \in ObjectVersion :
           Append(objW[o], v) \in Seq(ObjectVersion) /\ Len(Append(objW[o], v)) > 0
    BY <2>1, AppendLemma
  <2>4. \A o \in Objects, v \in ObjectVersion :
           Store(objW[o], v) \in Seq(ObjectVersion) /\ Len(Store(objW[o], v)) > 0
    BY <2>1, StoreLemma
  <2>5. \A o \in Objects, v \in ObjectVersion : Updated(Api(objW[o]), v) \in ObjectVersion
    <3>1. \A o \in Objects : Api(objW[o]) \in ObjectVersion
      BY PartTypes
    <3>2. QED
      BY <3>1 DEF Updated, ObjectVersion
  <2>6. ASSUME NEW v \in ObjectVersion, objW' = [objW EXCEPT ![ThisStep.obj] = Append(@, v)]
        PROVE  objW' \in [Objects -> Seq(ObjectVersion)] /\ \A o \in Objects : Len(objW'[o]) > 0
    BY <2>1, <2>3, <2>6
  <2>7. ASSUME NEW v \in ObjectVersion,
               objW' = [objW EXCEPT ![ThisStep.obj] = Store(@, Updated(Api(objW[ThisStep.obj]), v))]
        PROVE  objW' \in [Objects -> Seq(ObjectVersion)] /\ \A o \in Objects : Len(objW'[o]) > 0
    BY <2>1, <2>4, <2>5, <2>7
  <2>8. QED
    BY <2>2, <2>6, <2>7, StepWrites
<1>5. QED
  BY <1>1, <1>2, <1>3, <1>4 DEF TypeOK

(***************************************************************************)
(* The rest of a pass.  The lemmas spell out the locals each action leaves *)
(* behind.                                                                 *)
(***************************************************************************)

\* The locals, field by field.
Locals(cr, current, z, next, conds, err) ==
    [cr |-> cr, current |-> current, ztwim |-> z, next |-> next, conds |-> conds, err |-> err]

\* Reconcile starts with what the cache holds.
LEMMA ReconcileLemma ==
    ASSUME TypeOK, Reconcile
    PROVE  /\ pc = "idle" /\ UNCHANGED <<crW, ztwimW, objW, createOnly, changes>>
           /\ \/ /\ pass' = Locals(Cached(crW), Cached(crW).uid # 0 /\ Drained(crW), 0, 1,
                                   NoConditions(CondTypes), FALSE)
                 /\ pc' = IF Cached(crW).uid = 0 THEN "idle" ELSE "initial"
                 /\ faults' = faults
              \/ UNCHANGED <<pass, pc>> /\ Fault
           /\ TypeOK'
<1>1. /\ pc = "idle" /\ UNCHANGED <<crW, ztwimW, objW, createOnly, changes>>
      /\ queued' \in BOOLEAN /\ lost' \in BOOLEAN
  BY DEF Reconcile, env, TypeOK
<1>2. /\ Cached(crW) \in CRVersion
      /\ NoConditions(CondTypes) \in [CondTypes -> CondVal]
      /\ 1 \in 1..(Len(Steps) + 1) /\ 0 \in 0..MaxUid
  <2>1. Cached(crW) \in CRVersion
    BY PartTypes
  <2>2. NoConditions(CondTypes) \in [CondTypes -> CondVal]
    BY EmptyTypes
  <2>3. Len(Steps) \in Nat /\ MaxUid \in Nat
    BY StepsAssumption, BoundsAssumption
  <2>4. 1 \in 1..(Len(Steps) + 1) /\ 0 \in 0..MaxUid
    BY <2>3
  <2>5. QED
    BY <2>1, <2>2, <2>4
<1>3. CASE /\ pass' = [NoPass EXCEPT !.cr = Cached(crW),
                                     !.current = (Cached(crW).uid # 0 /\ Drained(crW))]
           /\ pc' = IF Cached(crW).uid = 0 THEN "idle" ELSE "initial"
           /\ faults' = faults
  <2>1. pass' = Locals(Cached(crW), Cached(crW).uid # 0 /\ Drained(crW), 0, 1,
                       NoConditions(CondTypes), FALSE)
    BY <1>3 DEF NoPass, Locals
  <2>2. (Cached(crW).uid # 0 /\ Drained(crW)) \in BOOLEAN
    OBVIOUS
  <2>3. pass' \in Pass
    BY <1>2, <2>1, <2>2 DEF Pass, Locals
  <2>4. TypeOK'
    BY <1>1, <1>3, <2>3 DEF TypeOK
  <2>5. QED
    BY <1>1, <1>3, <2>1, <2>4
<1>4. CASE UNCHANGED <<pass, pc>> /\ Fault
  <2>1. faults' \in 0..MaxFaults
    BY <1>4, BoundsAssumption DEF Fault, TypeOK
  <2>2. QED
    BY <1>1, <1>4, <2>1 DEF TypeOK
<1>5. QED
  BY <1>3, <1>4 DEF Reconcile

\* "Reconciling" is said, or was said already, or could not be said.
LEMMA InitialLemma ==
    ASSUME TypeOK, SetInitialReconciliationStatus
    PROVE  LET conds == [pass.cr.conds EXCEPT !["Ready"] = "Reconciling"]
               new == [uid |-> Api(crW).uid, spec |-> Api(crW).spec, owner |-> Api(crW).owner,
                       conds |-> conds]
               old == [uid |-> pass.cr.uid, spec |-> pass.cr.spec, owner |-> pass.cr.owner,
                       conds |-> conds]
           IN  /\ pc = "initial" /\ pc' = "ztwim"
               /\ UNCHANGED <<ztwimW, objW, createOnly, changes>>
               /\ conds["Ready"] = "Reconciling"
               /\ \/ conds = pass.cr.conds /\ UNCHANGED <<crW, pass, faults>>
                  \/ /\ CRIsCurrent
                     /\ new \in CRVersion /\ crW' = Store(crW, new)
                     /\ pass' = Locals(new, TRUE, pass.ztwim, pass.next, pass.conds, pass.err)
                     /\ faults' = faults
                  \/ /\ IF Api(crW).uid = pass.cr.uid THEN Fault ELSE UNCHANGED faults
                     /\ old \in CRVersion /\ UNCHANGED crW
                     /\ \E c \in {pass.current, CRIsCurrent} :
                           pass' = Locals(old, c, pass.ztwim, pass.next, pass.conds, pass.err)
               /\ TypeOK'
<1> DEFINE conds == [pass.cr.conds EXCEPT !["Ready"] = "Reconciling"]
           new == [uid |-> Api(crW).uid, spec |-> Api(crW).spec, owner |-> Api(crW).owner,
                   conds |-> conds]
           old == [uid |-> pass.cr.uid, spec |-> pass.cr.spec, owner |-> pass.cr.owner,
                   conds |-> conds]
<1>1. /\ pc = "initial" /\ pc' = "ztwim"
      /\ UNCHANGED <<ztwimW, objW, createOnly, changes, queued, lost>>
  BY DEF SetInitialReconciliationStatus, env
<1>2. conds \in [CondTypes -> CondVal] /\ conds["Ready"] = "Reconciling"
  BY PartTypes, CondTypesLemma DEF CondVal
<1>3. \/ conds = pass.cr.conds /\ UNCHANGED <<crW, pass, faults>>
      \/ StatusUpdate(conds) \/ StatusUpdateFails(conds)
  BY DEF SetInitialReconciliationStatus
<1> HIDE DEF conds
<1>4. Api(crW) \in CRVersion /\ pass.cr \in CRVersion /\ pass \in Pass
  BY PartTypes
<1>5. new \in CRVersion /\ old \in CRVersion
  BY <1>2, <1>4 DEF CRVersion
<1>6. [Api(crW) EXCEPT !.conds = conds] = new
  BY <1>4 DEF CRVersion
<1> HIDE DEF new, old
<1>7. CASE conds = pass.cr.conds /\ UNCHANGED <<crW, pass, faults>>
  <2>1. TypeOK'
    BY <1>1, <1>7 DEF TypeOK
  <2>2. QED
    BY <1>1, <1>2, <1>7, <2>1 DEF conds
<1>8. CASE StatusUpdate(conds)
  <2>1. /\ CRIsCurrent /\ crW' = Store(crW, new) /\ faults' = faults
        /\ pass' = [pass EXCEPT !.cr = new, !.current = TRUE]
    BY <1>6, <1>8 DEF StatusUpdate
  <2>2. pass' = Locals(new, TRUE, pass.ztwim, pass.next, pass.conds, pass.err)
    BY <1>4, <2>1 DEF Pass, Locals
  <2>3. pass' \in Pass
    BY <1>4, <1>5, <2>2 DEF Pass, Locals
  <2>4. crW' \in Seq(CRVersion) /\ Len(crW') > 0
    BY <1>5, <2>1, StoreLemma DEF TypeOK
  <2>5. TypeOK'
    BY <1>1, <2>1, <2>3, <2>4 DEF TypeOK
  <2>6. QED
    BY <1>1, <1>2, <1>5, <2>1, <2>2, <2>5 DEF conds, new
<1>9. CASE StatusUpdateFails(conds)
  <2>1. PICK c \in {pass.current, CRIsCurrent} :
           pass' = [pass EXCEPT !.cr.conds = conds, !.current = c]
    BY <1>9 DEF StatusUpdateFails
  <2>2. /\ IF Api(crW).uid = pass.cr.uid THEN Fault ELSE UNCHANGED faults
        /\ UNCHANGED crW
    BY <1>9 DEF StatusUpdateFails
  <2>3. pass' = Locals(old, c, pass.ztwim, pass.next, pass.conds, pass.err)
    BY <1>4, <2>1 DEF Pass, Locals, old, CRVersion
  <2>4. pass.current \in BOOLEAN /\ CRIsCurrent \in BOOLEAN
    BY <1>4 DEF Pass, CRIsCurrent
  <2>5. pass' \in Pass
    BY <1>4, <1>5, <2>3, <2>4 DEF Pass, Locals
  <2>6. faults' \in 0..MaxFaults
    BY <2>2, BoundsAssumption DEF TypeOK, Fault
  <2>7. TypeOK'
    BY <1>1, <2>2, <2>5, <2>6 DEF TypeOK
  <2>8. QED
    BY <1>1, <1>2, <1>5, <2>2, <2>3, <2>7 DEF conds, old
<1>10. QED
  BY <1>3, <1>7, <1>8, <1>9

\* Failing before the first step is said in Ready itself.
LEMMA FailedType ==
    ASSUME TypeOK
    PROVE  LET failed == [pass.conds EXCEPT !["Ready"] = "False"]
           IN  failed \in [CondTypes -> CondVal] /\ failed["Ready"] = "False"
BY PartTypes, CondTypesLemma DEF CondVal

\* The ZTWIM CR is missing, found, or could not be read.
LEMMA GetZTWIMLemma ==
    ASSUME TypeOK, GetZTWIM
    PROVE  /\ pc = "ztwim" /\ UNCHANGED <<crW, ztwimW, objW, createOnly, changes>>
           /\ \/ /\ pass' = Locals(pass.cr, pass.current, pass.ztwim, pass.next,
                                   [pass.conds EXCEPT !["Ready"] = "False"], pass.err)
                 /\ pc' = "final" /\ faults' = faults
              \/ /\ pass' = Locals(pass.cr, pass.current, Cached(ztwimW), pass.next,
                                   pass.conds, pass.err)
                 /\ pc' \in {"mode", "owner"} /\ faults' = faults
              \/ /\ pass' = Locals(pass.cr, pass.current, pass.ztwim, pass.next,
                                   pass.conds, TRUE)
                 /\ pc' = "final" /\ Fault
           /\ TypeOK'
<1>1. pc = "ztwim" /\ UNCHANGED <<crW, ztwimW, objW, createOnly, changes, queued, lost>>
  BY DEF GetZTWIM, env
<1>2. pass \in Pass /\ Cached(ztwimW) \in 0..MaxUid
  BY PartTypes
<1>3. CASE /\ pass' = [pass EXCEPT !.conds["Ready"] = "False"]
           /\ pc' = "final" /\ faults' = faults
  <2> DEFINE failed == [pass.conds EXCEPT !["Ready"] = "False"]
  <2>1. failed \in [CondTypes -> CondVal]
    BY FailedType
  <2>2. pass' = Locals(pass.cr, pass.current, pass.ztwim, pass.next, failed, pass.err)
    BY <1>2, <1>3 DEF Pass, Locals
  <2> HIDE DEF failed
  <2>3. pass' \in Pass
    BY <1>2, <2>1, <2>2 DEF Pass, Locals
  <2>4. TypeOK'
    BY <1>1, <1>3, <2>3 DEF TypeOK
  <2>5. QED
    BY <1>1, <1>3, <2>2, <2>4 DEF failed
<1>4. CASE /\ pass' = [pass EXCEPT !.ztwim = Cached(ztwimW)]
           /\ pc' \in {"mode", "owner"} /\ faults' = faults
  <2>1. pass' = Locals(pass.cr, pass.current, Cached(ztwimW), pass.next, pass.conds, pass.err)
    BY <1>2, <1>4 DEF Pass, Locals
  <2>2. pass' \in Pass
    BY <1>2, <2>1 DEF Pass, Locals
  <2>3. TypeOK'
    BY <1>1, <1>4, <2>2 DEF TypeOK
  <2>4. QED
    BY <1>1, <1>4, <2>1, <2>3
<1>5. CASE pass' = [pass EXCEPT !.err = TRUE] /\ pc' = "final" /\ Fault
  <2>1. pass' = Locals(pass.cr, pass.current, pass.ztwim, pass.next, pass.conds, TRUE)
    BY <1>2, <1>5 DEF Pass, Locals
  <2>2. pass' \in Pass
    BY <1>2, <2>1 DEF Pass, Locals
  <2>3. faults' \in 0..MaxFaults
    BY <1>5, BoundsAssumption DEF TypeOK, Fault
  <2>4. TypeOK'
    BY <1>1, <1>5, <2>2, <2>3 DEF TypeOK
  <2>5. QED
    BY <1>1, <1>5, <2>1, <2>4
<1>6. QED
  BY <1>3, <1>4, <1>5 DEF GetZTWIM

\* The CR is adopted, or the write is refused.
LEMMA OwnerLemma ==
    ASSUME TypeOK, SetOwnerReference
    PROVE  LET cr == [uid |-> Api(crW).uid, spec |-> pass.cr.spec, owner |-> pass.ztwim,
                      conds |-> Api(crW).conds]
           IN  /\ pc = "owner" /\ UNCHANGED <<ztwimW, objW, createOnly, changes>>
               /\ \/ /\ pass.current /\ faults' = faults
                     /\ cr \in CRVersion /\ crW' = Store(crW, cr)
                     /\ pass' = Locals(cr, pass.current, pass.ztwim, pass.next, pass.conds, pass.err)
                     /\ pc' = "mode"
                  \/ /\ IF pass.current THEN Fault ELSE UNCHANGED faults
                     /\ pass' = Locals(pass.cr, pass.current, pass.ztwim, pass.next,
                                       [pass.conds EXCEPT !["Ready"] = "False"], TRUE)
                     /\ pc' = "final" /\ UNCHANGED crW
               /\ TypeOK'
<1> DEFINE cr == [uid |-> Api(crW).uid, spec |-> pass.cr.spec, owner |-> pass.ztwim,
                  conds |-> Api(crW).conds]
           failed == [pass.conds EXCEPT !["Ready"] = "False"]
<1>1. pc = "owner" /\ UNCHANGED <<ztwimW, objW, createOnly, changes, queued, lost>>
  BY DEF SetOwnerReference, env
<1>2. pass \in Pass /\ pass.cr \in CRVersion /\ Api(crW) \in CRVersion /\ pass.ztwim \in 0..MaxUid
  BY PartTypes DEF Pass
<1>3. [Api(crW) EXCEPT !.spec = pass.cr.spec, !.owner = pass.ztwim] = cr
  <2>1. PICK new : new = [Api(crW) EXCEPT !.spec = pass.cr.spec, !.owner = pass.ztwim]
    OBVIOUS
  <2>2. new = cr
    BY <1>2, <2>1 DEF CRVersion
  <2> HIDE DEF cr
  <2>3. QED
    BY <2>1, <2>2, Zenon
<1>4. cr \in CRVersion
  BY <1>2 DEF CRVersion
<1>5. failed \in [CondTypes -> CondVal]
  BY FailedType
<1>6. \/ /\ pass.current /\ faults' = faults
         /\ crW' = Store(crW, cr) /\ pass' = [pass EXCEPT !.cr = cr]
         /\ pc' = "mode"
      \/ /\ IF pass.current THEN Fault ELSE UNCHANGED faults
         /\ pass' = [pass EXCEPT !.conds["Ready"] = "False", !.err = TRUE]
         /\ pc' = "final" /\ UNCHANGED crW
  BY <1>3 DEF SetOwnerReference
<1> HIDE DEF cr
<1>7. CASE /\ pass.current /\ faults' = faults
           /\ crW' = Store(crW, cr) /\ pass' = [pass EXCEPT !.cr = cr]
           /\ pc' = "mode"
  <2>1. pass' = Locals(cr, pass.current, pass.ztwim, pass.next, pass.conds, pass.err)
    BY <1>2, <1>7 DEF Pass, Locals
  <2>2. pass' \in Pass
    BY <1>2, <1>4, <2>1 DEF Pass, Locals
  <2>3. crW' \in Seq(CRVersion) /\ Len(crW') > 0
    BY <1>4, <1>7, StoreLemma DEF TypeOK
  <2>4. TypeOK'
    BY <1>1, <1>7, <2>2, <2>3 DEF TypeOK
  <2>5. QED
    BY <1>1, <1>4, <1>7, <2>1, <2>4 DEF cr
<1>8. CASE /\ IF pass.current THEN Fault ELSE UNCHANGED faults
           /\ pass' = [pass EXCEPT !.conds["Ready"] = "False", !.err = TRUE]
           /\ pc' = "final" /\ UNCHANGED crW
  <2>1. pass' = Locals(pass.cr, pass.current, pass.ztwim, pass.next, failed, TRUE)
    BY <1>2, <1>8 DEF Pass, Locals
  <2> HIDE DEF failed
  <2>2. pass' \in Pass
    BY <1>2, <1>5, <2>1 DEF Pass, Locals
  <2>3. faults' \in 0..MaxFaults
    BY <1>8, BoundsAssumption DEF TypeOK, Fault
  <2>4. TypeOK'
    BY <1>1, <1>8, <2>2, <2>3 DEF TypeOK
  <2>5. QED
    BY <1>1, <1>8, <2>1, <2>4 DEF failed
<1>9. QED
  BY <1>6, <1>7, <1>8

\* The mode is looked at, and the first step is chosen.
LEMMA ModeLemma ==
    ASSUME TypeOK, handleCreateOnlyMode
    PROVE  /\ pc = "mode" /\ pc' = "step"
           /\ UNCHANGED <<crW, ztwimW, objW, createOnly, changes, faults>>
           /\ \E conds \in [CondTypes -> CondVal] :
                 /\ conds["Ready"] = pass.conds["Ready"]
                 /\ pass' = Locals(pass.cr, pass.current, pass.ztwim,
                                   NextStep(0, pass.cr.spec), conds, pass.err)
           /\ TypeOK'
<1> DEFINE mode == IF createOnly THEN "True"
                   ELSE IF pass.cr.conds["CreateOnlyMode"] = "True" THEN "False" ELSE "None"
           conds == [pass.conds EXCEPT !["CreateOnlyMode"] = mode]
<1>1. /\ pc = "mode" /\ pc' = "step"
      /\ UNCHANGED <<crW, ztwimW, objW, createOnly, changes, faults, queued, lost>>
  BY DEF handleCreateOnlyMode, env
<1>2. pass \in Pass /\ pass.conds \in [CondTypes -> CondVal]
  BY PartTypes
<1>3. mode \in CondVal
  BY DEF CondVal
<1>4. pass' = [pass EXCEPT !.conds["CreateOnlyMode"] = mode, !.next = NextStep(0, pass.cr.spec)]
  BY DEF handleCreateOnlyMode
<1> HIDE DEF mode
<1>5. conds \in [CondTypes -> CondVal] /\ conds["Ready"] = pass.conds["Ready"]
  BY <1>2, <1>3, CondTypesLemma
<1>6. pass' = Locals(pass.cr, pass.current, pass.ztwim, NextStep(0, pass.cr.spec), conds, pass.err)
  BY <1>2, <1>4 DEF Pass, Locals
<1>7. /\ NextStep(0, pass.cr.spec) \in 1..(Len(Steps) + 1)
      /\ NextStep(0, pass.cr.spec) \in DOMAIN Steps
  BY NextStepType
<1> HIDE DEF conds
<1>8. pass' \in Pass /\ pass'.next \in DOMAIN Steps
  BY <1>2, <1>5, <1>6, <1>7 DEF Pass, Locals
<1>9. TypeOK'
  BY <1>1, <1>8 DEF TypeOK
<1>10. QED
  BY <1>1, <1>5, <1>6, <1>9

\* The conditions are published, need no publishing, or are lost.
LEMMA ApplyLemma ==
    ASSUME TypeOK, ApplyStatus
    PROVE  LET conds == Published(pass.cr.conds, pass.conds)
               new == [uid |-> Api(crW).uid, spec |-> Api(crW).spec, owner |-> Api(crW).owner,
                       conds |-> conds]
           IN  /\ pc = "final" /\ pc' = "idle" /\ pass' = NoPass
               /\ UNCHANGED <<ztwimW, objW, createOnly, changes>>
               /\ conds \in [CondTypes -> CondVal]
               /\ \/ conds = pass.cr.conds /\ UNCHANGED <<crW, faults>>
                  \/ /\ CRIsCurrent /\ faults' = faults
                     /\ new \in CRVersion /\ crW' = Store(crW, new)
                  \/ /\ IF Api(crW).uid = pass.cr.uid THEN Fault ELSE UNCHANGED faults
                     /\ UNCHANGED crW
               /\ TypeOK'
<1> DEFINE conds == Published(pass.cr.conds, pass.conds)
           new == [uid |-> Api(crW).uid, spec |-> Api(crW).spec, owner |-> Api(crW).owner,
                   conds |-> conds]
<1>1. /\ pc = "final" /\ pc' = "idle" /\ pass' = NoPass
      /\ UNCHANGED <<ztwimW, objW, createOnly, changes>>
      /\ lost' \in BOOLEAN
  BY DEF ApplyStatus, env, TypeOK
<1>2. queued' \in BOOLEAN
  BY DEF ApplyStatus, TypeOK, Pass
<1>3. conds \in [CondTypes -> CondVal]
  BY PartTypes, PublishedType
<1>4. \/ conds = pass.cr.conds /\ UNCHANGED <<crW, faults>>
      \/ CRIsCurrent /\ faults' = faults /\ crW' = Store(crW, [Api(crW) EXCEPT !.conds = conds])
      \/ /\ IF Api(crW).uid = pass.cr.uid THEN Fault ELSE UNCHANGED faults
         /\ UNCHANGED crW
  BY DEF ApplyStatus
<1> HIDE DEF conds
<1>5. new \in CRVersion /\ [Api(crW) EXCEPT !.conds = conds] = new
  BY <1>3, PartTypes DEF CRVersion
<1> HIDE DEF new
<1>6. crW' \in Seq(CRVersion) /\ Len(crW') > 0
  <2>1. crW \in Seq(CRVersion) /\ Len(crW) > 0
    BY DEF TypeOK
  <2>2. crW' = crW \/ crW' = Store(crW, new)
    BY <1>4, <1>5
  <2>3. CASE crW' = crW
    BY <2>1, <2>3
  <2>4. CASE crW' = Store(crW, new)
    BY <1>5, <2>1, <2>4, StoreLemma
  <2>5. QED
    BY <2>2, <2>3, <2>4
<1>7. faults' \in 0..MaxFaults
  BY <1>4, BoundsAssumption DEF TypeOK, Fault
<1>8. TypeOK'
  BY <1>1, <1>2, <1>6, <1>7, EmptyTypes DEF TypeOK
<1>9. QED
  BY <1>1, <1>3, <1>4, <1>5, <1>8 DEF conds, new

\* A worker's step is one of these.
LEMMA WorkerCases ==
    Worker <=> \/ Reconcile \/ SetInitialReconciliationStatus \/ GetZTWIM \/ SetOwnerReference
               \/ handleCreateOnlyMode \/ AStep \/ ApplyStatus
BY DEF Worker, AStep

\* Every step keeps the types.
LEMMA TypeNext == TypeOK /\ [Next]_vars => TypeOK'
<1> SUFFICES ASSUME TypeOK, [Next]_vars PROVE TypeOK'
  OBVIOUS
<1>1. CASE Users \/ GarbageCollector
  BY <1>1, TypeUsers, TypeWatch
<1>2. CASE Watch \/ Resync
  BY <1>2, TypeWatch
<1>3. CASE Worker
  BY <1>3, WorkerCases, ReconcileLemma, InitialLemma, GetZTWIMLemma, OwnerLemma, ModeLemma,
     TypeStep, ApplyLemma
<1>4. CASE UNCHANGED vars
  BY <1>4 DEF vars, TypeOK
<1>5. QED
  BY <1>1, <1>2, <1>3, <1>4 DEF Next

\* Type correctness: every pass, whatever its steps, ends at the last of them, and no
\* write leaves a malformed object behind.
THEOREM TypeCorrect == Spec => []TypeOK
<1>1. Init => TypeOK
  BY TypeInit
<1>2. TypeOK /\ [Next]_vars => TypeOK'
  BY TypeNext
<1>3. QED
  BY <1>1, <1>2, PTL DEF Spec

(***************************************************************************)
(* Create-only mode.                                                       *)
(***************************************************************************)
\* Whoever consumes a change is not the controller.
LEMMA UsersChange == TypeOK /\ Users => changes' # changes
<1> SUFFICES ASSUME TypeOK, Users PROVE changes' # changes
  OBVIOUS
<1>1. changes \in Nat
  BY BoundsAssumption DEF TypeOK
<1>2. changes > 0 /\ changes' = changes - 1
  BY DEF Users, CreateCR, EditCR, RemoveOwnerReference, DeleteCR, CreateZTWIM, DeleteZTWIM,
         TamperWithObject, DeleteObject, WorkloadStatus, Restart, Change
<1>3. QED
  BY <1>1, <1>2

\* A guarded object that exists before and after a step of the controller is the same.
LEMMA CreateOnlyStep ==
    ASSUME TypeOK, [Next]_vars, createOnly, OwnStep, NEW o \in Objects \ Unguarded,
           Api(objW[o]).exists, Api(objW'[o]).exists
    PROVE  Api(objW'[o]) = Api(objW[o])
<1>1. objW \in [Objects -> Seq(ObjectVersion)] /\ \A q \in Objects : Len(objW[q]) > 0
  BY DEF TypeOK
<1>2. ~Users
  BY UsersChange DEF OwnStep
<1>3. ASSUME NEW q \in Objects, CollectObject(q) PROVE Api(objW'[o]) = Api(objW[o])
  <2>1. objW' = [objW EXCEPT ![q] = Append(@, NoObject)]
    BY <1>3 DEF CollectObject, WriteObject
  <2>2. Api(Append(objW[q], NoObject)) = NoObject /\ ~NoObject.exists
    BY <1>1, AppendLemma, EmptyTypes
  <2>3. q # o
    BY <1>1, <2>1, <2>2
  <2>4. QED
    BY <1>1, <2>1, <2>3
<1>4. ASSUME NEW q \in Objects, DeliverObject(q) PROVE Api(objW'[o]) = Api(objW[o])
  <2>1. objW' = [objW EXCEPT ![q] = Deliver(@)] /\ Len(objW[q]) > 1
    BY <1>4 DEF DeliverObject
  <2>2. Api(Deliver(objW[q])) = Api(objW[q])
    <3>1. objW[q] \in Seq(ObjectVersion)
      BY <1>1
    <3>2. QED
      BY <2>1, <3>1, DeliverLemma
  <2>3. QED
    BY <1>1, <2>1, <2>2
<1>5. CASE AStep
  <2>1. CASE UNCHANGED objW
    BY <2>1
  <2>2. ASSUME NEW v, ~Api(objW[ThisStep.obj]).exists,
               objW' = [objW EXCEPT ![ThisStep.obj] = Append(@, v)]
        PROVE  Api(objW'[o]) = Api(objW[o])
    <3>1. o # ThisStep.obj
      BY <2>2
    <3>2. QED
      BY <1>1, <2>2, <3>1
  <2>3. ASSUME NEW v, ThisStep.obj \in Unguarded,
               objW' = [objW EXCEPT ![ThisStep.obj] =
                         Store(@, Updated(Api(objW[ThisStep.obj]), v))]
        PROVE  Api(objW'[o]) = Api(objW[o])
    BY <1>1, <2>3
  <2>4. QED
    BY <1>5, <2>1, <2>2, <2>3, StepWrites
<1>6. CASE Worker /\ ~AStep
  <2>1. UNCHANGED objW
    BY <1>6, WorkerCases DEF Reconcile, SetInitialReconciliationStatus, GetZTWIM,
       SetOwnerReference, handleCreateOnlyMode, ApplyStatus
  <2>2. QED
    BY <2>1
<1>7. CASE CollectCR \/ DeliverCR \/ DeliverZTWIM \/ Resync \/ UNCHANGED vars
  BY <1>7 DEF CollectCR, WriteCR, DeliverCR, DeliverZTWIM, Resync, vars
<1>8. QED
  BY <1>2, <1>3, <1>4, <1>5, <1>6, <1>7 DEF Next, GarbageCollector, Watch

\* Create-only mode: none of the controller's steps touches an existing object, except
\* those that ignore the mode (the SecurityContextConstraints).
THEOREM CreateOnlyCorrect == Spec => CreateOnlyKeepsObjects
<1>1. TypeOK /\ [Next]_vars =>
        (createOnly /\ OwnStep =>
          \A o \in Objects \ Unguarded :
             Api(objW[o]).exists /\ Api(objW'[o]).exists => Api(objW'[o]) = Api(objW[o]))
  BY CreateOnlyStep
<1>2. QED
  BY <1>1, TypeCorrect, PTL DEF Spec, CreateOnlyKeepsObjects

(***************************************************************************)
(* While no API request fails.                                             *)
(***************************************************************************)
ReadyOf(cr) == cr.conds["Ready"]

\* A copy with the stored resourceVersion has the stored spec.
CopyIsCurrent ==
    pass.current => /\ pass.cr.uid # 0 /\ pass.cr.uid = Api(crW).uid
                    /\ pass.cr.spec = Api(crW).spec

\* What has been said about a CR is never taken back: if a cached version or the copy
\* of the pass has a Ready condition, so has the stored CR, unless it is another one.
VersionsAgree(ch) ==
    /\ \A i \in DOMAIN ch : ch[i].uid = 0 => ReadyOf(ch[i]) = "None"
    /\ \A i \in DOMAIN ch :
          ch[i].uid = Api(ch).uid /\ ReadyOf(ch[i]) # "None" => ReadyOf(Api(ch)) # "None"

CopyAgrees ==
    pc # "idle" /\ pass.cr.uid = Api(crW).uid /\ ReadyOf(pass.cr) # "None" =>
        ReadyOf(Api(crW)) # "None"

\* A pass is about an existing CR and has announced itself before it goes on.
Announced ==
    /\ pc # "idle" => pass.cr.uid # 0
    /\ pc \notin {"idle", "initial"} => ReadyOf(pass.cr) # "None"

\* A pass that comes to its end without having taken all steps says so.
EarlyEndIsSaid ==
    /\ pass.conds["Ready"] \in {"None", "False"}
    /\ pc # "final" => ~pass.err
    /\ pc = "final" => \/ pass.next = Len(Steps) + 1 /\ ~pass.err
                       \/ pass.conds["Ready"] = "False"
                       \/ \E c \in CondTypes \ NotOperational : pass.conds[c] = "False"

\* The inductive invariant.
NoFaultInv ==
    /\ TypeOK /\ faults = 0
    /\ CopyIsCurrent /\ VersionsAgree(crW) /\ CopyAgrees /\ Announced /\ EarlyEndIsSaid

\* A write keeps the versions in agreement if it takes nothing back.
LEMMA WriteAgrees ==
    ASSUME NEW ch \in Seq(CRVersion), Len(ch) > 0, VersionsAgree(ch), NEW v \in CRVersion,
           v.uid = 0 => ReadyOf(v) = "None",
           \A i \in DOMAIN ch : ch[i].uid = v.uid /\ ReadyOf(ch[i]) # "None" => ReadyOf(v) # "None"
    PROVE  VersionsAgree(Append(ch, v)) /\ VersionsAgree(Store(ch, v))
<1>1. /\ DOMAIN Append(ch, v) = 1..(Len(ch) + 1) /\ DOMAIN ch = 1..Len(ch)
      /\ Api(Append(ch, v)) = v
      /\ \A i \in 1..Len(ch) : Append(ch, v)[i] = ch[i]
      /\ Append(ch, v)[Len(ch) + 1] = v
  BY AppendLemma
<1>2. \A i \in DOMAIN Append(ch, v) :
         (i \in DOMAIN ch /\ Append(ch, v)[i] = ch[i]) \/ Append(ch, v)[i] = v
  BY <1>1
<1>3. VersionsAgree(Append(ch, v))
  BY <1>1, <1>2, Zenon DEF VersionsAgree
<1>4. VersionsAgree(Store(ch, v))
  BY <1>3 DEF Store
<1>5. QED
  BY <1>3, <1>4

\* So does one that keeps the CR the same and says no less about it.
LEMMA SameCRAgrees ==
    ASSUME NEW ch \in Seq(CRVersion), Len(ch) > 0, VersionsAgree(ch), NEW v \in CRVersion,
           v.uid = Api(ch).uid, ReadyOf(v) = ReadyOf(Api(ch)) \/ (v.uid # 0 /\ ReadyOf(v) # "None")
    PROVE  VersionsAgree(Append(ch, v)) /\ VersionsAgree(Store(ch, v))
<1>1. Len(ch) \in DOMAIN ch
  BY ApiLemma
<1>2. v.uid = 0 => ReadyOf(v) = "None"
  BY <1>1 DEF VersionsAgree, Api
<1>3. \A i \in DOMAIN ch : ch[i].uid = v.uid /\ ReadyOf(ch[i]) # "None" => ReadyOf(v) # "None"
  BY DEF VersionsAgree
<1>4. QED
  BY <1>2, <1>3, WriteAgrees

\* Watch events and restarts keep it.
LEMMA DeliverAgrees ==
    ASSUME NEW ch \in Seq(CRVersion), Len(ch) > 0, VersionsAgree(ch)
    PROVE  /\ Len(ch) > 1 => VersionsAgree(Deliver(ch))
           /\ VersionsAgree(Relist(ch))
           /\ VersionsAgree(ch)
<1>1. ASSUME Len(ch) > 1 PROVE VersionsAgree(Deliver(ch))
  <2>1. /\ Api(Deliver(ch)) = Api(ch) /\ DOMAIN Deliver(ch) = 1..(Len(ch) - 1)
        /\ \A i \in 1..(Len(ch) - 1) : Deliver(ch)[i] = ch[i + 1]
        /\ DOMAIN ch = 1..Len(ch)
    BY <1>1, DeliverLemma
  <2>2. \A i \in DOMAIN Deliver(ch) : \E j \in DOMAIN ch : Deliver(ch)[i] = ch[j]
    <3>1. \A i \in 1..(Len(ch) - 1) : i + 1 \in 1..Len(ch)
      OBVIOUS
    <3>2. QED
      BY <2>1, <3>1
  <2>3. QED
    BY <2>1, <2>2, Zenon DEF VersionsAgree
<1>2. VersionsAgree(Relist(ch))
  <2>1. /\ Api(Relist(ch)) = Api(ch) /\ DOMAIN Relist(ch) = {1} /\ Relist(ch)[1] = Api(ch)
        /\ Len(ch) \in DOMAIN ch
    BY RelistLemma, ApiLemma
  <2>2. QED
    BY <2>1 DEF VersionsAgree, Api
<1>3. QED
  BY <1>1, <1>2

\* Initially nothing is under way.
LEMMA NoFaultInit == ASSUME MaxFaults = 0 PROVE Init => NoFaultInv
<1> SUFFICES ASSUME Init PROVE NoFaultInv
  OBVIOUS
<1>1. TypeOK
  BY TypeInit
<1>2. faults = 0 /\ pc = "idle" /\ pass = NoPass
  BY DEF Init
<1>3. /\ ~NoPass.current /\ NoPass.conds["Ready"] = "None" /\ ~NoPass.err
  BY CondTypesLemma DEF NoPass, NoConditions
<1>4. VersionsAgree(crW)
  <2> DEFINE Told == \E v \in CRVersion : crW = <<v>> /\ (v.uid = 0 => ReadyOf(v) = "None")
  <2>1. ASSUME crW = <<NoCR>> PROVE Told
    BY <2>1, EmptyTypes DEF ReadyOf
  <2>2. ASSUME NEW s \in Specs, crW = <<NewCR(1, s)>> PROVE Told
    <3>1. 1 \in 1..MaxUid
      BY BoundsAssumption
    <3>2. NewCR(1, s) \in CRVersion /\ ReadyOf(NewCR(1, s)) = "None"
      BY <3>1, EmptyTypes DEF ReadyOf
    <3>3. QED
      BY <2>2, <3>2
  <2>3. ASSUME NEW s \in Specs,
               crW = <<[uid |-> 1, spec |-> s, owner |-> 1, conds |-> DeployedConds(s)]>>
        PROVE  Told
    <3> DEFINE v == [uid |-> 1, spec |-> s, owner |-> 1, conds |-> DeployedConds(s)]
    <3>1. v \in CRVersion /\ v.uid # 0
      <4>1. DeployedConds(s) \in [CondTypes -> CondVal]
        BY DeployedType
      <4>2. 1 \in 0..MaxUid
        BY BoundsAssumption
      <4>3. QED
        BY <4>1, <4>2 DEF CRVersion
    <3> HIDE DEF v
    <3>2. QED
      BY <2>3, <3>1 DEF v
  <2>4. Told
    BY <2>1, <2>2, <2>3 DEF Init
  <2>5. PICK v \in CRVersion : crW = <<v>> /\ (v.uid = 0 => ReadyOf(v) = "None")
    BY <2>4
  <2>6. DOMAIN crW = {1} /\ crW[1] = v /\ Api(crW) = v
    BY <2>5, SingletonLemma
  <2>7. QED
    BY <2>5, <2>6 DEF VersionsAgree
<1>5. QED
  BY <1>1, <1>2, <1>3, <1>4 DEF NoFaultInv, CopyIsCurrent, CopyAgrees, Announced, EarlyEndIsSaid

\* What the invariant says besides types and faults.
PassInv == CopyIsCurrent /\ VersionsAgree(crW) /\ CopyAgrees /\ Announced /\ EarlyEndIsSaid

\* A write of somebody else to the CR.
LEMMA OthersWriteCR ==
    ASSUME NoFaultInv, pc' = pc, NEW v \in CRVersion, WriteCR(v),
           \/ v.uid = Api(crW).uid /\ ReadyOf(v) = ReadyOf(Api(crW))
           \/ v = NoCR
           \/ FreshCRUid(v.uid) /\ v.uid # 0
    PROVE  PassInv'
<1>1. crW \in Seq(CRVersion) /\ Len(crW) > 0 /\ VersionsAgree(crW) /\ pass \in Pass
  BY DEF NoFaultInv, TypeOK
<1>2. crW' = Append(crW, v) /\ Api(crW') = v
  BY <1>1, AppendLemma DEF WriteCR
<1>3. pass' = Locals(pass.cr, FALSE, pass.ztwim, pass.next, pass.conds, pass.err)
  BY <1>1 DEF WriteCR, Pass, Locals
<1>4. CopyIsCurrent' /\ Announced' /\ EarlyEndIsSaid'
  BY <1>3 DEF CopyIsCurrent, Announced, EarlyEndIsSaid, NoFaultInv, Locals
<1>5. CASE v.uid = Api(crW).uid /\ ReadyOf(v) = ReadyOf(Api(crW))
  <2>1. VersionsAgree(crW')
    BY <1>1, <1>2, <1>5, SameCRAgrees
  <2>2. CopyAgrees'
    BY <1>2, <1>3, <1>5 DEF CopyAgrees, NoFaultInv, Locals
  <2>3. QED
    BY <1>4, <2>1, <2>2 DEF PassInv
<1>6. CASE v = NoCR
  <2>1. v.uid = 0 /\ ReadyOf(v) = "None"
    BY <1>6, EmptyTypes DEF ReadyOf
  <2>2. \A i \in DOMAIN crW : crW[i].uid = v.uid /\ ReadyOf(crW[i]) # "None" => ReadyOf(v) # "None"
    BY <1>1, <2>1 DEF VersionsAgree
  <2>3. VersionsAgree(crW')
    BY <1>1, <1>2, <2>1, <2>2, WriteAgrees
  <2>4. CopyAgrees'
    BY <1>2, <1>3, <2>1 DEF CopyAgrees, Announced, NoFaultInv, Locals
  <2>5. QED
    BY <1>4, <2>3, <2>4 DEF PassInv
<1>7. CASE FreshCRUid(v.uid) /\ v.uid # 0
  <2>1. (\A i \in DOMAIN crW : crW[i].uid # v.uid) /\ pass.cr.uid # v.uid
    BY <1>7 DEF FreshCRUid
  <2>2. VersionsAgree(crW')
    BY <1>1, <1>2, <1>7, <2>1, WriteAgrees
  <2>3. CopyAgrees'
    BY <1>2, <1>3, <2>1 DEF CopyAgrees, Locals
  <2>4. QED
    BY <1>4, <2>2, <2>3 DEF PassInv
<1>8. QED
  BY <1>5, <1>6, <1>7

\* A step that touches neither the CR nor the pass.
LEMMA ElsewhereStep ==
    ASSUME NoFaultInv, UNCHANGED <<crW, pc, pass>>
    PROVE  PassInv'
BY DEF NoFaultInv, PassInv, CopyIsCurrent, VersionsAgree, CopyAgrees, Announced, EarlyEndIsSaid

\* Users, workloads, the garbage collector, watches, the resync and restarts.
LEMMA EnvironmentInv ==
    ASSUME NoFaultInv, Users \/ GarbageCollector \/ Watch \/ Resync
    PROVE  PassInv'
<1>1. TypeOK /\ crW \in Seq(CRVersion) /\ Len(crW) > 0 /\ Api(crW) \in CRVersion
  BY PartTypes DEF NoFaultInv, TypeOK
<1>2. ASSUME NEW s \in Specs, CreateCR(s) PROVE PassInv'
  <2>1. PICK u \in 1..MaxUid : FreshCRUid(u) /\ WriteCR(NewCR(u, s)) /\ pc' = pc
    BY <1>2 DEF CreateCR, Change
  <2>2. NewCR(u, s) \in CRVersion
    BY EmptyTypes
  <2>3. NewCR(u, s).uid = u /\ u # 0
    BY BoundsAssumption DEF NewCR
  <2>4. QED
    BY <2>1, <2>2, <2>3, OthersWriteCR
<1>3. ASSUME NEW s \in Specs, EditCR(s) PROVE PassInv'
  <2> DEFINE v == [Api(crW) EXCEPT !.spec = s]
  <2>1. WriteCR(v) /\ pc' = pc
    BY <1>3 DEF EditCR, Change
  <2>2. v \in CRVersion /\ v.uid = Api(crW).uid /\ v.conds = Api(crW).conds
    BY <1>1 DEF CRVersion
  <2> HIDE DEF v
  <2>3. QED
    BY <2>1, <2>2, OthersWriteCR DEF ReadyOf
<1>4. CASE RemoveOwnerReference
  <2> DEFINE v == [Api(crW) EXCEPT !.owner = 0]
  <2>1. WriteCR(v) /\ pc' = pc
    BY <1>4 DEF RemoveOwnerReference, Change
  <2>2. v \in CRVersion /\ v.uid = Api(crW).uid /\ v.conds = Api(crW).conds
    <3>1. 0 \in 0..MaxUid
      BY BoundsAssumption
    <3>2. QED
      BY <1>1, <3>1 DEF CRVersion
  <2> HIDE DEF v
  <2>3. QED
    BY <2>1, <2>2, OthersWriteCR DEF ReadyOf
<1>5. CASE DeleteCR \/ CollectCR
  <2>1. WriteCR(NoCR) /\ pc' = pc
    BY <1>5 DEF DeleteCR, CollectCR, Change
  <2>2. QED
    BY <2>1, EmptyTypes, OthersWriteCR
<1>6. CASE DeliverCR
  <2>1. crW' = Deliver(crW) /\ Len(crW) > 1 /\ UNCHANGED <<pc, pass>>
    BY <1>6 DEF DeliverCR
  <2>2. VersionsAgree(crW') /\ Api(crW') = Api(crW)
    BY <1>1, <2>1, DeliverLemma, DeliverAgrees DEF NoFaultInv
  <2>3. QED
    BY <2>1, <2>2 DEF NoFaultInv, PassInv, CopyIsCurrent, CopyAgrees, Announced, EarlyEndIsSaid
<1>7. CASE Restart
  <2>1. crW' = Relist(crW) /\ pc' = "idle" /\ pass' = NoPass
    BY <1>7 DEF Restart
  <2>2. VersionsAgree(crW')
    BY <1>1, <2>1, DeliverAgrees DEF NoFaultInv
  <2>3. ~NoPass.current /\ NoPass.conds["Ready"] = "None" /\ ~NoPass.err
    BY CondTypesLemma DEF NoPass, NoConditions
  <2>4. QED
    BY <2>1, <2>2, <2>3 DEF PassInv, CopyIsCurrent, CopyAgrees, Announced, EarlyEndIsSaid
<1>8. CASE /\ ~Restart /\ ~DeleteCR /\ ~RemoveOwnerReference /\ ~CollectCR /\ ~DeliverCR
           /\ \A s \in Specs : ~CreateCR(s) /\ ~EditCR(s)
  <2>1. UNCHANGED <<crW, pc, pass>>
    BY <1>8 DEF Users, GarbageCollector, Watch, CreateZTWIM, DeleteZTWIM, TamperWithObject,
       DeleteObject, WorkloadStatus, CollectObject, Change, WriteObject, WriteZTWIM,
       DeliverZTWIM, DeliverObject, Resync
  <2>2. QED
    BY <2>1, ElsewhereStep
<1>9. QED
  BY <1>2, <1>3, <1>4, <1>5, <1>6, <1>7, <1>8

\* The start of a pass, from whatever version the cache holds.
LEMMA ReconcileInv ==
    ASSUME NoFaultInv, Reconcile
    PROVE  PassInv'
<1>1. TypeOK /\ crW \in Seq(CRVersion) /\ Len(crW) > 0 /\ VersionsAgree(crW) /\ ~Fault
  BY DEF NoFaultInv, TypeOK, Fault
<1>2. /\ UNCHANGED crW
      /\ pass' = Locals(Cached(crW), Cached(crW).uid # 0 /\ Drained(crW), 0, 1,
                        NoConditions(CondTypes), FALSE)
      /\ pc' = IF Cached(crW).uid = 0 THEN "idle" ELSE "initial"
  BY <1>1, ReconcileLemma
<1>3. 1 \in DOMAIN crW /\ Cached(crW) = crW[1] /\ (Drained(crW) => Cached(crW) = Api(crW))
  BY <1>1, ApiLemma DEF Cached, Drained, Api
<1>4. /\ pass'.cr = Cached(crW) /\ pass'.current = (Cached(crW).uid # 0 /\ Drained(crW))
      /\ pass'.conds["Ready"] = "None" /\ pass'.err = FALSE
  BY <1>2, CondTypesLemma DEF Locals, NoConditions
<1>5. CopyIsCurrent' /\ VersionsAgree(crW')
  BY <1>1, <1>2, <1>3, <1>4 DEF CopyIsCurrent
<1>6. CopyAgrees'
  BY <1>1, <1>2, <1>3, <1>4 DEF CopyAgrees, VersionsAgree
<1>7. Announced' /\ EarlyEndIsSaid'
  BY <1>2, <1>4 DEF Announced, EarlyEndIsSaid
<1>8. QED
  BY <1>5, <1>6, <1>7 DEF PassInv

\* The announcement.  Only a CR that is gone keeps it from being stored.
LEMMA InitialInv ==
    ASSUME NoFaultInv, SetInitialReconciliationStatus
    PROVE  PassInv'
<1> DEFINE conds == [pass.cr.conds EXCEPT !["Ready"] = "Reconciling"]
           new == [uid |-> Api(crW).uid, spec |-> Api(crW).spec, owner |-> Api(crW).owner,
                   conds |-> conds]
           old == [uid |-> pass.cr.uid, spec |-> pass.cr.spec, owner |-> pass.cr.owner,
                   conds |-> conds]
<1>1. TypeOK /\ crW \in Seq(CRVersion) /\ Len(crW) > 0 /\ VersionsAgree(crW) /\ ~Fault
  BY DEF NoFaultInv, TypeOK, Fault
<1>2. /\ pc = "initial" /\ pc' = "ztwim" /\ conds["Ready"] = "Reconciling"
      /\ \/ conds = pass.cr.conds /\ UNCHANGED <<crW, pass>>
         \/ /\ CRIsCurrent
            /\ new \in CRVersion /\ crW' = Store(crW, new)
            /\ pass' = Locals(new, TRUE, pass.ztwim, pass.next, pass.conds, pass.err)
         \/ /\ Api(crW).uid # pass.cr.uid /\ UNCHANGED crW
            /\ \E c \in {pass.current, CRIsCurrent} :
                  pass' = Locals(old, c, pass.ztwim, pass.next, pass.conds, pass.err)
  BY <1>1, InitialLemma
<1>3. /\ new.uid = Api(crW).uid /\ new.spec = Api(crW).spec /\ ReadyOf(new) = conds["Ready"]
      /\ old.uid = pass.cr.uid /\ ReadyOf(old) = conds["Ready"]
  BY DEF ReadyOf
<1> HIDE DEF conds, new, old
<1>4. CASE conds = pass.cr.conds /\ UNCHANGED <<crW, pass>>
  BY <1>2, <1>4 DEF NoFaultInv, PassInv, CopyIsCurrent, VersionsAgree, CopyAgrees, Announced,
     EarlyEndIsSaid, ReadyOf
<1>5. CASE /\ CRIsCurrent /\ new \in CRVersion /\ crW' = Store(crW, new)
           /\ pass' = Locals(new, TRUE, pass.ztwim, pass.next, pass.conds, pass.err)
  <2>1. pass.cr.uid = Api(crW).uid /\ pass.cr.uid # 0
    BY <1>2, <1>5 DEF CRIsCurrent, NoFaultInv, Announced
  <2>2. VersionsAgree(crW')
    BY <1>1, <1>2, <1>3, <1>5, <2>1, SameCRAgrees
  <2>3. Api(crW') = new
    BY <1>1, <1>5, StoreLemma
  <2>4. pass'.cr = new /\ pass'.conds = pass.conds /\ pass'.err = pass.err
    BY <1>5 DEF Locals
  <2>5. QED
    BY <1>2, <1>3, <2>1, <2>2, <2>3, <2>4 DEF NoFaultInv, PassInv, CopyIsCurrent, CopyAgrees,
       Announced, EarlyEndIsSaid
<1>6. ASSUME Api(crW).uid # pass.cr.uid, UNCHANGED crW, NEW c \in {pass.current, CRIsCurrent},
             pass' = Locals(old, c, pass.ztwim, pass.next, pass.conds, pass.err)
      PROVE  PassInv'
  <2>1. pass'.cr = old /\ pass'.current = c /\ pass'.conds = pass.conds /\ pass'.err = pass.err
    BY <1>6 DEF Locals
  <2>2. ~pass.current /\ ~CRIsCurrent
    BY <1>6 DEF NoFaultInv, CopyIsCurrent, CRIsCurrent
  <2>3. ~pass'.current
    BY <2>1, <2>2
  <2>4. VersionsAgree(crW')
    BY <1>1, <1>6
  <2>5. QED
    BY <1>2, <1>3, <1>6, <2>1, <2>3, <2>4 DEF NoFaultInv, PassInv, CopyIsCurrent, CopyAgrees,
       Announced, EarlyEndIsSaid
<1>7. QED
  BY <1>2, <1>4, <1>5, <1>6

\* From the announcement to the verdict.
LEMMA MiddleInv ==
    ASSUME NoFaultInv, GetZTWIM \/ handleCreateOnlyMode \/ AStep
    PROVE  PassInv'
<1>1. TypeOK /\ VersionsAgree(crW) /\ ~Fault
  BY DEF NoFaultInv, Fault
<1> DEFINE SameCopy == /\ pc \notin {"idle", "initial", "final"} /\ pc' \notin {"idle", "initial"}
                       /\ UNCHANGED crW
                       /\ pass'.cr = pass.cr /\ pass'.current = pass.current
<1>2. SameCopy /\ EarlyEndIsSaid'
  <2>1. CASE GetZTWIM
    <3>1. SameCopy
      <4>1. pc = "ztwim" /\ pc' \in {"final", "mode", "owner"} /\ UNCHANGED crW
        BY <1>1, <2>1, GetZTWIMLemma
      <4>2. \E z, next, conds, err :
               pass' = Locals(pass.cr, pass.current, z, next, conds, err)
        BY <1>1, <2>1, GetZTWIMLemma
      <4>3. pass'.cr = pass.cr /\ pass'.current = pass.current
        BY <4>2 DEF Locals
      <4>4. QED
        BY <4>1, <4>3
    <3>2. CASE /\ pass' = Locals(pass.cr, pass.current, pass.ztwim, pass.next,
                                 [pass.conds EXCEPT !["Ready"] = "False"], pass.err)
               /\ pc' = "final"
      <4>1. pass'.conds["Ready"] = "False"
        BY <1>1, <3>2, FailedType DEF Locals
      <4>2. QED
        BY <3>1, <3>2, <4>1 DEF EarlyEndIsSaid
    <3>3. CASE /\ pass' = Locals(pass.cr, pass.current, Cached(ztwimW), pass.next,
                                 pass.conds, pass.err)
               /\ pc' \in {"mode", "owner"}
      <4>1. pass'.conds = pass.conds /\ pass'.err = pass.err
        BY <3>3 DEF Locals
      <4>2. QED
        BY <3>1, <3>3, <4>1 DEF EarlyEndIsSaid, NoFaultInv
    <3>4. QED
      BY <1>1, <2>1, <3>2, <3>3, <3>1, GetZTWIMLemma
  <2>2. CASE handleCreateOnlyMode
    <3>1. PICK conds \in [CondTypes -> CondVal] :
             /\ conds["Ready"] = pass.conds["Ready"]
             /\ pass' = Locals(pass.cr, pass.current, pass.ztwim,
                               NextStep(0, pass.cr.spec), conds, pass.err)
      BY <1>1, <2>2, ModeLemma
    <3>2. pc = "mode" /\ pc' = "step" /\ UNCHANGED crW
      BY <1>1, <2>2, ModeLemma
    <3>3. QED
      BY <3>1, <3>2 DEF Locals, EarlyEndIsSaid, NoFaultInv
  <2>3. CASE AStep
    <3>1. pc = "step" /\ UNCHANGED crW /\ StepOutcome
      BY <1>1, <2>3, StepKeeps, StepHasOutcome
    <3>2. ASSUME NEW c \in [CondTypes -> CondVal], c["Ready"] = pass.conds["Ready"], Continue(c)
          PROVE  SameCopy /\ EarlyEndIsSaid'
      <4>1. /\ pass' = [cr |-> pass.cr, current |-> pass.current, ztwim |-> pass.ztwim,
                        next |-> NextStep(pass.next, pass.cr.spec), conds |-> c,
                        err |-> pass.err]
            /\ \/ pc' = "final" /\ pass'.next = Len(Steps) + 1
               \/ pc' = "step" /\ pass'.next \in DOMAIN Steps
        BY <1>1, <3>1, <3>2, OutcomeLemma
      <4>2. /\ pass'.cr = pass.cr /\ pass'.current = pass.current
            /\ pass'.conds["Ready"] = pass.conds["Ready"] /\ pass'.err = pass.err
        BY <3>2, <4>1
      <4>3. QED
        BY <3>1, <4>1, <4>2 DEF EarlyEndIsSaid, NoFaultInv
    <3>3. ASSUME NEW e \in BOOLEAN, Stop("False", e) PROVE SameCopy /\ EarlyEndIsSaid'
      <4> DEFINE conds == [pass.conds EXCEPT ![ThisStep.cond] = "False"]
      <4>1. /\ pass' = [cr |-> pass.cr, current |-> pass.current, ztwim |-> pass.ztwim,
                        next |-> pass.next, conds |-> conds, err |-> e]
            /\ pc' = "final"
        BY <1>1, <3>1, <3>3, OutcomeLemma DEF CondVal
      <4>2. ThisStep.cond \in CondTypes \ NotOperational
        BY <1>1, <3>1, CondTypesLemma DEF ThisStep, TypeOK
      <4>3. conds[ThisStep.cond] = "False" /\ conds["Ready"] = pass.conds["Ready"]
        BY <1>1, <3>1, <4>2, PartTypes, ReportType DEF CondVal
      <4> HIDE DEF conds
      <4>4. pass'.cr = pass.cr /\ pass'.current = pass.current /\ pass'.conds = conds
        BY <4>1
      <4>5. QED
        BY <3>1, <4>1, <4>2, <4>3, <4>4 DEF EarlyEndIsSaid, NoFaultInv
    <3>4. QED
      BY <1>1, <3>1, <3>2, <3>3 DEF StepOutcome
  <2>4. QED
    BY <2>1, <2>2, <2>3
<1> HIDE DEF SameCopy
<1>3. CopyIsCurrent' /\ VersionsAgree(crW') /\ CopyAgrees' /\ Announced'
  BY <1>1, <1>2 DEF SameCopy, NoFaultInv, CopyIsCurrent, CopyAgrees, Announced
<1>4. QED
  BY <1>2, <1>3 DEF PassInv

\* The adoption writes the spec of the copy, which is the stored one.
LEMMA OwnerInv ==
    ASSUME NoFaultInv, SetOwnerReference
    PROVE  /\ PassInv'
           /\ pc' \notin {"idle", "initial"}
           /\ Api(crW').uid = Api(crW).uid /\ Api(crW').spec = Api(crW).spec
           /\ ReadyOf(Api(crW')) = ReadyOf(Api(crW))
<1> DEFINE cr == [uid |-> Api(crW).uid, spec |-> pass.cr.spec, owner |-> pass.ztwim,
                  conds |-> Api(crW).conds]
<1>1. TypeOK /\ crW \in Seq(CRVersion) /\ Len(crW) > 0 /\ VersionsAgree(crW) /\ ~Fault
  BY DEF NoFaultInv, TypeOK, Fault
<1>2. /\ pc = "owner"
      /\ \/ /\ pass.current /\ cr \in CRVersion /\ crW' = Store(crW, cr)
            /\ pass' = Locals(cr, pass.current, pass.ztwim, pass.next, pass.conds, pass.err)
            /\ pc' = "mode"
         \/ /\ ~pass.current
            /\ pass' = Locals(pass.cr, pass.current, pass.ztwim, pass.next,
                              [pass.conds EXCEPT !["Ready"] = "False"], TRUE)
            /\ pc' = "final" /\ UNCHANGED crW
  BY <1>1, OwnerLemma
<1>3. cr.uid = Api(crW).uid /\ cr.spec = pass.cr.spec /\ ReadyOf(cr) = ReadyOf(Api(crW))
  BY DEF ReadyOf
<1> HIDE DEF cr
<1>4. CASE /\ pass.current /\ cr \in CRVersion /\ crW' = Store(crW, cr)
           /\ pass' = Locals(cr, pass.current, pass.ztwim, pass.next, pass.conds, pass.err)
           /\ pc' = "mode"
  <2>1. /\ pass.cr.uid # 0 /\ pass.cr.uid = Api(crW).uid /\ pass.cr.spec = Api(crW).spec
        /\ ReadyOf(pass.cr) # "None"
    BY <1>2, <1>4 DEF NoFaultInv, CopyIsCurrent, Announced
  <2>2. ReadyOf(Api(crW)) # "None"
    BY <1>2, <2>1 DEF NoFaultInv, CopyAgrees
  <2>3. VersionsAgree(crW')
    BY <1>1, <1>3, <1>4, SameCRAgrees
  <2>4. Api(crW') = cr
    BY <1>1, <1>4, StoreLemma
  <2>5. pass'.cr = cr /\ pass'.conds = pass.conds /\ pass'.err = pass.err
    BY <1>4 DEF Locals
  <2>6. PassInv'
    BY <1>2, <1>3, <1>4, <2>1, <2>2, <2>3, <2>4, <2>5 DEF NoFaultInv, PassInv, CopyIsCurrent,
       CopyAgrees, Announced, EarlyEndIsSaid
  <2>7. QED
    BY <1>3, <1>4, <2>1, <2>4, <2>6
<1>5. CASE /\ ~pass.current
           /\ pass' = Locals(pass.cr, pass.current, pass.ztwim, pass.next,
                             [pass.conds EXCEPT !["Ready"] = "False"], TRUE)
           /\ pc' = "final" /\ UNCHANGED crW
  <2>1. pass'.cr = pass.cr /\ pass'.current = pass.current /\ pass'.conds["Ready"] = "False"
    BY <1>1, <1>5, FailedType DEF Locals
  <2>2. CopyIsCurrent' /\ VersionsAgree(crW') /\ CopyAgrees' /\ Announced'
    BY <1>1, <1>2, <1>5, <2>1 DEF NoFaultInv, CopyIsCurrent, CopyAgrees, Announced
  <2>3. EarlyEndIsSaid'
    BY <1>5, <2>1 DEF EarlyEndIsSaid
  <2>4. QED
    BY <1>5, <2>2, <2>3 DEF PassInv
<1>6. QED
  BY <1>2, <1>4, <1>5

\* The end of a pass: a verdict on the CR the pass was about, which has been told
\* before that a pass is under way, or nothing.
LEMMA ApplyInv ==
    ASSUME NoFaultInv, ApplyStatus
    PROVE  LET conds == Published(pass.cr.conds, pass.conds)
           IN  /\ PassInv'
               /\ pc = "final" /\ pc' = "idle"
               /\ conds["Ready"] \in {"True", "False", "Progressing"}
               /\ \/ UNCHANGED crW
                  \/ /\ Api(crW).uid # 0 /\ ReadyOf(Api(crW)) # "None"
                     /\ Api(crW').uid = Api(crW).uid /\ Api(crW').spec = Api(crW).spec
                     /\ ReadyOf(Api(crW')) = conds["Ready"]
<1> DEFINE conds == Published(pass.cr.conds, pass.conds)
           new == [uid |-> Api(crW).uid, spec |-> Api(crW).spec, owner |-> Api(crW).owner,
                   conds |-> conds]
<1>1. TypeOK /\ crW \in Seq(CRVersion) /\ Len(crW) > 0 /\ VersionsAgree(crW)
  BY DEF NoFaultInv, TypeOK
<1>2. /\ pc = "final" /\ pc' = "idle" /\ pass' = NoPass
      /\ \/ UNCHANGED crW
         \/ CRIsCurrent /\ new \in CRVersion /\ crW' = Store(crW, new)
  BY <1>1, ApplyLemma
<1>3. conds["Ready"] \in {"True", "False", "Progressing"}
  <2>1. conds["Ready"] = IF pass.conds["Ready"] = "None" THEN SetReadyCondition(pass.conds)
                                                         ELSE pass.conds["Ready"]
    BY <1>1, PartTypes, PublishedType
  <2>2. pass.conds["Ready"] \in {"None", "False"}
    BY DEF NoFaultInv, EarlyEndIsSaid
  <2>3. QED
    BY <2>1, <2>2, ReadySummary
<1>4. new.uid = Api(crW).uid /\ new.spec = Api(crW).spec /\ ReadyOf(new) = conds["Ready"]
  BY DEF ReadyOf
<1> HIDE DEF conds, new
<1>5. ~NoPass.current /\ NoPass.conds["Ready"] = "None" /\ ~NoPass.err
  BY CondTypesLemma DEF NoPass, NoConditions
<1>6. CopyIsCurrent' /\ CopyAgrees' /\ Announced' /\ EarlyEndIsSaid'
  BY <1>2, <1>5 DEF CopyIsCurrent, CopyAgrees, Announced, EarlyEndIsSaid
<1>7. CASE UNCHANGED crW
  BY <1>1, <1>2, <1>3, <1>6, <1>7 DEF PassInv, conds
<1>8. CASE CRIsCurrent /\ new \in CRVersion /\ crW' = Store(crW, new)
  <2>1. pass.cr.uid = Api(crW).uid /\ pass.cr.uid # 0 /\ ReadyOf(Api(crW)) # "None"
    BY <1>2, <1>8 DEF CRIsCurrent, NoFaultInv, Announced, CopyAgrees
  <2>2. VersionsAgree(crW')
    BY <1>1, <1>3, <1>4, <1>8, <2>1, SameCRAgrees
  <2>3. Api(crW') = new
    BY <1>1, <1>8, StoreLemma
  <2>4. QED
    BY <1>2, <1>3, <1>4, <1>6, <2>1, <2>2, <2>3 DEF PassInv, conds
<1>9. QED
  BY <1>2, <1>7, <1>8

\* Every step keeps the invariant.
LEMMA NoFaultNext == ASSUME MaxFaults = 0 PROVE NoFaultInv /\ [Next]_vars => NoFaultInv'
<1> SUFFICES ASSUME NoFaultInv, [Next]_vars PROVE NoFaultInv'
  OBVIOUS
<1>1. TypeOK'
  BY TypeNext DEF NoFaultInv
<1>2. faults' = 0
  BY <1>1 DEF TypeOK
<1>3. PassInv'
  <2>1. CASE Users \/ GarbageCollector \/ Watch \/ Resync
    BY <2>1, EnvironmentInv
  <2>2. CASE Worker
    BY <2>2, WorkerCases, ReconcileInv, InitialInv, MiddleInv, OwnerInv, ApplyInv
  <2>3. CASE UNCHANGED vars
    BY <2>3, ElsewhereStep DEF vars
  <2>4. QED
    BY <2>1, <2>2, <2>3 DEF Next
<1>4. QED
  BY <1>1, <1>2, <1>3 DEF NoFaultInv, PassInv

\* While no API request fails, the invariant holds.
LEMMA NoFaultCorrect == ASSUME MaxFaults = 0 PROVE Spec => []NoFaultInv
<1>1. Init => NoFaultInv
  BY NoFaultInit
<1>2. NoFaultInv /\ [Next]_vars => NoFaultInv'
  BY NoFaultNext
<1>3. QED
  BY <1>1, <1>2, PTL DEF Spec

\* What a step of the pass does to the stored CR.
LEMMA WorkerOnCR ==
    ASSUME NoFaultInv, Worker
    PROVE  /\ Api(crW').uid = Api(crW).uid /\ Api(crW').spec = Api(crW).spec
           /\ \/ /\ Reconcile /\ pc = "idle" /\ pc' \in {"idle", "initial"} /\ UNCHANGED crW
              \/ /\ SetInitialReconciliationStatus /\ pc = "initial" /\ pc' = "ztwim"
                 /\ \/ UNCHANGED crW
                    \/ Api(crW).uid # 0 /\ ReadyOf(Api(crW')) = "Reconciling"
              \/ /\ pc \notin {"idle", "initial", "final"} /\ pc' \notin {"idle", "initial"}
                 /\ ReadyOf(Api(crW')) = ReadyOf(Api(crW))
              \/ /\ ApplyStatus /\ pc = "final" /\ pc' = "idle"
                 /\ \/ UNCHANGED crW
                    \/ /\ Api(crW).uid # 0 /\ ReadyOf(Api(crW)) # "None"
                       /\ ReadyOf(Api(crW')) \in {"True", "False", "Progressing"}
                       /\ ReadyOf(Api(crW')) = Published(pass.cr.conds, pass.conds)["Ready"]
<1>1. TypeOK /\ crW \in Seq(CRVersion) /\ Len(crW) > 0 /\ ~Fault
  BY DEF NoFaultInv, TypeOK, Fault
<1>2. CASE Reconcile
  BY <1>1, <1>2, ReconcileLemma
<1>3. CASE SetInitialReconciliationStatus
  <2> DEFINE conds == [pass.cr.conds EXCEPT !["Ready"] = "Reconciling"]
             new == [uid |-> Api(crW).uid, spec |-> Api(crW).spec, owner |-> Api(crW).owner,
                     conds |-> conds]
  <2>1. /\ pc = "initial" /\ pc' = "ztwim" /\ conds["Ready"] = "Reconciling"
        /\ \/ UNCHANGED crW
           \/ CRIsCurrent /\ new \in CRVersion /\ crW' = Store(crW, new)
    BY <1>1, <1>3, InitialLemma
  <2>2. new.uid = Api(crW).uid /\ new.spec = Api(crW).spec /\ ReadyOf(new) = conds["Ready"]
    BY DEF ReadyOf
  <2> HIDE DEF conds, new
  <2>3. CASE UNCHANGED crW
    BY <1>3, <2>1, <2>3
  <2>4. CASE CRIsCurrent /\ new \in CRVersion /\ crW' = Store(crW, new)
    <3>1. Api(crW') = new
      BY <1>1, <2>4, StoreLemma
    <3>2. Api(crW).uid # 0
      BY <2>1, <2>4 DEF NoFaultInv, Announced, CRIsCurrent
    <3>3. QED
      BY <1>3, <2>1, <2>2, <3>1, <3>2
  <2>5. QED
    BY <2>1, <2>3, <2>4
<1>4. CASE GetZTWIM \/ handleCreateOnlyMode \/ AStep
  <2>1. UNCHANGED crW /\ pc \notin {"idle", "initial", "final"}
    BY <1>1, <1>4, GetZTWIMLemma, ModeLemma, StepKeeps
  <2>2. pc' \notin {"idle", "initial"}
    <3>1. CASE AStep
      BY <1>1, <2>1, <3>1, StepKeeps, StepHasOutcome, OutcomeLemma DEF StepOutcome
    <3>2. QED
      BY <1>1, <1>4, <3>1, GetZTWIMLemma, ModeLemma
  <2>3. QED
    BY <2>1, <2>2
<1>5. CASE SetOwnerReference
  BY <1>1, <1>5, OwnerInv, OwnerLemma
<1>6. CASE ApplyStatus
  BY <1>6, ApplyInv
<1>7. QED
  BY <1>2, <1>3, <1>4, <1>5, <1>6, WorkerCases

(***************************************************************************)
(* The theorems.                                                           *)
(***************************************************************************)

\* While no API request fails, no write of the controller reverts an edit of the spec,
\* although the adoption of the CR writes back the whole copy a pass may have read
\* from a stale cache.
THEOREM SpecIsKept == ASSUME MaxFaults = 0 PROVE Spec => ControllerKeepsSpec
<1>1. NoFaultInv /\ [Next]_vars =>
        (OwnStep /\ Api(crW').uid # 0 => Api(crW').spec = Api(crW).spec)
  <2> SUFFICES ASSUME NoFaultInv, [Next]_vars, OwnStep, Api(crW').uid # 0
               PROVE  Api(crW').spec = Api(crW).spec
    OBVIOUS
  <2>1. TypeOK /\ crW \in Seq(CRVersion) /\ Len(crW) > 0
    BY DEF NoFaultInv, TypeOK
  <2>2. ~Users
    BY <2>1, UsersChange DEF OwnStep
  <2>3. CASE Worker
    BY <2>3, WorkerOnCR
  <2>4. CASE CollectCR
    <3>1. Api(crW') = NoCR
      BY <2>1, <2>4, AppendLemma, EmptyTypes DEF CollectCR, WriteCR
    <3>2. QED
      BY <3>1, EmptyTypes
  <2>5. CASE DeliverCR
    BY <2>1, <2>5, DeliverLemma DEF DeliverCR
  <2>6. CASE ~CollectCR /\ ~DeliverCR /\ ~Worker
    BY <2>2, <2>6 DEF Next, GarbageCollector, Watch, CollectObject, WriteObject, DeliverZTWIM,
       DeliverObject, Resync, vars
  <2>7. QED
    BY <2>3, <2>4, <2>5, <2>6
<1>2. QED
  BY <1>1, NoFaultCorrect, PTL DEF Spec, ControllerKeepsSpec

\* While no API request fails, Ready=True is only published by a pass that has taken
\* all its steps and returns no error: every early return leaves a failed condition.
THEOREM ReadyIsEarned == ASSUME MaxFaults = 0 PROVE Spec => ReadyAfterAllSteps
<1>1. NoFaultInv /\ [Next]_vars =>
        (pc = "final" /\ pc' = "idle" /\ OwnStep /\ crW' # crW
          /\ Api(crW').conds["Ready"] = "True" => pass.next = Len(Steps) + 1 /\ ~pass.err)
  <2> SUFFICES ASSUME NoFaultInv, [Next]_vars, pc = "final", pc' = "idle", OwnStep, crW' # crW,
                      Api(crW').conds["Ready"] = "True"
               PROVE  pass.next = Len(Steps) + 1 /\ ~pass.err
    OBVIOUS
  <2>1. TypeOK
    BY DEF NoFaultInv
  <2>2. Worker
    BY <2>1, UsersChange DEF OwnStep, Next, GarbageCollector, CollectCR, CollectObject, Watch,
       DeliverCR, DeliverZTWIM, DeliverObject, Resync, vars
  <2>3. Published(pass.cr.conds, pass.conds)["Ready"] = "True"
    BY <2>2, WorkerOnCR DEF ReadyOf
  <2>4. /\ pass.conds["Ready"] \in {"None", "False"}
        /\ \/ pass.next = Len(Steps) + 1 /\ ~pass.err
           \/ pass.conds["Ready"] = "False"
           \/ \E c \in CondTypes \ NotOperational : pass.conds[c] = "False"
    BY DEF NoFaultInv, EarlyEndIsSaid
  <2>5. pass.cr.conds \in [CondTypes -> CondVal] /\ pass.conds \in [CondTypes -> CondVal]
    BY <2>1, PartTypes
  <2>6. pass.conds["Ready"] = "None" /\ SetReadyCondition(pass.conds) = "True"
    BY <2>3, <2>4, <2>5, PublishedType
  <2>7. ~ \E c \in CondTypes \ NotOperational : pass.conds[c] = "False"
    BY <2>5, <2>6 DEF SetReadyCondition
  <2>8. QED
    BY <2>4, <2>6, <2>7
<1>2. QED
  BY <1>1, NoFaultCorrect, PTL DEF Spec, ReadyAfterAllSteps

\* Nothing of the CR's outside changes when its UID, spec, Ready and the phase stay.
LEMMA SeenUnchanged ==
    ASSUME Api(crW').uid = Api(crW).uid, Api(crW').spec = Api(crW).spec,
           ReadyOf(Api(crW')) = ReadyOf(Api(crW))
    PROVE  CRSeen' = CRSeen
BY DEF CRSeen, ReadyOf

\* What is seen of the CR, field by field.
LEMMA SeenLemma ==
    /\ CRSeen.uid = Api(crW).uid /\ CRSeen.spec = Api(crW).spec /\ CRSeen.ready = ReadyOf(Api(crW))
    /\ CRSeen'.uid = Api(crW').uid /\ CRSeen'.spec = Api(crW').spec
    /\ CRSeen'.ready = ReadyOf(Api(crW'))
    /\ \A v : (Api(crW').uid = Api(crW).uid /\ Api(crW').spec = Api(crW).spec
                /\ ReadyOf(Api(crW')) = v) => CRSeen' = [CRSeen EXCEPT !.ready = v]
BY DEF CRSeen, ReadyOf

\* Every step of the environment is one of the abstract specification, or a stutter.
LEMMA EnvironmentRefines ==
    ASSUME NoFaultInv, Users \/ GarbageCollector \/ Watch \/ Resync
    PROVE  CR!Next \/ UNCHANGED <<CRSeen, PhaseSeen>>
<1>1. crW \in Seq(CRVersion) /\ Len(crW) > 0 /\ Api(crW) \in CRVersion
  BY PartTypes DEF NoFaultInv, TypeOK
<1>2. ASSUME NEW v \in CRVersion, WriteCR(v) PROVE Api(crW') = v
  BY <1>1, <1>2, AppendLemma DEF WriteCR
<1>3. pc' = pc => PhaseSeen' = PhaseSeen
  BY DEF PhaseSeen
<1>4. ASSUME NEW s \in Specs, CreateCR(s) PROVE CR!Next
  <2>1. PICK u \in 1..MaxUid : WriteCR(NewCR(u, s))
    BY <1>4 DEF CreateCR
  <2>2. Api(crW).uid = 0 /\ pc' = pc
    BY <1>4 DEF CreateCR, Change
  <2>3. Api(crW') = NewCR(u, s) /\ ReadyOf(NewCR(u, s)) = "None"
    <3>1. NewCR(u, s) \in CRVersion /\ NewCR(u, s).conds["Ready"] = "None"
      BY EmptyTypes
    <3>2. QED
      BY <1>2, <2>1, <3>1 DEF ReadyOf
  <2>4. CRSeen' = [uid |-> u, spec |-> s, ready |-> "None"]
    <3>1. NewCR(u, s).uid = u /\ NewCR(u, s).spec = s
      BY DEF NewCR
    <3>2. /\ Api(crW').uid = u
          /\ Api(crW').spec = s
          /\ Api(crW').conds["Ready"] = "None"
      BY <2>3, <3>1 DEF ReadyOf
    <3>3. QED
      BY <3>2 DEF CRSeen
  <2>5. CRSeen.uid = 0
    BY <2>2 DEF CRSeen
  <2>6. CR!Create(u, s)
    BY <1>3, <2>2, <2>4, <2>5 DEF CR!Create
  <2>7. QED
    BY <2>6 DEF CR!Next
<1>5. ASSUME NEW s \in Specs, EditCR(s) PROVE CR!Next
  <2> DEFINE v == [Api(crW) EXCEPT !.spec = s]
  <2>1. WriteCR(v) /\ pc' = pc /\ Api(crW).uid # 0
    BY <1>5 DEF EditCR, Change
  <2>2. v \in CRVersion /\ v.uid = Api(crW).uid /\ v.conds = Api(crW).conds /\ v.spec = s
    BY <1>1 DEF CRVersion
  <2> HIDE DEF v
  <2>3. Api(crW') = v
    BY <1>2, <2>1, <2>2
  <2>4. CRSeen' = [CRSeen EXCEPT !.spec = s]
    BY <2>2, <2>3 DEF CRSeen
  <2>5. CR!Edit(s)
    BY <1>3, <2>1, <2>4 DEF CR!Edit, CRSeen
  <2>6. QED
    BY <2>5 DEF CR!Next
<1>6. CASE RemoveOwnerReference
  <2> DEFINE v == [Api(crW) EXCEPT !.owner = 0]
  <2>1. WriteCR(v) /\ pc' = pc
    BY <1>6 DEF RemoveOwnerReference, Change
  <2>2. v \in CRVersion /\ v.uid = Api(crW).uid /\ v.conds = Api(crW).conds /\ v.spec = Api(crW).spec
    <3>1. 0 \in 0..MaxUid
      BY BoundsAssumption
    <3>2. QED
      BY <1>1, <3>1 DEF CRVersion
  <2> HIDE DEF v
  <2>3. CRSeen' = CRSeen
    BY <1>2, <2>1, <2>2 DEF CRSeen
  <2>4. QED
    BY <1>3, <2>1, <2>3
<1>7. CASE DeleteCR \/ CollectCR
  <2>1. WriteCR(NoCR) /\ pc' = pc
    BY <1>7 DEF DeleteCR, CollectCR, Change
  <2>2. Api(crW') = NoCR
    BY <1>2, <2>1, EmptyTypes
  <2>3. CRSeen'.uid = 0 /\ CRSeen'.ready = "None"
    BY <2>2, EmptyTypes DEF CRSeen
  <2>4. CR!Delete
    BY <1>3, <2>1, <2>3 DEF CR!Delete
  <2>5. QED
    BY <2>4 DEF CR!Next
<1>8. CASE Restart
  <2>1. Api(crW') = Api(crW) /\ pc' = "idle"
    BY <1>1, <1>8, RelistLemma DEF Restart
  <2>2. CR!Crash
    BY <2>1 DEF CR!Crash, CRSeen, PhaseSeen
  <2>3. QED
    BY <2>2 DEF CR!Next
<1>9. CASE DeliverCR
  <2>1. Api(crW') = Api(crW) /\ pc' = pc
    BY <1>1, <1>9, DeliverLemma DEF DeliverCR
  <2>2. QED
    BY <2>1 DEF CRSeen, PhaseSeen
<1>10. CASE /\ ~Restart /\ ~DeleteCR /\ ~RemoveOwnerReference /\ ~CollectCR /\ ~DeliverCR
            /\ \A s \in Specs : ~CreateCR(s) /\ ~EditCR(s)
  <2>1. UNCHANGED <<crW, pc>>
    BY <1>10 DEF Users, GarbageCollector, Watch, CreateZTWIM, DeleteZTWIM, TamperWithObject,
       DeleteObject, WorkloadStatus, CollectObject, Change, WriteObject, WriteZTWIM,
       DeliverZTWIM, DeliverObject, Resync
  <2>2. QED
    BY <2>1 DEF CRSeen, PhaseSeen
<1>11. QED
  BY <1>4, <1>5, <1>6, <1>7, <1>8, <1>9, <1>10

\* So is every step of a pass.
LEMMA WorkerRefines ==
    ASSUME NoFaultInv, Worker
    PROVE  CR!Next \/ UNCHANGED <<CRSeen, PhaseSeen>>
<1>1. Api(crW').uid = Api(crW).uid /\ Api(crW').spec = Api(crW).spec
  BY WorkerOnCR
<1>2. CASE pc = "idle" /\ pc' \in {"idle", "initial"} /\ UNCHANGED crW
  <2>1. CRSeen' = CRSeen /\ (pc' = "idle" => PhaseSeen' = PhaseSeen)
    BY <1>2 DEF CRSeen, PhaseSeen
  <2>2. pc' = "initial" => CR!Start
    BY <1>2, <2>1 DEF CR!Start, PhaseSeen
  <2>3. QED
    BY <1>2, <2>1, <2>2 DEF CR!Next
<1>3. CASE /\ pc = "initial" /\ pc' = "ztwim"
           /\ \/ UNCHANGED crW
              \/ Api(crW).uid # 0 /\ ReadyOf(Api(crW')) = "Reconciling"
  <2>1. PhaseSeen = "started" /\ PhaseSeen' = "working"
    BY <1>3 DEF PhaseSeen
  <2>2. \/ CRSeen' = CRSeen
        \/ CRSeen.uid # 0 /\ CRSeen' = [CRSeen EXCEPT !.ready = "Reconciling"]
    <3>1. CASE UNCHANGED crW
      BY <3>1 DEF CRSeen
    <3>2. CASE Api(crW).uid # 0 /\ ReadyOf(Api(crW')) = "Reconciling"
      BY <1>1, <3>2, SeenLemma
    <3>3. QED
      BY <1>3, <3>1, <3>2
  <2>3. CR!Announce
    BY <2>1, <2>2 DEF CR!Announce
  <2>4. QED
    BY <2>3 DEF CR!Next, CR!Controller
<1>4. CASE /\ pc \notin {"idle", "initial", "final"} /\ pc' \notin {"idle", "initial"}
           /\ ReadyOf(Api(crW')) = ReadyOf(Api(crW))
  BY <1>1, <1>4, SeenUnchanged DEF PhaseSeen
<1>5. CASE pc = "final" /\ pc' = "idle" /\ UNCHANGED crW
  <2>1. CR!GiveUp
    BY <1>5 DEF CR!GiveUp, PhaseSeen, CRSeen
  <2>2. QED
    BY <2>1 DEF CR!Next, CR!Controller
<1>6. CASE /\ pc = "final" /\ pc' = "idle" /\ Api(crW).uid # 0 /\ ReadyOf(Api(crW)) # "None"
           /\ ReadyOf(Api(crW')) \in {"True", "False", "Progressing"}
  <2>1. PhaseSeen = "working" /\ PhaseSeen' = "idle"
    BY <1>6 DEF PhaseSeen
  <2>2. CRSeen' = [CRSeen EXCEPT !.ready = ReadyOf(Api(crW'))]
    BY <1>1, SeenLemma
  <2>3. CRSeen.uid # 0 /\ CRSeen.ready # "None"
    BY <1>6, SeenLemma
  <2>4. CR!Conclude(ReadyOf(Api(crW')))
    BY <2>1, <2>2, <2>3 DEF CR!Conclude
  <2>5. QED
    BY <1>6, <2>4 DEF CR!Next, CR!Controller, CR!Verdicts
<1>7. QED
  BY <1>2, <1>3, <1>4, <1>5, <1>6, WorkerOnCR

\* The controller implements OperandCR, fairness aside: through its CR alone nobody can
\* tell the controller with its cache, queue, conflicts and retries from one that
\* announces every pass, gives one verdict per pass and never touches the spec.
THEOREM Implements == ASSUME MaxFaults = 0 PROVE Spec => CR!Safety
<1>1. Init => CR!Init
  <2> SUFFICES ASSUME Init PROVE CR!Init
    OBVIOUS
  <2>1. pc = "idle" /\ TypeOK
    BY TypeInit DEF Init
  <2>2. Api(crW).uid \in 0..MaxUid
    BY <2>1, PartTypes DEF CRVersion
  <2>3. Api(crW).conds["Ready"] \in {"None", "True", "False", "Progressing"}
    <3>1. CASE crW = <<NoCR>>
      BY <3>1, EmptyTypes, SingletonLemma
    <3>2. ASSUME NEW s \in Specs, crW = <<NewCR(1, s)>>
          PROVE  Api(crW).conds["Ready"] = "None"
      <4>1. 1 \in 1..MaxUid
        BY BoundsAssumption
      <4>2. NewCR(1, s) \in CRVersion /\ NewCR(1, s).conds["Ready"] = "None"
        BY <4>1, EmptyTypes
      <4>3. Api(crW) = NewCR(1, s)
        BY <3>2, <4>2, SingletonLemma
      <4>4. QED
        BY <4>2, <4>3
    <3>3. ASSUME NEW s \in Specs,
                 crW = <<[uid |-> 1, spec |-> s, owner |-> 1, conds |-> DeployedConds(s)]>>
          PROVE  Api(crW).conds["Ready"] \in {"True", "False", "Progressing"}
      <4>1. Api(crW).conds = DeployedConds(s)
        BY <3>3 DEF Api
      <4>2. QED
        BY <4>1, DeployedType
    <3>4. QED
      BY <3>1, <3>2, <3>3 DEF Init
  <2>4. QED
    BY <2>1, <2>2, <2>3 DEF CR!Init, CR!Verdicts, CRSeen, PhaseSeen
<1>2. NoFaultInv /\ [Next]_vars => [CR!Next]_(CR!crVars)
  <2> SUFFICES ASSUME NoFaultInv, [Next]_vars
               PROVE  CR!Next \/ UNCHANGED <<CRSeen, PhaseSeen>>
    BY DEF CR!crVars
  <2>1. CASE UNCHANGED vars
    BY <2>1 DEF vars, CRSeen, PhaseSeen
  <2>2. QED
    BY <2>1, EnvironmentRefines, WorkerRefines DEF Next
<1>3. QED
  BY <1>1, <1>2, NoFaultCorrect, PTL DEF Spec, CR!Safety

(***************************************************************************)
(* What a pass publishes whose steps left nothing to write.                *)
(***************************************************************************)

\* The i-th step needed to write nothing, and its condition, as far as a later step may not
\* have overwritten it, is among those collected.
DoneIn(i, collected, cr, z, objs, mode, skipped) ==
    LET step == Steps[i]
        v == Api(objs[step.obj])
        managed == "managedRoute" \in cr.spec.enabled
    IN  /\ step.kind = "validate" => step.cond \notin cr.spec.invalid
        /\ Deploys(i, cr.spec) =>
              /\ v.exists
              /\ \/ skipped
                 \/ step.kind \in {"createonce", "health"}
                 \/ ~Differs(v, Desired(step, cr, z))
        /\ step.kind = "route" /\ ~managed => collected[step.cond] = "False"
        /\ step.kind = "route" /\ managed /\ ~mode =>
              \/ collected[step.cond] = "True"
              \/ collected[step.cond] = "None" /\ cr.conds[step.cond] = "True"
        /\ step.kind = "health" =>
              collected[step.cond] = IF v.healthy THEN "True" ELSE "Progressing"
        /\ Says(step) => collected[step.cond] # "None"

Done(i, collected) ==
    DoneIn(i, collected, pass.cr, pass.ztwim, objW, createOnly, SkipsUpdate(Steps[i]))

\* The failures and rollouts collected are those of Routes and workloads as they are.
ExplainedIn(collected, next, spec, objs) ==
    \A c \in CondTypes \ NotOperational :
        /\ collected[c] # "Reconciling"
        /\ collected[c] = "False" =>
              \E i \in 1..(next - 1) :
                 /\ Steps[i].cond = c /\ Steps[i].kind = "route"
                 /\ Applies(Steps[i], spec) /\ "managedRoute" \notin spec.enabled
        /\ collected[c] = "Progressing" =>
              \E i \in 1..(next - 1) :
                 /\ Steps[i].cond = c /\ Steps[i].kind = "health"
                 /\ ~Api(objs[Steps[i].obj]).healthy

Explained(collected, next) == ExplainedIn(collected, next, pass.cr.spec, objW)

\* handleCreateOnlyMode has seen the mode of the process.
ModeKnown(collected) ==
    collected["CreateOnlyMode"] = IF createOnly THEN "True"
                                  ELSE IF pass.cr.conds["CreateOnlyMode"] = "True"
                                  THEN "False" ELSE "None"

\* The steps behind the pass are done.
StepsKnown ==
    /\ Explained(pass.conds, pass.next)
    /\ \A i \in 1..(pass.next - 1) : Applies(Steps[i], pass.cr.spec) => Done(i, pass.conds)

\* The pass has adopted the CR for the ZTWIM CR there is.
Adopted ==
    /\ pass.ztwim = Api(ztwimW) /\ pass.ztwim # 0
    /\ pass.cr.owner = pass.ztwim

\* What the pass is about to publish follows from the cluster as it is.
Verdict ==
    \/ Api(ztwimW) = 0 /\ pass.conds["Ready"] = "False"
    \/ /\ Adopted /\ pass.conds["Ready"] = "None" /\ ModeKnown(pass.conds)
       /\ \/ /\ Invalid(pass.cr.spec)
             /\ \E c \in CondTypes \ NotOperational : pass.conds[c] = "False"
          \/ pass.next = Len(Steps) + 1 /\ StepsKnown

\* What QuietIsRight and ReadyHasNoFailure ask of the stored CR.
RightFor(cr) ==
    /\ cr.conds["Ready"] = ExpectedReady(cr.spec)
    /\ Api(ztwimW) # 0 =>
          /\ cr.owner = Api(ztwimW)
          /\ (cr.conds["CreateOnlyMode"] = "True") = createOnly
          /\ Invalid(cr.spec) \/ ObjectsRight(cr)

NoFailureFor(cr) ==
    cr.conds["Ready"] = "True" =>
        \A i \in DOMAIN Steps :
           \/ ~Applies(Steps[i], cr.spec)
           \/ createOnly /\ Steps[i].kind = "route"
           \/ cr.conds[Steps[i].cond] = "True"

(***************************************************************************)
(* The steps of a spec, and the conditions published.                      *)
(***************************************************************************)

\* NextStep finds the next step that applies: it skips none.
LEMMA NextStepSkips ==
    ASSUME NEW i \in Nat, NEW spec
    PROVE  /\ NextStep(i, spec) \in Nat
           /\ i <= Len(Steps) => NextStep(i, spec) > i
           /\ NextStep(i, spec) \in DOMAIN Steps => Applies(Steps[NextStep(i, spec)], spec)
           /\ \A j \in DOMAIN Steps : j > i /\ j < NextStep(i, spec) => ~Applies(Steps[j], spec)
<1> DEFINE later == {j \in DOMAIN Steps : j > i /\ Applies(Steps[j], spec)}
<1>1. DOMAIN Steps = 1..Len(Steps) /\ Len(Steps) \in Nat
  BY StepsAssumption
<1>2. CASE later = {}
  <2>1. NextStep(i, spec) = Len(Steps) + 1
    BY <1>2 DEF NextStep
  <2>2. Len(Steps) + 1 \notin DOMAIN Steps /\ Len(Steps) + 1 \in Nat
    BY <1>1
  <2>3. i <= Len(Steps) => Len(Steps) + 1 > i
    BY <1>1
  <2>4. \A j \in DOMAIN Steps : j > i => ~Applies(Steps[j], spec)
    BY <1>2
  <2>5. QED
    BY <2>1, <2>2, <2>3, <2>4
<1>3. CASE later # {}
  <2>1. later \in SUBSET Nat
    BY <1>1
  <2>2. \E j \in later : \A k \in later : j <= k
    <3> HIDE DEF later
    <3> QED BY <1>3, <2>1, LeastElement
  <2>3. /\ (CHOOSE j \in later : \A k \in later : j <= k) \in later
        /\ \A k \in later : (CHOOSE j \in later : \A n \in later : j <= n) <= k
    <3> HIDE DEF later
    <3> QED BY <2>2
  <2>4. NextStep(i, spec) = CHOOSE j \in later : \A k \in later : j <= k
    BY <1>3 DEF NextStep
  <2>5. PICK n \in later : n = NextStep(i, spec) /\ \A k \in later : n <= k
    <3> HIDE DEF later
    <3> QED BY <2>3, <2>4
  <2>6. n \in DOMAIN Steps /\ n \in Nat /\ n > i /\ Applies(Steps[n], spec)
    BY <1>1
  <2>7. ASSUME NEW j \in DOMAIN Steps, j > i, j < n PROVE ~Applies(Steps[j], spec)
    BY <1>1, <2>5, <2>6, <2>7
  <2>8. QED
    BY <2>5, <2>6, <2>7
<1>4. QED
  BY <1>2, <1>3

\* The Ready summary tells failures and rollouts apart.
LEMMA SummaryLemma ==
    ASSUME NEW conds \in [CondTypes -> CondVal]
    PROVE  LET seen(v) == \E c \in CondTypes \ NotOperational : conds[c] = v
           IN  SetReadyCondition(conds) = IF seen("False") THEN "False"
                                          ELSE IF seen("Progressing") THEN "Progressing"
                                          ELSE "True"
BY DEF SetReadyCondition

\* A condition the pass has set is published as it set it, another one as it was.
LEMMA PublishedLemma ==
    ASSUME NEW old \in [CondTypes -> CondVal], NEW conds \in [CondTypes -> CondVal]
    PROVE  \A c \in CondTypes \ {"Ready"} :
              Published(old, conds)[c] = IF conds[c] = "None" THEN old[c] ELSE conds[c]
BY DEF Published

(***************************************************************************)
(* A verdict is right.                                                     *)
(***************************************************************************)

\* A pass with all its steps behind it and nothing disturbed.
AllDone ==
    /\ Adopted /\ pass.conds["Ready"] = "None"
    /\ pass.next = Len(Steps) + 1 /\ StepsKnown

\* Such a pass has taken every step that applies.
LEMMA AllTaken ==
    ASSUME TypeOK, AllDone, NEW i \in DOMAIN Steps, Applies(Steps[i], pass.cr.spec)
    PROVE  Done(i, pass.conds)
<1>1. DOMAIN Steps = 1..Len(Steps) /\ Len(Steps) \in Nat
  BY StepsAssumption
<1>2. i \in 1..(pass.next - 1)
  BY <1>1 DEF AllDone
<1>3. QED
  BY <1>2 DEF AllDone, StepsKnown

\* It has found the spec valid, which no check may be skipped of.
LEMMA DoneIsValid ==
    ASSUME TypeOK, AllDone
    PROVE  ~Invalid(pass.cr.spec)
<1> SUFFICES ASSUME NEW i \in DOMAIN Steps, Steps[i].kind = "validate",
                    Steps[i].cond \in pass.cr.spec.invalid
             PROVE  FALSE
  BY DEF Invalid
<1>1. Applies(Steps[i], pass.cr.spec)
  BY StepsOrderAssumption DEF Applies
<1>2. Done(i, pass.conds)
  BY <1>1, AllTaken
<1>3. QED
  BY <1>2 DEF Done, DoneIn

\* The Ready it publishes is the one the cluster calls for.
LEMMA DoneIsReady ==
    ASSUME TypeOK, AllDone
    PROVE  SetReadyCondition(pass.conds) = ExpectedReady(pass.cr.spec)
<1> DEFINE Seen(v) == \E c \in CondTypes \ NotOperational : pass.conds[c] = v
           spec == pass.cr.spec
<1>1. DOMAIN Steps = 1..Len(Steps) /\ Len(Steps) \in Nat
  BY StepsAssumption
<1>2. \A i \in 1..(pass.next - 1) : i \in DOMAIN Steps
  BY <1>1 DEF AllDone
<1>3. SetReadyCondition(pass.conds) = IF Seen("False") THEN "False"
                                      ELSE IF Seen("Progressing") THEN "Progressing" ELSE "True"
  BY PartTypes, SummaryLemma
<1>4. ASSUME NEW c \in CondTypes \ NotOperational, pass.conds[c] = "False" PROVE RouteDisabled(spec)
  <2>1. PICK i \in 1..(pass.next - 1) :
           /\ Steps[i].cond = c /\ Steps[i].kind = "route"
           /\ Applies(Steps[i], spec) /\ "managedRoute" \notin spec.enabled
    BY <1>4 DEF AllDone, StepsKnown, Explained, ExplainedIn
  <2>2. QED
    BY <1>2, <2>1 DEF RouteDisabled
<1>5. ASSUME RouteDisabled(spec) PROVE Seen("False")
  <2>1. PICK i \in DOMAIN Steps : /\ Applies(Steps[i], spec) /\ Steps[i].kind = "route"
                                  /\ "managedRoute" \notin spec.enabled
    BY <1>5 DEF RouteDisabled
  <2>2. Done(i, pass.conds)
    BY <2>1, AllTaken
  <2>3. pass.conds[Steps[i].cond] = "False"
    BY <2>1, <2>2 DEF Done, DoneIn
  <2>4. QED
    BY <2>3, CondTypesLemma
<1>6. ASSUME NEW c \in CondTypes \ NotOperational, pass.conds[c] = "Progressing"
      PROVE  ~(\A o \in Workloads : Api(objW[o]).healthy)
  <2>1. PICK i \in 1..(pass.next - 1) :
           /\ Steps[i].cond = c /\ Steps[i].kind = "health"
           /\ ~Api(objW[Steps[i].obj]).healthy
    BY <1>6 DEF AllDone, StepsKnown, Explained, ExplainedIn
  <2>2. Steps[i].obj \in Workloads
    BY <1>2, <2>1 DEF Workloads, OfKind
  <2>3. QED
    BY <2>1, <2>2
<1>7. ASSUME NEW o \in Workloads, ~Api(objW[o]).healthy PROVE Seen("Progressing")
  <2>1. PICK i \in DOMAIN Steps : Steps[i].kind = "health" /\ Steps[i].obj = o
    BY DEF Workloads, OfKind
  <2>2. Applies(Steps[i], spec)
    BY <2>1, StepsOrderAssumption DEF Applies
  <2>3. Done(i, pass.conds)
    BY <2>2, AllTaken
  <2>4. pass.conds[Steps[i].cond] = "Progressing"
    BY <1>7, <2>1, <2>3 DEF Done, DoneIn
  <2>5. QED
    BY <2>4, CondTypesLemma
<1>8. ~Invalid(spec) /\ Api(ztwimW) # 0
  BY DoneIsValid DEF AllDone, Adopted
<1> HIDE DEF spec
<1>9. ExpectedReady(spec) = IF Seen("False") THEN "False"
                            ELSE IF Seen("Progressing") THEN "Progressing" ELSE "True"
  <2>1. RouteDisabled(spec) <=> Seen("False")
    BY <1>4, <1>5
  <2>2. (\A o \in Workloads : Api(objW[o]).healthy) <=> ~Seen("Progressing")
    BY <1>6, <1>7
  <2> HIDE DEF Seen
  <2>3. QED
    BY <1>8, <2>1, <2>2, Zenon DEF ExpectedReady
<1> HIDE DEF Seen
<1>10. QED
  BY <1>3, <1>9 DEF spec

\* The objects are there and as generated.  A copy of the CR with other conditions generates
\* the same objects.
LEMMA DoneIsDeployed ==
    ASSUME TypeOK, AllDone, NEW cr, cr.spec = pass.cr.spec, cr.uid = pass.cr.uid
    PROVE  ObjectsRight(cr)
<1> SUFFICES ASSUME NEW i \in DOMAIN Steps, Deploys(i, pass.cr.spec)
             PROVE  LET v == Api(objW[Steps[i].obj])
                    IN  /\ v.exists
                        /\ \/ createOnly
                           \/ Steps[i].kind \in {"createonce", "health"}
                           \/ ~Differs(v, Desired(Steps[i], cr, Api(ztwimW)))
  BY DEF ObjectsRight
<1>1. Done(i, pass.conds)
  BY AllTaken DEF Deploys
<1>2. Desired(Steps[i], cr, Api(ztwimW)) = Desired(Steps[i], pass.cr, pass.ztwim)
  BY DEF Desired, AllDone, Adopted
<1>3. SkipsUpdate(Steps[i]) => createOnly
  BY DEF SkipsUpdate
<1>4. QED
  BY <1>1, <1>2, <1>3, Zenon DEF Done, DoneIn

\* If Ready is True, no condition of a step is left at anything else, although the pass
\* merges its conditions over the published ones and the Route step may say nothing.
LEMMA DoneHasNoFailure ==
    ASSUME TypeOK, AllDone, SetReadyCondition(pass.conds) = "True",
           NEW i \in DOMAIN Steps, Applies(Steps[i], pass.cr.spec),
           ~(createOnly /\ Steps[i].kind = "route")
    PROVE  Published(pass.cr.conds, pass.conds)[Steps[i].cond] = "True"
<1> DEFINE c == Steps[i].cond
           Seen(v) == \E d \in CondTypes \ NotOperational : pass.conds[d] = v
<1>1. DOMAIN Steps = 1..Len(Steps) /\ Len(Steps) \in Nat
  BY StepsAssumption
<1>2. c \in CondTypes \ NotOperational /\ c # "Ready" /\ c \in CondTypes \ {"Ready"}
  BY CondTypesLemma DEF NotOperational
<1>3. pass.conds \in [CondTypes -> CondVal] /\ pass.cr.conds \in [CondTypes -> CondVal]
  BY PartTypes
<1>4. Published(pass.cr.conds, pass.conds)[c]
         = IF pass.conds[c] = "None" THEN pass.cr.conds[c] ELSE pass.conds[c]
  BY <1>2, <1>3, PublishedLemma
<1>5. ~Seen("False") /\ ~Seen("Progressing")
  <2>1. SetReadyCondition(pass.conds) = IF Seen("False") THEN "False"
                                        ELSE IF Seen("Progressing") THEN "Progressing" ELSE "True"
    BY <1>3, SummaryLemma
  <2> HIDE DEF Seen
  <2>2. QED
    BY <2>1
<1>6. pass.conds[c] \in {"None", "True"}
  <2>1. pass.conds[c] # "Reconciling"
    BY <1>2 DEF AllDone, StepsKnown, Explained, ExplainedIn
  <2>2. pass.conds[c] # "False" /\ pass.conds[c] # "Progressing"
    BY <1>2, <1>5
  <2>3. pass.conds[c] \in CondVal
    BY <1>2, <1>3
  <2>4. QED
    BY <2>1, <2>2, <2>3 DEF CondVal
<1>7. CASE Steps[i].kind = "route"
  <2>1. ~createOnly
    BY <1>7
  <2>2. Done(i, pass.conds)
    BY AllTaken
  <2>3. "managedRoute" \in pass.cr.spec.enabled
    <3>1. "managedRoute" \notin pass.cr.spec.enabled => pass.conds[c] = "False"
      BY <1>7, <2>2 DEF Done, DoneIn
    <3>2. QED
      BY <1>6, <3>1
  <2>4. pass.conds[c] = "True" \/ (pass.conds[c] = "None" /\ pass.cr.conds[c] = "True")
    BY <1>7, <2>1, <2>2, <2>3 DEF Done, DoneIn
  <2>5. QED
    BY <1>4, <2>4
<1>8. CASE Steps[i].kind # "route"
  <2>1. PICK j \in i..Len(Steps) : /\ Says(Steps[j]) /\ Steps[j].cond = c
                                   /\ Steps[j].when \in {"always", Steps[i].when}
    BY <1>8, StepsOrderAssumption
  <2>2. j \in DOMAIN Steps
    BY <1>1
  <2>3. Applies(Steps[j], pass.cr.spec)
    BY <2>1 DEF Applies
  <2>4. Done(j, pass.conds)
    BY <2>2, <2>3, AllTaken
  <2>5. pass.conds[c] # "None"
    BY <2>1, <2>4 DEF Done, DoneIn
  <2>6. QED
    BY <1>4, <1>6, <2>5
<1>9. QED
  BY <1>7, <1>8

\* A pass announces itself with a Ready that it never ends with, so there is always
\* something to publish.
LEMMA VerdictIsNews ==
    ASSUME TypeOK, Verdict, pass.cr.conds["Ready"] = "Reconciling"
    PROVE  Published(pass.cr.conds, pass.conds) # pass.cr.conds
<1>1. Published(pass.cr.conds, pass.conds)["Ready"]
         = IF pass.conds["Ready"] = "None" THEN SetReadyCondition(pass.conds)
                                           ELSE pass.conds["Ready"]
  BY PartTypes, PublishedType
<1>2. pass.conds["Ready"] \in {"None", "False"}
  BY DEF Verdict
<1>3. SetReadyCondition(pass.conds) \in {"True", "False", "Progressing"}
  BY ReadySummary
<1>4. QED
  BY <1>1, <1>2, <1>3

\* The published mode is the mode of the process.
LEMMA ModeIsPublished ==
    ASSUME TypeOK, ModeKnown(pass.conds)
    PROVE  (Published(pass.cr.conds, pass.conds)["CreateOnlyMode"] = "True") = createOnly
<1> DEFINE mode == Published(pass.cr.conds, pass.conds)["CreateOnlyMode"]
           old == pass.cr.conds["CreateOnlyMode"]
           said == pass.conds["CreateOnlyMode"]
<1>1. mode = IF said = "None" THEN old ELSE said
  BY PartTypes, CondTypesLemma, PublishedLemma
<1>2. said = IF createOnly THEN "True" ELSE IF old = "True" THEN "False" ELSE "None"
  BY DEF ModeKnown
<1> HIDE DEF mode, old, said
<1>3. createOnly \in BOOLEAN
  BY DEF TypeOK
<1>4. mode = "True" <=> createOnly
  BY <1>1, <1>2
<1>5. (mode = "True") = createOnly
  BY <1>3, <1>4, Zenon
<1>6. QED
  BY <1>5 DEF mode

\* What the pass publishes is right, and no failure stands next to Ready=True.
LEMMA VerdictIsRight ==
    ASSUME TypeOK, Verdict, NEW cr, cr.uid = pass.cr.uid, cr.spec = pass.cr.spec,
           cr.owner = pass.cr.owner, cr.conds = Published(pass.cr.conds, pass.conds)
    PROVE  RightFor(cr) /\ NoFailureFor(cr)
<1>1. cr.conds["Ready"] = IF pass.conds["Ready"] = "None" THEN SetReadyCondition(pass.conds)
                                                          ELSE pass.conds["Ready"]
  <2>1. pass.conds \in [CondTypes -> CondVal] /\ pass.cr.conds \in [CondTypes -> CondVal]
    BY PartTypes
  <2>2. Published(pass.cr.conds, pass.conds)["Ready"]
           = IF pass.conds["Ready"] = "None" THEN SetReadyCondition(pass.conds)
                                             ELSE pass.conds["Ready"]
    BY <2>1, PublishedType
  <2>3. QED
    BY <2>2
<1>2. CASE Api(ztwimW) = 0 /\ pass.conds["Ready"] = "False"
  <2>1. cr.conds["Ready"] = "False" /\ ExpectedReady(cr.spec) = "False"
    BY <1>1, <1>2 DEF ExpectedReady
  <2>2. QED
    BY <1>2, <2>1 DEF RightFor, NoFailureFor
<1>3. CASE Adopted /\ pass.conds["Ready"] = "None" /\ ModeKnown(pass.conds)
  <2>1. cr.owner = Api(ztwimW) /\ Api(ztwimW) # 0
    BY <1>3 DEF Adopted
  <2>2. (cr.conds["CreateOnlyMode"] = "True") = createOnly
    BY <1>3, ModeIsPublished
  <2>3. cr.conds["Ready"] = SetReadyCondition(pass.conds)
    BY <1>1, <1>3
  <2>4. CASE /\ Invalid(pass.cr.spec)
             /\ \E c \in CondTypes \ NotOperational : pass.conds[c] = "False"
    <3>1. SetReadyCondition(pass.conds) = "False"
      BY <2>4, PartTypes, SummaryLemma
    <3>2. cr.conds["Ready"] = "False"
      BY <2>3, <3>1
    <3>3. ExpectedReady(cr.spec) = "False" /\ Invalid(cr.spec)
      BY <2>4 DEF ExpectedReady
    <3>4. RightFor(cr)
      BY <2>1, <2>2, <3>2, <3>3 DEF RightFor
    <3>5. NoFailureFor(cr)
      BY <3>2 DEF NoFailureFor
    <3>6. QED
      BY <3>4, <3>5
  <2>5. CASE pass.next = Len(Steps) + 1 /\ StepsKnown
    <3>1. AllDone
      BY <1>3, <2>5 DEF AllDone
    <3>2. cr.conds["Ready"] = ExpectedReady(cr.spec)
      BY <2>3, <3>1, DoneIsReady
    <3>3. ObjectsRight(cr)
      BY <3>1, DoneIsDeployed
    <3>4. RightFor(cr)
      BY <2>1, <2>2, <3>2, <3>3 DEF RightFor
    <3>5. NoFailureFor(cr)
      BY <2>3, <3>1, DoneHasNoFailure DEF NoFailureFor
    <3>6. QED
      BY <3>4, <3>5
  <2>6. QED
    BY <1>2, <1>3, <2>4, <2>5 DEF Verdict
<1>4. QED
  BY <1>2, <1>3 DEF Verdict
=============================================================================
