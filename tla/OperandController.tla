-------------------------- MODULE OperandController --------------------------
(***************************************************************************)
(* The controller of an operand CR: SpireServer, SpireAgent,               *)
(* SpiffeCSIDriver or SpireOIDCDiscoveryProvider (pkg/controller/spire-*,  *)
(* pkg/controller/spiffe-csi-driver).  The four controllers share one      *)
(* shape and differ in the steps of a pass, the constant Steps (see        *)
(* OperandSteps).  A pass reads the CR and the ZTWIM CR from the informer  *)
(* cache, adopts the CR, creates or repairs the objects of the operand,    *)
(* and publishes the conditions it collected.  Users, workloads, the       *)
(* garbage collector, the API server and the watches are its environment.  *)
(***************************************************************************)
EXTENDS Conditions, Informer

CONSTANTS
    Steps,          \* the steps of a pass, a sequence of records of OperandSteps
    Specs,          \* CR specs users may write: [id, invalid, enabled] records
    Tampering,      \* what others do to an object: "content", "component", "managedBy"
    MaxLag,         \* bound: undelivered versions of one object
    MaxUid,         \* bound: incarnations of the CR and of the ZTWIM CR
    MaxChanges,     \* bound: environment changes and restarts
    MaxFaults       \* bound: API requests that fail

StepType == [kind: STRING, obj: STRING, cond: STRING \ NotOperational,
             from: SUBSET STRING, when: STRING,
             marks: BOOLEAN, silent: BOOLEAN, open: BOOLEAN]

SpecType == [id: Nat, invalid: SUBSET STRING, enabled: SUBSET STRING]

ASSUME StepsAssumption ==
    /\ Steps \in Seq(StepType)
    /\ \E i \in DOMAIN Steps : Steps[i].when = "always"

\* The steps that set their condition whenever they are done; the Route step may leave the
\* published condition as it is.
Says(step) == step.kind \in {"validate", "health"} \/ (step.marks /\ step.kind # "route")

\* What the four controllers have in common.  The checks of the spec and the health of a
\* workload are never skipped, and the health is read after the workload was reconciled; no
\* later step overwrites the condition of a workload or a Route; every other step has its
\* outcome reported by itself or by a later step that is not skipped if it is not.
ASSUME StepsOrderAssumption ==
    \A i \in DOMAIN Steps :
        LET step == Steps[i]
        IN  /\ step.kind \in {"validate", "mark"} <=> step.obj = "none"
            /\ step.kind \in {"validate", "health"} => step.when = "always"
            /\ step.kind = "route" => step.marks
            /\ step.kind = "health" =>
                  \E j \in 1..(i - 1) : /\ Steps[j].kind = "managed" /\ Steps[j].obj = step.obj
                                        /\ Steps[j].when = "always"
            /\ step.kind \in {"health", "route"} =>
                  \A j \in (i + 1)..Len(Steps) : Steps[j].cond # step.cond
            /\ step.kind # "route" =>
                  \E j \in i..Len(Steps) : /\ Says(Steps[j]) /\ Steps[j].cond = step.cond
                                           /\ Steps[j].when \in {"always", step.when}

ASSUME SpecsAssumption == Specs \subseteq SpecType

ASSUME BoundsAssumption ==
    /\ Tampering \subseteq {"content", "component", "managedBy"}
    /\ MaxLag \in Nat \ {0} /\ MaxUid \in Nat \ {0}
    /\ MaxChanges \in Nat /\ MaxFaults \in Nat

VARIABLES
    crW,            \* the operand CR: [uid, spec, owner, conds] versions, uid 0 absent
    ztwimW,         \* UID of the ZTWIM CR, 0 absent
    objW,           \* the objects: [exists, content, labels, owner, healthy] versions
    createOnly,     \* CREATE_ONLY_MODE of the running process
    queued,         \* the single work item "cluster" is in the queue
    pc,             \* what the worker does next
    pass,           \* locals of the pass in progress
    lost,           \* history: the last pass lost a read or a write to a fault
    changes, faults \* what is left of the bounds

vars == <<crW, ztwimW, objW, createOnly, queued, pc, pass, lost, changes, faults>>
env == <<createOnly, changes>>

Objects == {Steps[i].obj : i \in DOMAIN Steps} \ {"none"}
StepsOf(o) == {i \in DOMAIN Steps : Steps[i].obj = o}
OfKind(kind) == {Steps[i].obj : i \in {j \in DOMAIN Steps : Steps[j].kind = kind}}
Workloads == OfKind("health")
Unguarded == OfKind("unguarded")

CondTypes == {"Ready", "CreateOnlyMode"} \cup {Steps[i].cond : i \in DOMAIN Steps}

NoSpec == [id |-> 0, invalid |-> {}, enabled |-> {}]

NoCR == [uid |-> 0, spec |-> NoSpec, owner |-> 0, conds |-> NoConditions(CondTypes)]

\* What a generated object is computed from; an edited one is computed from nothing.
NoContent == [spec |-> 0, ztwim |-> 0]

NoObject == [exists |-> FALSE, content |-> NoContent, labels |-> "ok", owner |-> 0,
             healthy |-> FALSE]

NewCR(u, s) == [uid |-> u, spec |-> s, owner |-> 0, conds |-> NoConditions(CondTypes)]

(***************************************************************************)
(* Objects as generated, and as found in the cache.                        *)
(***************************************************************************)

\* What the generators compute from the CR and the ZTWIM CR, with the CR as the
\* controlling owner.  Only the Route gets no owner reference.
Desired(step, cr, z) ==
    [exists  |-> TRUE,
     content |-> [spec  |-> IF "spec" \in step.from THEN cr.spec.id ELSE 0,
                  ztwim |-> IF "ztwim" \in step.from THEN z ELSE 0],
     labels  |-> "ok",
     owner   |-> IF step.kind = "route" THEN 0 ELSE cr.uid,
     healthy |-> FALSE]

\* ResourceNeedsUpdate and the comparisons of ConfigMaps and Routes: content and
\* labels decide, owner references do not.
Differs(existing, desired) ==
    existing.content # desired.content \/ existing.labels # "ok"

\* A workload with open fields is written in every pass.
NeedsUpdate(step, existing, desired) == Differs(existing, desired) \/ step.open

\* An update keeps the recorded rollout state only if the workload's own spec, and
\* with it its generation, stays as it was.
Updated(existing, desired) ==
    [desired EXCEPT !.healthy = existing.healthy /\ existing.content = desired.content]

\* The cache holds only objects with the managed-by label, SCCs excepted.
Visible(o, v) ==
    IF v.labels = "managedBy" /\ o \notin Unguarded THEN NoObject ELSE v

View(o) == Visible(o, Cached(objW[o]))

(***************************************************************************)
(* Initial states.                                                         *)
(***************************************************************************)

\* The steps a CR's spec enables.
Applies(step, spec) == step.when = "always" \/ step.when \in spec.enabled

NextStep(i, spec) ==
    LET later == {j \in DOMAIN Steps : j > i /\ Applies(Steps[j], spec)}
    IN  IF later = {} THEN Len(Steps) + 1
        ELSE CHOOSE j \in later : \A k \in later : j <= k

\* cr: the local copy of the CR; current: its resourceVersion is the stored one;
\* ztwim: the UID read; next: the step to take; conds: the conditions collected;
\* err: Reconcile returns an error.
NoPass == [cr |-> NoCR, current |-> FALSE, ztwim |-> 0, next |-> 1,
           conds |-> NoConditions(CondTypes), err |-> FALSE]

\* What a pass over an undisturbed cluster leaves behind.
Deployed(o, s) ==
    LET use == {i \in StepsOf(o) : /\ Steps[i].kind # "health"
                                   /\ Applies(Steps[i], s)
                                   /\ Steps[i].kind = "route" => "managedRoute" \in s.enabled}
    IN  IF use = {} THEN NoObject
        ELSE [Desired(Steps[CHOOSE i \in use : TRUE], NewCR(1, s), 1) EXCEPT
                !.healthy = o \in Workloads]

DeployedConds(s) ==
    LET conds == [c \in CondTypes |->
                    IF \A i \in DOMAIN Steps : Steps[i].cond # c \/ ~Applies(Steps[i], s)
                    THEN "None"
                    ELSE IF c = "RouteAvailable" /\ "managedRoute" \notin s.enabled
                    THEN "False" ELSE "True"]
    IN  Published(NoConditions(CondTypes), conds)

\* Every listed object is a create event; an object's event must carry the labels.
SomethingListed ==
    \/ Api(crW).uid # 0 \/ Api(ztwimW) # 0
    \/ \E o \in Objects : Api(objW[o]).exists /\ Api(objW[o]).labels = "ok"

\* The operator starts before the CRs exist, or on a cluster where nothing is deployed
\* yet, or where an earlier process has deployed everything.
Init ==
    /\ \/ /\ crW = <<NoCR>>
          /\ ztwimW \in {<<0>>, <<1>>}
          /\ objW = [o \in Objects |-> <<NoObject>>]
       \/ \E s \in Specs :
            /\ crW = <<NewCR(1, s)>>
            /\ ztwimW \in {<<0>>, <<1>>}
            /\ objW = [o \in Objects |-> <<NoObject>>]
       \/ \E s \in Specs :
            /\ s.invalid = {}
            /\ crW = <<[uid |-> 1, spec |-> s, owner |-> 1, conds |-> DeployedConds(s)]>>
            /\ ztwimW = <<1>>
            /\ objW = [o \in Objects |-> <<Deployed(o, s)>>]
    /\ createOnly \in BOOLEAN
    /\ queued = SomethingListed
    /\ pc = "idle" /\ pass = NoPass
    /\ lost = FALSE
    /\ changes = MaxChanges /\ faults = MaxFaults

(***************************************************************************)
(* The environment.                                                        *)
(***************************************************************************)
Change ==
    /\ changes > 0 /\ changes' = changes - 1
    /\ UNCHANGED <<createOnly, queued, pc, lost, faults>>

\* Somebody else's write to the CR outdates the copy the pass holds.
WriteCR(v) ==
    /\ Len(crW) <= MaxLag
    /\ crW' = Append(crW, v)
    /\ pass' = [pass EXCEPT !.current = FALSE]
    /\ UNCHANGED <<ztwimW, objW>>

WriteObject(o, v) ==
    /\ Len(objW[o]) <= MaxLag
    /\ objW' = [objW EXCEPT ![o] = Append(@, v)]
    /\ UNCHANGED <<crW, ztwimW, pass>>

WriteZTWIM(u) ==
    /\ Len(ztwimW) <= MaxLag
    /\ ztwimW' = Append(ztwimW, u)
    /\ UNCHANGED <<crW, objW, pass>>

\* UIDs are never reused: not one that an object, a cache or the pass still names.
FreshCRUid(u) ==
    /\ \A i \in DOMAIN crW : crW[i].uid # u
    /\ pass.cr.uid # u
    /\ \A o \in Objects : \A i \in DOMAIN objW[o] : objW[o][i].owner # u

FreshZTWIMUid(u) ==
    /\ \A i \in DOMAIN ztwimW : ztwimW[i] # u
    /\ pass.ztwim # u
    /\ \A i \in DOMAIN crW : crW[i].owner # u
    /\ \A o \in Objects : \A i \in DOMAIN objW[o] : objW[o][i].content.ztwim # u

CreateCR(s) ==
    /\ Change
    /\ Api(crW).uid = 0
    /\ \E u \in 1..MaxUid : FreshCRUid(u) /\ WriteCR(NewCR(u, s))

\* Federation, once configured, cannot be removed.
EditCR(s) ==
    /\ Change
    /\ Api(crW).uid # 0 /\ Api(crW).spec # s
    /\ "federation" \in Api(crW).spec.enabled => "federation" \in s.enabled
    /\ WriteCR([Api(crW) EXCEPT !.spec = s])

RemoveOwnerReference ==
    /\ Change
    /\ Api(crW).owner # 0
    /\ WriteCR([Api(crW) EXCEPT !.owner = 0])

DeleteCR ==
    /\ Change
    /\ Api(crW).uid # 0
    /\ WriteCR(NoCR)

CreateZTWIM ==
    /\ Change
    /\ Api(ztwimW) = 0
    /\ \E u \in 1..MaxUid : FreshZTWIMUid(u) /\ WriteZTWIM(u)

DeleteZTWIM ==
    /\ Change
    /\ Api(ztwimW) # 0
    /\ WriteZTWIM(0)

\* Others edit an object's content, change its component label, strip its managed-by
\* label, or delete it.
TamperWithObject(o) ==
    /\ Change
    /\ Api(objW[o]).exists
    /\ \/ /\ "content" \in Tampering /\ Api(objW[o]).content # NoContent
          /\ WriteObject(o, [Api(objW[o]) EXCEPT !.content = NoContent, !.healthy = FALSE])
       \/ \E l \in Tampering \ {"content"} :
            /\ Api(objW[o]).labels = "ok"
            /\ WriteObject(o, [Api(objW[o]) EXCEPT !.labels = l])

DeleteObject(o) ==
    /\ Change
    /\ Api(objW[o]).exists
    /\ WriteObject(o, NoObject)

\* A workload completes its rollout, or its pods fail.
WorkloadStatus(o) ==
    /\ o \in Workloads
    /\ Change
    /\ Api(objW[o]).exists
    /\ WriteObject(o, [Api(objW[o]) EXCEPT !.healthy = ~@])

\* The garbage collector deletes what a vanished owner owns.
CollectCR ==
    /\ Api(crW).uid # 0
    /\ Api(crW).owner \notin {0, Api(ztwimW)}
    /\ WriteCR(NoCR)
    /\ UNCHANGED <<createOnly, queued, pc, lost, changes, faults>>

CollectObject(o) ==
    /\ Api(objW[o]).exists
    /\ Api(objW[o]).owner \notin {0, Api(crW).uid}
    /\ WriteObject(o, NoObject)
    /\ UNCHANGED <<createOnly, queued, pc, lost, changes, faults>>

(***************************************************************************)
(* Watch events and predicates (SetupWithManager).                         *)
(***************************************************************************)

\* Slip: every update event passes, those of the controller's own status writes too.
crPredicateAnyChange(old, new) == old # new

\* GenerationOrOwnerReferenceChangedPredicate: creations, deletions, spec edits and
\* changed owner references; a status write passes neither half.
crPredicate(old, new) ==
    old.uid # new.uid \/ old.spec # new.spec \/ old.owner # new.owner

\* Slip: deletions are not looked at.
componentPredicateNoDelete(o, old, new) == Visible(o, new).exists /\ new.labels = "ok"

\* ControllerManagedResourcesForComponent looks at the labels of the new state of the
\* object, or of the last one before its deletion.
componentPredicate(o, old, new) ==
    IF Visible(o, new).exists THEN new.labels = "ok"
    ELSE Visible(o, old).exists /\ old.labels = "ok"

DeliverCR ==
    /\ Len(crW) > 1
    /\ crW' = Deliver(crW)
    /\ queued' = (queued \/ crPredicate(crW[1], crW[2]))
    /\ UNCHANGED <<ztwimW, objW, pc, pass, lost, faults, env>>

\* ZTWIMSpecChangedPredicate: creations and deletions; no update passes, such as a status
\* write of the ZTWIM controller (see Operator).
DeliverZTWIM ==
    /\ Len(ztwimW) > 1
    /\ ztwimW' = Deliver(ztwimW)
    /\ queued' = (queued \/ ztwimW[1] # ztwimW[2])
    /\ UNCHANGED <<crW, objW, pc, pass, lost, faults, env>>

DeliverObject(o) ==
    /\ Len(objW[o]) > 1
    /\ objW' = [objW EXCEPT ![o] = Deliver(@)]
    /\ queued' = (queued \/ componentPredicate(o, objW[o][1], objW[o][2]))
    /\ UNCHANGED <<crW, ztwimW, pc, pass, lost, faults, env>>

\* The periodic resync replays updates; those of the CRs pass no predicate.
SomethingWatched == \E o \in Objects : View(o).exists /\ View(o).labels = "ok"

Resync ==
    /\ SomethingWatched
    /\ ~queued
    /\ queued' = TRUE
    /\ UNCHANGED <<crW, ztwimW, objW, pc, pass, lost, faults, env>>

(***************************************************************************)
(* The worker: one pass of Reconcile.                                      *)
(***************************************************************************)
Fault == faults > 0 /\ faults' = faults - 1

\* A CR that is not in the cache ends the pass; a failed read requeues it.
Reconcile ==
    /\ pc = "idle" /\ queued
    /\ LET cr == Cached(crW)
       IN  \/ /\ queued' = FALSE
              /\ pass' = [NoPass EXCEPT !.cr = cr, !.current = (cr.uid # 0 /\ Drained(crW))]
              /\ pc' = IF cr.uid = 0 THEN "idle" ELSE "initial"
              /\ lost' = FALSE
              /\ UNCHANGED faults
           \/ Fault /\ UNCHANGED <<queued, pass, pc, lost>>
    /\ UNCHANGED <<crW, ztwimW, objW, env>>

\* StatusUpdateWithRetry takes the resourceVersion from the cache on each try, so it
\* succeeds once the cache has caught up, provided the CR is still the same one.  The
\* response replaces the local copy.
CRIsCurrent == Drained(crW) /\ Api(crW).uid = pass.cr.uid

StatusUpdate(conds) ==
    /\ CRIsCurrent
    /\ LET cr == [Api(crW) EXCEPT !.conds = conds]
       IN  /\ crW' = Store(crW, cr)
           /\ pass' = [pass EXCEPT !.cr = cr, !.current = TRUE]
    /\ UNCHANGED faults

\* It fails when the CR is gone or another one, when the retries run out, or when the
\* API server refuses; the local copy may have got the cached resourceVersion.
StatusUpdateFails(conds) ==
    /\ IF Api(crW).uid = pass.cr.uid THEN Fault ELSE UNCHANGED faults
    /\ \E c \in {pass.current, CRIsCurrent} :
          pass' = [pass EXCEPT !.cr.conds = conds, !.current = c]
    /\ UNCHANGED crW

\* Slip: the status is left alone until the pass has a result.
NoInitialStatus ==
    /\ pc = "initial"
    /\ pc' = "ztwim"
    /\ UNCHANGED <<crW, ztwimW, objW, queued, pass, lost, faults, env>>

\* A failure to publish "Reconciling" is only printed.
SetInitialReconciliationStatus ==
    /\ pc = "initial"
    /\ LET conds == [pass.cr.conds EXCEPT !["Ready"] = "Reconciling"]
       IN  \/ conds = pass.cr.conds /\ UNCHANGED <<crW, pass, faults>>
           \/ conds # pass.cr.conds /\ (StatusUpdate(conds) \/ StatusUpdateFails(conds))
    /\ pc' = "ztwim"
    /\ UNCHANGED <<ztwimW, objW, queued, lost, env>>

\* No ZTWIM CR is a failure without retry; a failed read is an error that leaves no
\* condition behind.
GetZTWIM ==
    /\ pc = "ztwim"
    /\ \/ /\ Cached(ztwimW) = 0
          /\ pass' = [pass EXCEPT !.conds["Ready"] = "False"]
          /\ pc' = "final"
          /\ UNCHANGED faults
       \/ /\ Cached(ztwimW) # 0
          /\ pass' = [pass EXCEPT !.ztwim = Cached(ztwimW)]
          /\ pc' = IF pass.cr.owner = Cached(ztwimW) THEN "mode" ELSE "owner"
          /\ UNCHANGED faults
       \/ /\ Fault
          /\ pass' = [pass EXCEPT !.err = TRUE]
          /\ pc' = "final"
    /\ UNCHANGED <<crW, ztwimW, objW, queued, lost, env>>

\* Slip: the update takes a fresh resourceVersion from the cache, like UpdateWithRetry.
SetOwnerReferenceWithRetry ==
    /\ pc = "owner"
    /\ IF CRIsCurrent
       THEN LET cr == [Api(crW) EXCEPT !.spec = pass.cr.spec, !.owner = pass.ztwim]
            IN  /\ crW' = Store(crW, cr) /\ pass' = [pass EXCEPT !.cr = cr]
                /\ pc' = "mode"
       ELSE /\ pass' = [pass EXCEPT !.conds["Ready"] = "False", !.err = TRUE]
            /\ pc' = "final"
            /\ UNCHANGED crW
    /\ UNCHANGED <<ztwimW, objW, queued, lost, faults, env>>

\* The ZTWIM CR becomes the controlling owner of the CR, replacing an earlier
\* incarnation of itself.  The update carries the local copy, spec included, and the
\* local resourceVersion.
SetOwnerReference ==
    /\ pc = "owner"
    /\ \/ /\ pass.current
          /\ LET cr == [Api(crW) EXCEPT !.spec = pass.cr.spec, !.owner = pass.ztwim]
             IN  crW' = Store(crW, cr) /\ pass' = [pass EXCEPT !.cr = cr]
          /\ pc' = "mode"
          /\ UNCHANGED faults
       \/ /\ IF pass.current THEN Fault ELSE UNCHANGED faults
          /\ pass' = [pass EXCEPT !.conds["Ready"] = "False", !.err = TRUE]
          /\ pc' = "final"
          /\ UNCHANGED crW
    /\ UNCHANGED <<ztwimW, objW, queued, lost, env>>

\* False is only ever published over True.
handleCreateOnlyMode ==
    /\ pc = "mode"
    /\ pass' = [pass EXCEPT
         !.conds["CreateOnlyMode"] = IF createOnly THEN "True"
                                     ELSE IF pass.cr.conds["CreateOnlyMode"] = "True"
                                     THEN "False" ELSE "None",
         !.next = NextStep(0, pass.cr.spec)]
    /\ pc' = "step"
    /\ UNCHANGED <<crW, ztwimW, objW, queued, lost, faults, env>>

(***************************************************************************)
(* The steps.                                                              *)
(***************************************************************************)
ThisStep == Steps[pass.next]

\* Slip: the last step is not recognised.
ContinuePastEnd(collected) ==
    /\ pass' = [pass EXCEPT !.conds = collected, !.next = NextStep(pass.next, pass.cr.spec)]
    /\ pc' = "step"

\* The step is done; collected is what it adds to the conditions of the pass.
Continue(collected) ==
    /\ LET next == NextStep(pass.next, pass.cr.spec)
       IN  /\ pass' = [pass EXCEPT !.conds = collected, !.next = next]
           /\ pc' = IF next > Len(Steps) THEN "final" ELSE "step"

Success ==
    Continue(IF ThisStep.marks THEN [pass.conds EXCEPT ![ThisStep.cond] = "True"]
                               ELSE pass.conds)

\* Slip: the condition is forgotten.
StopWithoutCondition(cond, err) == pass' = [pass EXCEPT !.err = err] /\ pc' = "final"

\* The step sets its condition to False and Reconcile returns, with or without error.
Stop(cond, err) ==
    /\ pass' = [pass EXCEPT !.conds[ThisStep.cond] = cond, !.err = err]
    /\ pc' = "final"

\* validateConfiguration, validateCommonConfig, handleTTLValidation: an invalid spec
\* ends the pass and is not retried.
Validate ==
    /\ pc = "step" /\ ThisStep.kind = "validate"
    /\ IF ThisStep.cond \in pass.cr.spec.invalid
       THEN Stop("False", FALSE)
       ELSE Continue([pass.conds EXCEPT ![ThisStep.cond] = "True"])
    /\ UNCHANGED <<crW, ztwimW, objW, queued, lost, faults, env>>

\* reconcileRBAC and the like report the group once all members are done.
Mark ==
    /\ pc = "step" /\ ThisStep.kind = "mark"
    /\ Success
    /\ UNCHANGED <<crW, ztwimW, objW, queued, lost, faults, env>>

\* Create fails if the object exists, be it invisible to the cache or too new for it.
CreateSucceeds(o, v) ==
    /\ ~Api(objW[o]).exists
    /\ objW' = [objW EXCEPT ![o] = Append(@, v)]
    /\ UNCHANGED faults

CreateFails(o) ==
    /\ IF Api(objW[o]).exists THEN UNCHANGED faults ELSE Fault
    /\ UNCHANGED objW

\* Slip: the update leaves the labels of the object as they are.
UpdateKeepsLabels(o, v) ==
    /\ Drained(objW[o])
    /\ LET new == [Updated(Api(objW[o]), v) EXCEPT !.labels = Api(objW[o]).labels]
       IN  objW' = [objW EXCEPT ![o] = Store(@, new)]
    /\ UNCHANGED faults

\* Update carries the cached resourceVersion; one that changes nothing, once the API
\* server has filled in the defaults, leaves the stored version alone.
UpdateSucceeds(o, v) ==
    /\ Drained(objW[o])
    /\ objW' = [objW EXCEPT ![o] = Store(@, Updated(Api(objW[o]), v))]
    /\ UNCHANGED faults

UpdateFails(o) ==
    /\ IF Drained(objW[o]) THEN Fault ELSE UNCHANGED faults
    /\ UNCHANGED objW

\* Slip: create-only mode is not looked at.
NeverSkipsUpdate(step) == FALSE

\* The common shape of the reconcile functions of single objects.
SkipsUpdate(step) == createOnly /\ step.kind # "unguarded"

ReconcileObject ==
    /\ pc = "step" /\ ThisStep.kind \in {"managed", "unguarded"}
    /\ LET o == ThisStep.obj
           desired == Desired(ThisStep, pass.cr, pass.ztwim)
       IN  \/ /\ ~View(o).exists
              /\ \/ CreateSucceeds(o, desired) /\ Success
                 \/ CreateFails(o) /\ Stop("False", TRUE)
           \/ /\ View(o).exists
              /\ ~NeedsUpdate(ThisStep, View(o), desired) \/ SkipsUpdate(ThisStep)
              /\ Success
              /\ UNCHANGED <<objW, faults>>
           \/ /\ View(o).exists
              /\ NeedsUpdate(ThisStep, View(o), desired) /\ ~SkipsUpdate(ThisStep)
              /\ \/ UpdateSucceeds(o, desired) /\ Success
                 \/ UpdateFails(o) /\ Stop("False", TRUE)
           \/ /\ Fault
              /\ Stop(IF ThisStep.silent THEN pass.conds[ThisStep.cond] ELSE "False", TRUE)
              /\ UNCHANGED objW
    /\ UNCHANGED <<crW, ztwimW, queued, lost, env>>

\* reconcileSpireBundleConfigMap does not read: it creates and accepts AlreadyExists.
CreateOnce ==
    /\ pc = "step" /\ ThisStep.kind = "createonce"
    /\ LET o == ThisStep.obj
       IN  \/ CreateSucceeds(o, Desired(ThisStep, pass.cr, pass.ztwim)) /\ Success
           \/ Api(objW[o]).exists /\ Success /\ UNCHANGED <<objW, faults>>
           \/ Fault /\ Stop("False", TRUE) /\ UNCHANGED objW
    /\ UNCHANGED <<crW, ztwimW, queued, lost, env>>

\* CheckStatefulSetHealth, CheckDaemonSetHealth, CheckDeploymentHealth: a second read
\* of the workload.  Not finding it, or not being able to read it, is a failure, and
\* the pass goes on.
CheckHealth ==
    /\ pc = "step" /\ ThisStep.kind = "health"
    /\ LET v == View(ThisStep.obj)
           Report(c) == Continue([pass.conds EXCEPT ![ThisStep.cond] = c])
       IN  \/ /\ Report(IF ~v.exists THEN "False"
                        ELSE IF v.healthy THEN "True" ELSE "Progressing")
              /\ UNCHANGED <<lost, faults>>
           \/ Fault /\ lost' = TRUE /\ Report("False")
    /\ UNCHANGED <<crW, ztwimW, objW, queued, env>>

\* Slip: a Route that is found right is not reported.
RouteFoundSilently(published) == Continue(pass.conds)

\* A Route that is found right is reported only if the published condition says otherwise.
RouteFound(published) == IF published = "True" THEN Continue(pass.conds) ELSE Success

\* reconcileRoute: the condition is set when the Route is written or found.
ReconcileRoute ==
    /\ pc = "step" /\ ThisStep.kind = "route"
    /\ LET o == ThisStep.obj
           managed == "managedRoute" \in pass.cr.spec.enabled
           desired == Desired(ThisStep, pass.cr, pass.ztwim)
       IN  \/ /\ ~managed
              /\ Continue([pass.conds EXCEPT ![ThisStep.cond] = "False"])
              /\ UNCHANGED <<objW, faults>>
           \/ /\ managed /\ ~View(o).exists
              /\ \/ CreateSucceeds(o, desired) /\ Success
                 \/ CreateFails(o) /\ Stop("False", TRUE)
           \/ /\ managed /\ View(o).exists /\ NeedsUpdate(ThisStep, View(o), desired)
              /\ \/ createOnly /\ Continue(pass.conds) /\ UNCHANGED <<objW, faults>>
                 \/ ~createOnly /\ UpdateSucceeds(o, desired) /\ Success
                 \/ ~createOnly /\ UpdateFails(o) /\ Stop("False", TRUE)
           \/ /\ managed /\ View(o).exists /\ ~NeedsUpdate(ThisStep, View(o), desired)
              /\ RouteFound(pass.cr.conds[ThisStep.cond])
              /\ UNCHANGED <<objW, faults>>
           \/ /\ managed /\ Fault
              /\ Stop("False", TRUE)
              /\ UNCHANGED objW
    /\ UNCHANGED <<crW, ztwimW, queued, lost, env>>

\* Slip: the deferred function replaces the error by its own result.
ApplyStatusDropsError ==
    /\ pc = "final"
    /\ LET conds == Published(pass.cr.conds, pass.conds)
       IN  IF conds # pass.cr.conds /\ CRIsCurrent
           THEN crW' = Store(crW, [Api(crW) EXCEPT !.conds = conds]) /\ UNCHANGED lost
           ELSE lost' = (conds # pass.cr.conds) /\ UNCHANGED crW
    /\ pc' = "idle" /\ pass' = NoPass
    /\ UNCHANGED <<ztwimW, objW, queued, faults, env>>

\* The deferred ApplyStatus; a failure is logged.  An error returned by Reconcile puts
\* the item back into the queue.
ApplyStatus ==
    /\ pc = "final"
    /\ LET conds == Published(pass.cr.conds, pass.conds)
       IN  \/ /\ conds = pass.cr.conds
              /\ UNCHANGED <<crW, lost, faults>>
           \/ /\ conds # pass.cr.conds /\ CRIsCurrent
              /\ crW' = Store(crW, [Api(crW) EXCEPT !.conds = conds])
              /\ UNCHANGED <<lost, faults>>
           \/ /\ conds # pass.cr.conds
              /\ IF Api(crW).uid = pass.cr.uid THEN Fault ELSE UNCHANGED faults
              /\ lost' = TRUE
              /\ UNCHANGED crW
    /\ queued' = (queued \/ pass.err)
    /\ pc' = "idle" /\ pass' = NoPass
    /\ UNCHANGED <<ztwimW, objW, env>>

\* The process is replaced, perhaps with another CREATE_ONLY_MODE.
Restart ==
    /\ changes > 0 /\ changes' = changes - 1
    /\ crW' = Relist(crW) /\ ztwimW' = Relist(ztwimW)
    /\ objW' = [o \in Objects |-> Relist(objW[o])]
    /\ createOnly' \in BOOLEAN
    /\ queued' = SomethingListed
    /\ pc' = "idle" /\ pass' = NoPass /\ lost' = FALSE
    /\ UNCHANGED faults

(***************************************************************************)
(* Specification.                                                          *)
(***************************************************************************)
Users ==
    \/ \E s \in Specs : CreateCR(s) \/ EditCR(s)
    \/ RemoveOwnerReference \/ DeleteCR
    \/ CreateZTWIM \/ DeleteZTWIM
    \/ \E o \in Objects : TamperWithObject(o) \/ DeleteObject(o) \/ WorkloadStatus(o)
    \/ Restart

GarbageCollector == CollectCR \/ \E o \in Objects : CollectObject(o)

Watch == DeliverCR \/ DeliverZTWIM \/ \E o \in Objects : DeliverObject(o)

Worker ==
    \/ Reconcile \/ SetInitialReconciliationStatus \/ GetZTWIM \/ SetOwnerReference
    \/ handleCreateOnlyMode
    \/ Validate \/ ReconcileObject \/ CreateOnce \/ Mark \/ CheckHealth \/ ReconcileRoute
    \/ ApplyStatus

Next == Users \/ GarbageCollector \/ Watch \/ Resync \/ Worker

Spec == Init /\ [][Next]_vars

\* The worker, the watches and the garbage collector never stop for good.  Users,
\* workloads and faults owe nothing.
Fairness ==
    /\ WF_vars(Worker)
    /\ WF_vars(DeliverCR) /\ WF_vars(DeliverZTWIM)
    /\ \A o \in Objects : WF_vars(DeliverObject(o)) /\ WF_vars(CollectObject(o))
    /\ WF_vars(CollectCR)

\* The resync timer fires again and again.
FairSpec == Spec /\ Fairness /\ WF_vars(Resync)

\* The ten hours between two resyncs.
BetweenResyncs == Init /\ [][Users \/ GarbageCollector \/ Watch \/ Worker]_vars /\ Fairness

(***************************************************************************)
(* Properties.                                                             *)
(***************************************************************************)
ObjectVersion ==
    [exists: BOOLEAN, content: [spec: Nat, ztwim: Nat],
     labels: {"ok", "component", "managedBy"}, owner: 0..MaxUid, healthy: BOOLEAN]

CRVersion ==
    [uid: 0..MaxUid, spec: Specs \cup {NoSpec}, owner: 0..MaxUid,
     conds: [CondTypes -> CondVal]]

Pass ==
    [cr: CRVersion, current: BOOLEAN, ztwim: 0..MaxUid, next: 1..(Len(Steps) + 1),
     conds: [CondTypes -> CondVal], err: BOOLEAN]

TypeOK ==
    /\ crW \in Seq(CRVersion) /\ Len(crW) > 0
    /\ ztwimW \in Seq(0..MaxUid) /\ Len(ztwimW) > 0
    /\ objW \in [Objects -> Seq(ObjectVersion)] /\ \A o \in Objects : Len(objW[o]) > 0
    /\ createOnly \in BOOLEAN /\ queued \in BOOLEAN /\ lost \in BOOLEAN
    /\ pc \in {"idle", "initial", "ztwim", "owner", "mode", "step", "final"}
    /\ pass \in Pass
    /\ pc = "step" => pass.next \in DOMAIN Steps
    /\ changes \in 0..MaxChanges /\ faults \in 0..MaxFaults

\* Nothing that would start a pass is under way, the last pass lost nothing to a fault,
\* and no object has labels that suppress its events.
Quiet ==
    /\ pc = "idle" /\ ~queued /\ ~lost
    /\ \A i \in DOMAIN crW : ~crPredicate(crW[i], Cached(crW))
    /\ \A i \in DOMAIN ztwimW : ztwimW[i] = Cached(ztwimW)
    /\ \A o \in Objects : Drained(objW[o])
    /\ \A o \in Objects : Visible(o, Api(objW[o])).labels = "ok"

\* The steps whose object should exist for a spec.
Deploys(i, spec) ==
    /\ Applies(Steps[i], spec)
    /\ Steps[i].obj # "none"
    /\ Steps[i].kind = "route" => "managedRoute" \in spec.enabled

Invalid(spec) == \E i \in DOMAIN Steps :
    Steps[i].kind = "validate" /\ Steps[i].cond \in spec.invalid

RouteDisabled(spec) == \E i \in DOMAIN Steps :
    Applies(Steps[i], spec) /\ Steps[i].kind = "route" /\ "managedRoute" \notin spec.enabled

ExpectedReady(spec) ==
    IF Api(ztwimW) = 0 \/ Invalid(spec) \/ RouteDisabled(spec) THEN "False"
    ELSE IF \A o \in Workloads : Api(objW[o]).healthy THEN "True"
    ELSE "Progressing"

ObjectsRight(cr) ==
    \A i \in DOMAIN Steps : Deploys(i, cr.spec) =>
        LET v == Api(objW[Steps[i].obj])
        IN  /\ v.exists
            /\ \/ createOnly
               \/ Steps[i].kind \in {"createonce", "health"}
               \/ ~Differs(v, Desired(Steps[i], cr, Api(ztwimW)))

Right ==
    LET cr == Api(crW)
    IN  cr.uid # 0 =>
          /\ cr.conds["Ready"] = ExpectedReady(cr.spec)
          /\ Api(ztwimW) # 0 =>
                /\ cr.owner = Api(ztwimW)
                /\ (cr.conds["CreateOnlyMode"] = "True") = createOnly
                /\ Invalid(cr.spec) \/ ObjectsRight(cr)

\* No lost wakeup: whenever the controller is at rest the cluster is as the CR asks and
\* Ready says so, whatever was edited, deleted or re-created while a pass that had
\* already read it was under way.  Conflicts, AlreadyExists answers and reads of a stale
\* cache all end in another pass.
QuietIsRight == Quiet => Right

\* At rest, Ready=True does not stand next to a failure that an earlier pass published:
\* every condition the spec's steps report in is True, although a pass merges what it
\* says over what was there and the Route step often says nothing.  In create-only mode
\* a Route that differs keeps the condition it had.
ReadyHasNoFailure ==
    LET cr == Api(crW)
    IN  Quiet /\ cr.conds["Ready"] = "True" =>
          \A i \in DOMAIN Steps :
             \/ ~Applies(Steps[i], cr.spec)
             \/ createOnly /\ Steps[i].kind = "route"
             \/ cr.conds[Steps[i].cond] = "True"

\* A step of the controller itself (users consume changes, the garbage collector only
\* deletes).
OwnStep == changes' = changes

\* Create-only mode: the controller leaves every existing object alone, the SCCs, whose
\* reconcile functions do not ask for the mode, excepted.
CreateOnlyKeepsObjects ==
    [][createOnly /\ OwnStep =>
          \A o \in Objects \ Unguarded :
             Api(objW[o]).exists /\ Api(objW'[o]).exists => Api(objW'[o]) = Api(objW[o])]_vars

\* What the condition of the CR says while it is published: "Updates are not reconciled
\* to existing resources" (handleCreateOnlyMode), the SCCs included.
UpdatesNotReconciled ==
    [][createOnly /\ Api(crW).conds["CreateOnlyMode"] = "True" /\ OwnStep =>
          \A o \in Objects :
             Api(objW[o]).exists /\ Api(objW'[o]).exists => Api(objW'[o]) = Api(objW[o])]_vars

\* A pass publishes Ready only after its last step, and only if it returns no error.
ReadyAfterAllSteps ==
    [][pc = "final" /\ pc' = "idle" /\ OwnStep /\ crW' # crW
          /\ Api(crW').conds["Ready"] = "True" => pass.next = Len(Steps) + 1 /\ ~pass.err]_vars

\* The spec of the CR belongs to the users: no write of the controller reverts an edit.
ControllerKeepsSpec ==
    [][OwnStep /\ Api(crW').uid # 0 => Api(crW').spec = Api(crW).spec]_vars

\* The controller as seen through its CR alone.
CRSeen == [uid |-> Api(crW).uid, spec |-> Api(crW).spec, ready |-> Api(crW).conds["Ready"]]

PhaseSeen == IF pc = "idle" THEN "idle" ELSE IF pc = "initial" THEN "started" ELSE "working"

CR == INSTANCE OperandCR WITH cr <- CRSeen, phase <- PhaseSeen

\* The controller, with its stale cache, conflicts and retries, does to its CR no more
\* than OperandCR allows (while no API request fails): it touches neither existence nor
\* spec, says "Reconciling" before the first verdict on a CR and gives one verdict per
\* pass, ends every pass and gets to every CR that was never answered.
ImplementsOperandCR == CR!Spec

\* An object without the managed-by label exists, but not for the cache.
Hidden(o) == Api(objW[o]).exists /\ ~Visible(o, Api(objW[o])).exists

\* The controller comes to rest: once the cluster changes no more, neither its own
\* writes nor the errors of stale reads keep it busy, without any help of the resync.
\* Only an object that lost its managed-by label can: its creation is refused for good.
ComesToRest == <>[]((pc = "idle" /\ ~queued) \/ \E o \in Objects : Hidden(o))

\* Lost status writes and label changes that suppress the event are made up for by the
\* resync, as long as it has an object to replay.
Repaired == []<>(SomethingWatched => Right)
=============================================================================
