--------------------------- MODULE ZTWIMController ---------------------------
(***************************************************************************)
(* The controller of the ZeroTrustWorkloadIdentityManager CR               *)
(* (pkg/controller/zero-trust-workload-identity-manager/controller.go).    *)
(* It reads the Ready condition of the operand CRs one after the other     *)
(* from the informer cache, publishes the summary in the status of the     *)
(* ZTWIM CR and, for OLM, in the Upgradeable condition of the              *)
(* OperatorCondition.  The operand controllers, the users, the API server  *)
(* and the watches are its environment.                                    *)
(***************************************************************************)
EXTENDS Conditions, Informer

CONSTANTS
    N,              \* number of operand CRs (4 in the code)
    ReadyValues,    \* Ready conditions the operand controllers publish
    MaxLag,         \* bound: undelivered versions of one object
    MaxUid,         \* bound: incarnations of the ZTWIM CR
    MaxChanges,     \* bound: environment changes and restarts
    MaxFaults       \* bound: API requests that fail

ASSUME ConstantsAssumption ==
    /\ ReadyValues \subseteq CondVal \ {"None"}
    /\ N \in Nat \ {0} /\ MaxLag \in Nat \ {0}
    /\ MaxUid \in Nat \ {0} /\ MaxChanges \in Nat /\ MaxFaults \in Nat

VARIABLES
    operandW,       \* the operand CRs: [exists, gen, ready] versions
    ztwimW,         \* the ZTWIM CR: [uid, conds, operands] versions, uid 0 absent
    ocW,            \* Upgradeable of the OperatorCondition, "Absent" without OLM
    createOnly,     \* CREATE_ONLY_MODE of the running process
    queued,         \* the single work item "cluster" is in the queue
    pc,             \* what the worker does next
    pass,           \* locals of the pass in progress
    lost,           \* history: the last pass lost a read or a write to a fault
    changes, faults \* what is left of the bounds

vars == <<operandW, ztwimW, ocW, createOnly, queued, pc, pass, lost,
          changes, faults>>
env == <<changes, createOnly>>

Kinds == 1..N

(***************************************************************************)
(* Operand summaries.                                                      *)
(***************************************************************************)
OperandVersion == [exists: BOOLEAN, gen: {0, 1}, ready: CondVal]

NoOperand == [exists |-> FALSE, gen |-> 0, ready |-> "None"]

OperandStatus == [ready: BOOLEAN, reason: {"None", "Progressing", "Failed"},
                  msg: {"None", "CRNotFound", "WaitingInitialRecon", "Ready",
                        "ReadyCondition", "GetError", "GetErrorNotFound"}]

NoStatus == [ready |-> FALSE, reason |-> "None", msg |-> "None"]

Operands == [Kinds -> OperandStatus]
NoOperands == [k \in Kinds |-> NoStatus]

\* What the pass records about an operand CR it could read.
getOperandStatus(v) ==
    IF ~v.exists
    THEN [NoStatus EXCEPT !.msg = "CRNotFound"]
    ELSE IF v.ready = "None"
    THEN [NoStatus EXCEPT !.msg = "WaitingInitialRecon"]
    ELSE IF v.ready = "True"
    THEN [ready |-> TRUE, reason |-> "None", msg |-> "Ready"]
    ELSE [ready |-> FALSE, msg |-> "ReadyCondition",
          reason |-> IF v.ready = "False" THEN "Failed" ELSE "Progressing"]

\* A failed read is recorded as a message that carries the text of the error,
\* which may happen to contain one of the words the classification looks for.
GetFailed(text) == [NoStatus EXCEPT !.msg = text]

\* The reason of the Ready condition decides; without one, the message does.
classifyOperandState(s) ==
    CASE s.ready -> "ready"
      [] ~s.ready /\ s.reason = "Progressing" -> "progressing"
      [] ~s.ready /\ s.reason = "Failed" -> "failed"
      [] ~s.ready /\ s.reason = "None" ->
            IF s.msg \in {"CRNotFound", "WaitingInitialRecon", "GetErrorNotFound"}
            THEN "progressing" ELSE "failed"

\* Slip: operands that are progressing are not counted.
aggregateWithoutProgressing(views) ==
    IF "failed" \in {classifyOperandState(views[k]) : k \in Kinds} THEN "False" ELSE "True"

\* aggregateOperandStatus and the three branches of Reconcile on its counts.
aggregateOperandStatus(views) ==
    LET classes == {classifyOperandState(views[k]) : k \in Kinds}
    IN  IF classes = {"ready"} THEN "True"
        ELSE IF "failed" \notin classes THEN "Progressing"
        ELSE "False"

\* The Upgradeable condition for a set of operand summaries.
Upgradeable(createOnlyMode, statuses) ==
    IF \/ createOnlyMode
       \/ \E s \in statuses : ~s.ready /\ s.msg # "CRNotFound"
    THEN "False" ELSE "True"

\* setCreateOnlyModeCondition: False is only ever published over True.
CreateOnlyModeCondition(enabled, existing) ==
    IF enabled THEN "True" ELSE IF existing = "True" THEN "False" ELSE "None"

(***************************************************************************)
(* State.                                                                  *)
(***************************************************************************)
CondTypes == {"Ready", "OperandsAvailable", "CreateOnlyMode"}

OcValue == {"Absent", "None", "False", "True"}

ZtwimVersion == [uid: 0..MaxUid, conds: [CondTypes -> CondVal], operands: Operands]

NoZtwim == [uid |-> 0, conds |-> NoConditions(CondTypes), operands |-> NoOperands]

\* The CR being processed (uid 0: it was not found), the summaries read so far
\* and the operand to read next.
Pass == [cr: ZtwimVersion, views: Operands, next: 1..(N + 1)]

\* The status an earlier process published when all operands were ready.
AllReadyConds == [c \in CondTypes |-> IF c = "CreateOnlyMode" THEN "None" ELSE "True"]
AllReadyOperands == [k \in Kinds |-> [ready |-> TRUE, reason |-> "None", msg |-> "Ready"]]

\* Every listed object is a create event, and every create event passes.
SomethingExists ==
    \/ Api(ocW) # "Absent"
    \/ Api(ztwimW).uid # 0
    \/ \E k \in Kinds : Api(operandW[k]).exists

Start(cr) == [cr |-> cr, views |-> NoOperands, next |-> 1]

\* The operator starts on a cluster that may already hold the CRs, with what their
\* controllers and an earlier process of the operator last published.
Init ==
    /\ \E f \in [Kinds -> {NoOperand} \cup
                    [exists: {TRUE}, gen: {0}, ready: ReadyValues]] :
          operandW = [k \in Kinds |-> <<f[k]>>]
    /\ ztwimW \in {<<NoZtwim>>,
                   <<[uid |-> 1, conds |-> AllReadyConds, operands |-> AllReadyOperands]>>}
    /\ ocW \in {<<"Absent">>, <<"None">>}
    /\ createOnly \in BOOLEAN
    /\ queued = SomethingExists
    /\ pc = "idle" /\ pass = Start(NoZtwim)
    /\ lost = FALSE
    /\ changes = MaxChanges /\ faults = MaxFaults

(***************************************************************************)
(* The environment: users and operand controllers.                         *)
(***************************************************************************)
Change ==
    /\ changes > 0
    /\ changes' = changes - 1
    /\ UNCHANGED <<createOnly, ocW, queued, pc, pass, lost, faults>>

WriteOperand(k, v) ==
    /\ Change
    /\ Len(operandW[k]) <= MaxLag
    /\ operandW' = [operandW EXCEPT ![k] = Append(@, v)]
    /\ UNCHANGED ztwimW

\* A user creates, edits or deletes an operand CR.
CreateOperand(k) ==
    /\ ~Api(operandW[k]).exists
    /\ WriteOperand(k, [NoOperand EXCEPT !.exists = TRUE])

EditOperandSpec(k) ==
    /\ Api(operandW[k]).exists
    /\ WriteOperand(k, [Api(operandW[k]) EXCEPT !.gen = 1 - @])

DeleteOperand(k) ==
    /\ Api(operandW[k]).exists
    /\ WriteOperand(k, NoOperand)

\* Its controller publishes a Ready condition.
PublishOperandReady(k, r) ==
    /\ Api(operandW[k]).exists
    /\ Api(operandW[k]).ready # r
    /\ WriteOperand(k, [Api(operandW[k]) EXCEPT !.ready = r])

WriteZtwim(v) ==
    /\ Change
    /\ Len(ztwimW) <= MaxLag
    /\ ztwimW' = Append(ztwimW, v)
    /\ UNCHANGED operandW

\* Users create and delete the ZTWIM CR; every incarnation has its own UID.
CreateZTWIM ==
    /\ Api(ztwimW).uid = 0
    /\ \E u \in 1..MaxUid :
          /\ \A i \in DOMAIN ztwimW : ztwimW[i].uid # u
          /\ pass.cr.uid # u
          /\ WriteZtwim([NoZtwim EXCEPT !.uid = u])

DeleteZTWIM ==
    /\ Api(ztwimW).uid # 0
    /\ WriteZtwim(NoZtwim)

(***************************************************************************)
(* Watch events and the predicates that turn them into work (the For and   *)
(* Watches clauses of SetupWithManager).                                   *)
(***************************************************************************)

\* operandStatusChangedPredicate: no watched type has a GetStatus method, so every
\* update passes, like every create and delete.
operandStatusChangedPredicate(old, new) == TRUE

\* GenerationChangedPredicate on a CR without mutable spec: creates and deletes.
ztwimPredicate(old, new) == old.uid # new.uid

DeliverOperand(k) ==
    /\ Len(operandW[k]) > 1
    /\ operandW' = [operandW EXCEPT ![k] = Deliver(@)]
    /\ queued' = (queued \/ operandStatusChangedPredicate(operandW[k][1], operandW[k][2]))
    /\ UNCHANGED <<ztwimW, ocW, pc, pass, lost, faults, env>>

DeliverZTWIM ==
    /\ Len(ztwimW) > 1
    /\ ztwimW' = Deliver(ztwimW)
    /\ queued' = (queued \/ ztwimPredicate(ztwimW[1], ztwimW[2]))
    /\ UNCHANGED <<operandW, ocW, pc, pass, lost, faults, env>>

DeliverOperatorCondition ==
    /\ Len(ocW) > 1
    /\ ocW' = Deliver(ocW)
    /\ queued' = (queued \/ operandStatusChangedPredicate(ocW[1], ocW[2]))
    /\ UNCHANGED <<operandW, ztwimW, pc, pass, lost, faults, env>>

\* The periodic resync replays an update event of every cached object.
SomethingWatched ==
    \/ Cached(ocW) # "Absent"
    \/ \E k \in Kinds : Cached(operandW[k]).exists

Resync ==
    /\ SomethingWatched
    /\ ~queued
    /\ queued' = TRUE
    /\ UNCHANGED <<operandW, ztwimW, ocW, pc, pass, lost, faults, env>>

(***************************************************************************)
(* The worker: one pass of Reconcile, from the dequeued item to idle.      *)
(***************************************************************************)
\* An API request that fails.
Fault == faults > 0 /\ faults' = faults - 1

\* A failing Get returns the error and the item is queued again.
Reconcile ==
    /\ pc = "idle" /\ queued
    /\ \/ /\ queued' = FALSE /\ lost' = FALSE
          /\ pass' = Start(Cached(ztwimW))
          /\ pc' = IF Cached(ztwimW).uid = 0 THEN "oc" ELSE "initial"
          /\ UNCHANGED faults
       \/ Fault /\ UNCHANGED <<queued, lost, pass, pc>>
    /\ UNCHANGED <<operandW, ztwimW, ocW, env>>

\* The pass ends and its locals are gone.
Return == pc' = "idle" /\ pass' = Start(NoZtwim)

\* StatusUpdateWithRetry: a write that succeeds found the cache up to date on one
\* of its tries and the CR still the one the pass started with.
StatusUpdate(cr) ==
    /\ Drained(ztwimW)
    /\ Api(ztwimW).uid = cr.uid
    /\ ztwimW' = Store(ztwimW, cr)
    /\ UNCHANGED faults

\* It fails when that CR is gone, when the retries run out before the cache has
\* caught up, or when the API server refuses.
StatusUpdateFails ==
    /\ \/ Api(ztwimW).uid # pass.cr.uid /\ UNCHANGED faults
       \/ Api(ztwimW).uid = pass.cr.uid /\ Fault
    /\ UNCHANGED ztwimW

\* Slip: the status is left alone until the pass has a result.
NoInitialStatus ==
    /\ pc = "initial"
    /\ pc' = "get"
    /\ UNCHANGED <<operandW, ztwimW, ocW, queued, pass, lost, faults, env>>

\* Ready is set to "Reconciling" before anything else; a failure is only printed.
SetInitialReconciliationStatus ==
    /\ pc = "initial"
    /\ LET cr == [pass.cr EXCEPT !.conds["Ready"] = "Reconciling"]
       IN  /\ \/ cr = pass.cr /\ UNCHANGED <<ztwimW, faults>>
              \/ cr # pass.cr /\ (StatusUpdate(cr) \/ StatusUpdateFails)
           /\ pass' = [pass EXCEPT !.cr = cr]
    /\ pc' = "get"
    /\ UNCHANGED <<operandW, ocW, queued, lost, env>>

\* Slip: the end of the list is missed.
GetOperandPastEnd ==
    /\ pc = "get"
    /\ LET k == pass.next
       IN  pass' = [pass EXCEPT !.views[k] = getOperandStatus(Cached(operandW[k])), !.next = k + 1]
    /\ pc' = IF pass.next > N THEN "oc" ELSE "get"
    /\ UNCHANGED <<operandW, ztwimW, ocW, queued, lost, faults, env>>

\* getSpireServerStatus, getSpireAgentStatus, ... in turn.
GetOperand ==
    /\ pc = "get"
    /\ LET k == pass.next
       IN  \E s \in OperandStatus :
             /\ \/ s = getOperandStatus(Cached(operandW[k])) /\ UNCHANGED <<faults, lost>>
                \/ /\ s \in {GetFailed("GetError"), GetFailed("GetErrorNotFound")}
                   /\ Fault /\ lost' = TRUE
             /\ pass' = [pass EXCEPT !.views[k] = s, !.next = k + 1]
    /\ pc' = IF pass.next = N THEN "oc" ELSE "get"
    /\ UNCHANGED <<operandW, ztwimW, ocW, queued, env>>

\* Slip: nothing is published for a cluster without ZTWIM CR.
updateOperatorConditionIfZTWIM ==
    /\ pc = "oc"
    /\ LET statuses == {pass.views[k] : k \in Kinds}
       IN  IF pass.cr.uid = 0 \/ Cached(ocW) = "Absent" \/ ~Drained(ocW)
           THEN UNCHANGED ocW
           ELSE ocW' = Store(ocW, Upgradeable(createOnly, statuses))
    /\ IF pass.cr.uid = 0 THEN Return ELSE pc' = "final" /\ UNCHANGED pass
    /\ UNCHANGED <<operandW, ztwimW, queued, lost, faults, env>>

\* updateOperatorCondition, best effort in both of its callers; a pass that did not
\* find the ZTWIM CR passes it no operands and ends here.
updateOperatorCondition ==
    /\ pc = "oc"
    /\ LET statuses == IF pass.cr.uid = 0 THEN {} ELSE {pass.views[k] : k \in Kinds}
       IN  \/ /\ Cached(ocW) = "Absent"
              /\ UNCHANGED <<ocW, lost, faults>>
           \/ /\ Cached(ocW) # "Absent" /\ Drained(ocW)
              /\ ocW' = Store(ocW, Upgradeable(createOnly, statuses))
              /\ UNCHANGED <<lost, faults>>
           \/ /\ Cached(ocW) # "Absent"
              /\ Fault /\ lost' = TRUE
              /\ UNCHANGED ocW
    /\ IF pass.cr.uid = 0 THEN Return ELSE pc' = "final" /\ UNCHANGED pass
    /\ UNCHANGED <<operandW, ztwimW, queued, env>>

\* The deferred ApplyStatus.  Whether to write is decided on the conditions alone:
\* Status.Operands rides along.  A failure is logged and nothing is requeued.
ApplyStatus ==
    /\ pc = "final"
    /\ LET summary == aggregateOperandStatus(pass.views)
           conds == [c \in CondTypes |->
                       IF c = "CreateOnlyMode"
                       THEN CreateOnlyModeCondition(createOnly, pass.cr.conds[c])
                       ELSE summary]
           cr == [pass.cr EXCEPT !.conds = Published(@, conds), !.operands = pass.views]
       IN  \/ /\ cr.conds = pass.cr.conds
              /\ UNCHANGED <<ztwimW, lost, faults>>
           \/ /\ cr.conds # pass.cr.conds
              /\ StatusUpdate(cr)
              /\ UNCHANGED lost
           \/ /\ cr.conds # pass.cr.conds
              /\ StatusUpdateFails
              /\ lost' = TRUE
    /\ Return
    /\ UNCHANGED <<operandW, ocW, queued, env>>

\* The process is replaced, perhaps with another CREATE_ONLY_MODE: caches are listed
\* afresh, and every object found becomes a create event.
Restart ==
    /\ changes > 0 /\ changes' = changes - 1
    /\ operandW' = [k \in Kinds |-> Relist(operandW[k])]
    /\ ztwimW' = Relist(ztwimW)
    /\ ocW' = Relist(ocW)
    /\ createOnly' \in BOOLEAN
    /\ Return /\ lost' = FALSE
    /\ queued' = SomethingExists
    /\ UNCHANGED faults

Environment ==
    \/ \E k \in Kinds :
         \/ CreateOperand(k) \/ EditOperandSpec(k) \/ DeleteOperand(k)
         \/ \E r \in ReadyValues : PublishOperandReady(k, r)
    \/ CreateZTWIM \/ DeleteZTWIM
    \/ Restart

Watch ==
    \/ \E k \in Kinds : DeliverOperand(k)
    \/ DeliverZTWIM
    \/ DeliverOperatorCondition

Worker ==
    \/ Reconcile
    \/ SetInitialReconciliationStatus
    \/ GetOperand
    \/ updateOperatorCondition
    \/ ApplyStatus

Next == Environment \/ Watch \/ Resync \/ Worker

Spec == Init /\ [][Next]_vars

\* The worker goroutine and the watches never stop for good; the resync timer fires
\* again and again.  Users, operand controllers and faults owe nothing.
Fairness ==
    /\ WF_vars(Worker) /\ WF_vars(Resync)
    /\ \A k \in Kinds : WF_vars(DeliverOperand(k))
    /\ WF_vars(DeliverZTWIM) /\ WF_vars(DeliverOperatorCondition)

FairSpec == Spec /\ Fairness

(***************************************************************************)
(* Properties.                                                             *)
(***************************************************************************)
TypeOK ==
    /\ operandW \in [Kinds -> Seq(OperandVersion)]
    /\ \A k \in Kinds : Len(operandW[k]) > 0
    /\ ztwimW \in Seq(ZtwimVersion) /\ Len(ztwimW) > 0
    /\ ocW \in Seq(OcValue) /\ Len(ocW) > 0
    /\ createOnly \in BOOLEAN /\ queued \in BOOLEAN /\ lost \in BOOLEAN
    /\ pc \in {"idle", "initial", "get", "oc", "final"}
    /\ pass \in Pass
    /\ pc = "initial" => pass.next = 1
    /\ pc = "get" => pass.next \in Kinds
    /\ changes \in 0..MaxChanges /\ faults \in 0..MaxFaults

\* What the operand CRs in the cache amount to.
CachedViews == [k \in Kinds |-> getOperandStatus(Cached(operandW[k]))]

\* No creation or deletion of the ZTWIM CR is still on its way to the cache.
ZtwimSettled == \A i \in DOMAIN ztwimW : ztwimW[i].uid = Cached(ztwimW).uid

\* The summary the code means to publish: of the operand CRs in the cache, and without
\* ZTWIM CR of the empty list that Reconcile passes on, whatever operand CRs exist.
ExpectedUpgradeable ==
    Upgradeable(createOnly, IF Cached(ztwimW).uid = 0 THEN {}
                            ELSE {CachedViews[k] : k \in Kinds})

PublishedIsCurrent ==
    /\ Cached(ztwimW).uid # 0 =>
         /\ Api(ztwimW).operands = CachedViews
         /\ Api(ztwimW).conds["Ready"] = aggregateOperandStatus(CachedViews)
         /\ (Api(ztwimW).conds["CreateOnlyMode"] = "True") = createOnly
    /\ Cached(ocW) # "Absent" => Api(ocW) = ExpectedUpgradeable

\* Facts about the pass in progress that keep NoLostWakeup: as long as nothing is
\* queued and nothing was lost, what it has read is still what the cache holds, and
\* its Ready is "Reconciling", so that its final write is never skipped.
PassInv ==
    /\ \A i \in DOMAIN ocW : (ocW[i] = "Absent") <=> (Cached(ocW) = "Absent")
    /\ pc \in {"initial", "get", "final"} => pass.cr.uid # 0
    /\ pc \in {"oc", "final"} /\ pass.cr.uid # 0 => pass.next = N + 1
    /\ pc \in {"get", "oc", "final"} /\ pass.cr.uid # 0 =>
          pass.cr.conds["Ready"] = "Reconciling"
    /\ pc # "idle" /\ ~queued => Cached(ztwimW).uid = pass.cr.uid
    /\ pc \in {"get", "oc", "final"} /\ pass.cr.uid # 0 /\ ~queued /\ ~lost =>
          \A k \in Kinds : k < pass.next =>
              pass.views[k] = getOperandStatus(Cached(operandW[k]))
    /\ pc = "final" /\ ~queued /\ ~lost /\ Cached(ocW) # "Absent" =>
          Api(ocW) = ExpectedUpgradeable

\* No lost wakeup: when the worker is idle with nothing queued, the last pass lost
\* nothing to a fault, and no creation or deletion of the ZTWIM CR is under way,
\* then what is published is not stale: the ZTWIM status, and Upgradeable as long as
\* there is a ZTWIM CR, are the summary of exactly the operand CRs in the cache,
\* although the pass read them one at a time while they changed, and decides whether
\* to write without looking at Status.Operands; without a ZTWIM CR Upgradeable is the
\* summary of no operands.
NoLostWakeup ==
    pc = "idle" /\ ~queued /\ ~lost /\ ZtwimSettled => PublishedIsCurrent

\* ZTWIM never says Ready next to an operand entry that says otherwise, not even
\* between the two status writes of a pass or after one of them failed.
ReadyMatchesOperands ==
    Api(ztwimW).conds["Ready"] = "True" =>
        \A k \in Kinds : Api(ztwimW).operands[k].ready

\* What is published about the state the API server holds, a pass under way aside.
UpToDate ==
    /\ \A k \in Kinds : Drained(operandW[k])
    /\ ZtwimSettled
    /\ PublishedIsCurrent

CurrentOrReconciling ==
    /\ Api(ztwimW).uid # 0 =>
         /\ Api(ztwimW).operands = CachedViews
         /\ Api(ztwimW).conds["Ready"] \in
               {"Reconciling", aggregateOperandStatus(CachedViews)}
    /\ Cached(ocW) # "Absent" => Api(ocW) = ExpectedUpgradeable

\* Once changes and faults cease, a lost status write is made up for again and again
\* (something watched is resynced), ...
RepairedByResync == []<>(SomethingWatched => UpToDate)

\* ... and from some point on the published summary is right at all times, except
\* that Ready falls back to "Reconciling" while a pass is under way.
Stabilises == <>[](SomethingWatched => CurrentOrReconciling)
=============================================================================
