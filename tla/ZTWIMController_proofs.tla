----------------------- MODULE ZTWIMController_proofs -----------------------
(***************************************************************************)
(* Proofs about ZTWIMController, for any number of operands and any        *)
(* bounds: type correctness, and that no wakeup is lost.                   *)
(***************************************************************************)
EXTENDS ZTWIMController, InformerTheorems

(***************************************************************************)
(* The pure parts of a pass.                                               *)
(***************************************************************************)

\* getOperandStatus turns every operand CR into an operand summary.
LEMMA ViewType ==
    ASSUME NEW v \in OperandVersion
    PROVE  getOperandStatus(v) \in OperandStatus
BY DEF getOperandStatus, OperandStatus, OperandVersion, NoStatus

\* A failed read is recorded as an operand summary too.
LEMMA GetFailedType ==
    /\ GetFailed("GetError") \in OperandStatus
    /\ GetFailed("GetErrorNotFound") \in OperandStatus
BY DEF GetFailed, OperandStatus, NoStatus

\* A summary of the operands is never "None" and never "Reconciling".
LEMMA SummaryType ==
    ASSUME NEW views \in Operands
    PROVE  /\ aggregateOperandStatus(views) \in CondVal
           /\ aggregateOperandStatus(views) # "None"
           /\ aggregateOperandStatus(views) # "Reconciling"
BY DEF aggregateOperandStatus, CondVal

\* The conditions of the empty pass, the empty CR and a fresh pass have their types.
LEMMA EmptyTypes ==
    /\ NoOperand \in OperandVersion
    /\ NoOperands \in Operands
    /\ NoZtwim \in ZtwimVersion
    /\ NoZtwim.uid = 0
    /\ \A cr \in ZtwimVersion : Start(cr) \in Pass /\ Start(cr).cr = cr /\ Start(cr).next = 1
<1> USE ConstantsAssumption
<1>1. NoOperand \in OperandVersion
  BY DEF NoOperand, OperandVersion, CondVal
<1>2. NoOperands \in Operands
  BY DEF NoOperands, Operands, NoStatus, OperandStatus
<1>3. NoConditions(CondTypes) \in [CondTypes -> CondVal]
  BY DEF NoConditions, CondVal
<1>4. NoZtwim \in ZtwimVersion /\ NoZtwim.uid = 0
  BY <1>2, <1>3 DEF NoZtwim, ZtwimVersion
<1>5. \A cr \in ZtwimVersion : Start(cr) \in Pass /\ Start(cr).cr = cr /\ Start(cr).next = 1
  BY <1>2 DEF Start, Pass
<1>6. QED
  BY <1>1, <1>2, <1>4, <1>5

\* ApplyStatus merges over the old conditions: Ready and OperandsAvailable become the
\* summary, and CreateOnlyMode is True exactly when the mode is on.
ApplyConds(cr, views, mode) ==
    Published(cr.conds, [c \in CondTypes |->
                           IF c = "CreateOnlyMode"
                           THEN CreateOnlyModeCondition(mode, cr.conds[c])
                           ELSE aggregateOperandStatus(views)])

\* The published conditions, as the last write of a pass computes them.
LEMMA ApplyLemma ==
    ASSUME NEW cr \in ZtwimVersion, NEW views \in Operands, NEW mode \in BOOLEAN
    PROVE  /\ ApplyConds(cr, views, mode) \in [CondTypes -> CondVal]
           /\ ApplyConds(cr, views, mode)["Ready"] = aggregateOperandStatus(views)
           /\ (ApplyConds(cr, views, mode)["CreateOnlyMode"] = "True") = mode
<1> DEFINE conds == [c \in CondTypes |->
                       IF c = "CreateOnlyMode"
                       THEN CreateOnlyModeCondition(mode, cr.conds[c])
                       ELSE aggregateOperandStatus(views)]
<1>1. cr.conds \in [CondTypes -> CondVal]
  BY DEF ZtwimVersion
<1>2. \A c \in CondTypes : conds[c] \in CondVal
  BY <1>1, SummaryType DEF CreateOnlyModeCondition, CondVal, CondTypes
<1>3. conds["Ready"] = aggregateOperandStatus(views) /\ conds["Ready"] # "None"
  BY SummaryType DEF CondTypes
<1>4. conds["CreateOnlyMode"] = CreateOnlyModeCondition(mode, cr.conds["CreateOnlyMode"])
  BY DEF CondTypes
<1>5. ApplyConds(cr, views, mode) = Published(cr.conds, conds)
  BY DEF ApplyConds
<1>6. Published(cr.conds, conds) =
         [c \in CondTypes |-> IF c = "Ready" THEN conds["Ready"]
                              ELSE IF conds[c] = "None" THEN cr.conds[c] ELSE conds[c]]
  <2> HIDE DEF conds
  <2> QED BY <1>1, <1>3 DEF Published
<1> HIDE DEF conds
<1>7. ApplyConds(cr, views, mode) \in [CondTypes -> CondVal]
  BY <1>1, <1>2, <1>5, <1>6 DEF CondTypes
<1>8. ApplyConds(cr, views, mode)["Ready"] = aggregateOperandStatus(views)
  BY <1>3, <1>5, <1>6 DEF CondTypes
<1>9. (ApplyConds(cr, views, mode)["CreateOnlyMode"] = "True") = mode
  BY <1>1, <1>4, <1>5, <1>6 DEF CondTypes, CreateOnlyModeCondition
<1>10. QED
  BY <1>7, <1>8, <1>9

(***************************************************************************)
(* Type correctness.                                                       *)
(***************************************************************************)
\* The initial states are well typed.
LEMMA TypeInit == Init => TypeOK
<1> SUFFICES ASSUME Init PROVE TypeOK
  OBVIOUS
<1> USE ConstantsAssumption
<1>1. /\ operandW \in [Kinds -> Seq(OperandVersion)]
      /\ \A k \in Kinds : Len(operandW[k]) > 0
  <2>1. PICK f \in [Kinds -> {NoOperand} \cup [exists: {TRUE}, gen: {0}, ready: ReadyValues]] :
           operandW = [k \in Kinds |-> <<f[k]>>]
    BY DEF Init
  <2>2. \A k \in Kinds : f[k] \in OperandVersion
    BY EmptyTypes DEF OperandVersion
  <2>3. QED
    BY <2>1, <2>2
<1>2. ztwimW \in Seq(ZtwimVersion) /\ Len(ztwimW) > 0
  <2>1. [uid |-> 1, conds |-> AllReadyConds, operands |-> AllReadyOperands] \in ZtwimVersion
    BY DEF ZtwimVersion, AllReadyConds, AllReadyOperands, Operands, OperandStatus, CondVal
  <2>2. PICK v \in ZtwimVersion : ztwimW = <<v>>
    BY <2>1, EmptyTypes DEF Init
  <2>3. QED
    BY <2>2, SingletonLemma
<1>3. ocW \in Seq(OcValue) /\ Len(ocW) > 0
  <2>1. PICK v \in OcValue : ocW = <<v>>
    BY DEF Init, OcValue
  <2>2. QED
    BY <2>1, SingletonLemma
<1>4. pass \in Pass /\ pc = "idle"
  BY EmptyTypes DEF Init
<1>5. queued \in BOOLEAN /\ lost \in BOOLEAN /\ createOnly \in BOOLEAN
  BY DEF Init, SomethingExists
<1>6. changes \in 0..MaxChanges /\ faults \in 0..MaxFaults
  BY DEF Init
<1>7. QED
  BY <1>1, <1>2, <1>3, <1>4, <1>5, <1>6 DEF TypeOK

\* Every step keeps the types.
LEMMA TypeNext == TypeOK /\ [Next]_vars => TypeOK'
<1> SUFFICES ASSUME TypeOK, [Next]_vars PROVE TypeOK'
  OBVIOUS
<1> USE ConstantsAssumption
<1>1. ASSUME NEW k \in Kinds, NEW v \in OperandVersion, WriteOperand(k, v)
      PROVE  TypeOK'
  <2>1. /\ Append(operandW[k], v) \in Seq(OperandVersion)
        /\ Len(Append(operandW[k], v)) > 0
    BY <1>1, AppendLemma DEF TypeOK
  <2>2. QED
    BY <1>1, <2>1 DEF TypeOK, WriteOperand, Change
<1>2. ASSUME NEW v \in ZtwimVersion, WriteZtwim(v)
      PROVE  TypeOK'
  <2>1. /\ Append(ztwimW, v) \in Seq(ZtwimVersion)
        /\ Len(Append(ztwimW, v)) > 0
    BY <1>2, AppendLemma DEF TypeOK
  <2>2. QED
    BY <1>2, <2>1 DEF TypeOK, WriteZtwim, Change
<1>3. \A k \in Kinds : Api(operandW[k]) \in OperandVersion
  BY ApiLemma DEF TypeOK
<1>4. ASSUME NEW k \in Kinds, CreateOperand(k) PROVE TypeOK'
  <2>1. [NoOperand EXCEPT !.exists = TRUE] \in OperandVersion
    BY EmptyTypes DEF OperandVersion
  <2>2. QED
    BY <1>1, <1>4, <2>1 DEF CreateOperand
<1>5. ASSUME NEW k \in Kinds, EditOperandSpec(k) PROVE TypeOK'
  <2>1. [Api(operandW[k]) EXCEPT !.gen = 1 - @] \in OperandVersion
    BY <1>3 DEF OperandVersion
  <2>2. QED
    BY <1>1, <1>5, <2>1 DEF EditOperandSpec
<1>6. ASSUME NEW k \in Kinds, DeleteOperand(k) PROVE TypeOK'
  BY <1>1, <1>6, EmptyTypes DEF DeleteOperand
<1>7. ASSUME NEW k \in Kinds, NEW r \in ReadyValues, PublishOperandReady(k, r) PROVE TypeOK'
  <2>1. [Api(operandW[k]) EXCEPT !.ready = r] \in OperandVersion
    BY <1>3 DEF OperandVersion
  <2>2. QED
    BY <1>1, <1>7, <2>1 DEF PublishOperandReady
<1>8. CASE CreateZTWIM
  <2>1. PICK u \in 1..MaxUid : WriteZtwim([NoZtwim EXCEPT !.uid = u])
    BY <1>8 DEF CreateZTWIM
  <2>2. [NoZtwim EXCEPT !.uid = u] \in ZtwimVersion
    BY EmptyTypes DEF ZtwimVersion
  <2>3. QED
    BY <1>2, <2>1, <2>2
<1>9. CASE DeleteZTWIM
  BY <1>2, <1>9, EmptyTypes DEF DeleteZTWIM
<1>10. CASE Restart
  <2>1. operandW' \in [Kinds -> Seq(OperandVersion)] /\ \A k \in Kinds : Len(operandW'[k]) > 0
    BY <1>10, RelistLemma DEF Restart, TypeOK
  <2>2. ztwimW' \in Seq(ZtwimVersion) /\ Len(ztwimW') > 0
    BY <1>10, RelistLemma DEF Restart, TypeOK
  <2>3. ocW' \in Seq(OcValue) /\ Len(ocW') > 0
    BY <1>10, RelistLemma DEF Restart, TypeOK
  <2>4. pass' \in Pass /\ pc' = "idle"
    BY <1>10, EmptyTypes DEF Restart, Return
  <2>5. queued' \in BOOLEAN /\ lost' \in BOOLEAN /\ createOnly' \in BOOLEAN
    BY <1>10 DEF Restart, SomethingExists
  <2>6. changes' \in 0..MaxChanges /\ faults' \in 0..MaxFaults
    BY <1>10 DEF Restart, TypeOK
  <2>7. QED
    BY <2>1, <2>2, <2>3, <2>4, <2>5, <2>6 DEF TypeOK
<1>11. ASSUME NEW k \in Kinds, DeliverOperand(k) PROVE TypeOK'
  <2>1. Deliver(operandW[k]) \in Seq(OperandVersion) /\ Len(Deliver(operandW[k])) > 0
    BY <1>11, DeliverLemma DEF DeliverOperand, TypeOK
  <2>2. QED
    BY <1>11, <2>1 DEF DeliverOperand, TypeOK, env, operandStatusChangedPredicate
<1>12. CASE DeliverZTWIM
  <2>1. Deliver(ztwimW) \in Seq(ZtwimVersion) /\ Len(Deliver(ztwimW)) > 0
    BY <1>12, DeliverLemma DEF DeliverZTWIM, TypeOK
  <2>2. QED
    BY <1>12, <2>1 DEF DeliverZTWIM, TypeOK, env, ztwimPredicate
<1>13. CASE DeliverOperatorCondition
  <2>1. /\ Deliver(ocW) \in Seq(OcValue)
        /\ Len(Deliver(ocW)) > 0
    BY <1>13, DeliverLemma DEF DeliverOperatorCondition, TypeOK
  <2>2. QED
    BY <1>13, <2>1 DEF DeliverOperatorCondition, TypeOK, env, operandStatusChangedPredicate
<1>14. CASE Resync
  BY <1>14 DEF Resync, TypeOK, env
<1>15. CASE Reconcile
  <2>1. UNCHANGED <<operandW, ztwimW, ocW, createOnly, changes>>
    BY <1>15 DEF Reconcile, env
  <2>2. faults' \in 0..MaxFaults
    <3>1. faults' = faults \/ Fault
      BY <1>15, Zenon DEF Reconcile
    <3>2. QED
      BY <3>1 DEF Fault, TypeOK
  <2>3. CASE UNCHANGED <<queued, lost, pass, pc>>
    BY <2>1, <2>2, <2>3 DEF TypeOK
  <2>4. CASE ~UNCHANGED <<queued, lost, pass, pc>>
    <3>1. /\ queued' = FALSE /\ lost' = FALSE
          /\ pass' = Start(Cached(ztwimW))
          /\ pc' = IF Cached(ztwimW).uid = 0 THEN "oc" ELSE "initial"
      BY <1>15, <2>4 DEF Reconcile
    <3>2. QED
      BY <2>1, <2>2, <3>1, ApiLemma, EmptyTypes DEF TypeOK
  <2>5. QED
    BY <2>3, <2>4
<1>16. ASSUME NEW cr \in ZtwimVersion, StatusUpdate(cr) \/ StatusUpdateFails
       PROVE  ztwimW' \in Seq(ZtwimVersion) /\ Len(ztwimW') > 0 /\ faults' \in 0..MaxFaults
  <2>1. Store(ztwimW, cr) \in Seq(ZtwimVersion) /\ Len(Store(ztwimW, cr)) > 0
    BY StoreLemma DEF TypeOK
  <2>2. QED
    BY <1>16, <2>1 DEF StatusUpdate, StatusUpdateFails, Fault, TypeOK
<1>17. CASE SetInitialReconciliationStatus
  <2> DEFINE cr == [pass.cr EXCEPT !.conds["Ready"] = "Reconciling"]
  <2>1. pass.cr \in ZtwimVersion
    BY DEF TypeOK, Pass
  <2>2. cr \in ZtwimVersion
    BY <2>1 DEF ZtwimVersion, CondTypes, CondVal
  <2>3. /\ \/ UNCHANGED <<ztwimW, faults>>
           \/ StatusUpdate(cr) \/ StatusUpdateFails
        /\ pass' = [pass EXCEPT !.cr = cr]
    BY <1>17 DEF SetInitialReconciliationStatus
  <2> HIDE DEF cr
  <2>4. ztwimW' \in Seq(ZtwimVersion) /\ Len(ztwimW') > 0 /\ faults' \in 0..MaxFaults
    BY <1>16, <2>2, <2>3 DEF TypeOK
  <2>5. pass' \in Pass /\ pass'.next = 1
    BY <1>17, <2>2, <2>3 DEF TypeOK, Pass, SetInitialReconciliationStatus
  <2>6. QED
    BY <1>17, <2>4, <2>5 DEF SetInitialReconciliationStatus, TypeOK, env, Kinds
<1>18. CASE GetOperand
  <2>1. PICK s \in OperandStatus :
           /\ \/ UNCHANGED <<faults, lost>>
              \/ Fault /\ lost' = TRUE
           /\ pass' = [pass EXCEPT !.views[pass.next] = s, !.next = pass.next + 1]
    BY <1>18 DEF GetOperand
  <2>2. pass.next \in Kinds
    BY <1>18 DEF GetOperand, TypeOK
  <2>3. pass' = [cr |-> pass.cr, views |-> [pass.views EXCEPT ![pass.next] = s],
                 next |-> pass.next + 1]
    BY <2>1 DEF TypeOK, Pass
  <2>4. [pass.views EXCEPT ![pass.next] = s] \in Operands
    BY DEF TypeOK, Pass, Operands
  <2>5. pass' \in Pass /\ pass'.next = pass.next + 1
    BY <2>2, <2>3, <2>4 DEF TypeOK, Pass, Kinds
  <2>6. pc' = "get" => pass'.next \in Kinds
    BY <1>18, <2>2, <2>5 DEF GetOperand, Kinds
  <2>7. lost' \in BOOLEAN
    BY <2>1 DEF TypeOK
  <2>8. faults' \in 0..MaxFaults
    BY <2>1 DEF TypeOK, Fault
  <2>9. QED
    BY <1>18, <2>5, <2>6, <2>7, <2>8 DEF GetOperand, TypeOK, env
<1>19. CASE updateOperatorCondition
  <2> DEFINE u == Upgradeable(createOnly, IF pass.cr.uid = 0 THEN {}
                                           ELSE {pass.views[k] : k \in Kinds})
  <2>1. u \in OcValue
    BY DEF Upgradeable, OcValue
  <2>2. ocW' \in Seq(OcValue) /\ Len(ocW') > 0
    <3>1. CASE UNCHANGED ocW
      BY <3>1 DEF TypeOK
    <3>2. CASE ocW' = Store(ocW, u)
      <4> HIDE DEF u
      <4> QED
        BY <2>1, <3>2, StoreLemma DEF TypeOK
    <3>3. QED
      BY <1>19, <3>1, <3>2 DEF updateOperatorCondition
  <2>3. pass' \in Pass /\ pc' \in {"idle", "final"}
    BY <1>19, EmptyTypes DEF updateOperatorCondition, TypeOK, Return
  <2>4. lost' \in BOOLEAN
    BY <1>19 DEF updateOperatorCondition, TypeOK
  <2>5. faults' \in 0..MaxFaults
    BY <1>19 DEF updateOperatorCondition, TypeOK, Fault
  <2>6. QED
    BY <1>19, <2>2, <2>3, <2>4, <2>5 DEF updateOperatorCondition, TypeOK, env
<1>20. CASE ApplyStatus
  <2> DEFINE cr == [pass.cr EXCEPT !.conds = ApplyConds(pass.cr, pass.views, createOnly),
                                   !.operands = pass.views]
  <2>1. pass.cr \in ZtwimVersion /\ pass.views \in Operands /\ createOnly \in BOOLEAN
    BY DEF TypeOK, Pass
  <2>2. cr \in ZtwimVersion
    BY <2>1, ApplyLemma DEF ZtwimVersion
  <2>3. \/ UNCHANGED <<ztwimW, lost, faults>>
        \/ StatusUpdate(cr) /\ UNCHANGED lost
        \/ StatusUpdateFails /\ lost' = TRUE
    BY <1>20 DEF ApplyStatus, ApplyConds
  <2> HIDE DEF cr
  <2>4. ztwimW' \in Seq(ZtwimVersion) /\ Len(ztwimW') > 0 /\ faults' \in 0..MaxFaults
    BY <1>16, <2>2, <2>3 DEF TypeOK
  <2>5. QED
    BY <1>20, <2>3, <2>4, EmptyTypes DEF ApplyStatus, TypeOK, Return, env
<1>21. CASE UNCHANGED vars
  BY <1>21 DEF vars, TypeOK
<1>22. QED
  BY <1>4, <1>5, <1>6, <1>7, <1>8, <1>9, <1>10, <1>11, <1>12, <1>13, <1>14, <1>15,
     <1>17, <1>18, <1>19, <1>20, <1>21
     DEF Next, Environment, Watch, Worker

\* Type correctness of the ZTWIM controller for any number of operands.
THEOREM TypeCorrect == Spec => []TypeOK
BY TypeInit, TypeNext, PTL DEF Spec

(***************************************************************************)
(* No lost wakeup.  The invariant is not inductive alone: PassInv says why *)
(* the pass in progress will publish what the cache holds.                 *)
(***************************************************************************)
IndInv == TypeOK /\ PassInv /\ NoLostWakeup

\* What should be published depends only on the cache and on the mode.
LEMMA ExpectedLemma ==
    ASSUME \A k \in Kinds : Cached(operandW'[k]) = Cached(operandW[k]),
           Cached(ztwimW').uid = Cached(ztwimW).uid,
           createOnly' = createOnly
    PROVE  /\ CachedViews' = CachedViews
           /\ ExpectedUpgradeable' = ExpectedUpgradeable
<1>1. CachedViews' = CachedViews
  BY DEF CachedViews
<1>2. QED
  BY <1>1 DEF ExpectedUpgradeable

\* A pass that read every operand as the cache still holds it knows what to publish.
LEMMA ViewsLemma ==
    ASSUME pass.views \in Operands, 
           \A k \in Kinds : pass.views[k] = getOperandStatus(Cached(operandW[k]))
    PROVE  /\ pass.views = CachedViews
           /\ Cached(ztwimW).uid # 0 =>
                ExpectedUpgradeable = Upgradeable(createOnly, {pass.views[k] : k \in Kinds})
<1>1. pass.views = CachedViews
  BY DEF CachedViews, Operands
<1>2. QED
  BY <1>1 DEF ExpectedUpgradeable

\* Initially either nothing exists or a pass is queued.
LEMMA IndInvInit == Init => IndInv
<1> SUFFICES ASSUME Init PROVE IndInv
  OBVIOUS
<1>1. TypeOK
  BY TypeInit
<1>2. PICK v \in OcValue : ocW = <<v>>
  BY DEF Init, OcValue
<1>3. PassInv
  BY <1>2, SingletonLemma DEF Init, PassInv
<1>4. NoLostWakeup
  <2> SUFFICES ASSUME ~queued PROVE PublishedIsCurrent
    BY DEF NoLostWakeup
  <2>1. Api(ocW) = "Absent" /\ Api(ztwimW).uid = 0
    BY DEF Init, SomethingExists
  <2>2. Cached(ocW) = "Absent"
    BY <1>2, <2>1, SingletonLemma
  <2>3. Len(ztwimW) = 1
    BY DEF Init
  <2>4. Cached(ztwimW).uid = 0
    BY <2>1, <2>3 DEF Cached, Api
  <2>5. QED
    BY <2>2, <2>4 DEF PublishedIsCurrent
<1>5. QED
  BY <1>1, <1>3, <1>4 DEF IndInv

\* Whoever writes to an operand CR, the write does not reach the cache.
LEMMA OperandWritten ==
    ASSUME IndInv, NEW k \in Kinds, NEW v \in OperandVersion,
           operandW' = [operandW EXCEPT ![k] = Append(@, v)],
           UNCHANGED <<ztwimW, ocW, createOnly, queued, pc, pass, lost>>,
           changes' \in 0..MaxChanges, faults' \in 0..MaxFaults
    PROVE  IndInv'
<1>1. TypeOK
  BY DEF IndInv
<1>2. /\ Append(operandW[k], v) \in Seq(OperandVersion) /\ Len(Append(operandW[k], v)) > 0
      /\ Cached(Append(operandW[k], v)) = Cached(operandW[k])
  BY <1>1, AppendLemma DEF TypeOK
<1>3. TypeOK'
  BY <1>1, <1>2 DEF TypeOK
<1>4. \A j \in Kinds : Cached(operandW'[j]) = Cached(operandW[j])
  BY <1>1, <1>2 DEF TypeOK
<1>5. CachedViews' = CachedViews /\ ExpectedUpgradeable' = ExpectedUpgradeable
  BY <1>4, ExpectedLemma
<1>6. PassInv'
  BY <1>4, <1>5 DEF IndInv, PassInv
<1>7. NoLostWakeup'
  BY <1>5 DEF IndInv, NoLostWakeup, PublishedIsCurrent, ZtwimSettled
<1>8. QED
  BY <1>3, <1>6, <1>7 DEF IndInv

\* What else happens in the cluster does not touch the controller.
LEMMA Untouched ==
    ASSUME IndInv, UNCHANGED <<operandW, ztwimW, ocW, createOnly, queued, pc, pass, lost>>,
           changes' \in 0..MaxChanges, faults' \in 0..MaxFaults
    PROVE  IndInv'
<1>1. TypeOK'
  BY DEF IndInv, TypeOK
<1>2. CachedViews' = CachedViews /\ ExpectedUpgradeable' = ExpectedUpgradeable
  BY ExpectedLemma
<1>3. PassInv'
  BY <1>2 DEF IndInv, PassInv
<1>4. NoLostWakeup'
  BY <1>2 DEF IndInv, NoLostWakeup, PublishedIsCurrent, ZtwimSettled
<1>5. QED
  BY <1>1, <1>3, <1>4 DEF IndInv

\* The environment: writes do not reach the cache, and a restart queues a pass.
LEMMA IndInvEnvironment == IndInv /\ Environment => (PassInv /\ NoLostWakeup)'
<1> SUFFICES ASSUME IndInv, Environment PROVE (PassInv /\ NoLostWakeup)'
  OBVIOUS
<1> USE ConstantsAssumption
<1>1. ASSUME NEW k \in Kinds, NEW v \in OperandVersion, WriteOperand(k, v)
      PROVE  (PassInv /\ NoLostWakeup)'
  <2>1. /\ operandW' = [operandW EXCEPT ![k] = Append(@, v)]
        /\ UNCHANGED <<ztwimW, ocW, createOnly, queued, pc, pass, lost>>
    BY <1>1 DEF WriteOperand, Change
  <2>2. changes' \in 0..MaxChanges /\ faults' \in 0..MaxFaults
    BY <1>1 DEF WriteOperand, Change, IndInv, TypeOK
  <2>3. IndInv'
    BY <2>1, <2>2, OperandWritten
  <2>4. QED
    BY <2>3 DEF IndInv
<1>2. ASSUME NEW v \in ZtwimVersion, WriteZtwim(v),
             \A i \in DOMAIN ztwimW : ztwimW[i].uid # v.uid \/ Api(ztwimW).uid # v.uid
      PROVE  (PassInv /\ NoLostWakeup)'
  <2>1. /\ Cached(ztwimW') = Cached(ztwimW)
        /\ DOMAIN ztwimW' = 1..(Len(ztwimW) + 1)
        /\ \A i \in 1..Len(ztwimW) : ztwimW'[i] = ztwimW[i]
        /\ ztwimW'[Len(ztwimW) + 1] = v
        /\ Len(ztwimW) \in Nat
        /\ Len(ztwimW) > 0
        /\ DOMAIN ztwimW = 1..Len(ztwimW)
    BY <1>2, AppendLemma DEF WriteZtwim, IndInv, TypeOK
  <2>2. UNCHANGED <<operandW, ocW, createOnly, queued, pc, pass, lost>>
    BY <1>2 DEF WriteZtwim, Change
  <2>3. ExpectedUpgradeable' = ExpectedUpgradeable
    BY <2>1, <2>2, ExpectedLemma
  <2>4. PassInv'
    BY <2>1, <2>2, <2>3 DEF IndInv, PassInv
  <2>5. ~ZtwimSettled'
    <3> SUFFICES ASSUME ZtwimSettled' PROVE FALSE
      OBVIOUS
    <3>1. \A i \in DOMAIN ztwimW' : ztwimW'[i].uid = Cached(ztwimW').uid
      BY DEF ZtwimSettled
    <3>2. Len(ztwimW) + 1 \in DOMAIN ztwimW' /\ Len(ztwimW) \in DOMAIN ztwimW'
      BY <2>1
    <3>3. v.uid = Cached(ztwimW').uid /\ ztwimW[Len(ztwimW)].uid = Cached(ztwimW').uid
      BY <2>1, <3>1, <3>2
    <3>4. QED
      BY <1>2, <2>1, <3>2, <3>3 DEF Api
  <2>6. QED
    BY <2>4, <2>5 DEF NoLostWakeup
<1>3. CASE \E k \in Kinds : \/ CreateOperand(k) \/ EditOperandSpec(k) \/ DeleteOperand(k)
                            \/ \E r \in ReadyValues : PublishOperandReady(k, r)
  <2>1. \A k \in Kinds : Api(operandW[k]) \in OperandVersion
    BY ApiLemma DEF IndInv, TypeOK
  <2>2. [NoOperand EXCEPT !.exists = TRUE] \in OperandVersion
    BY EmptyTypes DEF OperandVersion
  <2>3. \A k \in Kinds : [Api(operandW[k]) EXCEPT !.gen = 1 - @] \in OperandVersion
    BY <2>1 DEF OperandVersion
  <2>4. \A k \in Kinds, r \in ReadyValues :
           [Api(operandW[k]) EXCEPT !.ready = r] \in OperandVersion
    BY <2>1 DEF OperandVersion
  <2>5. QED
    BY <1>1, <1>3, <2>2, <2>3, <2>4, EmptyTypes
       DEF CreateOperand, EditOperandSpec, DeleteOperand, PublishOperandReady
<1>4. CASE CreateZTWIM
  <2>1. PICK u \in 1..MaxUid : /\ \A i \in DOMAIN ztwimW : ztwimW[i].uid # u
                               /\ WriteZtwim([NoZtwim EXCEPT !.uid = u])
    BY <1>4 DEF CreateZTWIM
  <2>2. [NoZtwim EXCEPT !.uid = u] \in ZtwimVersion /\ [NoZtwim EXCEPT !.uid = u].uid = u
    BY EmptyTypes DEF ZtwimVersion
  <2>3. QED
    BY <1>2, <2>1, <2>2
<1>5. CASE DeleteZTWIM
  BY <1>2, <1>5, EmptyTypes DEF DeleteZTWIM
<1>6. CASE Restart
  <2>1. /\ Cached(ztwimW') = Api(ztwimW)
        /\ Cached(ocW') = Api(ocW)
        /\ DOMAIN ocW' = {1}
    BY <1>6, RelistLemma DEF Restart, IndInv, TypeOK
  <2>2. PassInv'
    BY <1>6, <2>1 DEF Restart, Return, PassInv, Cached
  <2>3. ~queued' => Api(ocW) = "Absent" /\ Api(ztwimW).uid = 0
    BY <1>6 DEF Restart, SomethingExists
  <2>4. NoLostWakeup'
    BY <2>1, <2>3 DEF NoLostWakeup, PublishedIsCurrent
  <2>5. QED
    BY <2>2, <2>4
<1>7. QED
  BY <1>3, <1>4, <1>5, <1>6 DEF Environment

\* The watches: an event that changes what should be published queues a pass.
LEMMA IndInvWatch == IndInv /\ (Watch \/ Resync) => (PassInv /\ NoLostWakeup)'
<1> SUFFICES ASSUME IndInv, Watch \/ Resync PROVE (PassInv /\ NoLostWakeup)'
  OBVIOUS
<1>1. ASSUME NEW k \in Kinds, DeliverOperand(k) PROVE (PassInv /\ NoLostWakeup)'
  <2>1. queued' = TRUE /\ UNCHANGED <<ztwimW, ocW, pc, pass, lost, createOnly>>
    BY <1>1 DEF DeliverOperand, operandStatusChangedPredicate, env
  <2>2. QED
    BY <2>1 DEF IndInv, PassInv, NoLostWakeup
<1>2. CASE DeliverOperatorCondition
  <2>1. /\ queued' = TRUE
        /\ ocW' = Deliver(ocW)
        /\ UNCHANGED <<ztwimW, operandW, pc, pass, lost, createOnly>>
    BY <1>2 DEF DeliverOperatorCondition, operandStatusChangedPredicate, env
  <2>2. /\ Cached(ocW') = ocW[2]
        /\ DOMAIN ocW' = 1..(Len(ocW) - 1)
        /\ \A i \in 1..(Len(ocW) - 1) : ocW'[i] = ocW[i + 1]
        /\ DOMAIN ocW = 1..Len(ocW)
        /\ Len(ocW) > 1 /\ Len(ocW) \in Nat
    <3>1. ocW \in Seq(OcValue) /\ Len(ocW) > 1
      BY <1>2 DEF DeliverOperatorCondition, IndInv, TypeOK
    <3>2. QED
      BY <2>1, <3>1, DeliverLemma
  <2>3. \A i \in DOMAIN ocW' : (ocW'[i] = "Absent") <=> (Cached(ocW') = "Absent")
    <3>1. \A i \in DOMAIN ocW : (ocW[i] = "Absent") <=> (Cached(ocW) = "Absent")
      BY DEF IndInv, PassInv
    <3>2. TAKE i \in DOMAIN ocW'
    <3>3. i + 1 \in DOMAIN ocW /\ 2 \in DOMAIN ocW
      BY <2>2
    <3>4. QED
      BY <2>2, <3>1, <3>3
  <2>4. QED
    BY <2>1, <2>3 DEF IndInv, PassInv, NoLostWakeup
<1>3. CASE DeliverZTWIM
  <2>1. /\ ztwimW' = Deliver(ztwimW)
        /\ queued' = (queued \/ ztwimW[1].uid # ztwimW[2].uid)
        /\ UNCHANGED <<operandW, ocW, pc, pass, lost, createOnly>>
    BY <1>3 DEF DeliverZTWIM, ztwimPredicate, env
  <2>2. /\ Cached(ztwimW') = ztwimW[2]
        /\ Api(ztwimW') = Api(ztwimW)
        /\ DOMAIN ztwimW' = 1..(Len(ztwimW) - 1)
        /\ \A i \in 1..(Len(ztwimW) - 1) : ztwimW'[i] = ztwimW[i + 1]
        /\ DOMAIN ztwimW = 1..Len(ztwimW)
        /\ Len(ztwimW) > 1 /\ Len(ztwimW) \in Nat
    BY <1>3, <2>1, DeliverLemma DEF DeliverZTWIM, IndInv, TypeOK
  <2>3. CASE queued'
    BY <2>1, <2>3 DEF IndInv, PassInv, NoLostWakeup
  <2>4. CASE ~queued'
    <3>1. ~queued /\ ztwimW[2].uid = Cached(ztwimW).uid
      BY <2>1, <2>4 DEF Cached
    <3>2. /\ CachedViews' = CachedViews
          /\ ExpectedUpgradeable' = ExpectedUpgradeable
      BY <2>1, <2>2, <3>1, ExpectedLemma
    <3>3. PassInv'
      BY <2>1, <2>2, <3>1, <3>2 DEF IndInv, PassInv
    <3>4. ZtwimSettled' => ZtwimSettled
      <4> SUFFICES ASSUME ZtwimSettled', NEW i \in DOMAIN ztwimW
                   PROVE  ztwimW[i].uid = Cached(ztwimW).uid
        BY DEF ZtwimSettled
      <4>1. CASE i = 1
        BY <4>1 DEF Cached
      <4>2. CASE i # 1
        <5>1. i - 1 \in DOMAIN ztwimW' /\ i - 1 \in 1..(Len(ztwimW) - 1) /\ (i - 1) + 1 = i
          BY <2>2, <4>2
        <5>2. ztwimW'[i - 1] = ztwimW[i]
          BY <2>2, <5>1
        <5>3. ztwimW'[i - 1].uid = Cached(ztwimW').uid
          BY <5>1 DEF ZtwimSettled
        <5>4. QED
          BY <2>2, <3>1, <5>2, <5>3
      <4>3. QED
        BY <4>1, <4>2
    <3>5. NoLostWakeup'
      BY <2>1, <2>2, <3>1, <3>2, <3>4 DEF IndInv, NoLostWakeup, PublishedIsCurrent
    <3>6. QED
      BY <3>3, <3>5
  <2>5. QED
    BY <2>3, <2>4
<1>4. CASE Resync
  <2>1. queued' = TRUE /\ UNCHANGED <<ztwimW, operandW, ocW, pc, pass, lost, createOnly>>
    BY <1>4 DEF Resync, env
  <2>2. QED
    BY <2>1 DEF IndInv, PassInv, NoLostWakeup
<1>5. QED
  BY <1>1, <1>2, <1>3, <1>4 DEF Watch

\* The worker: a pass carries what it read to what it publishes.
LEMMA IndInvWorker == IndInv /\ TypeOK' /\ Worker => (PassInv /\ NoLostWakeup)'
<1> SUFFICES ASSUME IndInv, TypeOK', Worker PROVE (PassInv /\ NoLostWakeup)'
  OBVIOUS
<1> USE ConstantsAssumption
<1>0. ASSUME NEW cr \in ZtwimVersion, StatusUpdate(cr) \/ StatusUpdateFails
      PROVE  Cached(ztwimW') = Cached(ztwimW)
  <2>1. Cached(Store(ztwimW, cr)) = Cached(ztwimW)
    BY StoreLemma DEF IndInv, TypeOK
  <2>2. QED
    BY <1>0, <2>1 DEF StatusUpdate, StatusUpdateFails
<1>1. CASE Reconcile
  <2>1. CASE UNCHANGED <<queued, lost, pass, pc>>
    <3>1. pc' = "idle" /\ queued'
      BY <1>1, <2>1 DEF Reconcile
    <3>2. UNCHANGED ocW
      BY <1>1 DEF Reconcile
    <3>3. QED
      BY <3>1, <3>2 DEF IndInv, PassInv, NoLostWakeup
  <2>2. CASE ~UNCHANGED <<queued, lost, pass, pc>>
    <3>1. /\ pc' \in {"oc", "initial"} /\ ~queued' /\ ~lost'
          /\ pass' = Start(Cached(ztwimW))
          /\ pc' = IF Cached(ztwimW).uid = 0 THEN "oc" ELSE "initial"
          /\ UNCHANGED <<operandW, ztwimW, ocW, createOnly>>
      BY <1>1, <2>2 DEF Reconcile, env
    <3>2. pass'.cr = Cached(ztwimW) /\ pass'.next = 1
      BY <3>1, ApiLemma, EmptyTypes DEF IndInv, TypeOK
    <3>3. PassInv'
      BY <3>1, <3>2 DEF IndInv, PassInv
    <3>4. QED
      BY <3>1, <3>3 DEF NoLostWakeup
  <2>3. QED
    BY <2>1, <2>2
<1>2. CASE SetInitialReconciliationStatus
  <2> DEFINE cr == [pass.cr EXCEPT !.conds["Ready"] = "Reconciling"]
  <2>1. pass.cr \in ZtwimVersion /\ pass.next = 1 /\ pass.cr.uid # 0
    BY <1>2 DEF SetInitialReconciliationStatus, IndInv, PassInv, TypeOK, Pass
  <2>2. cr \in ZtwimVersion /\ cr.uid = pass.cr.uid /\ cr.conds["Ready"] = "Reconciling"
    BY <2>1 DEF ZtwimVersion, CondTypes, CondVal
  <2>3. /\ \/ UNCHANGED <<ztwimW, faults>>
           \/ StatusUpdate(cr) \/ StatusUpdateFails
        /\ pass' = [pass EXCEPT !.cr = cr]
        /\ pc' = "get" /\ pc = "initial"
        /\ UNCHANGED <<operandW, ocW, queued, lost, createOnly>>
    BY <1>2 DEF SetInitialReconciliationStatus, env
  <2> HIDE DEF cr
  <2>4. Cached(ztwimW') = Cached(ztwimW)
    BY <1>0, <2>2, <2>3
  <2>5. pass'.cr = cr /\ pass'.next = 1
    BY <2>1, <2>3 DEF IndInv, TypeOK, Pass
  <2>6. \A k \in Kinds : ~(k < pass'.next)
    BY <2>5 DEF Kinds
  <2>7. PassInv'
    BY <2>1, <2>2, <2>3, <2>4, <2>5, <2>6 DEF IndInv, PassInv
  <2>8. QED
    BY <2>3, <2>7 DEF NoLostWakeup
<1>3. CASE GetOperand
  <2>1. PICK s \in OperandStatus :
           /\ \/ s = getOperandStatus(Cached(operandW[pass.next])) /\ UNCHANGED lost
              \/ lost' = TRUE
           /\ pass' = [pass EXCEPT !.views[pass.next] = s, !.next = pass.next + 1]
    BY <1>3 DEF GetOperand
  <2>2. /\ pc = "get" /\ pc' = IF pass.next = N THEN "oc" ELSE "get"
        /\ UNCHANGED <<operandW, ztwimW, ocW, queued, createOnly>>
    BY <1>3 DEF GetOperand, env
  <2>3. /\ pass.next \in Kinds /\ pass.views \in Operands /\ pass.cr.uid # 0
        /\ pass.cr.conds["Ready"] = "Reconciling"
    BY <2>2 DEF IndInv, PassInv, TypeOK, Pass
  <2>4. pass' = [cr |-> pass.cr, views |-> [pass.views EXCEPT ![pass.next] = s],
                 next |-> pass.next + 1]
    BY <2>1 DEF IndInv, TypeOK, Pass
  <2>5. ~queued' /\ ~lost' =>
           \A k \in Kinds : k < pass'.next =>
               pass'.views[k] = getOperandStatus(Cached(operandW'[k]))
    <3> SUFFICES ASSUME ~queued', ~lost', NEW k \in Kinds, k < pass'.next
                 PROVE  pass'.views[k] = getOperandStatus(Cached(operandW[k]))
      BY <2>2
    <3>1. /\ s = getOperandStatus(Cached(operandW[pass.next]))
          /\ ~queued /\ ~lost
      BY <2>1, <2>2
    <3>2. CASE k = pass.next
      BY <2>3, <2>4, <3>1, <3>2 DEF Operands
    <3>3. CASE k # pass.next
      <4>1. k < pass.next
        BY <2>3, <2>4, <3>3 DEF Kinds
      <4>2. pass.views[k] = getOperandStatus(Cached(operandW[k]))
        BY <2>2, <2>3, <3>1, <4>1 DEF IndInv, PassInv
      <4>3. QED
        BY <2>3, <2>4, <3>3, <4>2 DEF Operands
    <3>4. QED
      BY <3>2, <3>3
  <2>6. pc' = "oc" => pass'.next = N + 1
    BY <2>2, <2>3, <2>4
  <2>7. PassInv'
    BY <2>2, <2>3, <2>4, <2>5, <2>6 DEF IndInv, PassInv
  <2>8. QED
    BY <2>2, <2>7 DEF NoLostWakeup
<1>4. CASE updateOperatorCondition
  <2> DEFINE u == Upgradeable(createOnly, IF pass.cr.uid = 0 THEN {}
                                           ELSE {pass.views[k] : k \in Kinds})
  <2>1. /\ pc = "oc"
        /\ \/ Cached(ocW) = "Absent" /\ UNCHANGED <<ocW, lost>>
           \/ Cached(ocW) # "Absent" /\ ocW' = Store(ocW, u) /\ UNCHANGED lost
           \/ UNCHANGED ocW /\ lost' = TRUE
        /\ \/ pass.cr.uid = 0 /\ pc' = "idle"
           \/ pass.cr.uid # 0 /\ pc' = "final" /\ UNCHANGED pass
        /\ UNCHANGED <<operandW, ztwimW, queued, createOnly>>
    BY <1>4 DEF updateOperatorCondition, Return, env
  <2>2. u \in OcValue /\ u # "Absent"
    BY DEF Upgradeable, OcValue
  <2>3. pass.cr.uid # 0 => pass.next = N + 1
    BY <2>1 DEF IndInv, PassInv
  <2>4. ~queued /\ ~lost => u = ExpectedUpgradeable
    <3> SUFFICES ASSUME ~queued, ~lost PROVE u = ExpectedUpgradeable
      OBVIOUS
    <3>1. Cached(ztwimW).uid = pass.cr.uid
      BY <2>1 DEF IndInv, PassInv
    <3>2. CASE pass.cr.uid = 0
      BY <3>1, <3>2 DEF ExpectedUpgradeable
    <3>3. CASE pass.cr.uid # 0
      <4>1. \A k \in Kinds : k < pass.next
        BY <2>3, <3>3 DEF Kinds
      <4>2. \A k \in Kinds : pass.views[k] = getOperandStatus(Cached(operandW[k]))
        BY <2>1, <3>3, <4>1 DEF IndInv, PassInv
      <4>3. pass.views \in Operands
        BY DEF IndInv, TypeOK, Pass
      <4>4. QED
        BY <3>1, <3>3, <4>2, <4>3, ViewsLemma
    <3>4. QED
      BY <3>2, <3>3
  <2>5. ExpectedUpgradeable' = ExpectedUpgradeable
    BY <2>1, ExpectedLemma
  <2> HIDE DEF u
  <2>6. /\ Cached(ocW') = Cached(ocW)
        /\ \A i \in DOMAIN ocW' : (ocW'[i] = "Absent") <=> (Cached(ocW') = "Absent")
    <3>1. \A i \in DOMAIN ocW : (ocW[i] = "Absent") <=> (Cached(ocW) = "Absent")
      BY DEF IndInv, PassInv
    <3>2. CASE UNCHANGED ocW
      BY <3>1, <3>2
    <3>3. CASE Cached(ocW) # "Absent" /\ ocW' = Store(ocW, u)
      <4>1. /\ Cached(Store(ocW, u)) = Cached(ocW)
            /\ \A i \in DOMAIN Store(ocW, u) : i \in DOMAIN ocW \/ Store(ocW, u)[i] = u
            /\ \A i \in DOMAIN ocW : Store(ocW, u)[i] = ocW[i]
        <5>1. ocW \in Seq(OcValue) /\ Len(ocW) > 0 /\ u \in OcValue
          BY <2>2 DEF IndInv, TypeOK
        <5>2. QED
          BY <5>1, StoreVersionsLemma
      <4>2. QED
        BY <2>2, <3>1, <3>3, <4>1
    <3>4. QED
      BY <2>1, <3>2, <3>3
  <2>7. ~queued' /\ ~lost' /\ Cached(ocW') # "Absent" => Api(ocW') = ExpectedUpgradeable'
    BY <2>1, <2>2, <2>4, <2>5, <2>6, StoreLemma DEF IndInv, TypeOK
  <2>8. PassInv'
    <3>1. CASE pc' = "idle"
      BY <2>6, <3>1 DEF PassInv
    <3>2. CASE pass.cr.uid # 0 /\ pc' = "final" /\ UNCHANGED pass
      <4>1. /\ pass'.cr.uid # 0 /\ pass'.next = N + 1
            /\ ~lost' => ~lost
            /\ UNCHANGED <<operandW, ztwimW, queued>>
        BY <2>1, <2>3, <3>2
      <4>2. /\ pass.cr.conds["Ready"] = "Reconciling"
            /\ ~queued => Cached(ztwimW).uid = pass.cr.uid
            /\ ~queued /\ ~lost =>
                  \A k \in Kinds : k < pass.next =>
                      pass.views[k] = getOperandStatus(Cached(operandW[k]))
        BY <2>1, <3>2 DEF IndInv, PassInv
      <4>3. QED
        BY <2>6, <2>7, <3>2, <4>1, <4>2 DEF PassInv
    <3>3. QED
      BY <2>1, <3>1, <3>2
  <2>9. NoLostWakeup'
    <3> SUFFICES ASSUME pc' = "idle", ~queued', ~lost' PROVE PublishedIsCurrent'
      BY DEF NoLostWakeup
    <3>1. Cached(ztwimW').uid = 0
      BY <2>1 DEF IndInv, PassInv
    <3>2. QED
      BY <2>7, <3>1 DEF PublishedIsCurrent
  <2>10. QED
    BY <2>8, <2>9
<1>5. CASE ApplyStatus
  <2> DEFINE cr == [pass.cr EXCEPT !.conds = ApplyConds(pass.cr, pass.views, createOnly),
                                   !.operands = pass.views]
  <2>1. /\ pass.cr \in ZtwimVersion /\ pass.views \in Operands /\ createOnly \in BOOLEAN
        /\ pc = "final" /\ pass.cr.uid # 0 /\ pass.next = N + 1
        /\ pass.cr.conds["Ready"] = "Reconciling"
    BY <1>5 DEF ApplyStatus, IndInv, PassInv, TypeOK, Pass
  <2>2. /\ cr \in ZtwimVersion /\ cr.operands = pass.views
        /\ cr.conds = ApplyConds(pass.cr, pass.views, createOnly)
    BY <2>1, ApplyLemma DEF ZtwimVersion
  <2>3. cr.conds # pass.cr.conds
    BY <2>1, <2>2, ApplyLemma, SummaryType
  <2>4. /\ \/ StatusUpdate(cr) /\ UNCHANGED lost
           \/ StatusUpdateFails /\ lost' = TRUE
        /\ pc' = "idle" /\ UNCHANGED <<operandW, ocW, queued, createOnly>>
    BY <1>5, <2>3 DEF ApplyStatus, ApplyConds, Return, env
  <2> HIDE DEF cr
  <2>5. Cached(ztwimW') = Cached(ztwimW)
    BY <1>0, <2>2, <2>4
  <2>6. PassInv'
    BY <2>4 DEF IndInv, PassInv
  <2>7. NoLostWakeup'
    <3> SUFFICES ASSUME ~queued, ~lost' PROVE PublishedIsCurrent'
      BY <2>4 DEF NoLostWakeup
    <3>1. StatusUpdate(cr) /\ ~lost
      BY <2>4
    <3>2. Api(ztwimW') = cr
      <4>1. Api(Store(ztwimW, cr)) = cr
        BY <2>2, StoreLemma DEF IndInv, TypeOK
      <4>2. QED
        BY <3>1, <4>1 DEF StatusUpdate
    <3>3. \A k \in Kinds : pass.views[k] = getOperandStatus(Cached(operandW[k]))
      <4>1. \A k \in Kinds : k < pass.next
        BY <2>1 DEF Kinds
      <4>2. QED
        BY <2>1, <3>1, <4>1 DEF IndInv, PassInv
    <3>4. pass.views = CachedViews
      BY <2>1, <3>3, ViewsLemma
    <3>5. CachedViews' = CachedViews /\ ExpectedUpgradeable' = ExpectedUpgradeable
      BY <2>4, <2>5, ExpectedLemma
    <3>6. /\ Api(ztwimW').operands = CachedViews'
          /\ Api(ztwimW').conds["Ready"] = aggregateOperandStatus(CachedViews')
      BY <2>1, <2>2, <3>2, <3>4, <3>5, ApplyLemma
    <3>7. (Api(ztwimW').conds["CreateOnlyMode"] = "True") = createOnly'
      BY <2>1, <2>2, <2>4, <3>2, ApplyLemma
    <3>8. Cached(ocW') # "Absent" => Api(ocW') = ExpectedUpgradeable'
      BY <2>1, <2>4, <3>1, <3>5 DEF IndInv, PassInv
    <3>9. QED
      BY <3>6, <3>7, <3>8 DEF PublishedIsCurrent
  <2>8. QED
    BY <2>6, <2>7
<1>6. QED
  BY <1>1, <1>2, <1>3, <1>4, <1>5 DEF Worker

\* The invariant is inductive.
LEMMA IndInvStep == IndInv /\ [Next]_vars => IndInv'
<1> SUFFICES ASSUME IndInv, [Next]_vars PROVE IndInv'
  OBVIOUS
<1>1. TypeOK'
  BY TypeNext DEF IndInv
<1>2. CASE UNCHANGED vars
  BY <1>1, <1>2 DEF vars, IndInv, PassInv, NoLostWakeup, ZtwimSettled, PublishedIsCurrent,
                    CachedViews, ExpectedUpgradeable
<1>3. CASE Next
  BY <1>1, <1>3, IndInvEnvironment, IndInvWatch, IndInvWorker DEF Next, IndInv
<1>4. QED
  BY <1>2, <1>3

\* NoLostWakeup, for any number of operands: an idle ZTWIM controller that lost no
\* request has published the summary of exactly what its cache holds.
THEOREM NothingStale == Spec => []NoLostWakeup
<1>1. IndInv => NoLostWakeup
  BY DEF IndInv
<1>2. QED
  BY IndInvInit, IndInvStep, <1>1, PTL DEF Spec

(***************************************************************************)
(* Ready is backed by the operand entries next to it.                      *)
(***************************************************************************)

\* The summary is True only when every operand says it is ready.
LEMMA SummaryTrue ==
    ASSUME NEW views \in Operands, aggregateOperandStatus(views) = "True"
    PROVE  \A k \in Kinds : views[k].ready
<1> SUFFICES ASSUME NEW k \in Kinds PROVE views[k].ready
  OBVIOUS
<1>1. classifyOperandState(views[k]) = "ready"
  BY DEF aggregateOperandStatus
<1>2. views[k] \in OperandStatus
  BY DEF Operands
<1>3. QED
  BY <1>1, <1>2 DEF classifyOperandState, OperandStatus

\* No step of the controller publishes Ready over an operand entry that says otherwise.
LEMMA BackedStep == IndInv /\ ReadyMatchesOperands /\ [Next]_vars => ReadyMatchesOperands'
<1> SUFFICES ASSUME IndInv, ReadyMatchesOperands, [Next]_vars
             PROVE  ReadyMatchesOperands'
  OBVIOUS
<1> USE ConstantsAssumption
<1>1. ASSUME Api(ztwimW') = Api(ztwimW) PROVE ReadyMatchesOperands'
  BY <1>1 DEF ReadyMatchesOperands
<1>2. ASSUME NEW v \in ZtwimVersion, v.conds["Ready"] # "True", WriteZtwim(v)
      PROVE  ReadyMatchesOperands'
  BY <1>2, AppendLemma DEF WriteZtwim, ReadyMatchesOperands, IndInv, TypeOK
<1>3. ASSUME NEW cr \in ZtwimVersion, StatusUpdate(cr) \/ StatusUpdateFails,
             cr.conds["Ready"] = "True" => \A k \in Kinds : cr.operands[k].ready
      PROVE  ReadyMatchesOperands'
  <2>1. Api(Store(ztwimW, cr)) = cr
    BY StoreLemma DEF IndInv, TypeOK
  <2>2. QED
    BY <1>3, <2>1 DEF StatusUpdate, StatusUpdateFails, ReadyMatchesOperands
<1>4. CASE UNCHANGED ztwimW
  BY <1>1, <1>4
<1>5. CASE CreateZTWIM
  <2>1. PICK u \in 1..MaxUid : WriteZtwim([NoZtwim EXCEPT !.uid = u])
    BY <1>5 DEF CreateZTWIM
  <2>2. /\ [NoZtwim EXCEPT !.uid = u] \in ZtwimVersion
        /\ [NoZtwim EXCEPT !.uid = u].conds["Ready"] = "None"
    BY EmptyTypes DEF ZtwimVersion, NoZtwim, NoConditions, CondTypes
  <2>3. QED
    BY <1>2, <2>1, <2>2
<1>6. CASE DeleteZTWIM
  <2>1. NoZtwim.conds["Ready"] = "None"
    BY DEF NoZtwim, NoConditions, CondTypes
  <2>2. QED
    BY <1>2, <1>6, <2>1, EmptyTypes DEF DeleteZTWIM
<1>7. CASE Restart
  BY <1>1, <1>7, RelistLemma DEF Restart, IndInv, TypeOK
<1>8. CASE DeliverZTWIM
  BY <1>1, <1>8, DeliverLemma DEF DeliverZTWIM, IndInv, TypeOK
<1>9. CASE SetInitialReconciliationStatus
  <2> DEFINE cr == [pass.cr EXCEPT !.conds["Ready"] = "Reconciling"]
  <2>1. cr \in ZtwimVersion /\ cr.conds["Ready"] = "Reconciling"
    BY DEF IndInv, TypeOK, Pass, ZtwimVersion, CondTypes, CondVal
  <2>2. UNCHANGED ztwimW \/ StatusUpdate(cr) \/ StatusUpdateFails
    BY <1>9 DEF SetInitialReconciliationStatus
  <2> HIDE DEF cr
  <2>3. QED
    BY <1>3, <1>4, <2>1, <2>2
<1>10. CASE ApplyStatus
  <2> DEFINE cr == [pass.cr EXCEPT !.conds = ApplyConds(pass.cr, pass.views, createOnly),
                                   !.operands = pass.views]
  <2>1. pass.cr \in ZtwimVersion /\ pass.views \in Operands /\ createOnly \in BOOLEAN
    BY DEF IndInv, TypeOK, Pass
  <2>2. /\ cr \in ZtwimVersion /\ cr.operands = pass.views
        /\ cr.conds["Ready"] = aggregateOperandStatus(pass.views)
    <3>1. /\ cr \in ZtwimVersion /\ cr.operands = pass.views
          /\ cr.conds = ApplyConds(pass.cr, pass.views, createOnly)
      BY <2>1, ApplyLemma DEF ZtwimVersion
    <3>2. QED
      BY <2>1, <3>1, ApplyLemma
  <2>3. UNCHANGED ztwimW \/ StatusUpdate(cr) \/ StatusUpdateFails
    BY <1>10 DEF ApplyStatus, ApplyConds
  <2> HIDE DEF cr
  <2>4. cr.conds["Ready"] = "True" => \A k \in Kinds : cr.operands[k].ready
    BY <2>1, <2>2, SummaryTrue
  <2>5. QED
    BY <1>3, <1>4, <2>2, <2>3, <2>4
<1>11. \/ UNCHANGED ztwimW \/ CreateZTWIM \/ DeleteZTWIM \/ Restart \/ DeliverZTWIM
       \/ SetInitialReconciliationStatus \/ ApplyStatus
  BY DEF Next, Environment, Watch, Worker, Resync, vars, CreateOperand, EditOperandSpec,
         DeleteOperand, PublishOperandReady, WriteOperand, DeliverOperand,
         DeliverOperatorCondition, Reconcile, GetOperand, updateOperatorCondition
<1>12. QED
  BY <1>4, <1>5, <1>6, <1>7, <1>8, <1>9, <1>10, <1>11

\* ReadyMatchesOperands, for any number of operands: of the two status writes of a
\* pass, the first withdraws Ready and the second publishes Ready and Operands together.
THEOREM ReadyIsBacked == Spec => []ReadyMatchesOperands
<1>1. Init => ReadyMatchesOperands
  <2> SUFFICES ASSUME Init PROVE ReadyMatchesOperands
    OBVIOUS
  <2>1. CASE ztwimW = <<NoZtwim>>
    BY <2>1 DEF ReadyMatchesOperands, NoZtwim, NoConditions, CondTypes, Api
  <2>2. CASE ztwimW # <<NoZtwim>>
    <3> DEFINE v == [uid |-> 1, conds |-> AllReadyConds, operands |-> AllReadyOperands]
    <3>1. ztwimW = <<v>>
      BY <2>2 DEF Init
    <3>2. Api(ztwimW) = v
      BY <3>1 DEF Api
    <3>3. \A k \in Kinds : v.operands[k].ready
      BY DEF AllReadyOperands
    <3>4. QED
      BY <3>2, <3>3 DEF ReadyMatchesOperands
  <2>3. QED
    BY <2>1, <2>2
<1>2. IndInv /\ ReadyMatchesOperands /\ [Next]_vars => ReadyMatchesOperands'
  BY BackedStep
<1>3. Spec => []IndInv
  BY IndInvInit, IndInvStep, PTL DEF Spec
<1>4. QED
  BY <1>1, <1>2, <1>3, PTL DEF Spec
=============================================================================
