-------------------------- MODULE Operator_proofs --------------------------
(***************************************************************************)
(* Proofs about the operator process.  A step of the whole is a step of    *)
(* the operand controller's module, or work of the ZTWIM controller; and   *)
(* it is a step of the ZTWIM controller's module, or a write to the        *)
(* operand CR, or none of its business.  So the inductive invariants of    *)
(* the two modules hold side by side, and at rest they meet in the Ready   *)
(* condition of the operand CR.                                            *)
(***************************************************************************)
EXTENDS Operator, InformerTheorems

(***************************************************************************)
(* What each controller sees of the other's CR, version by version.        *)
(***************************************************************************)
Uids(ch) == [i \in DOMAIN ch |-> ch[i].uid]
Summaries(ch) == [i \in DOMAIN ch |-> Summary(ch[i])]

\* The operand controller sees as many versions of the ZTWIM CR as there are.
LEMMA UidsLemma ==
    ASSUME NEW S, NEW ch \in Seq(S), Len(ch) > 0
    PROVE  /\ Len(Uids(ch)) = Len(ch) /\ Len(ch) \in Nat
           /\ DOMAIN Uids(ch) = DOMAIN ch
           /\ \A i \in DOMAIN ch : Uids(ch)[i] = ch[i].uid
           /\ Cached(Uids(ch)) = Cached(ch).uid /\ Api(Uids(ch)) = Api(ch).uid
BY DEF Uids, Cached, Api

\* A write, ...
LEMMA UidsOfWrite ==
    ASSUME NEW S, NEW ch \in Seq(S), NEW v
    PROVE  Uids(Append(ch, v)) = Append(Uids(ch), v.uid)
BY DEF Uids

\* ... a watch event ...
LEMMA UidsOfEvent ==
    ASSUME NEW S, NEW ch \in Seq(S), Len(ch) > 1
    PROVE  Uids(Deliver(ch)) = Deliver(Uids(ch))
BY DEF Uids, Deliver

\* ... and a relist are the same thing for what is seen.
LEMMA UidsOfList ==
    ASSUME NEW S, NEW ch \in Seq(S), Len(ch) > 0
    PROVE  Uids(Relist(ch)) = Relist(Uids(ch))
BY DEF Uids, Relist, Api

\* The same for the ZTWIM controller and the operand CR.
LEMMA SummariesLemma ==
    ASSUME NEW S, NEW ch \in Seq(S), Len(ch) > 0
    PROVE  /\ Len(Summaries(ch)) = Len(ch) /\ Len(ch) \in Nat
           /\ DOMAIN Summaries(ch) = DOMAIN ch
           /\ \A i \in DOMAIN ch : Summaries(ch)[i] = Summary(ch[i])
           /\ Cached(Summaries(ch)) = Summary(Cached(ch))
           /\ Api(Summaries(ch)) = Summary(Api(ch))
BY DEF Summaries, Cached, Api

\* A write to the operand CR, ...
LEMMA SummariesOfWrite ==
    ASSUME NEW S, NEW ch \in Seq(S), NEW v
    PROVE  Summaries(Append(ch, v)) = Append(Summaries(ch), Summary(v))
BY DEF Summaries

\* ... an event of it ...
LEMMA SummariesOfEvent ==
    ASSUME NEW S, NEW ch \in Seq(S), Len(ch) > 1
    PROVE  Summaries(Deliver(ch)) = Deliver(Summaries(ch))
BY DEF Summaries, Deliver

\* ... and a relist.
LEMMA SummariesOfList ==
    ASSUME NEW S, NEW ch \in Seq(S), Len(ch) > 0
    PROVE  Summaries(Relist(ch)) = Relist(Summaries(ch))
BY DEF Summaries, Relist, Api

\* The two controllers read and write their channels with the same operations.
LEMMA SameInformer ==
    /\ \A ch : /\ C!Api(ch) = Api(ch) /\ C!Cached(ch) = Cached(ch) /\ C!Drained(ch) = Drained(ch)
               /\ C!Deliver(ch) = Deliver(ch) /\ C!Relist(ch) = Relist(ch)
    /\ \A ch : /\ Z!Api(ch) = Api(ch) /\ Z!Cached(ch) = Cached(ch) /\ Z!Drained(ch) = Drained(ch)
               /\ Z!Deliver(ch) = Deliver(ch) /\ Z!Relist(ch) = Relist(ch)
    /\ \A ch, v : C!Store(ch, v) = Store(ch, v) /\ Z!Store(ch, v) = Store(ch, v)
BY DEF C!Api, C!Cached, C!Drained, C!Deliver, C!Relist, C!Store,
       Z!Api, Z!Cached, Z!Drained, Z!Deliver, Z!Relist, Z!Store,
       Api, Cached, Drained, Deliver, Relist, Store

\* What is seen of an operand CR is what the ZTWIM controller's module calls a version of it.
LEMMA SummaryIsVersion ==
    ASSUME NEW cr \in C!CRVersion
    PROVE  Summary(cr) \in Z!OperandVersion
<1>1. /\ cr.spec.id \in Nat /\ cr.conds["Ready"] \in C!CondVal
  <2>1. cr.spec \in Specs \cup {C!NoSpec} /\ cr.conds \in [C!CondTypes -> C!CondVal]
    BY DEF C!CRVersion
  <2>2. Specs \subseteq C!SpecType
    BY OperatorAssumption DEF C!SpecsAssumption
  <2>3. cr.spec.id \in Nat
    BY <2>1, <2>2 DEF C!SpecType, C!NoSpec
  <2>4. "Ready" \in C!CondTypes
    BY DEF C!CondTypes
  <2>5. QED
    BY <2>1, <2>3, <2>4
<1>2. cr.spec.id % 2 \in {0, 1}
  BY <1>1
<1>3. QED
  BY <1>1, <1>2 DEF Summary, Z!OperandVersion, C!CondVal, Z!CondVal

(***************************************************************************)
(* Steps of the whole as the operand controller sees them.                 *)
(***************************************************************************)

\* What the module of the operand controller leaves out: a status write to the ZTWIM CR, or
\* a request of the ZTWIM controller that fails.
ZTWIMWork ==
    /\ Uids(zW)' = Uids(zW) \/ Uids(zW)' = Append(Uids(zW), Api(Uids(zW)))
    /\ UNCHANGED <<crW, objW, createOnly, op, changes>>
    /\ faults' \in 0..MaxFaults

\* The ZTWIM controller writes the status of a CR and leaves its identity alone.
LEMMA ZTWIMWorkerWrites ==
    ASSUME Z!TypeOK, Z!Worker
    PROVE  /\ UNCHANGED <<createOnly, changes>> /\ faults' \in 0..MaxFaults
           /\ zW' = zW \/ \E v : zW' = Append(zW, v) /\ v.uid = Api(zW).uid
<1> DEFINE Written == zW' = zW \/ \E v : zW' = Append(zW, v) /\ v.uid = Api(zW).uid
           Left == faults' \in 0..MaxFaults
<1>1. (faults' = faults \/ Z!Fault) => Left
  BY OperatorAssumption DEF C!BoundsAssumption, Z!TypeOK, Z!Fault
<1>2. ASSUME NEW cr, Z!StatusUpdate(cr) PROVE Written /\ faults' = faults
  BY <1>2, SameInformer DEF Z!StatusUpdate, Store
<1>3. ASSUME Z!StatusUpdateFails PROVE zW' = zW /\ (faults' = faults \/ Z!Fault)
  BY <1>3 DEF Z!StatusUpdateFails
<1>4. (zW' = zW) => Written
  BY DEF Written
<1> HIDE DEF Written, Left
<1>5. CASE Z!Reconcile
  <2>1. /\ UNCHANGED <<zW, createOnly, changes>>
        /\ faults' = faults \/ Z!Fault
    BY <1>5 DEF Z!Reconcile, Z!env
  <2>2. QED
    BY <1>1, <1>4, <2>1 DEF Written, Left
<1>6. CASE Z!SetInitialReconciliationStatus
  <2>1. /\ UNCHANGED <<createOnly, changes>>
        /\ \/ UNCHANGED <<zW, faults>>
           \/ (\E cr : Z!StatusUpdate(cr)) \/ Z!StatusUpdateFails
    BY <1>6, Zenon DEF Z!SetInitialReconciliationStatus, Z!env
  <2>2. QED
    BY <1>1, <1>2, <1>3, <1>4, <2>1 DEF Written, Left
<1>7. CASE Z!GetOperand
  BY <1>1, <1>4, <1>7 DEF Z!GetOperand, Z!env, Written, Left
<1>8. CASE Z!updateOperatorCondition
  BY <1>1, <1>4, <1>8 DEF Z!updateOperatorCondition, Z!env, Written, Left
<1>9. CASE Z!ApplyStatus
  <2>1. /\ UNCHANGED <<createOnly, changes>>
        /\ \/ UNCHANGED <<zW, faults>>
           \/ (\E cr : Z!StatusUpdate(cr)) \/ Z!StatusUpdateFails
    BY <1>9, Zenon DEF Z!ApplyStatus, Z!env
  <2>2. QED
    BY <1>1, <1>2, <1>3, <1>4, <2>1 DEF Written, Left
<1>10. QED
  BY <1>5, <1>6, <1>7, <1>8, <1>9 DEF Z!Worker

\* A creation or deletion of the ZTWIM CR.
LEMMA WriteSeen ==
    ASSUME Z!TypeOK, NEW v, WriteZTWIM(v)
    PROVE  C!Change /\ C!WriteZTWIM(v.uid)
<1>1. Uids(zW)' = Append(Uids(zW), v.uid) /\ Len(Uids(zW)) = Len(zW)
  BY UidsLemma, UidsOfWrite DEF WriteZTWIM, Z!TypeOK
<1>2. QED
  BY <1>1 DEF WriteZTWIM, C!Change, C!WriteZTWIM, Uids, op

\* Every step is one the operand controller's module has, or work of the ZTWIM controller.
LEMMA OperandSide ==
    ASSUME Z!TypeOK, [Next]_vars
    PROVE  [C!Next]_(C!vars) \/ ZTWIMWork
<1>1. /\ zW \in Seq(Z!ZtwimVersion) /\ Len(zW) > 0
      /\ Len(Uids(zW)) = Len(zW) /\ Len(zW) \in Nat /\ DOMAIN Uids(zW) = DOMAIN zW
      /\ \A i \in DOMAIN zW : Uids(zW)[i] = zW[i].uid
      /\ Cached(Uids(zW)) = Cached(zW).uid /\ Api(Uids(zW)) = Api(zW).uid
  BY UidsLemma DEF Z!TypeOK
<1>2. CASE Users
  BY <1>2 DEF Users, C!Next, C!Users
<1>3. CASE CreateZTWIM
  <2>1. PICK u \in 1..MaxUid : C!FreshZTWIMUid(u) /\ WriteZTWIM(NewZTWIM(u))
    BY <1>3 DEF CreateZTWIM
  <2>2. NewZTWIM(u).uid = u
    BY DEF NewZTWIM, Z!NoZtwim
  <2>3. C!Change /\ C!WriteZTWIM(u)
    BY <2>1, <2>2, WriteSeen
  <2>4. C!Api(Uids(zW)) = 0
    BY <1>1, <1>3, SameInformer DEF CreateZTWIM
  <2>5. C!CreateZTWIM
    BY <2>1, <2>3, <2>4 DEF C!CreateZTWIM, Uids
  <2>6. QED
    BY <2>5 DEF C!Next, C!Users
<1>4. CASE DeleteZTWIM
  <2>1. Z!NoZtwim.uid = 0
    BY DEF Z!NoZtwim
  <2>2. C!Change /\ C!WriteZTWIM(0)
    BY <1>4, <2>1, WriteSeen DEF DeleteZTWIM
  <2>3. C!Api(Uids(zW)) # 0
    BY <1>1, <1>4, SameInformer DEF DeleteZTWIM
  <2>4. C!DeleteZTWIM
    BY <2>2, <2>3 DEF C!DeleteZTWIM, Uids
  <2>5. QED
    BY <2>4 DEF C!Next, C!Users
<1>5. CASE Restart
  <2>1. Uids(zW)' = Relist(Uids(zW))
    BY <1>1, <1>5, UidsOfList DEF Restart
  <2>2. C!Restart
    BY <1>5, <2>1, SameInformer DEF Restart, C!Restart, Uids
  <2>3. QED
    BY <2>2 DEF C!Next, C!Users
<1>6. CASE CollectCR
  BY <1>6 DEF CollectCR, C!Next, C!GarbageCollector
<1>7. CASE DeliverCR
  <2>1. C!DeliverCR
    BY <1>7, SameInformer DEF DeliverCR, C!DeliverCR, C!env
  <2>2. QED
    BY <2>1 DEF C!Next, C!Watch
<1>8. CASE DeliverZTWIM
  <2>1. Uids(zW)' = Deliver(Uids(zW)) /\ Len(Uids(zW)) > 1
    BY <1>1, <1>8, UidsOfEvent DEF DeliverZTWIM
  <2>2. Uids(zW)[1] = zW[1].uid /\ Uids(zW)[2] = zW[2].uid
    BY <1>1, <2>1
  <2>3. C!DeliverZTWIM
    BY <1>8, <2>1, <2>2, SameInformer DEF DeliverZTWIM, C!DeliverZTWIM, C!env, Uids
  <2>4. QED
    BY <2>3 DEF C!Next, C!Watch
<1>9. CASE DeliverOperatorCondition
  <2>1. UNCHANGED C!vars
    BY <1>9 DEF DeliverOperatorCondition, Z!DeliverOperatorCondition, Z!env, C!vars, op
  <2>2. QED
    BY <2>1
<1>10. CASE \E o \in C!Objects : CollectObject(o) \/ DeliverObject(o)
  BY <1>10 DEF CollectObject, DeliverObject, C!Next, C!GarbageCollector, C!Watch
<1>11. CASE OperandWorker
  BY <1>11 DEF OperandWorker, C!Next
<1>12. CASE ZTWIMWorker
  <2>1. /\ UNCHANGED <<crW, objW, op, createOnly, changes>> /\ faults' \in 0..MaxFaults
        /\ zW' = zW \/ \E v : zW' = Append(zW, v) /\ v.uid = Api(zW).uid
    BY <1>12, ZTWIMWorkerWrites DEF ZTWIMWorker
  <2>2. CASE zW' = zW
    BY <2>1, <2>2 DEF ZTWIMWork
  <2>3. ASSUME NEW v, zW' = Append(zW, v), v.uid = Api(zW).uid
        PROVE  ZTWIMWork
    <3>1. Uids(Append(zW, v)) = Append(Uids(zW), v.uid)
      BY <1>1, UidsOfWrite
    <3>2. Uids(zW)' = Append(Uids(zW), Api(Uids(zW)))
      BY <1>1, <2>3, <3>1
    <3>3. QED
      BY <2>1, <3>2 DEF ZTWIMWork
  <2>4. QED
    BY <2>1, <2>2, <2>3
<1>13. CASE UNCHANGED vars
  BY <1>13 DEF vars, C!vars, op
<1>14. QED
  BY <1>2, <1>3, <1>4, <1>5, <1>6, <1>7, <1>8, <1>9, <1>10, <1>11, <1>12, <1>13 DEF Next

(***************************************************************************)
(* Steps of the whole as the ZTWIM controller sees them.                   *)
(***************************************************************************)

\* The operand CR as one of the CRs the ZTWIM controller sums up.
Operand(ch) == [k \in {1} |-> Summaries(ch)]

\* Some version of the operand CR is written, or something the ZTWIM controller does not see.
OperandWrite ==
    /\ \E v \in C!CRVersion : crW' = Append(crW, v)
    /\ UNCHANGED <<zW, ocW, createOnly, z>>

Elsewhere == UNCHANGED <<crW, zW, ocW, createOnly, z>>

\* The operand controller writes at most one version of its CR at a time.
LEMMA OperandWorkerWrites ==
    ASSUME C!Worker
    PROVE  createOnly' = createOnly /\ (crW' = crW \/ \E v : crW' = Append(crW, v))
<1> DEFINE Written == crW' = crW \/ \E v : crW' = Append(crW, v)
<1>1. ASSUME NEW v, crW' = C!Store(crW, v) PROVE Written
  BY <1>1 DEF C!Store
<1>2. (crW' = crW) => Written
  OBVIOUS
<1> HIDE DEF Written
<1>3. ASSUME NEW c, C!StatusUpdate(c) \/ C!StatusUpdateFails(c) PROVE Written
  BY <1>1, <1>2, <1>3 DEF C!StatusUpdate, C!StatusUpdateFails
<1>4. CASE C!Reconcile
  BY <1>2, <1>4 DEF C!Reconcile, C!env
<1>5. CASE C!SetInitialReconciliationStatus
  <2>1. createOnly' = createOnly
    BY <1>5 DEF C!SetInitialReconciliationStatus, C!env
  <2>2. crW' = crW \/ \E c : C!StatusUpdate(c) \/ C!StatusUpdateFails(c)
    BY <1>5, Zenon DEF C!SetInitialReconciliationStatus
  <2>3. QED
    BY <1>2, <1>3, <2>1, <2>2 DEF Written
<1>6. CASE C!GetZTWIM
  BY <1>2, <1>6 DEF C!GetZTWIM, C!env
<1>7. CASE C!SetOwnerReference
  <2>1. createOnly' = createOnly
    BY <1>7 DEF C!SetOwnerReference, C!env
  <2>2. crW' = crW \/ \E v : crW' = C!Store(crW, v)
    BY <1>7, Zenon DEF C!SetOwnerReference
  <2>3. QED
    BY <1>1, <1>2, <2>1, <2>2 DEF Written
<1>8. CASE C!handleCreateOnlyMode
  BY <1>2, <1>8 DEF C!handleCreateOnlyMode, C!env
<1>9. CASE C!Validate \/ C!Mark
  BY <1>2, <1>9 DEF C!Validate, C!Mark, C!env
<1>10. CASE C!ReconcileObject
  BY <1>2, <1>10 DEF C!ReconcileObject, C!env
<1>11. CASE C!CreateOnce \/ C!CheckHealth
  BY <1>2, <1>11 DEF C!CreateOnce, C!CheckHealth, C!env
<1>12. CASE C!ReconcileRoute
  BY <1>2, <1>12 DEF C!ReconcileRoute, C!env
<1>13. CASE C!ApplyStatus
  <2>1. createOnly' = createOnly
    BY <1>13 DEF C!ApplyStatus, C!env
  <2>2. crW' = crW \/ \E v : crW' = C!Store(crW, v)
    BY <1>13, Zenon DEF C!ApplyStatus
  <2>3. QED
    BY <1>1, <1>2, <2>1, <2>2 DEF Written
<1>14. QED
  BY <1>4, <1>5, <1>6, <1>7, <1>8, <1>9, <1>10, <1>11, <1>12, <1>13 DEF C!Worker, Written

\* A version that was written has the type of the versions.
LEMMA WrittenIsVersion ==
    ASSUME C!TypeOK, C!TypeOK', NEW v, crW' = Append(crW, v)
    PROVE  v \in C!CRVersion
<1>1. crW \in Seq(C!CRVersion) /\ crW' \in Seq(C!CRVersion)
  BY DEF C!TypeOK
<1>2. Len(Append(crW, v)) = Len(crW) + 1 /\ Append(crW, v)[Len(crW) + 1] = v /\ Len(crW) \in Nat
  BY <1>1
<1>3. crW'[Len(crW')] \in C!CRVersion
  BY <1>1, <1>2
<1>4. QED
  BY <1>2, <1>3

\* Every step is one the ZTWIM controller's module has, or somebody's write to the operand CR, or
\* happens elsewhere.
LEMMA ZTWIMSide ==
    ASSUME C!TypeOK, C!TypeOK', [Next]_vars
    PROVE  [Z!Next]_(Z!vars) \/ OperandWrite \/ Elsewhere
<1>1. /\ crW \in Seq(C!CRVersion) /\ Len(crW) > 0 /\ Len(crW) \in Nat
      /\ Len(Summaries(crW)) = Len(crW)
      /\ Api(Summaries(crW)) = Summary(Api(crW))
      /\ Operand(crW)[1] = Summaries(crW) /\ Z!Kinds = {1}
  BY SummariesLemma DEF C!TypeOK, Operand, Z!Kinds
<1>2. ASSUME NEW v, C!WriteCR(v), UNCHANGED <<zW, ocW, createOnly, z>>
      PROVE  OperandWrite
  BY <1>2, WrittenIsVersion DEF C!WriteCR, OperandWrite
<1>3. CASE Users
  <2>1. UNCHANGED <<zW, ocW, z>>
    BY <1>3 DEF Users
  <2>2. ASSUME C!Change PROVE createOnly' = createOnly
    BY <2>2 DEF C!Change
  <2>3. CASE \E s \in Specs : C!CreateCR(s)
    BY <1>2, <2>1, <2>2, <2>3 DEF C!CreateCR
  <2>4. CASE \E s \in Specs : C!EditCR(s)
    BY <1>2, <2>1, <2>2, <2>4 DEF C!EditCR
  <2>5. CASE C!DeleteCR
    BY <1>2, <2>1, <2>2, <2>5 DEF C!DeleteCR
  <2>6. CASE \E o \in C!Objects : C!WorkloadStatus(o)
    BY <2>1, <2>2, <2>6 DEF C!WorkloadStatus, C!WriteObject, Elsewhere
  <2>7. QED
    BY <1>3, <2>3, <2>4, <2>5, <2>6 DEF Users
<1>4. ASSUME NEW v, WriteZTWIM(v) PROVE Z!WriteZtwim(v)
  BY <1>4 DEF WriteZTWIM, Z!WriteZtwim, Z!Change, z
<1>5. CASE CreateZTWIM
  <2>1. PICK u \in 1..MaxUid : C!FreshZTWIMUid(u) /\ zPass.cr.uid # u /\ WriteZTWIM(NewZTWIM(u))
    BY <1>5 DEF CreateZTWIM
  <2>2. \A i \in DOMAIN zW : zW[i].uid # u
    BY <2>1 DEF C!FreshZTWIMUid
  <2>3. Z!WriteZtwim([Z!NoZtwim EXCEPT !.uid = u])
    BY <1>4, <2>1 DEF NewZTWIM
  <2>4. Z!CreateZTWIM
    BY <1>5, <2>1, <2>2, <2>3, SameInformer DEF CreateZTWIM, Z!CreateZTWIM
  <2>5. QED
    BY <2>4 DEF Z!Next, Z!Environment
<1>6. CASE DeleteZTWIM
  <2>1. Z!DeleteZTWIM
    BY <1>4, <1>6, SameInformer DEF DeleteZTWIM, Z!DeleteZTWIM
  <2>2. QED
    BY <2>1 DEF Z!Next, Z!Environment
<1>7. CASE Restart
  <2>1. Summaries(crW)' = Relist(Summaries(crW))
    BY <1>1, <1>7, SummariesOfList DEF Restart
  <2>2. Operand(crW)' = [k \in Z!Kinds |-> Z!Relist(Operand(crW)[k])]
    BY <1>1, <2>1, SameInformer DEF Operand
  <2>3. Z!Restart
    BY <1>7, <2>2, SameInformer DEF Restart, Z!Restart, Z!Return, Operand, Summaries
  <2>4. QED
    BY <2>3 DEF Z!Next, Z!Environment
<1>8. CASE CollectCR
  BY <1>2, <1>8 DEF CollectCR, C!CollectCR
<1>9. CASE DeliverCR
  <2>1. Summaries(crW)' = Deliver(Summaries(crW)) /\ Len(Summaries(crW)) > 1
    BY <1>1, <1>9, SummariesOfEvent DEF DeliverCR
  <2>2. Operand(crW)' = [Operand(crW) EXCEPT ![1] = Z!Deliver(@)] /\ Len(Operand(crW)[1]) > 1
    BY <1>1, <2>1, SameInformer DEF Operand
  <2>3. Z!DeliverOperand(1)
    BY <1>9, <2>2 DEF DeliverCR, Z!DeliverOperand, Z!operandStatusChangedPredicate, Z!env,
       Operand, Summaries
  <2>4. QED
    BY <1>1, <2>3 DEF Z!Next, Z!Watch
<1>10. CASE DeliverZTWIM
  <2>1. Z!DeliverZTWIM
    BY <1>10, SameInformer DEF DeliverZTWIM, Z!DeliverZTWIM, Z!env
  <2>2. QED
    BY <2>1 DEF Z!Next, Z!Watch
<1>11. CASE DeliverOperatorCondition
  BY <1>11 DEF DeliverOperatorCondition, Z!Next, Z!Watch
<1>12. CASE \E o \in C!Objects : CollectObject(o) \/ DeliverObject(o)
  <2>1. PICK o \in C!Objects : CollectObject(o) \/ DeliverObject(o)
    BY <1>12
  <2>2. QED
    BY <2>1 DEF CollectObject, DeliverObject, C!CollectObject, C!DeliverObject, C!WriteObject, C!env,
       Elsewhere
<1>13. CASE OperandWorker
  <2>1. /\ UNCHANGED <<zW, ocW, z, createOnly>>
        /\ crW' = crW \/ \E v : crW' = Append(crW, v)
    BY <1>13, OperandWorkerWrites DEF OperandWorker
  <2>2. QED
    BY <2>1, WrittenIsVersion DEF OperandWrite, Elsewhere
<1>14. CASE ZTWIMWorker
  BY <1>14 DEF ZTWIMWorker, Z!Next
<1>15. CASE UNCHANGED vars
  BY <1>15 DEF vars, Elsewhere
<1>16. QED
  BY <1>3, <1>5, <1>6, <1>7, <1>8, <1>9, <1>10, <1>11, <1>12, <1>13, <1>14, <1>15 DEF Next

\* In the latter two cases the versions of the operand CR it sees grow by at most one.
LEMMA NotItsStep ==
    ASSUME C!TypeOK, C!TypeOK', OperandWrite \/ Elsewhere
    PROVE  /\ UNCHANGED <<zW, ocW, createOnly, zQueued, zPc, zPass, zLost>>
           /\ changes' \in 0..MaxChanges /\ faults' \in 0..MaxFaults
           /\ \/ Operand(crW)' = Operand(crW)
              \/ \E w \in Z!OperandVersion :
                    Operand(crW)' = [Operand(crW) EXCEPT ![1] = Append(@, w)]
<1>1. UNCHANGED <<zW, ocW, createOnly, zQueued, zPc, zPass, zLost>>
  BY DEF OperandWrite, Elsewhere, z
<1>2. changes' \in 0..MaxChanges /\ faults' \in 0..MaxFaults /\ crW \in Seq(C!CRVersion)
  BY DEF C!TypeOK
<1>3. CASE Elsewhere
  BY <1>1, <1>2, <1>3 DEF Elsewhere, Operand
<1>4. CASE OperandWrite
  <2>1. PICK v \in C!CRVersion : crW' = Append(crW, v)
    BY <1>4 DEF OperandWrite
  <2>2. Summary(v) \in Z!OperandVersion
    BY SummaryIsVersion
  <2>3. Summaries(Append(crW, v)) = Append(Summaries(crW), Summary(v))
    BY <1>2, SummariesOfWrite
  <2>4. Operand(crW)' = [Operand(crW) EXCEPT ![1] = Append(@, Summary(v))]
    BY <2>1, <2>3 DEF Operand
  <2>5. QED
    BY <1>1, <1>2, <2>2, <2>4
<1>5. QED
  BY <1>3, <1>4

(***************************************************************************)
(* Where the ZTWIM controller starts.                                      *)
(***************************************************************************)

\* What the controller sums up has the type its module asks for.
LEMMA OperandType ==
    ASSUME C!TypeOK
    PROVE  /\ Operand(crW) \in [Z!Kinds -> Seq(Z!OperandVersion)]
           /\ \A k \in Z!Kinds : Len(Operand(crW)[k]) > 0
<1>1. crW \in Seq(C!CRVersion) /\ Len(crW) > 0
  BY DEF C!TypeOK
<1>2. \A i \in 1..Len(crW) : Summary(crW[i]) \in Z!OperandVersion
  BY <1>1, SummaryIsVersion
<1>3. Summaries(crW) \in Seq(Z!OperandVersion) /\ Len(Summaries(crW)) > 0
  BY <1>1, <1>2, SummariesLemma DEF Summaries
<1>4. Z!Kinds = {1}
  BY DEF Z!Kinds
<1>5. QED
  BY <1>3, <1>4 DEF Operand

\* The status an earlier process published, and no status, are versions of the ZTWIM CR.
LEMMA ZTWIMVersions ==
    /\ Z!NoZtwim \in Z!ZtwimVersion /\ OldZTWIM \in Z!ZtwimVersion
    /\ Z!Start(Z!NoZtwim) \in Z!Pass /\ Z!NoZtwim.uid = 0
    /\ Z!NoZtwim.conds["Ready"] = "None"
    /\ \A k \in Z!Kinds : OldZTWIM.operands[k].ready
<1>1. 0 \in 0..MaxUid /\ 1 \in 0..MaxUid
  BY OperatorAssumption DEF C!BoundsAssumption
<1>2. Z!NoOperands \in Z!Operands /\ Z!AllReadyOperands \in Z!Operands
  BY DEF Z!NoOperands, Z!AllReadyOperands, Z!Operands, Z!NoStatus, Z!OperandStatus
<1>3. /\ Z!NoConditions(Z!CondTypes) \in [Z!CondTypes -> Z!CondVal]
      /\ Z!AllReadyConds \in [Z!CondTypes -> Z!CondVal]
      /\ Z!NoConditions(Z!CondTypes)["Ready"] = "None"
  BY DEF Z!NoConditions, Z!AllReadyConds, Z!CondTypes, Z!CondVal
<1>4. Z!NoZtwim \in Z!ZtwimVersion /\ OldZTWIM \in Z!ZtwimVersion
  BY <1>1, <1>2, <1>3 DEF Z!NoZtwim, OldZTWIM, Z!ZtwimVersion
<1>5. Z!Start(Z!NoZtwim) \in Z!Pass
  BY <1>2, <1>4 DEF Z!Start, Z!Pass
<1>6. \A k \in Z!Kinds : OldZTWIM.operands[k].ready
  BY DEF OldZTWIM, Z!AllReadyOperands
<1>7. QED
  BY <1>3, <1>4, <1>5, <1>6 DEF Z!NoZtwim

\* Its first pass is queued, and nothing it finds says Ready next to an operand that is not.
LEMMA ZTWIMStarts ==
    ASSUME Init, C!TypeOK
    PROVE  Z!TypeOK /\ Z!PassInv /\ Z!NoLostWakeup /\ Z!ReadyMatchesOperands
<1>1. PICK v \in {Z!NoZtwim, OldZTWIM} : zW = <<v>>
  BY DEF Init
<1>2. PICK c \in {"True", "None"} : ocW = <<c>>
  BY DEF Init
<1>3. /\ zQueued = TRUE /\ zPc = "idle" /\ zPass = Z!Start(Z!NoZtwim) /\ zLost = FALSE
  BY DEF Init
<1>4. changes \in 0..MaxChanges /\ faults \in 0..MaxFaults /\ createOnly \in BOOLEAN
  BY DEF C!TypeOK
<1>5. /\ zW \in Seq(Z!ZtwimVersion) /\ Len(zW) > 0 /\ Api(zW) = v
      /\ ocW \in Seq(Z!OcValue) /\ Len(ocW) > 0 /\ DOMAIN ocW = {1} /\ Cached(ocW) = c /\ ocW[1] = c
  <2>1. v \in Z!ZtwimVersion /\ c \in Z!OcValue
    BY ZTWIMVersions DEF Z!OcValue
  <2>2. zW \in Seq(Z!ZtwimVersion) /\ Len(zW) > 0 /\ Api(zW) = v
    BY <1>1, <2>1, SingletonLemma
  <2>3. ocW \in Seq(Z!OcValue) /\ Len(ocW) > 0 /\ DOMAIN ocW = {1} /\ Cached(ocW) = c
    BY <1>2, <2>1, SingletonLemma
  <2>4. QED
    BY <1>2, <2>2, <2>3
<1>6. Z!TypeOK
  BY <1>3, <1>4, <1>5, OperandType, ZTWIMVersions DEF Z!TypeOK, Operand, Summaries
<1>7. Z!PassInv
  BY <1>3, <1>5, SameInformer DEF Z!PassInv
<1>8. Z!NoLostWakeup
  BY <1>3 DEF Z!NoLostWakeup
<1>9. Z!ReadyMatchesOperands
  BY <1>1, <1>5, ZTWIMVersions, SameInformer DEF Z!ReadyMatchesOperands
<1>10. QED
  BY <1>6, <1>7, <1>8, <1>9

(***************************************************************************)
(* Where the two controllers meet.                                         *)
(***************************************************************************)

\* The summary of the one operand and what it lets OLM do.
LEMMA SummaryOfOne ==
    ASSUME NEW cr, NEW views, views = [k \in Z!Kinds |-> Z!getOperandStatus(Summary(cr))],
           NEW r, r \in {"True", "False", "Progressing"},
           r = IF cr.uid = 0 THEN "Progressing" ELSE cr.conds["Ready"]
    PROVE  /\ Z!aggregateOperandStatus(views) = r
           /\ \A s \in {views[k] : k \in Z!Kinds} :
                 (~s.ready /\ s.msg # "CRNotFound") <=> (cr.uid # 0 /\ r # "True")
<1> DEFINE s == Z!getOperandStatus(Summary(cr))
<1>1. /\ Z!Kinds = {1} /\ {views[k] : k \in Z!Kinds} = {s}
      /\ {Z!classifyOperandState(views[k]) : k \in Z!Kinds} = {Z!classifyOperandState(s)}
  BY DEF Z!Kinds
<1>2. CASE cr.uid = 0
  <2>1. s = [ready |-> FALSE, reason |-> "None", msg |-> "CRNotFound"] /\ r = "Progressing"
    BY <1>2 DEF Summary, Z!getOperandStatus, Z!NoStatus
  <2> HIDE DEF s
  <2>2. Z!classifyOperandState(s) = "progressing"
    BY <2>1 DEF Z!classifyOperandState
  <2>3. QED
    BY <1>1, <1>2, <2>1, <2>2 DEF Z!aggregateOperandStatus
<1>3. CASE cr.uid # 0 /\ r = "True"
  <2>1. s = [ready |-> TRUE, reason |-> "None", msg |-> "Ready"]
    BY <1>3 DEF Summary, Z!getOperandStatus
  <2> HIDE DEF s
  <2>2. Z!classifyOperandState(s) = "ready"
    BY <2>1 DEF Z!classifyOperandState
  <2>3. QED
    BY <1>1, <1>3, <2>1, <2>2 DEF Z!aggregateOperandStatus
<1>4. CASE cr.uid # 0 /\ r = "False"
  <2>1. s = [ready |-> FALSE, reason |-> "Failed", msg |-> "ReadyCondition"]
    BY <1>4 DEF Summary, Z!getOperandStatus
  <2> HIDE DEF s
  <2>2. Z!classifyOperandState(s) = "failed"
    BY <2>1 DEF Z!classifyOperandState
  <2>3. QED
    BY <1>1, <1>4, <2>1, <2>2 DEF Z!aggregateOperandStatus
<1>5. CASE cr.uid # 0 /\ r = "Progressing"
  <2>1. s = [ready |-> FALSE, reason |-> "Progressing", msg |-> "ReadyCondition"]
    BY <1>5 DEF Summary, Z!getOperandStatus
  <2> HIDE DEF s
  <2>2. Z!classifyOperandState(s) = "progressing"
    BY <2>1 DEF Z!classifyOperandState
  <2>3. QED
    BY <1>1, <1>5, <2>1, <2>2 DEF Z!aggregateOperandStatus
<1>6. QED
  BY <1>2, <1>3, <1>4, <1>5

\* With the operand CR and the ZTWIM CR both right about what they are about, the whole is right.
LEMMA TheyMeet ==
    ASSUME C!TypeOK, Z!TypeOK, C!Right, Z!PublishedIsCurrent,
           Drained(crW), Drained(zW), Drained(ocW)
    PROVE  /\ Api(zW).uid # 0 => Api(zW).conds["Ready"] = Truth
           /\ Api(zW).uid # 0 /\ Api(ocW) # "Absent" =>
                (Api(ocW) = "True") = (~createOnly /\ (Api(crW).uid = 0 \/ Truth = "True"))
           /\ createOnly => Api(ocW) # "True"
<1> DEFINE cr == Api(crW)
           views == [k \in Z!Kinds |-> Z!getOperandStatus(Summary(cr))]
<1>1. Cached(crW) = cr /\ Cached(zW) = Api(zW) /\ Cached(ocW) = Api(ocW)
  BY DEF Cached, Api, Drained
<1>2. Cached(Operand(crW)[1]) = Summary(cr) /\ Z!Kinds = {1}
  BY <1>1, SummariesLemma DEF C!TypeOK, Operand, Z!Kinds
<1>3. Z!CachedViews = views
  BY <1>2, SameInformer DEF Z!CachedViews, Operand, Summaries
<1>4. /\ Truth \in {"True", "False", "Progressing"}
      /\ Truth = IF cr.uid = 0 THEN "Progressing" ELSE cr.conds["Ready"]
  BY SameInformer DEF C!Right, Truth, C!ExpectedReady
<1> HIDE DEF cr
<1>5. /\ Z!aggregateOperandStatus(views) = Truth
      /\ \A s \in {views[k] : k \in Z!Kinds} :
            (~s.ready /\ s.msg # "CRNotFound") <=> (cr.uid # 0 /\ Truth # "True")
  BY <1>4, SummaryOfOne
<1> HIDE DEF views
<1>6. Api(zW).uid # 0 => Api(zW).conds["Ready"] = Truth
  BY <1>1, <1>3, <1>5, SameInformer DEF Z!PublishedIsCurrent
<1>7. ASSUME Api(ocW) # "Absent"
      PROVE  (Api(ocW) = "True") =
                (~createOnly /\ (Api(zW).uid = 0 \/ cr.uid = 0 \/ Truth = "True"))
  <2> DEFINE statuses == IF Api(zW).uid = 0 THEN {} ELSE {views[k] : k \in Z!Kinds}
  <2>1. Api(ocW) = Z!Upgradeable(createOnly, statuses)
    BY <1>1, <1>3, <1>7, SameInformer DEF Z!PublishedIsCurrent, Z!ExpectedUpgradeable
  <2>2. (\E s \in statuses : ~s.ready /\ s.msg # "CRNotFound")
           <=> (Api(zW).uid # 0 /\ cr.uid # 0 /\ Truth # "True")
    <3>1. views[1] \in {views[k] : k \in Z!Kinds}
      BY <1>2
    <3>2. CASE Api(zW).uid = 0
      BY <3>2
    <3>3. CASE Api(zW).uid # 0
      BY <1>5, <3>1, <3>3
    <3>4. QED
      BY <3>2, <3>3
  <2> HIDE DEF statuses
  <2>3. (Api(ocW) = "True") <=> (~createOnly /\ ~(\E s \in statuses : ~s.ready /\ s.msg # "CRNotFound"))
    BY <2>1 DEF Z!Upgradeable
  <2>4. QED
    BY <2>2, <2>3
<1>8. Api(zW).uid # 0 /\ Api(ocW) # "Absent" =>
         (Api(ocW) = "True") = (~createOnly /\ (cr.uid = 0 \/ Truth = "True"))
  BY <1>7
<1>9. createOnly => Api(ocW) # "True"
  BY <1>7
<1>10. QED
  BY <1>6, <1>8, <1>9 DEF cr

\* At rest nothing is on its way to either controller.
LEMMA NothingOnItsWay ==
    ASSUME C!TypeOK, Z!TypeOK, AtRest
    PROVE  /\ \A i \in DOMAIN crW : crW[i] = Cached(crW)
           /\ \A i \in DOMAIN zW : zW[i] = Cached(zW)
<1>1. /\ crW \in Seq(C!CRVersion) /\ zW \in Seq(Z!ZtwimVersion)
      /\ Len(crW) = 1 /\ Len(zW) = 1
  BY DEF C!TypeOK, Z!TypeOK, AtRest, Drained
<1>2. QED
  BY <1>1 DEF Cached

(***************************************************************************)
(* The two controllers with their proofs.  An instance of a module with    *)
(* proofs has definitions of its own, word for word those of the instances *)
(* C and Z of the modules it extends.                                      *)
(***************************************************************************)
CP == INSTANCE OperandRest_proofs WITH
       Tampering <- {}, ztwimW <- [i \in DOMAIN zW |-> zW[i].uid],
       queued <- opQueued, pc <- opPc, pass <- opPass, lost <- opLost

ZP == INSTANCE ZTWIMController_proofs WITH
       N <- 1, ReadyValues <- {}, ztwimW <- zW,
       operandW <- [k \in {1} |-> [i \in DOMAIN crW |-> Summary(crW[i])]],
       queued <- zQueued, pc <- zPc, pass <- zPass, lost <- zLost

\* Both copies of the operand controller are the same.
LEMMA SameOperandController ==
    /\ C!vars = CP!vars /\ (UNCHANGED C!vars <=> UNCHANGED CP!vars)
    /\ (C!Init <=> CP!Init) /\ (C!Next <=> CP!Next)
    /\ (C!TypeOK <=> CP!TypeOK) /\ (C!TypeOK' <=> CP!TypeOK')
    /\ (C!Right <=> CP!Right)
    /\ (C!QuietIsRight <=> CP!QuietIsRight) /\ (C!ReadyHasNoFailure <=> CP!ReadyHasNoFailure)
BY ZenonT(120) DEF
  C!Api, C!Applies, C!ApplyStatus, C!CRIsCurrent, C!CRVersion, C!Cached, C!Change,
  C!CheckHealth, C!CollectCR, C!CollectObject, C!CondTypes, C!CondVal, C!Continue, C!CreateCR,
  C!CreateFails, C!CreateOnce, C!CreateSucceeds, C!CreateZTWIM, C!DeleteCR, C!DeleteObject,
  C!DeleteZTWIM, C!Deliver, C!DeliverCR, C!DeliverObject, C!DeliverZTWIM, C!Deployed,
  C!DeployedConds, C!Deploys, C!Desired, C!Differs, C!Drained, C!EditCR, C!ExpectedReady,
  C!Fault, C!FreshCRUid, C!FreshZTWIMUid, C!GarbageCollector, C!GetZTWIM, C!Init, C!Invalid,
  C!Mark, C!NeedsUpdate, C!NewCR, C!Next, C!NextStep, C!NoCR, C!NoConditions, C!NoContent,
  C!NoObject, C!NoPass, C!NoSpec, C!NotOperational, C!ObjectVersion, C!Objects,
  C!ObjectsRight, C!OfKind, C!Pass, C!Published, C!Quiet, C!QuietIsRight, C!ReadyHasNoFailure,
  C!Reconcile, C!ReconcileObject, C!ReconcileRoute, C!Relist, C!RemoveOwnerReference,
  C!Restart, C!Resync, C!Right, C!RouteDisabled, C!RouteFound,
  C!SetInitialReconciliationStatus, C!SetOwnerReference, C!SetReadyCondition, C!SkipsUpdate,
  C!SomethingListed, C!SomethingWatched, C!StatusUpdate, C!StatusUpdateFails, C!StepsOf,
  C!Stop, C!Store, C!Success, C!TamperWithObject, C!ThisStep, C!TypeOK, C!Unguarded,
  C!UpdateFails, C!UpdateSucceeds, C!Updated, C!Users, C!Validate, C!View, C!Visible, C!Watch,
  C!Worker, C!WorkloadStatus, C!Workloads, C!WriteCR, C!WriteObject, C!WriteZTWIM,
  C!componentPredicate, C!crPredicate, C!env, C!handleCreateOnlyMode, C!vars,
  CP!Api, CP!Applies, CP!ApplyStatus, CP!CRIsCurrent, CP!CRVersion, CP!Cached, CP!Change,
  CP!CheckHealth, CP!CollectCR, CP!CollectObject, CP!CondTypes, CP!CondVal, CP!Continue,
  CP!CreateCR, CP!CreateFails, CP!CreateOnce, CP!CreateSucceeds, CP!CreateZTWIM, CP!DeleteCR,
  CP!DeleteObject, CP!DeleteZTWIM, CP!Deliver, CP!DeliverCR, CP!DeliverObject,
  CP!DeliverZTWIM, CP!Deployed, CP!DeployedConds, CP!Deploys, CP!Desired, CP!Differs,
  CP!Drained, CP!EditCR, CP!ExpectedReady, CP!Fault, CP!FreshCRUid, CP!FreshZTWIMUid,
  CP!GarbageCollector, CP!GetZTWIM, CP!Init, CP!Invalid, CP!Mark, CP!NeedsUpdate, CP!NewCR,
  CP!Next, CP!NextStep, CP!NoCR, CP!NoConditions, CP!NoContent, CP!NoObject, CP!NoPass,
  CP!NoSpec, CP!NotOperational, CP!ObjectVersion, CP!Objects, CP!ObjectsRight, CP!OfKind,
  CP!Pass, CP!Published, CP!Quiet, CP!QuietIsRight, CP!ReadyHasNoFailure, CP!Reconcile,
  CP!ReconcileObject, CP!ReconcileRoute, CP!Relist, CP!RemoveOwnerReference, CP!Restart,
  CP!Resync, CP!Right, CP!RouteDisabled, CP!RouteFound, CP!SetInitialReconciliationStatus,
  CP!SetOwnerReference, CP!SetReadyCondition, CP!SkipsUpdate, CP!SomethingListed,
  CP!SomethingWatched, CP!StatusUpdate, CP!StatusUpdateFails, CP!StepsOf, CP!Stop, CP!Store,
  CP!Success, CP!TamperWithObject, CP!ThisStep, CP!TypeOK, CP!Unguarded, CP!UpdateFails,
  CP!UpdateSucceeds, CP!Updated, CP!Users, CP!Validate, CP!View, CP!Visible, CP!Watch,
  CP!Worker, CP!WorkloadStatus, CP!Workloads, CP!WriteCR, CP!WriteObject, CP!WriteZTWIM,
  CP!componentPredicate, CP!crPredicate, CP!env, CP!handleCreateOnlyMode, CP!vars

\* Both copies of the ZTWIM controller are the same.
LEMMA SameZTWIMController ==
    /\ Z!vars = ZP!vars /\ (UNCHANGED Z!vars <=> UNCHANGED ZP!vars)
    /\ (Z!Next <=> ZP!Next)
    /\ (Z!TypeOK <=> ZP!TypeOK) /\ (Z!PassInv <=> ZP!PassInv)
    /\ (Z!NoLostWakeup <=> ZP!NoLostWakeup) /\ (Z!ReadyMatchesOperands <=> ZP!ReadyMatchesOperands)
BY ZenonT(120) DEF
  Z!Api, Z!ApplyStatus, Z!Cached, Z!CachedViews, Z!Change, Z!CondTypes, Z!CondVal,
  Z!CreateOnlyModeCondition, Z!CreateOperand, Z!CreateZTWIM, Z!DeleteOperand, Z!DeleteZTWIM,
  Z!Deliver, Z!DeliverOperand, Z!DeliverOperatorCondition, Z!DeliverZTWIM, Z!Drained,
  Z!EditOperandSpec, Z!Environment, Z!ExpectedUpgradeable, Z!Fault, Z!GetFailed, Z!GetOperand,
  Z!Kinds, Z!Next, Z!NoConditions, Z!NoLostWakeup, Z!NoOperand, Z!NoOperands, Z!NoStatus,
  Z!NoZtwim, Z!NotOperational, Z!OcValue, Z!OperandStatus, Z!OperandVersion, Z!Operands,
  Z!Pass, Z!PassInv, Z!PublishOperandReady, Z!Published, Z!PublishedIsCurrent,
  Z!ReadyMatchesOperands, Z!Reconcile, Z!Relist, Z!Restart, Z!Resync, Z!Return,
  Z!SetInitialReconciliationStatus, Z!SetReadyCondition, Z!SomethingExists,
  Z!SomethingWatched, Z!Start, Z!StatusUpdate, Z!StatusUpdateFails, Z!Store, Z!TypeOK,
  Z!Upgradeable, Z!Watch, Z!Worker, Z!WriteOperand, Z!WriteZtwim, Z!ZtwimSettled,
  Z!ZtwimVersion, Z!aggregateOperandStatus, Z!classifyOperandState, Z!env, Z!getOperandStatus,
  Z!operandStatusChangedPredicate, Z!updateOperatorCondition, Z!vars, Z!ztwimPredicate,
  ZP!Api, ZP!ApplyStatus, ZP!Cached, ZP!CachedViews, ZP!Change, ZP!CondTypes, ZP!CondVal,
  ZP!CreateOnlyModeCondition, ZP!CreateOperand, ZP!CreateZTWIM, ZP!DeleteOperand,
  ZP!DeleteZTWIM, ZP!Deliver, ZP!DeliverOperand, ZP!DeliverOperatorCondition, ZP!DeliverZTWIM,
  ZP!Drained, ZP!EditOperandSpec, ZP!Environment, ZP!ExpectedUpgradeable, ZP!Fault,
  ZP!GetFailed, ZP!GetOperand, ZP!Kinds, ZP!Next, ZP!NoConditions, ZP!NoLostWakeup,
  ZP!NoOperand, ZP!NoOperands, ZP!NoStatus, ZP!NoZtwim, ZP!NotOperational, ZP!OcValue,
  ZP!OperandStatus, ZP!OperandVersion, ZP!Operands, ZP!Pass, ZP!PassInv,
  ZP!PublishOperandReady, ZP!Published, ZP!PublishedIsCurrent, ZP!ReadyMatchesOperands,
  ZP!Reconcile, ZP!Relist, ZP!Restart, ZP!Resync, ZP!Return,
  ZP!SetInitialReconciliationStatus, ZP!SetReadyCondition, ZP!SomethingExists,
  ZP!SomethingWatched, ZP!Start, ZP!StatusUpdate, ZP!StatusUpdateFails, ZP!Store, ZP!TypeOK,
  ZP!Upgradeable, ZP!Watch, ZP!Worker, ZP!WriteOperand, ZP!WriteZtwim, ZP!ZtwimSettled,
  ZP!ZtwimVersion, ZP!aggregateOperandStatus, ZP!classifyOperandState, ZP!env,
  ZP!getOperandStatus, ZP!operandStatusChangedPredicate, ZP!updateOperatorCondition, ZP!vars,
  ZP!ztwimPredicate

\* What the proofs assume of the constants is what the operator assumes of them.
LEMMA OperandAssumptions ==
    CP!StepsAssumption /\ CP!StepsOrderAssumption /\ CP!SpecsAssumption /\ CP!BoundsAssumption
BY OperatorAssumption, ZenonT(60) DEF
  C!StepsAssumption, C!StepsOrderAssumption, C!SpecsAssumption, C!BoundsAssumption, C!StepType,
  C!Says, C!SpecType, C!NotOperational, CP!StepsAssumption, CP!StepsOrderAssumption,
  CP!SpecsAssumption, CP!BoundsAssumption, CP!StepType, CP!Says, CP!SpecType, CP!NotOperational

\* The same for the ZTWIM controller.
LEMMA ZTWIMAssumptions == ZP!ConstantsAssumption
BY OperatorAssumption DEF C!BoundsAssumption, ZP!ConstantsAssumption

(***************************************************************************)
(* The invariant: those of the two controllers, side by side.              *)
(***************************************************************************)
OperatorInv == CP!RestInv /\ ZP!IndInv /\ ZP!ReadyMatchesOperands

\* It contains the types.
LEMMA InvTypes == OperatorInv => C!TypeOK /\ Z!TypeOK
BY SameOperandController, SameZTWIMController, Zenon DEF OperatorInv, CP!RestInv, ZP!IndInv

\* Initially.
LEMMA OperatorInit == Init => OperatorInv
<1> SUFFICES ASSUME Init PROVE OperatorInv
  OBVIOUS
<1>1. CP!Init
  BY SameOperandController, Zenon DEF Init
<1>2. CP!RestInv
  BY <1>1, OperandAssumptions, CP!InitRests, Zenon DEF CP!StepsAssumption, CP!StepsOrderAssumption,
     CP!SpecsAssumption, CP!BoundsAssumption
<1>3. C!TypeOK
  BY <1>2, SameOperandController, Zenon DEF CP!RestInv
<1>4. QED
  BY <1>2, <1>3, ZTWIMStarts, SameZTWIMController, Zenon DEF OperatorInv, ZP!IndInv

\* Steps of the whole in terms of the proofs about the operand controller.
LEMMA SeenByOperand ==
    ASSUME OperatorInv, [Next]_vars
    PROVE  [CP!Next]_(CP!vars) \/ ZTWIMWork
BY InvTypes, OperandSide, SameOperandController, Zenon

\* The operand controller's half is kept by its own steps and by the work of the other.
LEMMA OperandHalf ==
    ASSUME OperatorInv, [Next]_vars
    PROVE  CP!RestInv'
<1>1. CP!RestInv
  BY DEF OperatorInv
<1>2. CASE [CP!Next]_(CP!vars)
  BY <1>1, <1>2, OperandAssumptions, CP!RestNext, Zenon DEF CP!StepsAssumption,
     CP!StepsOrderAssumption, CP!SpecsAssumption, CP!BoundsAssumption
<1>3. CASE ZTWIMWork
  <2>1. /\ Uids(zW)' = Uids(zW) \/ Uids(zW)' = Append(Uids(zW), CP!Api(Uids(zW)))
        /\ UNCHANGED <<crW, objW, createOnly, opQueued, opPc, opPass, opLost, changes>>
        /\ faults' \in 0..MaxFaults
    BY <1>3 DEF ZTWIMWork, CP!Api, Api, op
  <2>2. QED
    BY <1>1, <2>1, OperandAssumptions, CP!ZTWIMStatusRests, Zenon DEF CP!StepsAssumption,
       CP!StepsOrderAssumption, CP!SpecsAssumption, CP!BoundsAssumption, Uids
<1>4. QED
  BY <1>2, <1>3, SeenByOperand

\* The ZTWIM controller's half is kept by its own steps, by writes to the operand CR, which wait
\* for their event, and by what it does not see.
LEMMA ZTWIMHalf ==
    ASSUME OperatorInv, [Next]_vars
    PROVE  ZP!IndInv' /\ ZP!ReadyMatchesOperands'
<1>1. ZP!IndInv /\ ZP!ReadyMatchesOperands /\ ZP!ConstantsAssumption
  BY ZTWIMAssumptions, Zenon DEF OperatorInv
<1>2. C!TypeOK /\ C!TypeOK'
  BY InvTypes, OperandHalf, SameOperandController, Zenon DEF CP!RestInv
<1>3. CASE [ZP!Next]_(ZP!vars)
  BY <1>1, <1>3, ZP!IndInvStep, ZP!BackedStep, Zenon DEF ZP!ConstantsAssumption
<1>4. CASE OperandWrite \/ Elsewhere
  <2>1. /\ UNCHANGED <<zW, ocW, createOnly, zQueued, zPc, zPass, zLost>>
        /\ changes' \in 0..MaxChanges /\ faults' \in 0..MaxFaults
        /\ \/ Operand(crW)' = Operand(crW)
           \/ \E w \in ZP!OperandVersion : Operand(crW)' = [Operand(crW) EXCEPT ![1] = Append(@, w)]
    BY <1>2, <1>4, NotItsStep, Zenon DEF ZP!OperandVersion, ZP!CondVal, Z!OperandVersion, Z!CondVal
  <2>2. ZP!ReadyMatchesOperands' /\ 1 \in ZP!Kinds
    BY <1>1, <2>1 DEF ZP!ReadyMatchesOperands, ZP!Kinds
  <2>3. ZP!IndInv'
    BY <1>1, <2>1, <2>2, ZP!Untouched, ZP!OperandWritten, ZenonT(60) DEF ZP!ConstantsAssumption,
       Operand, Summaries
  <2>4. QED
    BY <2>2, <2>3
<1>5. QED
  BY <1>2, <1>3, <1>4, ZTWIMSide, SameZTWIMController, Zenon

\* Every step keeps the invariant.
LEMMA OperatorStep == OperatorInv /\ [Next]_vars => OperatorInv'
BY OperandHalf, ZTWIMHalf, Zenon DEF OperatorInv

\* At rest the invariants of both controllers speak of what is published.
LEMMA BothAreRight ==
    ASSUME OperatorInv, AtRest
    PROVE  C!Right /\ Z!PublishedIsCurrent
<1>1. /\ \A i \in DOMAIN crW : crW[i] = Cached(crW)
      /\ \A i \in DOMAIN zW : zW[i] = Cached(zW)
      /\ Len(zW) > 0 /\ zW \in Seq(Z!ZtwimVersion)
  BY InvTypes, NothingOnItsWay, Zenon DEF Z!TypeOK
<1>2. DOMAIN zW = 1..Len(zW) /\ 1 \in DOMAIN zW
  BY <1>1
<1>3. C!Right
  <2>1. CP!Calm
    BY <1>1, <1>2 DEF AtRest, Idle, Drained, Cached, C!Objects,
       CP!Calm, CP!Settled, CP!crPredicate, CP!Cached, CP!Drained, CP!Objects
  <2>2. QED
    BY <2>1, SameOperandController, Zenon DEF AtRest, Idle, OperatorInv, CP!RestInv
<1>4. Z!PublishedIsCurrent
  <2>1. Z!ZtwimSettled
    BY <1>1 DEF Z!ZtwimSettled, Z!Cached, Cached
  <2>2. QED
    BY <2>1, SameZTWIMController, Zenon DEF AtRest, Idle, OperatorInv, ZP!IndInv, Z!NoLostWakeup
<1>5. QED
  BY <1>3, <1>4

\* End to end, in every reachable state: once both workers are idle with nothing queued, lost or
\* on its way, the status of the ZTWIM CR, and Upgradeable while that CR exists, tell the state of
\* the workload, although each controller only saw what the other had written, through a cache
\* that lagged behind; and Upgradeable is never True in create-only mode.
THEOREM WholeIsRight == Spec => []EndToEnd
<1>1. OperatorInv => EndToEnd
  BY InvTypes, BothAreRight, TheyMeet, Zenon DEF EndToEnd, AtRest
<1>2. QED
  BY <1>1, OperatorInit, OperatorStep, PTL DEF Spec

\* Side by side, with each other as part of the environment, the two controllers keep what each of
\* them promises alone: no lost wakeup in either, no Ready=True next to a failure that an earlier
\* pass left behind, and no Ready ZTWIM next to an operand entry that says otherwise.
THEOREM PartsStayRight ==
    Spec => [](/\ C!QuietIsRight /\ C!ReadyHasNoFailure
               /\ Z!NoLostWakeup /\ Z!ReadyMatchesOperands)
<1>1. CP!RestInv => CP!QuietIsRight /\ CP!ReadyHasNoFailure
  BY DEF CP!RestInv, CP!QuietIsRight, CP!ReadyHasNoFailure, CP!NoFailureFor, CP!Quiet, CP!Calm,
     CP!Settled
<1>2. OperatorInv => /\ C!QuietIsRight /\ C!ReadyHasNoFailure
                     /\ Z!NoLostWakeup /\ Z!ReadyMatchesOperands
  BY <1>1, SameOperandController, SameZTWIMController, Zenon DEF OperatorInv, ZP!IndInv
<1>3. QED
  BY <1>2, OperatorInit, OperatorStep, PTL DEF Spec

\* In create-only mode nothing the process does on its own changes an object that exists, apart from
\* SecurityContextConstraints: not the operand controller, nor the ZTWIM controller, nor a read made
\* stale by either, whatever requests fail.
THEOREM CreateOnlyInTheWhole == Spec => C!CreateOnlyKeepsObjects
<1>1. ASSUME OperatorInv, [Next]_vars, createOnly, C!OwnStep, NEW o \in C!Objects \ C!Unguarded,
             C!Api(objW[o]).exists, C!Api(objW'[o]).exists
      PROVE  C!Api(objW'[o]) = C!Api(objW[o])
  <2>1. CASE ZTWIMWork
    BY <2>1 DEF ZTWIMWork
  <2>2. CASE [CP!Next]_(CP!vars)
    BY <1>1, <2>2, OperandAssumptions, CP!CreateOnlyStep, Zenon DEF OperatorInv, CP!RestInv,
       CP!StepsAssumption, CP!StepsOrderAssumption, CP!SpecsAssumption, CP!BoundsAssumption,
       C!Api, C!Objects, C!OfKind, C!OwnStep, C!Unguarded,
       CP!Api, CP!Objects, CP!OfKind, CP!OwnStep, CP!Unguarded
  <2>3. QED
    BY <1>1, <2>1, <2>2, SeenByOperand
<1>2. OperatorInv /\ [Next]_vars =>
        (createOnly /\ C!OwnStep =>
          \A o \in C!Objects \ C!Unguarded :
             C!Api(objW[o]).exists /\ C!Api(objW'[o]).exists => C!Api(objW'[o]) = C!Api(objW[o]))
  BY <1>1
<1>3. QED
  BY <1>2, OperatorInit, OperatorStep, PTL DEF Spec, C!CreateOnlyKeepsObjects
=============================================================================
