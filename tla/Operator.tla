------------------------------ MODULE Operator ------------------------------
(***************************************************************************)
(* The operator process: the controller of an operand CR and the           *)
(* controller of the ZTWIM CR side by side                                 *)
(* (cmd/zero-trust-workload-identity-manager/main.go).  They share one     *)
(* informer cache and CREATE_ONLY_MODE and have a queue and a worker each. *)
(* The operand controller reads the ZTWIM CR and adopts its own CR for it; *)
(* the ZTWIM controller reads the operand CR; each is woken by the other's *)
(* writes.  The other operands, ready all along, would add nothing to the  *)
(* summary and are left out.                                               *)
(***************************************************************************)
EXTENDS Informer

CONSTANTS Steps, Specs, MaxLag, MaxUid, MaxChanges, MaxFaults  \* those of OperandController

VARIABLES
    crW, objW,                                \* the operand CR and its objects
    zW, ocW,                                  \* the ZTWIM CR and the OperatorCondition
    createOnly,
    opQueued, opPc, opPass, opLost,           \* the operand controller
    zQueued, zPc, zPass, zLost,               \* the ZTWIM controller
    changes, faults  \* what is left of the bounds

op == <<opQueued, opPc, opPass, opLost>>
z == <<zQueued, zPc, zPass, zLost>>
vars == <<crW, objW, zW, ocW, createOnly, op, z, changes, faults>>

\* The operand controller looks at the identity of the ZTWIM CR ...
C == INSTANCE OperandController WITH
       Tampering <- {}, ztwimW <- [i \in DOMAIN zW |-> zW[i].uid],
       queued <- opQueued, pc <- opPc, pass <- opPass, lost <- opLost

\* ... and the ZTWIM controller at the Ready condition of the operand CR.
Summary(cr) == [exists |-> cr.uid # 0, gen |-> cr.spec.id % 2, ready |-> cr.conds["Ready"]]

Z == INSTANCE ZTWIMController WITH
       N <- 1, ReadyValues <- {}, ztwimW <- zW,
       operandW <- [k \in {1} |-> [i \in DOMAIN crW |-> Summary(crW[i])]],
       queued <- zQueued, pc <- zPc, pass <- zPass, lost <- zLost

\* What the two controllers ask of their constants.
ASSUME OperatorAssumption ==
    /\ C!StepsAssumption /\ C!StepsOrderAssumption
    /\ C!SpecsAssumption /\ C!BoundsAssumption

NewZTWIM(u) == [Z!NoZtwim EXCEPT !.uid = u]

\* The status an earlier process published next to an operand it had deployed.
OldZTWIM == [uid |-> 1, conds |-> Z!AllReadyConds, operands |-> Z!AllReadyOperands]

\* The operand CR was written before the ZTWIM CR, or an earlier process has deployed
\* everything and published so.  Create-only mode comes with a restart.
Init ==
    /\ zW \in {<<Z!NoZtwim>>, <<OldZTWIM>>}
    /\ C!Init
    /\ ~createOnly
    /\ \/ Api(zW) = OldZTWIM /\ Api(crW).owner # 0 /\ ocW = <<"True">>
       \/ Api(zW) # OldZTWIM /\ Api(crW).uid # 0 /\ ocW = <<"None">>
    /\ zQueued = TRUE /\ zPc = "idle" /\ zPass = Z!Start(Z!NoZtwim) /\ zLost = FALSE

(***************************************************************************)
(* The environment.                                                        *)
(***************************************************************************)

\* What others do to the objects and the owner reference is OperandController's own
\* affair; what reaches the ZTWIM controller is the CR and its verdict.
Users ==
    /\ UNCHANGED <<zW, ocW, z>>
    /\ \/ \E s \in Specs : C!CreateCR(s) \/ C!EditCR(s)
       \/ C!DeleteCR
       \/ \E o \in C!Objects : C!WorkloadStatus(o)

WriteZTWIM(v) ==
    /\ changes > 0 /\ changes' = changes - 1
    /\ Len(zW) <= MaxLag
    /\ zW' = Append(zW, v)
    /\ UNCHANGED <<crW, objW, ocW, createOnly, op, z, faults>>

CreateZTWIM ==
    /\ Api(zW).uid = 0
    /\ \E u \in 1..MaxUid :
          C!FreshZTWIMUid(u) /\ zPass.cr.uid # u /\ WriteZTWIM(NewZTWIM(u))

DeleteZTWIM ==
    /\ Api(zW).uid # 0
    /\ WriteZTWIM(Z!NoZtwim)

CollectCR ==
    /\ UNCHANGED <<zW, ocW, z>>
    /\ C!CollectCR

CollectObject(o) ==
    /\ UNCHANGED <<zW, ocW, z>>
    /\ C!CollectObject(o)

(***************************************************************************)
(* Watch events: one cache, two sets of predicates.                        *)
(***************************************************************************)

\* Slip: the ZTWIM controller does not watch the operand CR.
DeliverCRToItsController ==
    /\ Len(crW) > 1
    /\ crW' = Deliver(crW)
    /\ opQueued' = (opQueued \/ C!crPredicate(crW[1], crW[2]))
    /\ UNCHANGED <<objW, zW, ocW, createOnly, opPc, opPass, opLost, z, changes, faults>>

DeliverCR ==
    /\ Len(crW) > 1
    /\ crW' = Deliver(crW)
    /\ opQueued' = (opQueued \/ C!crPredicate(crW[1], crW[2]))
    /\ zQueued' = (zQueued \/ Z!operandStatusChangedPredicate(Summary(crW[1]), Summary(crW[2])))
    /\ UNCHANGED <<objW, zW, ocW, createOnly, opPc, opPass, opLost, zPc, zPass, zLost,
                   changes, faults>>

\* For the operand controller: ZTWIMSpecChangedPredicate, which a status write does
\* not pass.
DeliverZTWIM ==
    /\ Len(zW) > 1
    /\ zW' = Deliver(zW)
    /\ opQueued' = (opQueued \/ zW[1].uid # zW[2].uid)
    /\ zQueued' = (zQueued \/ Z!ztwimPredicate(zW[1], zW[2]))
    /\ UNCHANGED <<crW, objW, ocW, createOnly, opPc, opPass, opLost, zPc, zPass, zLost,
                   changes, faults>>

DeliverObject(o) ==
    /\ UNCHANGED <<zW, ocW, z>>
    /\ C!DeliverObject(o)

DeliverOperatorCondition ==
    /\ UNCHANGED <<crW, objW, op>>
    /\ Z!DeliverOperatorCondition

(***************************************************************************)
(* The workers.                                                            *)
(***************************************************************************)

\* MaxLag bounds what the workers' own writes leave undelivered too.
OperandWorker ==
    /\ UNCHANGED <<zW, ocW, z>>
    /\ C!Worker
    /\ Len(crW') <= MaxLag + 1

ZTWIMWorker ==
    /\ UNCHANGED <<crW, objW, op>>
    /\ Z!Worker

Restart ==
    /\ changes > 0 /\ changes' = changes - 1
    /\ crW' = Relist(crW) /\ zW' = Relist(zW) /\ ocW' = Relist(ocW)
    /\ objW' = [o \in C!Objects |-> Relist(objW[o])]
    /\ createOnly' \in BOOLEAN
    /\ opQueued' = C!SomethingListed /\ opPc' = "idle" /\ opPass' = C!NoPass /\ opLost' = FALSE
    /\ zQueued' = Z!SomethingExists /\ zPc' = "idle" /\ zPass' = Z!Start(Z!NoZtwim)
    /\ zLost' = FALSE
    /\ UNCHANGED faults

Next ==
    \/ Users \/ CreateZTWIM \/ DeleteZTWIM \/ Restart
    \/ CollectCR \/ DeliverCR \/ DeliverZTWIM \/ DeliverOperatorCondition
    \/ \E o \in C!Objects : CollectObject(o) \/ DeliverObject(o)
    \/ OperandWorker \/ ZTWIMWorker

\* Both workers, the watches and the garbage collector go on; no resync helps.
Spec ==
    /\ Init /\ [][Next]_vars
    /\ WF_vars(OperandWorker) /\ WF_vars(ZTWIMWorker)
    /\ WF_vars(CollectCR) /\ WF_vars(DeliverCR)
    /\ WF_vars(DeliverZTWIM) /\ WF_vars(DeliverOperatorCondition)
    /\ \A o \in C!Objects : WF_vars(CollectObject(o)) /\ WF_vars(DeliverObject(o))

(***************************************************************************)
(* Properties.                                                             *)
(***************************************************************************)
Idle == opPc = "idle" /\ ~opQueued /\ zPc = "idle" /\ ~zQueued

AtRest ==
    /\ Idle /\ ~opLost /\ ~zLost
    /\ Drained(crW) /\ Drained(zW) /\ Drained(ocW) /\ \A o \in C!Objects : Drained(objW[o])

\* What the whole deployment amounts to, judged by the workload and the CRs themselves.
Truth ==
    IF Api(crW).uid = 0 THEN "Progressing" ELSE C!ExpectedReady(Api(crW).spec)

\* End to end: at rest the status of the ZTWIM CR, and Upgradeable as long as there is
\* one, tell the state of the workload, two controllers, two queues and a shared cache
\* away from it.  Create-only mode forbids upgrades with or without the CR.
EndToEnd ==
    AtRest =>
      /\ Api(zW).uid # 0 => Api(zW).conds["Ready"] = Truth
      /\ Api(zW).uid # 0 /\ Api(ocW) # "Absent" =>
           (Api(ocW) = "True") = (~createOnly /\ (Api(crW).uid = 0 \/ Truth = "True"))
      /\ createOnly => Api(ocW) # "True"

\* What the comment on the condition says, with a ZTWIM CR or without: at rest it is True
\* when all existing operand CRs are ready and create-only mode is off, and False
\* otherwise (api/v1alpha1/conditions.go, Upgradeable).  Without the CR, Reconcile
\* summarises an empty list.
UpgradeableAsDocumented ==
    AtRest /\ Api(ocW) # "Absent" =>
      (Api(ocW) = "True") =
         (~createOnly /\ (Api(crW).uid = 0 \/ Api(crW).conds["Ready"] = "True"))

\* The two controllers, which wake each other, come to rest together once the cluster
\* changes no more.
OperatorRests == <>[]Idle
=============================================================================
