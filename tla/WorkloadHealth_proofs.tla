----------------------- MODULE WorkloadHealth_proofs -----------------------
(***************************************************************************)
(* For any number of replicas and nodes: a StatefulSet or DaemonSet that   *)
(* counts as healthy is rolled out.                                        *)
(***************************************************************************)
EXTENDS WorkloadHealth, TLAPS

\* The types of the model's variables are kept by the writes of the operator, the
\* workload controller and the pods.
THEOREM WorkloadTypes == Spec => []TypeOK
<1>1. Init => TypeOK
  BY WorkloadAssumption
     DEF Init, TypeOK, SpecType, Spec0, PodCounts, Status0
<1>2. TypeOK /\ [Next]_vars => TypeOK'
  <2> SUFFICES ASSUME TypeOK, [Next]_vars PROVE TypeOK'
    OBVIOUS
  <2> USE WorkloadAssumption DEF TypeOK, SpecType, PodCounts
  <2>1. ASSUME NEW t \in 1..MaxGeneration, NEW r \in 1..MaxReplicas, UpdateSpec(t, r)
        PROVE  TypeOK'
    BY <2>1 DEF UpdateSpec
  <2>2. CASE ObserveSpec
    BY <2>2 DEF ObserveSpec
  <2>3. CASE CreatePod
    BY <2>3 DEF CreatePod
  <2>4. CASE PodBecomesReady
    BY <2>4 DEF PodBecomesReady
  <2>5. CASE PodFails
    BY <2>5 DEF PodFails
  <2>6. CASE DeletePod
    BY <2>6 DEF DeletePod
  <2>7. CASE AddNode
    BY <2>7 DEF AddNode
  <2>8. CASE RemoveNode
    BY <2>8 DEF RemoveNode, New, Old
  <2>9. CASE SyncStatus
    BY <2>9 DEF SyncStatus, Wanted, New
  <2>10. CASE UNCHANGED vars
    BY <2>10 DEF vars
  <2> QED
    BY <2>1, <2>2, <2>3, <2>4, <2>5, <2>6, <2>7, <2>8, <2>9, <2>10 DEF Next
<1> QED
  BY <1>1, <1>2, PTL DEF Spec

\* Without surge, and with replicas that never change, old pods take the place of new
\* ones, and the counters of the present generation are about the present spec.
THEOREM HealthInvariant ==
    ASSUME "Deployment" \notin Kinds, MaxSurge = 0
    PROVE  Spec => []HealthInv
<1> USE WorkloadAssumption
<1>1. Init => HealthInv
  BY DEF Init, HealthInv, Spec0, PodCounts, Status0, New, Old, Wanted, SpecType
<1>2. TypeOK /\ HealthInv /\ [Next]_vars => HealthInv'
  <2> SUFFICES ASSUME TypeOK, HealthInv, [Next]_vars PROVE HealthInv'
    OBVIOUS
  <2> USE DEF TypeOK, SpecType, HealthInv, New, Old, Wanted, PodCounts
  <2>1. ASSUME NEW t \in 1..MaxGeneration, NEW r \in 1..MaxReplicas, UpdateSpec(t, r)
        PROVE  HealthInv'
    BY <2>1 DEF UpdateSpec
  <2>2. CASE ObserveSpec
    BY <2>2 DEF ObserveSpec
  <2>3. CASE CreatePod
    BY <2>3 DEF CreatePod
  <2>4. CASE PodBecomesReady
    BY <2>4 DEF PodBecomesReady
  <2>5. CASE PodFails
    BY <2>5 DEF PodFails
  <2>6. CASE DeletePod
    BY <2>6 DEF DeletePod
  <2>7. CASE AddNode
    BY <2>7 DEF AddNode
  <2>8. CASE RemoveNode
    BY <2>8 DEF RemoveNode
  <2>9. CASE SyncStatus
    BY <2>9 DEF SyncStatus
  <2>10. CASE UNCHANGED vars
    BY <2>10 DEF vars
  <2> QED
    BY <2>1, <2>2, <2>3, <2>4, <2>5, <2>6, <2>7, <2>8, <2>9, <2>10 DEF Next
<1> QED
  BY <1>1, <1>2, WorkloadTypes, PTL DEF Spec

\* IsStatefulSetHealthy and IsDaemonSetHealthy report a finished rollout of the present
\* spec, whatever the number of replicas or nodes and whatever happened before.
THEOREM HealthyWorkloadsAreRolledOut ==
    ASSUME "Deployment" \notin Kinds, MaxSurge = 0
    PROVE  Spec => []HealthyIsRolledOut
<1>1. TypeOK /\ HealthInv => HealthyIsRolledOut
  <2> SUFFICES ASSUME TypeOK, HealthInv, Healthy
               PROVE  /\ rollout.generation = spec.generation
                      /\ rollout.newReady = rollout.wanted
    BY DEF HealthyIsRolledOut
  <2> USE DEF TypeOK, SpecType
  <2>1. /\ status.observed = spec.generation
        /\ status.ready = status.desired /\ status.updated = status.desired
    BY DEF Healthy, IsStatefulSetHealthy, IsDaemonSetHealthy, HealthInv
  <2>2. /\ rollout.generation = status.observed /\ rollout.wanted = status.desired
        /\ status.ready + status.updated <= status.desired + rollout.newReady
        /\ rollout.newReady <= status.ready
    BY DEF HealthInv
  <2> QED
    BY <2>1, <2>2
<1> QED
  BY <1>1, WorkloadTypes, HealthInvariant, PTL
=============================================================================
