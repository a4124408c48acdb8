--------------------------- MODULE WorkloadHealth ---------------------------
(***************************************************************************)
(* When a workload counts as healthy (pkg/controller/status/status.go).    *)
(* The operator writes the spec of a StatefulSet, DaemonSet or Deployment  *)
(* and reads back the counters that its workload controller publishes.     *)
(* The workload controller, the nodes and the pods, which the operator     *)
(* sees only through those counters, are external.                         *)
(***************************************************************************)
EXTENDS Naturals

CONSTANTS
    Kinds,          \* of "StatefulSet", "DaemonSet" and "Deployment"
    MaxReplicas,    \* bound: replicas, or nodes of a DaemonSet
    MaxSurge,       \* pods above the replicas while a rolling update goes on
    MaxGeneration   \* bound: generations of the spec

ASSUME WorkloadAssumption ==
    /\ Kinds \subseteq {"StatefulSet", "DaemonSet", "Deployment"}
    /\ MaxReplicas \in Nat \ {0} /\ MaxSurge \in Nat /\ MaxGeneration \in Nat \ {0}

VARIABLES
    kind,           \* of the workload
    spec,           \* [generation, template, replicas] as written by the operator
    seen,           \* the spec the workload controller works on
    nodes,          \* nodes a DaemonSet runs on
    pods,           \* how many pods are of the seen template (new) or not (old), and ready
    status,         \* the published counters
    rollout         \* history: what the last status write was about

vars == <<kind, spec, seen, nodes, pods, status, rollout>>

Spec0 == [generation |-> 0, template |-> 0, replicas |-> 0]
PodCounts(newReady, newWaiting, oldReady, oldWaiting) ==
    [newReady |-> newReady, newWaiting |-> newWaiting,
     oldReady |-> oldReady, oldWaiting |-> oldWaiting]
Status0 == [observed |-> 0, desired |-> 0, ready |-> 0, updated |-> 0, available |-> 0]

New == pods.newReady + pods.newWaiting
Old == pods.oldReady + pods.oldWaiting

\* How many pods there should be.
Wanted == IF kind = "DaemonSet" THEN nodes ELSE seen.replicas

(***************************************************************************)
(* The operator's verdict.                                                 *)
(***************************************************************************)

\* Slip: the counters are taken for those of the present spec.
IsStatefulSetHealthyUnobserved(sp, st) == st.ready = sp.replicas /\ st.updated = sp.replicas

IsStatefulSetHealthy(sp, st) ==
    /\ st.ready = sp.replicas
    /\ st.updated = sp.replicas
    /\ st.observed = sp.generation

IsDaemonSetHealthy(sp, st) ==
    /\ st.desired # 0
    /\ st.ready = st.desired
    /\ st.updated = st.desired
    /\ st.available = st.desired
    /\ st.observed = sp.generation

IsDeploymentHealthy(sp, st) ==
    /\ st.ready = sp.replicas
    /\ st.updated = sp.replicas
    /\ st.available = sp.replicas
    /\ st.observed = sp.generation

Healthy ==
    \/ kind = "StatefulSet" /\ IsStatefulSetHealthy(spec, status)
    \/ kind = "DaemonSet" /\ IsDaemonSetHealthy(spec, status)
    \/ kind = "Deployment" /\ IsDeploymentHealthy(spec, status)

(***************************************************************************)
(* The workload.                                                           *)
(***************************************************************************)

\* The operator has created the workload; no pod exists and nothing is published.
Init ==
    /\ kind \in Kinds
    /\ spec \in [generation: {1}, template: {1}, replicas: 1..MaxReplicas]
    /\ seen = Spec0
    /\ nodes \in 0..MaxReplicas
    /\ pods = PodCounts(0, 0, 0, 0) /\ status = Status0
    /\ rollout = [generation |-> 0, wanted |-> 0, newReady |-> 0]

\* The operator writes another pod template or, for a Deployment, another number of
\* replicas; the API server counts the generations.
UpdateSpec(template, replicas) ==
    /\ spec.generation < MaxGeneration
    /\ template # spec.template \/ replicas # spec.replicas
    /\ kind # "Deployment" => replicas = spec.replicas
    /\ spec' = [generation |-> spec.generation + 1, template |-> template,
                replicas |-> replicas]
    /\ UNCHANGED <<kind, seen, nodes, pods, status, rollout>>

\* The workload controller's cache catches up.
ObserveSpec ==
    /\ seen # spec
    /\ seen' = spec
    /\ pods' = IF spec.template = seen.template THEN pods
               ELSE PodCounts(0, 0, pods.newReady + pods.oldReady,
                              pods.newWaiting + pods.oldWaiting)
    /\ UNCHANGED <<kind, spec, nodes, status, rollout>>

CreatePod ==
    /\ New + Old < Wanted + (IF Old > 0 THEN MaxSurge ELSE 0)
    /\ New < Wanted
    /\ pods' = PodCounts(pods.newReady, pods.newWaiting + 1, pods.oldReady, pods.oldWaiting)
    /\ UNCHANGED <<kind, spec, seen, nodes, status, rollout>>

PodBecomesReady ==
    /\ \/ /\ pods.newWaiting > 0
          /\ pods' = PodCounts(pods.newReady + 1, pods.newWaiting - 1, pods.oldReady, pods.oldWaiting)
       \/ /\ pods.oldWaiting > 0
          /\ pods' = PodCounts(pods.newReady, pods.newWaiting, pods.oldReady + 1, pods.oldWaiting - 1)
    /\ UNCHANGED <<kind, spec, seen, nodes, status, rollout>>

PodFails ==
    /\ \/ /\ pods.newReady > 0
          /\ pods' = PodCounts(pods.newReady - 1, pods.newWaiting + 1, pods.oldReady, pods.oldWaiting)
       \/ /\ pods.oldReady > 0
          /\ pods' = PodCounts(pods.newReady, pods.newWaiting, pods.oldReady - 1, pods.oldWaiting + 1)
    /\ UNCHANGED <<kind, spec, seen, nodes, status, rollout>>

\* A pod is replaced, scaled away, evicted or lost; it goes through "waiting" first.
DeletePod ==
    /\ \/ /\ pods.newWaiting > 0
          /\ pods' = PodCounts(pods.newReady, pods.newWaiting - 1, pods.oldReady, pods.oldWaiting)
       \/ /\ pods.oldWaiting > 0
          /\ pods' = PodCounts(pods.newReady, pods.newWaiting, pods.oldReady, pods.oldWaiting - 1)
    /\ UNCHANGED <<kind, spec, seen, nodes, status, rollout>>

AddNode ==
    /\ kind = "DaemonSet" /\ nodes < MaxReplicas
    /\ nodes' = nodes + 1
    /\ UNCHANGED <<kind, spec, seen, pods, status, rollout>>

\* A node without a pod of the DaemonSet leaves the cluster.
RemoveNode ==
    /\ kind = "DaemonSet" /\ New + Old < nodes
    /\ nodes' = nodes - 1
    /\ UNCHANGED <<kind, spec, seen, pods, status, rollout>>

\* The workload controller publishes what it counts, pods of either template in ready.
SyncStatus ==
    /\ seen # Spec0
    /\ status' = [observed |-> seen.generation, desired |-> Wanted,
                  ready |-> pods.newReady + pods.oldReady, updated |-> New,
                  available |-> pods.newReady + pods.oldReady]
    /\ rollout' = [generation |-> seen.generation, wanted |-> Wanted,
                   newReady |-> pods.newReady]
    /\ UNCHANGED <<kind, spec, seen, nodes, pods>>

Next ==
    \/ \E t \in 1..MaxGeneration, r \in 1..MaxReplicas : UpdateSpec(t, r)
    \/ ObserveSpec
    \/ CreatePod \/ PodBecomesReady \/ PodFails \/ DeletePod
    \/ AddNode \/ RemoveNode
    \/ SyncStatus

Spec == Init /\ [][Next]_vars

(***************************************************************************)
(* Properties.                                                             *)
(***************************************************************************)
SpecType == [generation: Nat, template: Nat, replicas: Nat]

TypeOK ==
    /\ kind \in Kinds
    /\ spec \in SpecType /\ seen \in SpecType /\ nodes \in Nat
    /\ pods \in [newReady: Nat, newWaiting: Nat, oldReady: Nat, oldWaiting: Nat]
    /\ status \in [observed: Nat, desired: Nat, ready: Nat, updated: Nat, available: Nat]
    /\ rollout \in [generation: Nat, wanted: Nat, newReady: Nat]

\* The verdict, taken on counters that count pods of both templates and may be of an
\* earlier spec, is "healthy" only if the last count was made for the present spec and
\* found every wanted pod ready and of the present template.
HealthyIsRolledOut ==
    Healthy => /\ rollout.generation = spec.generation
               /\ rollout.newReady = rollout.wanted

\* What keeps it, without surge: a pod of the old template takes the place of a new one.
HealthInv ==
    /\ seen.generation <= spec.generation
    /\ seen.generation = spec.generation => seen = spec
    /\ seen.replicas <= spec.replicas
    /\ New + Old <= Wanted
    /\ rollout.generation = status.observed /\ rollout.wanted = status.desired
    /\ status.observed <= seen.generation
    /\ kind # "DaemonSet" /\ status.observed = spec.generation =>
          status.desired = spec.replicas
    /\ spec.generation > 0
    /\ rollout.newReady <= status.ready
    /\ status.ready + status.updated <= status.desired + rollout.newReady
=============================================================================
