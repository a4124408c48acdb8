# A TLA+ model of the Zero Trust Workload Identity Manager operator

The operator (`src/`) deploys SPIRE on OpenShift. Users write five singleton
custom resources (CRs), all named `cluster`; five controllers in one process turn
them into Kubernetes objects and report conditions. This directory models the
controllers and the pure rules they apply, checks them with TLC on small
instances, and proves the central properties with TLAPS for all values of the
constants.

## 1. The system and its parts

| part | code (`src/pkg/controller/` unless a full path is given) | modelled by |
|---|---|---|
| ZTWIM controller: reads the operand CRs, publishes their summary and OLM's `Upgradeable` | `zero-trust-workload-identity-manager/controller.go` | `ZTWIMController` |
| operand controllers: SpireServer, SpireAgent, SpiffeCSIDriver, SpireOIDCDiscoveryProvider | `spire-server/`, `spire-agent/`, `spiffe-csi-driver/`, `spire-oidc-discovery-provider/` | `OperandController` executing the passes of `OperandSteps`; `OperandCR` is what it promises |
| status manager: collects conditions, computes Ready, writes the status | `status/status.go` | `Conditions`, `WorkloadHealth` |
| client and cache | `src/pkg/client/client.go` | `Informer` (external part), the retry rules in both controllers |
| predicates, labels, owner references, create-only mode | `utils/utils.go`, `utils/labels.go` | `OperandController` |
| TTL validation of the SpireServer CR | `spire-server/validation.go` | `TTLValidation` |
| federation endpoint of the SPIRE server | `spire-server/{validation,configmap,service,rbac,statefulset,routes}.go`, CRD rules | `Federation` |
| resource comparison: when an existing object is rewritten, and with what | `utils/resource_comparison.go` and the reconcile functions | `ResourceUpdate` field by field; `OperandController` its outcome |
| common configuration and URL validation | `utils/validation*.go`, `utils/url_validation.go` | its verdict only |
| proxy and trusted CA configuration | `utils/proxy.go` | `Proxy`, used by `ResourceUpdate` |
| the process: controllers side by side on one cache | `src/cmd/zero-trust-workload-identity-manager/main.go` | `Operator`; start and restart in every module. Leader election is not modelled |
| generated code, embedded manifests, fakes, e2e utilities | `zz_generated.deepcopy.go`, `bindata.go`, `fakes/`, `src/test/` | not modelled |

How they interact. Each controller has one worker and a work queue with one
possible item. Watch events become work through predicates. A pass of `Reconcile`
reads from informer caches, which lag behind the API server and hold only objects
with the managed-by label (SecurityContextConstraints excepted). Writes go to the
API server, which refuses one that carries an old `resourceVersion`. The ZTWIM CR
owns the operand CRs, an operand CR owns its objects, and the garbage collector
deletes what a vanished owner owns. The operand controllers and the ZTWIM
controller meet only in the `Ready` condition of the operand CRs.

## 2. The modules

**`Informer`** is one object seen through a watch: the sequence of its versions
from the cached to the stored one. Reads see the head, writes append, an event
drops the head; an update with the cached `resourceVersion` succeeds exactly when
nothing is undelivered. This is controller-runtime and the API server, and external.

**`Conditions`** abstracts a condition to five values: `"None"`, `"Reconciling"`
(what a pass publishes first), `"Progressing"`, `"False"` (reason Failed) and
`"True"`. `SetReadyCondition` and `Published` are `status.go`'s summary and merge.

**`ZTWIMController`** has one action per step of `Reconcile`: read the ZTWIM CR,
publish "Reconciling", read the operand CRs one at a time (`GetOperand`), update the
OperatorCondition, apply the status. Users, operand controllers, watch deliveries,
resync, failing requests and process restarts interleave with it. `classifyOperandState`,
`aggregateOperandStatus` and `Upgradeable` are the code's functions over summaries.

**`OperandController`** is the shape the four operand controllers share. The
constant `Steps` is the pass of one of them, defined in **`OperandSteps`** as a sequence
of records: validations, objects that are created or updated, objects whose update
ignores create-only mode, the blindly created bundle ConfigMap, the Route, workload
health, and the condition of a group. An object is abstracted to what it is computed from (the id
of the CR's spec, the ZTWIM CR's UID), its labels, its owner and whether its rollout
is complete. A spec is an id, the validations it fails and the features it enables.
`pass.current` says whether the local copy of the CR carries the stored `resourceVersion`.
A step that is `open` generates an object which the API server completes in fields that
are compared: it differs in every pass, and is written in every pass. `MCSpireServer`,
`MCSpireAgent` and `MCSpiffeCSI` take a few objects of a pass, in its order and with its
validations.

**`OperandCR`** is the abstract specification of an operand controller, for somebody who
sees nothing but the CR: existence and spec belong to the users and the garbage
collector; a pass starts, says "Reconciling", gives at most one verdict, never as the
first word on a CR, and ends; a CR without an answer gets one. `OperandController`
implements it under the mapping `CRSeen`, `PhaseSeen`: the CR is the stored version, the
phase is read off the program counter, and cache, queue, objects and the ZTWIM CR
disappear.

**`Operator`** composes an operand controller and the ZTWIM controller on one cache:
both are instances of their modules, with the identity of the ZTWIM CR and the Ready
condition of the operand CR as their interfaces. A delivered version of the operand CR
passes the predicates of both, a restart stops both. Each controller's steps are the
actions of its module. `MCOperator` takes the SpiffeCSIDriver, or the
SpireOIDCDiscoveryProvider, with its workload.

**`ResourceUpdate`** looks at one object of one kind. An object is a function from fields to
sequences of named items. `Comparison` says how each field is compared (exactly, regardless of
order, as a subset, only if generated, or not at all), `Generated` what the generators
set and leave open, `Preserved` what is carried over from the object found. The writers are
the operator, the API server with its defaults and its immutable fields, the controllers
that own some of the fields, and users. **`Proxy`** has the functions of `proxy.go` on the fields of a pod;
the operator may be restarted with another proxy configuration.

**`WorkloadHealth`** runs a workload controller, external, against
`IsStatefulSetHealthy`, `IsDaemonSetHealthy` and `IsDeploymentHealthy`. A history
variable remembers what the last published count was made of.

**`TTLValidation`** has the arithmetic of the TTL rule with wrap-around, the errors,
the three warnings, and an administrator who follows their advice.

**`Federation`** has the validation of the federation configuration and of each peer, the rules of
the CRD about it and about changing it, and the five objects derived from it, field by field. Reads are current
here, and the garbage collector is immediate; `OperandController` covers stale reads and
late collection. `MCServerSettings` puts the two sets of settings into one run. Neither rule
looks at the other's settings, so each is explored with the other left at its start.

Operators whose comment starts with "Slip" are variants of the definition below them
with a plausible mistake. Nothing uses them in the specifications; each shows that some
property notices the mistake.

## 3. What the runs check

| run | instance | shows |
|---|---|---|
| `ztwim` | 2 operand CRs, lag 2, 1 change, 1 fault, fair | `NoLostWakeup`: at rest the published summary and `Upgradeable` are those of the cached operand CRs. `ReadyMatchesOperands`: Ready never stands next to an operand entry that is not ready. `RepairedByResync`: lost writes are made up for. `Stabilises`: the summary is eventually right for good |
| `agent_workload` | SpireAgent: DaemonSet, valid and invalid spec, lag 2, 2 changes, no resync, fair | `QuietIsRight`: at rest the cluster is as the CR asks and Ready says so. `CreateOnlyKeepsObjects`, `ReadyAfterAllSteps`, `ControllerKeepsSpec`: what no step of the controller does. `ImplementsOperandCR`: the refinement, with its liveness. `ComesToRest`: own writes, conflicts and a workload that always differs do not keep the controller busy |
| `server_config` | SpireServer: the bundle ConfigMap and the Route, changed labels, 1 change, 1 fault, fair | `QuietIsRight` with an object that is never read and one without owner that can be switched off. `ReadyHasNoFailure`: Ready does not stand next to a failure of an earlier pass. `Repaired`: changes that raise no event are repaired after a resync |
| `operator` | SpiffeCSIDriver with its DaemonSet next to the ZTWIM controller, deployed before or waiting for a ZTWIM CR, lag 1, 1 change, fair | `EndToEnd`: at rest the ZTWIM status and, while there is a ZTWIM CR, `Upgradeable` tell the state of the workload, two controllers away. `OperatorRests`: two controllers that wake each other come to rest |
| `workload_health` | StatefulSet or DaemonSet, 3 replicas or nodes, 3 generations | `HealthyIsRolledOut`: healthy means rolled out |
| `server_settings` | all TTLs from -1 to 31, cap 4, 6-bit durations; 12 federation configurations, 2 incarnations of the CR | `SilenceIsGuarantee`: no warning exactly under the upstream rule. `AdviceWorks`: following the warnings removes them. `FederationFits`: the five objects fit together at rest. `NoPeerLost`: no federated domain is dropped. `GrantBeforeUse`: a Route gets an external certificate only next to the Role that lets the router read it |
| `resource_update` | each of 16 kinds, 5 process environments, lag 1, 2 changes, fair | `RestIsAsGenerated`: at rest the object is there and, outside create-only mode, has what was generated, whoever wrote it in between. `ProxyReachesPods`: every container has exactly the proxy and CA configuration of the running process. `KeepsForeignFields`: an update keeps what it is to carry over, and what others add to an object is never the reason for an update that erases it. `Settles`: the writers do not rewrite each other's work for ever |

Five runs show where the code does not do what its comments and API documentation say. Their
counterexamples are short and are described under `findings` in `PROJECT.json`.

| run | disagreement |
|---|---|
| `server_ready_fault` | a failed read without a condition publishes Ready=True for an aborted pass |
| `server_spec_fault` | after a refused status write the owner-reference update can revert an edit |
| `deployment_health` | with a surge pod a Deployment is healthy before its rollout ends |
| `upgradeable_fault` | without a ZTWIM CR `Upgradeable` is True next to an operand CR that is not ready |
| `create_only_scc` | an SCC is rewritten while the CreateOnlyMode condition says that updates are not reconciled |

### What the properties leave out, and why

- `Quiet`, the premise of `QuietIsRight`, excludes objects whose component label was changed:
  their events are dropped, and `Repaired` says what happens then. It also asks that the last
  pass lost no read or status write to a fault, since such a failure is only logged.
- An object that lost its managed-by label is invisible to the cache while its name is
  taken. The controller then fails to create it again and again and reports Failed;
  `ComesToRest` names this (`Hidden`) as the one thing that keeps it busy. A bundle ConfigMap in
  that state may even be deleted unnoticed, so `server_config` does not include it.
- In the same way `Settles` names the objects somebody re-created with another value of an
  immutable field (`Stuck`): every update is refused until the object is deleted.
- `ReadyHasNoFailure` excepts the Route in create-only mode, where one that differs is left alone
  without a condition. It looks at the steps that apply: `RBACAvailable` of the OIDC
  provider stays as it was once no external certificate is configured.
- `RestIsAsGenerated` asks for labels as `LabelsMatch` does: wanted ones are there, and one
  that was taken out of the CR may stay. It does not ask for fields that no comparison
  looks at (the timing of probes, annotations of the pods other than the hashes).
- Without a ZTWIM CR the summary is computed from an empty list, and `Upgradeable` is True
  whatever the operand CRs say. `src/api/v1alpha1/conditions.go:25-30` promises otherwise:
  `UpgradeableAsDocumented` states the promise, and `upgradeable_fault` shows that it is not kept.
  `EndToEnd` is about `Upgradeable` while there is a ZTWIM CR, and asks without one only that
  create-only mode forbids upgrades. `NoLostWakeup`, whose question is whether the published
  verdict is stale, takes the rule of the code.
- `NO_PROXY` alone adds nothing to a pod (`IsProxyEnabled` asks for the other two);
  `ProxyReachesPods` asks for the variable exactly when there is a proxy and it has a value.
- `CreateOnlyKeepsObjects` leaves out SecurityContextConstraints, which are updated in
  create-only mode too. That this is not what the published condition says is
  `UpdatesNotReconciled` in `create_only_scc`; `RestIsAsGenerated` asks of an object in create-only
  mode, SCC or not, only that it exists.
- An update sends a generated object, and only the fields in `Carried` are copied from the object found. The
  pull secrets that the registry adds to a ServiceAccount and the annotations on a Service or a Deployment are erased, and
  added again by their owners. `KeepsForeignFields` says when: only if the object lacked
  something the operator asks for (`Lacks`).
- `GrantBeforeUse` has two exceptions. Create-only mode keeps an older Role that may name another
  secret, and does create a Route that is missing; and a Role deleted after its step is missing
  until the next pass, which is then queued.
- A Route that is switched off counts as a failure (`ExpectedReady` says False), and so does a
  workload that was created a moment ago and is not cached yet, until the next pass.
- Each update of an operand CR starts a pass of the ZTWIM controller:
  `operandStatusChangedPredicate` finds no `GetStatus` method on any type and lets everything through.
- The Role for an external certificate does not depend on the profile and is never removed;
  `FederationFits` asks only that it is there when the Route needs it.

### Bounds, and why they are enough

- `MaxLag`: undelivered versions of one object. One makes every read possibly stale;
  two lets an object change and change back, or be deleted and re-created, unseen.
- `MaxChanges`: environment changes and restarts. Each starts from any of the initial
  clusters (empty, CR written, fully deployed), at any point of any pass. Two changes
  suffice for an edit plus a restart, or a deletion plus a re-creation. They also bound
  workload status changes.
- `MaxFaults`: failing requests. Single faults, at every request, are what the error
  paths are about. `agent_workload` has none: `ReadyAfterAllSteps` and `ControllerKeepsSpec` hold
  through conflicts and stale reads, and fail with a fault, as the two fault runs show.
- `MaxUid`: two incarnations, reused once nothing names the old one, so a longer history
  looks like a shorter one. `ztwim` and `operator` have one: with a single change a CR is
  created or deleted, never both, and the second name would only be another name for it.
- Objects per instance: reconcile functions touch one object each and meet only in
  the conditions and in the order of the pass. Each instance takes the objects of
  different kinds that its question is about.
- `operator` has lag 1 and one change: the composition multiplies the states of both
  controllers, each of which is explored deeper in its own run. One change next to the
  controllers' own writes already makes each of them read stale versions of the other's CR.
  Create-only mode is entered by a restart. No request fails; the theorem covers
  failing ones.
- `resource_update` has one object and no failing requests; refused updates (conflict,
  immutable field, AlreadyExists) are there. The environments are: no proxy, a proxy, another proxy with
  its own exceptions, a proxy without CA bundle (refused by the validation), create-only mode.
- `N = 2` operand CRs: one read before and one after a change. The theorems cover any `N`.
- Model TTLs cover both sides of the cap (4), of six times the cap (24), and of the
  overflow (32); the theorems cover every width.

Deadlock is not checked: once the changes are used up the system may be at rest for good.

### Fairness, and why the code justifies it

- `WF(Worker)`: the manager keeps a worker goroutine per controller, and an item that
  is queued is eventually processed. Requests end in success or failure.
- `WF` of each delivery and of the garbage collector: watches are re-established by the
  client library, and collection is retried.
- `WF(Resync)`: controller-runtime resyncs informers every ten hours by default, and
  `NewCacheBuilder` does not change that. Only `FairSpec` has it; `BetweenResyncs` is
  the specification without any resync.
- Users, workloads, the other writers of an object and faults owe nothing; all but those
  writers are bounded.

## 4. What is proved

`ZTWIMController_proofs`, for every number of operands and all bounds
(`ConstantsAssumption`):

- `TypeCorrect`: `Spec => []TypeOK`, action by action.
- `NothingStale`: `Spec => []NoLostWakeup`. The invariant is not inductive, as it says nothing
  while a pass is under way. `PassInv` adds that as long as nothing is queued and
  nothing was lost, the entries already read are still those of the cache; that the CR of the
  pass is the cached one; and that its local Ready is "Reconciling". The last fact is the key:
  `ApplyStatus` compares conditions only, and would skip a write that changes only
  `Status.Operands`, but since a summary is never "Reconciling" it never skips.
  The induction goes over the environment (writes do not reach the cache), the watches (an event that
  matters queues a pass) and the worker. `OperandWritten` and `Untouched` say that the invariant does not depend on
  who writes an operand CR, or how often.
- `ReadyIsBacked`: `Spec => []ReadyMatchesOperands`. Strengthened to all versions in flight and
  the local copy.

`InformerTheorems` has the lemmas on version sequences, and on the least of a set of naturals, that these proofs cite.

`WorkloadHealth_proofs`, for any number of replicas, nodes and generations:

- `HealthyWorkloadsAreRolledOut`: for StatefulSets and DaemonSets without surge
  `Spec => []HealthyIsRolledOut`. The inductive invariant `HealthInv` bounds the sum of
  ready and updated pods by the wanted ones plus those that are both, and ties a
  published generation to the spec it was made for. The assumption is needed: run
  `deployment_health` is the counterexample with surge.

`SpireServer_proofs`, on the two rules of the SpireServer CR. The first, for every cap, width and set of TTLs with six caps below the
width (`TTLAssumption`; in the code seven days against 2^63 ns):

- `SilenceIsRight`: `TTLSpec => []SilenceIsGuarantee`; the truncating division is the rule without division.
- `AdviceIsRight`: `TTLSpec => []AdviceWorks`; the product is only formed below the cap and cannot
  wrap, following either warning never lowers the CA TTL, so both can be followed at once. The CA TTL is at
  least six units (nanoseconds in the code), since below that the suggested SVID TTL is zero.

The second, federation, for every set of configurations and any number of incarnations of the CR
(`FederationAssumption`: the configurations have the shape the CRD gives them):

- `ObjectsFit`, `PeersArrive`: `Spec => []FederationFits`, `Spec => []NoPeerLost`. The inductive invariant says
  which of the five objects are as the copy of the pass asks at each point of the pass
  (`RestInv`), as long as the copy is that of the stored CR and nothing is queued that would
  repair a deletion; at the end of the pass that is all of them.
- `GrantFirst`: `Spec => GrantBeforeUse`, in create-only mode as well. `RoleInv` carries the Role from its step to that of the
  Route, through edits of the CR under the pass. `GoneInv` is needed for a CR that is deleted or re-created under the pass:
  its Role is gone with it, the step of the Role does not bring it back, and another pass is queued.

`OperandController_proofs`, for every sequence of steps, every set of specs, any kind of
tampering and all bounds (`StepsAssumption`: at least one step is unconditional; `SpecsAssumption`,
`BoundsAssumption`), hence for the complete passes of all four controllers, which no run explores as a whole:

- `TypeCorrect`: `Spec => []TypeOK`, and with it that a pass ends at its last step.
- `CreateOnlyCorrect`: `Spec => CreateOnlyKeepsObjects`, with any number of failing requests.
- `SpecIsKept`, `ReadyIsEarned`: `Spec => ControllerKeepsSpec` and `Spec => ReadyAfterAllSteps` under
  `MaxFaults = 0`. The assumption is needed: `server_spec_fault` and `server_ready_fault` are the
  counterexamples with one fault. Neither property is inductive. `NoFaultInv` adds: a copy that
  carries the stored `resourceVersion` has the stored spec (`CopyIsCurrent`), so the update that adopts
  the CR cannot revert an edit; a pass that gets to its end early has a failed
  condition or Ready=False in hand (`EarlyEndIsSaid`), so the summary cannot be True; and the
  three facts on what has been said about a CR that the refinement needs.
- `Implements`: `Spec => CR!Safety` under `MaxFaults = 0`. Every step maps to a step of `OperandCR` or to a
  stutter. That a verdict is never the first word on a CR takes `VersionsAgree`, `CopyAgrees` and
  `Announced`: if any version the pass may have read has a Ready condition, so has the stored CR of the
  same UID, so that skipping the announcement because the cached CR already says
  "Reconciling" is right.

`NoFaultInv` was checked with TLC on the instance of `agent_workload` before it was proved.

`OperandRest_proofs`, for the same specification with any number of faults, restarts and undelivered
versions:

- `RestIsRight`: `Spec => []QuietIsRight`.
- `ReadyIsClean`: `Spec => []ReadyHasNoFailure`.

Both need two assumptions more. `StepsOrderAssumption`, evaluated by TLC on every instance, says what the passes
of the four controllers have in common: checks of the spec and of a workload's health are never skipped, the health is
read after the step of the workload, no later step reports in the condition of a workload or a Route, and every other
step has its outcome reported by itself or by a later step. A new step that breaks one of these rules could end a
pass without a word on a failure. `Tampering \subseteq {"content"}`: others edit and delete objects and
leave their labels alone. Without it the claim is false for some passes: an object whose component label is changed and
that is then deleted goes without any event, and so does a bundle ConfigMap or an SCC without the managed-by label. `Repaired` is what holds then.

`QuietIsRight` says nothing while a pass is under way. The inductive invariant `RestInv` says what a pass knows of a
cluster in which nothing has happened that would start another one (`Calm`):

- `Known`: the copy of the CR is the stored one up to its conditions, with Ready at "Reconciling"; the
  ZTWIM CR read is the one there is; the steps behind the pass are `Done`, which means that the object of each is in
  place and its condition collected; and the failures and rollouts collected are those of Routes that are
  switched off and of workloads that are not healthy (`Explained`). At the end of the pass that is the verdict, and
  `VerdictIsRight` shows that publishing it makes the CR right. It is news as well (`VerdictIsNews`), since the
  published Ready was "Reconciling": `ApplyStatus`, which skips a write without a change, does not skip it.
  (These lemmas on the verdict are the last part of `OperandController_proofs`.)
- `Watched`: every version of an object on its way to the cache has its labels, and no two in a row are absent, so that each
  of them raises an event.
- `Copied`: a copy with the stored `resourceVersion` is that of the stored CR, so the owner reference is
  not given to another incarnation.

A step that writes has disturbed the calm itself: its own event starts the pass that finds nothing to write. A
step that fails returns an error, which requeues the item, or remembers the loss (`lost`). `RestInv` was checked
with TLC on instances of `server_config` and `agent_workload` with edits and deletions before it was proved.

`ResourceUpdate_proofs`, for any of the 16 kinds of objects, any environments of the process and all bounds
(`KindsAssumption`, `ProcessesAssumption`, `BoundsAssumption`):

- `TypeCorrect`: `Spec => []TypeOK`. The bound on the versions under way is not inductive alone: a creation adds a version
  beyond `MaxLag`, and is possible once only because it needs an absent stored object.
- `RestCorrect`: `Spec => []RestIsAsGenerated`. The invariant adds that every stored object has the
  fields the API server fills in (`Filled`). The heart is a lemma for each way of comparing: if `Comparison` finds no
  difference between the stored object and the generated one, the stored one has what is asked, field by field. For lists compared
  by length and membership (`SameItems`) this needs that the generated list has no repetitions.
- `ForeignKept`: `Spec => KeepsForeignFields`. `Filled` is needed here too: an update carries over what it finds, and
  a field found empty would be generated as empty. For the kinds that others add to without being carried over (`Shared`) the
  proof is the converse of the one above: where nothing is lacking, the comparison finds no difference, so there is no update.
- `ProxyCorrect`: `Spec => []ProxyReachesPods`, from `RestIsAsGenerated` and from what the functions of `proxy.go` add
  to a container (`EnvLemma`, `BundleLemma`). A variable that the generator sets itself would win over that of the
  proxy; no generated container has one.

`Operator_proofs`, for every sequence of steps and set of specs of the operand controller, and for all bounds, failing
requests included (`OperatorAssumption`: what the two controllers assume of their constants):

- `WholeIsRight`: `Spec => []EndToEnd`. What it says of `Upgradeable` holds with a ZTWIM CR; without one the documented
  promise fails, as run `upgradeable_fault` shows.
- `PartsStayRight`: `QuietIsRight` and `ReadyHasNoFailure` of the operand controller, `NoLostWakeup` and
  `ReadyMatchesOperands` of the ZTWIM controller hold of the whole as well.
- `CreateOnlyInTheWhole`: `Spec => C!CreateOnlyKeepsObjects`.

The theorems of the components do not carry over by instantiation, since the steps of the whole are not all steps of both
components. A status write of the ZTWIM controller is a version of the ZTWIM CR that the operand controller's module knows
nothing of, and a write of the operand controller to its CR is neither a user's nor bounded like one. So the argument is about
steps. `OperandSide`: every step is one of the operand controller's module, or a step of the other controller that at most appends
a version of the ZTWIM CR with the same UID or uses up a fault (`ZTWIMWork`). `ZTWIMSide`: every step is one of the ZTWIM controller's
module, or somebody's write to the operand CR, or invisible to it. The inductive invariants of the components survive
the remaining steps too: `ZTWIMStatusRests` in `OperandRest_proofs`, because `ZTWIMSpecChangedPredicate` lets no update pass and a
pass reads nothing but the UID; `OperandWritten` and `Untouched` in `ZTWIMController_proofs`. The invariant of the whole,
`OperatorInv`, is `RestInv` and `IndInv` side by side. At rest the first says that Ready of the operand CR is what the
workload calls for, the second that the ZTWIM status and `Upgradeable` are the summary of that Ready; `TheyMeet` puts the two
together. The conversions between the two views, the UID of a version of the ZTWIM CR (`Uids`) and the summary of a version
of the operand CR (`Summaries`), commute with writes, events and relists. `OperatorInv` was checked with TLC on the instance of
`operator` before it was proved, and `EndToEnd` and `OperatorRests` also with one failing request, which takes too long
to be a run (2.4 million states).

Only model-checked: liveness (`RepairedByResync`, `Stabilises`, `ComesToRest`, `Repaired`, `OperatorRests`,
`Settles`, and the fairness half of `ImplementsOperandCR`), which the prover does not do. Every invariant and every action
property that a passing run checks has a theorem.

## 5. What is not modelled

- Message texts, logging, metrics, TLS and flag handling.
- The values of generated fields, those of federation and of the proxy configuration excepted:
  `ResourceUpdate` has one value per field and spec, and tells the fields apart by how they are compared, who
  else writes them and whether the generator sets them.
- The splitting and joining of `NO_PROXY`, which is a sequence of words.
- Which conditions of an operand CR are copied into the ZTWIM status next to its verdict.
- Syntax checks of labels, tolerations, affinity and URLs by the Kubernetes libraries, and
  the CRD's ranges and patterns; what an admitted CR cannot contain is not an input.
- `recreateClusterInstance`, which nothing calls.
- A changed `pluginName` of the CSI driver, which names another CSIDriver object.
- Leader election: two processes never run at once in the model.

- The order of the checks inside one validation, which decides only the reason text that is
  published with a refusal.
- All five controllers in one composition: the operand controllers do not read each other's
  CRs or objects, so `Operator` has one of them, and `ztwim` any number through their Ready
  conditions.
- Embedded manifests, generated deep copies, fakes, the end-to-end test utilities, and `errors.go`,
  whose error type no controller uses to decide anything.

Candidates for further work: `RestIsRight` for stripped managed-by labels in passes without SCCs and blindly created objects.
