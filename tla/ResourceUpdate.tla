--------------------------- MODULE ResourceUpdate ---------------------------
(***************************************************************************)
(* When an existing object is rewritten, and with what                     *)
(* (pkg/controller/utils/resource_comparison.go and the reconcile function *)
(* of each kind of object).  An object is a function from its fields to    *)
(* sequences of named items.  The operator generates some of the fields,   *)
(* carries others over from the object it found, compares the result with  *)
(* that object, and replaces the whole object when they differ.  The       *)
(* object has other writers: the API server fills in defaults, other       *)
(* controllers add what they own, and users edit.                          *)
(***************************************************************************)
EXTENDS Informer, Proxy, Functions

CONSTANTS
    Kinds,          \* the kinds of objects looked at
    Processes,      \* [proxy, createOnly]: environments the operator may be started with
    MaxLag,         \* bound: undelivered versions of the object
    MaxChanges      \* bound: user changes and restarts

ObjectKinds ==
    {"Service", "ServiceAccount", "ClusterRole", "ClusterRoleBinding", "Role",
     "RoleBinding", "CSIDriver", "Webhook", "SCC", "ClusterSPIFFEID", "ConfigMap",
     "Route", "StatefulSet", "AgentDaemonSet", "CSIDaemonSet", "Deployment"}

ASSUME KindsAssumption == Kinds \subseteq ObjectKinds

ASSUME ProcessesAssumption == Processes \subseteq [proxy: ProxyType, createOnly: BOOLEAN]

ASSUME BoundsAssumption == MaxLag \in Nat /\ MaxChanges \in Nat

VARIABLES
    kind,           \* of the object
    spec,           \* the CR's spec: 2 adds a custom label and other content to 1
    process,        \* the environment of the running operator
    objW,           \* the object: versions, Absent when it does not exist
    queued,         \* a pass is due
    changes         \* what is left of the bound

vars == <<kind, spec, process, objW, queued, changes>>

(***************************************************************************)
(* Comparison: the fields that are looked at, and how they are compared.   *)
(* "exact": equal.  "unordered": as many items and every desired one.      *)
(* "subset": every desired item.  "ifSet": equal, unless the generator     *)
(* leaves the field empty.                                                 *)
(***************************************************************************)
As(mode, fields) == {[field |-> f, mode |-> mode] : f \in fields}

ServiceNeedsUpdate == As("exact", {"type", "protocol", "selector"})

\* Slip: what the generator leaves open is compared all the same.
ServiceAccountNeedsUpdateExact == As("exact", {"automount", "pullSecrets"})

ServiceAccountNeedsUpdate == As("ifSet", {"automount", "pullSecrets"})

ClusterRoleNeedsUpdate == As("exact", {"rules", "aggregation"})
RoleNeedsUpdate == As("exact", {"rules"})
ClusterRoleBindingNeedsUpdate == As("exact", {"subjects", "roleRef"})
RoleBindingNeedsUpdate == As("exact", {"subjects", "roleRef"})
CSIDriverNeedsUpdate == As("exact", {"attach", "podInfo", "tokenRequests"})
ValidatingWebhookConfigurationNeedsUpdate ==
    As("exact", {"webhooks", "caBundle", "selectors"})
SecurityContextConstraintsNeedsUpdate ==
    As("unordered", {"users"}) \cup As("exact", {"flags", "strategies"})
ClusterSPIFFEIDNeedsUpdate == As("unordered", {"dnsNames"}) \cup As("exact", {"template"})

\* Slip: the environment of a container is not compared.
containerSpecModifiedNoEnv == As("exact", {"container", "scheme", "mounts"})

\* Ports and probes are compared with the protocol and the scheme the API server fills
\* in; the timing of a probe is not compared.
containerSpecModified == As("exact", {"container", "scheme", "env", "mounts"})
sidecarModified == As("exact", {"sidecarEnv", "sidecarMounts"})
volumesEqual == As("unordered", {"volumes"})
podTemplate == As("exact", {"selector", "podLabels", "placement"})

StatefulSetNeedsUpdate ==
    podTemplate \cup containerSpecModified \cup sidecarModified \cup volumesEqual
        \cup As("exact", {"claims", "hash"})
DeploymentNeedsUpdate == podTemplate \cup containerSpecModified \cup volumesEqual
DaemonSetNeedsUpdate == podTemplate \cup containerSpecModified \cup volumesEqual

LabelsMatch == As("subset", {"labels"})
AnnotationsMatch == As("subset", {"annotations"})

\* needsUpdate of the controllers asks for the configuration hash first.
configHash == As("exact", {"hash"})

\* ConfigMaps and Routes do not use ResourceNeedsUpdate.
configMapDiffers == As("exact", {"data", "labels"})
checkRouteConflict == As("exact", {"routeSpec", "labels"})

ResourceNeedsUpdate(k) ==
    LabelsMatch \cup AnnotationsMatch \cup
    CASE k = "Service" -> ServiceNeedsUpdate
      [] k = "ServiceAccount" -> ServiceAccountNeedsUpdate
      [] k = "ClusterRole" -> ClusterRoleNeedsUpdate
      [] k = "ClusterRoleBinding" -> ClusterRoleBindingNeedsUpdate
      [] k = "Role" -> RoleNeedsUpdate
      [] k = "RoleBinding" -> RoleBindingNeedsUpdate
      [] k = "CSIDriver" -> CSIDriverNeedsUpdate
      [] k = "Webhook" -> ValidatingWebhookConfigurationNeedsUpdate
      [] k = "SCC" -> SecurityContextConstraintsNeedsUpdate
      [] k = "ClusterSPIFFEID" -> ClusterSPIFFEIDNeedsUpdate
      [] k = "StatefulSet" -> StatefulSetNeedsUpdate
      [] k = "Deployment" -> DeploymentNeedsUpdate
      [] k \in {"AgentDaemonSet", "CSIDaemonSet"} -> DaemonSetNeedsUpdate

Comparison(k) ==
    CASE k = "ConfigMap" -> configMapDiffers
      [] k = "Route" -> checkRouteConflict
      [] k \in {"StatefulSet", "Deployment", "AgentDaemonSet"} ->
            configHash \cup ResourceNeedsUpdate(k)
      [] OTHER -> ResourceNeedsUpdate(k)

Matches(mode, existing, desired) ==
    CASE mode = "exact" -> existing = desired
      [] mode = "unordered" -> /\ Len(existing) = Len(desired)
                               /\ Range(desired) \subseteq Range(existing)
      [] mode = "subset" -> Range(desired) \subseteq Range(existing)
      [] mode = "ifSet" -> desired = <<>> \/ existing = desired

needsUpdate(k, existing, desired) ==
    \E c \in Comparison(k) : ~Matches(c.mode, existing[c.field], desired[c.field])

(***************************************************************************)
(* Generation.                                                             *)
(***************************************************************************)
PodFields == {"labels", "annotations", "selector", "podLabels", "podAnnotations",
              "placement", "container", "scheme", "timing", "env", "mounts", "volumes"}

Fields(k) ==
    CASE k = "Service" -> {"labels", "annotations", "type", "protocol", "selector",
                           "clusterIP", "traffic"}
      [] k = "ServiceAccount" -> {"labels", "annotations", "automount", "pullSecrets"}
      [] k = "ClusterRole" -> {"labels", "annotations", "rules", "aggregation"}
      [] k = "Role" -> {"labels", "annotations", "rules"}
      [] k \in {"ClusterRoleBinding", "RoleBinding"} ->
            {"labels", "annotations", "subjects", "roleRef"}
      [] k = "CSIDriver" -> {"labels", "annotations", "attach", "podInfo", "tokenRequests"}
      [] k = "Webhook" -> {"labels", "annotations", "webhooks", "caBundle", "selectors"}
      [] k = "SCC" -> {"labels", "annotations", "users", "flags", "strategies", "priority"}
      [] k = "ClusterSPIFFEID" -> {"labels", "annotations", "dnsNames", "template"}
      [] k = "ConfigMap" -> {"labels", "data"}
      [] k = "Route" -> {"labels", "routeSpec"}
      [] k = "StatefulSet" -> PodFields \cup {"claims", "hash", "sidecarEnv", "sidecarMounts"}
      [] k \in {"AgentDaemonSet", "Deployment"} -> PodFields \cup {"hash"}
      [] k = "CSIDaemonSet" -> PodFields

\* What the API server fills in where the writer left a field empty.
DefaultOf(f) == << Item(f, << "default" >>) >>
Defaulted == {"protocol", "clusterIP", "traffic", "selectors", "scheme"}

WithDefaults(v) ==
    [f \in DOMAIN v |-> IF f \in Defaulted /\ v[f] = <<>> THEN DefaultOf(f) ELSE v[f]]

\* Fields the manifests and generators leave empty, the annotations of a Service, which
\* ask for a serving certificate, excepted.
LeftOpen == Defaulted \cup {"automount", "pullSecrets", "aggregation", "tokenRequests",
                            "caBundle", "priority", "podAnnotations"}

Generated0(k, s) ==
    [f \in Fields(k) |->
        IF f \in LeftOpen \/ (f = "annotations" /\ k # "Service") THEN <<>>
        ELSE IF f \in {"labels", "podLabels"}
        THEN IF s = 2 THEN << Item("custom", << "label" >>) >> ELSE <<>>
        ELSE IF f \in {"data", "hash", "container", "routeSpec"}
        THEN << Item(f, IF s = 2 THEN << "two" >> ELSE << "one" >>) >>
        ELSE IF f \in {"users", "dnsNames", "volumes"}
        THEN << Item(f, << "first" >>), Item(f, << "second" >>) >>
        ELSE << Item(f, << "generated" >>) >>]

GenerateSpireServerStatefulSet(s, p) == AddProxyConfigToPod(Generated0("StatefulSet", s), p)

generateSpireAgentDaemonSet(s, p) ==
    AddProxyConfigToPodWithInternalNoProxy(Generated0("AgentDaemonSet", s), p)

\* Slip: the scheme of the probes is left to the API server here too.
generateDeploymentOpen(s, p) == AddProxyConfigToPod(Generated0("Deployment", s), p)

\* The only generator of a workload that leaves nothing open.
generateDeployment(s, p) ==
    [AddProxyConfigToPod(Generated0("Deployment", s), p) EXCEPT !.scheme = DefaultOf("scheme")]

Generated(k, s, p) ==
    CASE k = "StatefulSet" -> GenerateSpireServerStatefulSet(s, p)
      [] k = "AgentDaemonSet" -> generateSpireAgentDaemonSet(s, p)
      [] k = "Deployment" -> generateDeployment(s, p)
      [] OTHER -> Generated0(k, s)

(***************************************************************************)
(* What is carried over from the object found, where it has a value.       *)
(***************************************************************************)
reconcileService == {"clusterIP", "traffic"}

\* Slip: the CA bundle is not among them.
reconcileWebhookWithoutCA == {"selectors"}

reconcileWebhook == {"caBundle", "selectors"}
reconcileCSIDriver == {"tokenRequests"}
reconcileSCC == {"priority"}

Preserved(k) ==
    CASE k = "Service" -> reconcileService
      [] k = "Webhook" -> reconcileWebhook
      [] k = "CSIDriver" -> reconcileCSIDriver
      [] k = "SCC" -> reconcileSCC
      [] OTHER -> {}

\* Slip: only what is compared is written back.
PreparedCompared(k, existing, desired) ==
    [f \in {c.field : c \in Comparison(k)} |->
        IF f = "protocol" THEN DefaultOf(f) ELSE desired[f]]

\* A Service's ports get their protocol before they are compared.
Prepared(k, existing, desired) ==
    [f \in DOMAIN desired |->
        IF f \in Preserved(k) /\ existing[f] # <<>> THEN existing[f]
        ELSE IF f = "protocol" THEN DefaultOf(f)
        ELSE desired[f]]

(***************************************************************************)
(* The object and its writers.                                             *)
(***************************************************************************)
Object(v) == [exists |-> TRUE, val |-> v]
Absent == [exists |-> FALSE, val |-> [f \in Fields(kind) |-> <<>>]]

\* Once created, the API server lets no update change these.
Immutable(k) ==
    CASE k \in {"ClusterRoleBinding", "RoleBinding"} -> {"roleRef"}
      [] k = "CSIDriver" -> {"attach"}
      [] k = "StatefulSet" -> {"selector", "claims"}
      [] k \in {"AgentDaemonSet", "CSIDaemonSet", "Deployment"} -> {"selector"}
      [] OTHER -> {}

\* What other controllers add: the service CA operator to a Service, the OpenShift
\* registry to a ServiceAccount, spire-controller-manager to its webhook, and the
\* Deployment controller to a Deployment.
FilledIn(k) ==
    CASE k = "Service" -> [annotations |-> Item("signed-by", << "service-ca" >>)]
      [] k = "ServiceAccount" -> [pullSecrets |-> Item("dockercfg", << "registry" >>)]
      [] k = "Webhook" -> [caBundle |-> Item("caBundle", << "controller-manager" >>)]
      [] k = "Deployment" -> [annotations |-> Item("revision", << "1" >>)]
      [] OTHER -> <<>>

\* The operator is started where the object does not exist yet, or was written by a
\* process with another environment.
Init ==
    /\ kind \in Kinds /\ spec = 1
    /\ process \in Processes
    /\ objW \in {<<Absent>>} \cup
                {<<Object(WithDefaults(Generated(kind, 1, p.proxy)))>> : p \in Processes}
    /\ queued = TRUE
    /\ changes = MaxChanges

Write(v) == Len(objW) <= MaxLag /\ objW' = Append(objW, v)

Change ==
    /\ changes > 0 /\ changes' = changes - 1
    /\ UNCHANGED kind

\* The items of a list in another order.
Reordered(list) == [i \in DOMAIN list |-> list[Len(list) + 1 - i]]

\* A user clears a field, replaces it, adds to it or reorders it.
EditField(f) ==
    /\ Change
    /\ Api(objW).exists /\ f \in Fields(kind) \ Immutable(kind)
    /\ LET old == Api(objW).val[f]
       IN  \E new \in {<<>>, << Item(f, << "edited" >>) >>,
                       Append(old, Item("extra", << "edited" >>)), Reordered(old)} :
              /\ new # old
              /\ Write(Object(WithDefaults([Api(objW).val EXCEPT ![f] = new])))
    /\ UNCHANGED <<spec, process, queued>>

\* A user deletes the object and creates it with another value of an immutable field.
ReplaceObject(f) ==
    /\ Change
    /\ Api(objW).exists /\ f \in Immutable(kind)
    /\ Write(Object([Api(objW).val EXCEPT ![f] = << Item(f, << "edited" >>) >>]))
    /\ UNCHANGED <<spec, process, queued>>

DeleteObject ==
    /\ Change
    /\ Api(objW).exists
    /\ Write(Absent)
    /\ UNCHANGED <<spec, process, queued>>

EditSpec ==
    /\ Change
    /\ spec' = 3 - spec
    /\ queued' = TRUE
    /\ UNCHANGED <<process, objW>>

\* The Subscription gets another proxy configuration, or none, and OLM replaces the
\* operator's pod.
Restart ==
    /\ Change
    /\ process' \in Processes
    /\ objW' = Relist(objW)
    /\ queued' = TRUE
    /\ UNCHANGED spec

FillIn(f) ==
    /\ Api(objW).exists
    /\ f \in DOMAIN FilledIn(kind)
    /\ LET item == FilledIn(kind)[f]
       IN  /\ item \notin Range(Api(objW).val[f])
           /\ Write(Object([Api(objW).val EXCEPT ![f] = Append(@, item)]))
    /\ UNCHANGED <<kind, spec, process, queued, changes>>

DeliverObject ==
    /\ Len(objW) > 1
    /\ objW' = Deliver(objW)
    /\ queued' = TRUE
    /\ UNCHANGED <<kind, spec, process, changes>>

(***************************************************************************)
(* The pass.  The controllers validate the proxy configuration first, that *)
(* of the CSI driver excepted.                                             *)
(***************************************************************************)
Accepted == kind \in {"CSIDriver", "CSIDaemonSet"} \/ ValidateProxyConfiguration(process.proxy)

\* SecurityContextConstraints are updated in create-only mode too.
Guarded == process.createOnly /\ kind # "SCC"

CreateObject(v) ==
    IF Api(objW).exists THEN queued' = TRUE /\ UNCHANGED objW
    ELSE objW' = Append(objW, Object(WithDefaults(v))) /\ queued' = FALSE

\* The update carries the cached resourceVersion and replaces the object.
UpdateObject(v) ==
    IF Drained(objW) /\ \A f \in Immutable(kind) : v[f] = Api(objW).val[f]
    THEN objW' = Store(objW, Object(WithDefaults(v))) /\ queued' = FALSE
    ELSE queued' = TRUE /\ UNCHANGED objW

Reconcile ==
    /\ queued
    /\ LET existing == Cached(objW)
           desired == Generated(kind, spec, process.proxy)
           prepared == Prepared(kind, existing.val, desired)
       IN  \/ ~Accepted /\ queued' = FALSE /\ UNCHANGED objW
           \/ Accepted /\ ~existing.exists /\ CreateObject(desired)
           \/ /\ Accepted /\ existing.exists
              /\ Guarded \/ ~needsUpdate(kind, existing.val, prepared)
              /\ queued' = FALSE /\ UNCHANGED objW
           \/ /\ Accepted /\ existing.exists /\ ~Guarded
              /\ needsUpdate(kind, existing.val, prepared)
              /\ UpdateObject(prepared)
    /\ UNCHANGED <<kind, spec, process, changes>>

Users ==
    \/ \E f \in Fields(kind) : EditField(f) \/ ReplaceObject(f)
    \/ DeleteObject \/ EditSpec \/ Restart

Others == \E f \in Fields(kind) : FillIn(f)

Next == Users \/ Others \/ DeliverObject \/ Reconcile

\* The worker and the watch never stop for good.
Spec == Init /\ [][Next]_vars /\ WF_vars(DeliverObject) /\ WF_vars(Reconcile)

(***************************************************************************)
(* Properties.                                                             *)
(***************************************************************************)
TypeOK ==
    /\ kind \in Kinds /\ spec \in {1, 2}
    /\ process \in Processes
    /\ Len(objW) \in 1..(MaxLag + 2)
    /\ \A i \in DOMAIN objW : DOMAIN objW[i].val = Fields(kind)
    /\ queued \in BOOLEAN /\ changes \in 0..MaxChanges

\* Set by the API server, by another controller or by an administrator, and kept
\* according to the reconcile functions ("Preserve Kubernetes-managed fields").
Carried == {"clusterIP", "traffic", "caBundle", "selectors", "tokenRequests", "priority"}

\* Nor are these compared: what the generators leave open, and the timing of probes.
Unasked == Carried \cup {"automount", "pullSecrets", "timing", "podAnnotations"}

AsAsked(f, have, want) ==
    IF f \in {"labels", "annotations"} THEN Range(want) \subseteq Range(have)
                                       ELSE Range(want) = Range(have)

AtRest == ~queued /\ Drained(objW)

\* At rest the object is there, and outside create-only mode it has every field it is
\* asked to have, whoever edited, replaced or deleted it while the operator was looking
\* at an older version, and with whatever configuration it was written before.
RestIsAsGenerated ==
    AtRest /\ Accepted =>
        /\ Api(objW).exists
        /\ \/ process.createOnly
           \/ LET want == WithDefaults(Generated(kind, spec, process.proxy))
              IN  \A f \in Fields(kind) \ Unasked : AsAsked(f, Api(objW).val[f], want[f])

\* At rest and outside create-only mode, every container of a workload has the proxy
\* variables and the CA bundle of the running process, or none, with a volume for the
\* bundle; with a proxy, the agent has NO_PROXY entries for the server and the
\* Kubernetes API after those of the process.
ProxyReachesPods ==
    AtRest /\ Accepted /\ ~process.createOnly /\ "hash" \in Fields(kind) =>
        LET val == Api(objW).val
            p == process.proxy
            internal == IF kind = "AgentDaemonSet" THEN GetInternalNoProxyEntries ELSE <<>>
            noProxy == IF IsProxyEnabled(p) THEN p.noProxy \o internal ELSE <<>>
            Has(f, name) == \E i \in DOMAIN val[f] : val[f][i].name = name
            Value(f, name) == {val[f][i].value : i \in {j \in DOMAIN val[f] : val[f][j].name = name}}
        IN  /\ \A f \in EnvFields \cap Fields(kind) :
                 /\ Value(f, "HTTP_PROXY") = {p.http} \ {<<>>}
                 /\ Value(f, "HTTPS_PROXY") = {p.https} \ {<<>>}
                 /\ Value(f, "NO_PROXY") = {noProxy} \ {<<>>}
            /\ \A f \in MountFields \cap Fields(kind) :
                 Has(f, "trusted-ca-bundle") = (p.ca # <<>>)
            /\ Value("volumes", "trusted-ca-bundle") = {p.ca} \ {<<>>}

\* Something the operator asks for is missing or different.
Lacks(k, have, want) ==
    \E f \in Fields(k) \ Unasked :
        IF f \in {"labels", "annotations"} THEN ~(Range(want[f]) \subseteq Range(have[f]))
                                           ELSE have[f] # want[f]

\* What others have written: an update leaves the fields it carries over as they are.
\* The pull secrets of a ServiceAccount and the annotations of a Service or Deployment
\* are not carried over, and an update erases what other controllers had added to them;
\* but what they add is never the reason: the object also lacked something it is asked
\* to have.
KeepsForeignFields ==
    [][queued /\ ~queued' /\ Api(objW).exists /\ Api(objW').exists =>
          LET old == Api(objW).val
              new == Api(objW').val
          IN  /\ \A f \in Carried \cap Fields(kind) : new[f] = old[f]
              /\ \A f \in DOMAIN FilledIn(kind) :
                    FilledIn(kind)[f] \in Range(old[f]) \ Range(new[f]) =>
                       Lacks(kind, old, WithDefaults(Generated(kind, spec, process.proxy)))]_vars

\* An object whose immutable fields are not the generated ones: every update is refused,
\* and the pass repeated until somebody deletes the object.
Stuck == \E f \in Immutable(kind) :
    Api(objW).exists /\ Api(objW).val[f] # Generated(kind, spec, process.proxy)[f]

\* The writers agree: neither the defaults of the API server nor what other controllers
\* add to an object makes the operator write it again and again.
Settles == <>[](~queued \/ Stuck)
=============================================================================
