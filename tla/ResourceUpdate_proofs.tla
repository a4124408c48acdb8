----------------------- MODULE ResourceUpdate_proofs -----------------------
(***************************************************************************)
(* Proofs about ResourceUpdate, for any kinds of objects, any environments *)
(* of the operator process and any bounds: at rest the object is as        *)
(* generated and its pods have the proxy configuration of the process, and *)
(* no update takes away what others have set.                              *)
(***************************************************************************)
EXTENDS ResourceUpdate, InformerTheorems, FiniteSetTheorems

(***************************************************************************)
(* The tables.                                                             *)
(***************************************************************************)

\* The fields of each kind of object.
LEMMA FieldsLemma ==
    /\ Fields("Service") = {"labels", "annotations", "type", "protocol", "selector",
                              "clusterIP", "traffic"}
    /\ Fields("ServiceAccount") = {"labels", "annotations", "automount", "pullSecrets"}
    /\ Fields("ClusterRole") = {"labels", "annotations", "rules", "aggregation"}
    /\ Fields("ClusterRoleBinding") = {"labels", "annotations", "subjects", "roleRef"}
    /\ Fields("Role") = {"labels", "annotations", "rules"}
    /\ Fields("RoleBinding") = {"labels", "annotations", "subjects", "roleRef"}
    /\ Fields("CSIDriver") = {"labels", "annotations", "attach", "podInfo", "tokenRequests"}
    /\ Fields("Webhook") = {"labels", "annotations", "webhooks", "caBundle", "selectors"}
    /\ Fields("SCC") = {"labels", "annotations", "users", "flags", "strategies", "priority"}
    /\ Fields("ClusterSPIFFEID") = {"labels", "annotations", "dnsNames", "template"}
    /\ Fields("ConfigMap") = {"labels", "data"}
    /\ Fields("Route") = {"labels", "routeSpec"}
    /\ Fields("StatefulSet") = PodFields \cup {"claims", "hash", "sidecarEnv", "sidecarMounts"}
    /\ Fields("AgentDaemonSet") = PodFields \cup {"hash"}
    /\ Fields("CSIDaemonSet") = PodFields
    /\ Fields("Deployment") = PodFields \cup {"hash"}
BY Zenon DEF Fields

\* What is compared of each kind of object.
LEMMA ComparisonLemma ==
    /\ Comparison("Service") = ResourceNeedsUpdate("Service")
    /\ Comparison("ServiceAccount") = ResourceNeedsUpdate("ServiceAccount")
    /\ Comparison("ClusterRole") = ResourceNeedsUpdate("ClusterRole")
    /\ Comparison("ClusterRoleBinding") = ResourceNeedsUpdate("ClusterRoleBinding")
    /\ Comparison("Role") = ResourceNeedsUpdate("Role")
    /\ Comparison("RoleBinding") = ResourceNeedsUpdate("RoleBinding")
    /\ Comparison("CSIDriver") = ResourceNeedsUpdate("CSIDriver")
    /\ Comparison("Webhook") = ResourceNeedsUpdate("Webhook")
    /\ Comparison("SCC") = ResourceNeedsUpdate("SCC")
    /\ Comparison("ClusterSPIFFEID") = ResourceNeedsUpdate("ClusterSPIFFEID")
    /\ Comparison("ConfigMap") = configMapDiffers
    /\ Comparison("Route") = checkRouteConflict
    /\ Comparison("StatefulSet") = configHash \cup ResourceNeedsUpdate("StatefulSet")
    /\ Comparison("AgentDaemonSet") = configHash \cup ResourceNeedsUpdate("AgentDaemonSet")
    /\ Comparison("CSIDaemonSet") = ResourceNeedsUpdate("CSIDaemonSet")
    /\ Comparison("Deployment") = configHash \cup ResourceNeedsUpdate("Deployment")
BY Zenon DEF Comparison

\* The fields ResourceNeedsUpdate looks at.
LEMMA ResourceNeedsUpdateLemma ==
    /\ ResourceNeedsUpdate("Service") = LabelsMatch \cup AnnotationsMatch \cup ServiceNeedsUpdate
    /\ ResourceNeedsUpdate("ServiceAccount") = LabelsMatch \cup AnnotationsMatch \cup ServiceAccountNeedsUpdate
    /\ ResourceNeedsUpdate("ClusterRole") = LabelsMatch \cup AnnotationsMatch \cup ClusterRoleNeedsUpdate
    /\ ResourceNeedsUpdate("ClusterRoleBinding") = LabelsMatch \cup AnnotationsMatch \cup ClusterRoleBindingNeedsUpdate
    /\ ResourceNeedsUpdate("Role") = LabelsMatch \cup AnnotationsMatch \cup RoleNeedsUpdate
    /\ ResourceNeedsUpdate("RoleBinding") = LabelsMatch \cup AnnotationsMatch \cup RoleBindingNeedsUpdate
    /\ ResourceNeedsUpdate("CSIDriver") = LabelsMatch \cup AnnotationsMatch \cup CSIDriverNeedsUpdate
    /\ ResourceNeedsUpdate("Webhook") = LabelsMatch \cup AnnotationsMatch \cup ValidatingWebhookConfigurationNeedsUpdate
    /\ ResourceNeedsUpdate("SCC") = LabelsMatch \cup AnnotationsMatch \cup SecurityContextConstraintsNeedsUpdate
    /\ ResourceNeedsUpdate("ClusterSPIFFEID") = LabelsMatch \cup AnnotationsMatch \cup ClusterSPIFFEIDNeedsUpdate
    /\ ResourceNeedsUpdate("StatefulSet") = LabelsMatch \cup AnnotationsMatch \cup StatefulSetNeedsUpdate
    /\ ResourceNeedsUpdate("AgentDaemonSet") = LabelsMatch \cup AnnotationsMatch \cup DaemonSetNeedsUpdate
    /\ ResourceNeedsUpdate("CSIDaemonSet") = LabelsMatch \cup AnnotationsMatch \cup DaemonSetNeedsUpdate
    /\ ResourceNeedsUpdate("Deployment") = LabelsMatch \cup AnnotationsMatch \cup DeploymentNeedsUpdate
BY Zenon DEF ResourceNeedsUpdate

\* The ways of comparing.
LEMMA MatchesLemma ==
    ASSUME NEW a, NEW b
    PROVE  /\ Matches("exact", a, b) <=> a = b
           /\ Matches("subset", a, b) <=> Range(b) \subseteq Range(a)
           /\ Matches("unordered", a, b) <=> Len(a) = Len(b) /\ Range(b) \subseteq Range(a)
BY Zenon DEF Matches

Compares(k, f, mode) == [field |-> f, mode |-> mode] \in Comparison(k)

Lists == {"users", "dnsNames", "volumes"}
Maps == {"labels", "annotations"}

\* A field that appears in a comparison is compared that way.
LEMMA AsLemma ==
    ASSUME NEW mode, NEW F
    PROVE  \A f \in F : [field |-> f, mode |-> mode] \in As(mode, F)
BY DEF As

\* No field the operator answers for is overlooked: each is compared exactly, but for
\* lists whose order means nothing and maps others may add to.
LEMMA NothingOverlooked ==
    ASSUME NEW k \in ObjectKinds, NEW f \in Fields(k) \ Unasked
    PROVE  \/ Compares(k, f, "exact")
           \/ Compares(k, f, "unordered") /\ f \in Lists
           \/ Compares(k, f, "subset") /\ f \in Maps
<1> USE AsLemma DEF Compares, Lists, Maps, LabelsMatch, AnnotationsMatch, Unasked, Carried
<1>1. CASE k = "Service"
  BY <1>1, FieldsLemma, ComparisonLemma, ResourceNeedsUpdateLemma
     DEF ServiceNeedsUpdate
<1>2. CASE k = "ServiceAccount"
  BY <1>2, FieldsLemma, ComparisonLemma, ResourceNeedsUpdateLemma
     DEF ServiceAccountNeedsUpdate
<1>3. CASE k = "ClusterRole"
  BY <1>3, FieldsLemma, ComparisonLemma, ResourceNeedsUpdateLemma
     DEF ClusterRoleNeedsUpdate
<1>4. CASE k = "ClusterRoleBinding"
  BY <1>4, FieldsLemma, ComparisonLemma, ResourceNeedsUpdateLemma
     DEF ClusterRoleBindingNeedsUpdate
<1>5. CASE k = "Role"
  BY <1>5, FieldsLemma, ComparisonLemma, ResourceNeedsUpdateLemma
     DEF RoleNeedsUpdate
<1>6. CASE k = "RoleBinding"
  BY <1>6, FieldsLemma, ComparisonLemma, ResourceNeedsUpdateLemma
     DEF RoleBindingNeedsUpdate
<1>7. CASE k = "CSIDriver"
  BY <1>7, FieldsLemma, ComparisonLemma, ResourceNeedsUpdateLemma
     DEF CSIDriverNeedsUpdate
<1>8. CASE k = "Webhook"
  BY <1>8, FieldsLemma, ComparisonLemma, ResourceNeedsUpdateLemma
     DEF ValidatingWebhookConfigurationNeedsUpdate
<1>9. CASE k = "SCC"
  BY <1>9, FieldsLemma, ComparisonLemma, ResourceNeedsUpdateLemma
     DEF SecurityContextConstraintsNeedsUpdate
<1>10. CASE k = "ClusterSPIFFEID"
  BY <1>10, FieldsLemma, ComparisonLemma, ResourceNeedsUpdateLemma
     DEF ClusterSPIFFEIDNeedsUpdate
<1>11. CASE k = "ConfigMap"
  BY <1>11, FieldsLemma, ComparisonLemma
     DEF configMapDiffers
<1>12. CASE k = "Route"
  BY <1>12, FieldsLemma, ComparisonLemma
     DEF checkRouteConflict
<1>13. CASE k = "StatefulSet"
  BY <1>13, FieldsLemma, ComparisonLemma, ResourceNeedsUpdateLemma
     DEF StatefulSetNeedsUpdate, configHash, podTemplate, containerSpecModified,
         sidecarModified, volumesEqual, PodFields
<1>14. CASE k = "AgentDaemonSet"
  BY <1>14, FieldsLemma, ComparisonLemma, ResourceNeedsUpdateLemma
     DEF DaemonSetNeedsUpdate, configHash, podTemplate, containerSpecModified,
         volumesEqual, PodFields
<1>15. CASE k = "CSIDaemonSet"
  BY <1>15, FieldsLemma, ComparisonLemma, ResourceNeedsUpdateLemma
     DEF DaemonSetNeedsUpdate, podTemplate, containerSpecModified, volumesEqual, PodFields
<1>16. CASE k = "Deployment"
  BY <1>16, FieldsLemma, ComparisonLemma, ResourceNeedsUpdateLemma
     DEF DeploymentNeedsUpdate, configHash, podTemplate, containerSpecModified,
         volumesEqual, PodFields
<1>17. QED
  BY <1>1, <1>2, <1>3, <1>4, <1>5, <1>6, <1>7, <1>8, <1>9, <1>10, <1>11, <1>12, <1>13, <1>14, <1>15, <1>16 DEF ObjectKinds

(***************************************************************************)
(* Values.                                                                 *)
(***************************************************************************)

\* The names and words that items are made of.  They are all strings; the provers do not
\* know it of a literal.
Literals == {"custom", "label", "one", "two", "first", "second", "generated", "default",
             "edited", "extra", "signed-by", "service-ca", "dockercfg", "registry",
             "controller-manager", "revision", "1", "caBundle", "HTTP_PROXY",
             "HTTPS_PROXY", "NO_PROXY", "spire-server", "kubernetes.default",
             "trusted-ca-bundle", "ca-trust"}
Words == STRING \cup (UNION {Fields(k) : k \in ObjectKinds}) \cup Literals

ItemType == [name: Words, value: Seq(Words)]
Val(k) == [Fields(k) -> Seq(ItemType)]
Version(k) == [exists: BOOLEAN, val: Val(k)]

\* What the API server fills in is never empty in an object it stores.
Filled(v) == \A f \in Defaulted \cap DOMAIN v : v[f] # <<>>

\* No item is in the list twice.
Distinct(list) == \A i, j \in DOMAIN list : list[i] = list[j] => i = j

\* A sequence over a set is one over any larger set.
LEMMA WidenLemma ==
    ASSUME NEW S, NEW T, S \subseteq T, NEW q \in Seq(S)
    PROVE  q \in Seq(T)
OBVIOUS

\* What is known of the words.
LEMMA WordsLemma ==
    /\ Literals \subseteq Words
    /\ \A k \in ObjectKinds : Fields(k) \subseteq Words
    /\ \A w \in Words : << w >> \in Seq(Words)
    /\ \A q \in Seq(STRING) : q \in Seq(Words)
<1>1. STRING \subseteq Words
  BY Zenon DEF Words
<1>2. \A k \in ObjectKinds : Fields(k) \subseteq Words
  BY Zenon DEF Words
<1>3. Literals \subseteq Words
  BY Zenon DEF Words
<1>4. \A w \in Words : << w >> \in Seq(Words)
  OBVIOUS
<1>5. \A q \in Seq(STRING) : q \in Seq(Words)
  BY <1>1, WidenLemma
<1>6. QED
  BY <1>2, <1>3, <1>4, <1>5

\* An item is a record of a name and a value.
LEMMA ItemLemma ==
    ASSUME NEW n \in Words, NEW v \in Seq(Words)
    PROVE  /\ Item(n, v) \in ItemType
           /\ Item(n, v).name = n
           /\ Item(n, v).value = v
           /\ << Item(n, v) >> \in Seq(ItemType)
           /\ << Item(n, v) >> # <<>>
BY DEF Item, ItemType

\* What the API server fills in is a list of one item.
LEMMA DefaultLemma ==
    ASSUME NEW f \in Words
    PROVE  /\ DefaultOf(f) \in Seq(ItemType)
           /\ DefaultOf(f) # <<>>
<1>1. << "default" >> \in Seq(Words)
  BY WordsLemma DEF Literals
<1>2. QED
  BY <1>1, ItemLemma DEF DefaultOf

\* Lists of the same length, the one without repetitions and contained in the other, have
\* the same items: the order and the repetitions that Matches ignores hide nothing.
LEMMA SameItems ==
    ASSUME NEW S, NEW a \in Seq(S), NEW b \in Seq(S),
           Len(a) = Len(b), Range(b) \subseteq Range(a), Distinct(b)
    PROVE  Range(a) = Range(b)
<1> DEFINE n == Len(a)
           T == Range(a)
<1>1. n \in Nat /\ DOMAIN a = 1..n /\ DOMAIN b = 1..n
  OBVIOUS
<1>2. /\ a \in [1..n -> T] /\ \A t \in T : \E i \in 1..n : a[i] = t
      /\ a \in Surjection(1..n, T)
  BY <1>1 DEF Range, Surjection
<1>3. b \in [1..n -> T]
  <2>1. \A i \in DOMAIN b : b[i] \in Range(b)
    BY Zenon DEF Range
  <2>2. \A i \in 1..n : b[i] \in T
    BY <1>1, <2>1
  <2> HIDE DEF n, T
  <2>3. QED
    BY <1>1, <2>2
<1>4. b \in Injection(1..n, T)
  BY <1>1, <1>3 DEF Distinct, Injection, IsInjective
<1>5. IsFiniteSet(1..n) /\ Cardinality(1..n) = n
  <2>1. 1 \in Int /\ n \in Int
    BY <1>1
  <2>2. IsFiniteSet(1..n) /\ Cardinality(1..n) = IF 1 > n THEN 0 ELSE n - 1 + 1
    BY <2>1, FS_Interval
  <2>3. QED
    BY <1>1, <2>2
<1> HIDE DEF n, T
<1>6. IsFiniteSet(T) /\ Cardinality(T) <= n
  BY <1>2, <1>5, FS_Surjection
<1>7. n <= Cardinality(T)
  BY <1>4, <1>5, <1>6, FS_Injection
<1>8. Cardinality(T) = n
  BY <1>1, <1>6, <1>7, FS_CardinalityType
<1>9. b \in Surjection(1..n, T)
  BY <1>4, <1>5, <1>6, <1>8, FS_Injection
<1>10. \A t \in T : \E i \in 1..n : b[i] = t
  BY <1>9 DEF Surjection
<1>11. T \subseteq Range(b)
  BY <1>1, <1>10 DEF Range, n
<1>12. QED
  BY <1>11 DEF T

(***************************************************************************)
(* The proxy configuration of a pod.                                       *)
(***************************************************************************)

\* An item whose name is free is added, and nothing else.
LEMMA AddMissingLemma ==
    ASSUME NEW list \in Seq(ItemType), NEW item \in ItemType
    PROVE  /\ AddMissing(list, item) \in Seq(ItemType)
           /\ (\A x \in Range(list) : x.name # item.name) =>
                 Range(AddMissing(list, item)) = Range(list) \cup {item}
           /\ Distinct(list) => Distinct(AddMissing(list, item))
<1>1. CASE \E i \in DOMAIN list : list[i].name = item.name
  BY <1>1 DEF AddMissing, Range
<1>2. CASE ~\E i \in DOMAIN list : list[i].name = item.name
  <2>1. AddMissing(list, item) = Append(list, item)
    BY <1>2 DEF AddMissing
  <2>2. /\ Append(list, item) \in Seq(ItemType)
        /\ DOMAIN list = 1..Len(list) /\ Len(list) \in Nat
        /\ DOMAIN Append(list, item) = 1..(Len(list) + 1)
        /\ \A i \in 1..Len(list) : Append(list, item)[i] = list[i]
        /\ Append(list, item)[Len(list) + 1] = item
    OBVIOUS
  <2>3. Range(Append(list, item)) = Range(list) \cup {item}
    BY <2>2 DEF Range
  <2>4. Distinct(list) => Distinct(Append(list, item))
    BY <1>2, <2>2 DEF Distinct
  <2>5. QED
    BY <2>1, <2>2, <2>3, <2>4
<1>3. QED
  BY <1>1, <1>2

\* A variable whose name is free is set when it has a value.
LEMMA AddVariableLemma ==
    ASSUME NEW list \in Seq(ItemType), NEW item \in ItemType
    PROVE  /\ AddVariable(list, item) \in Seq(ItemType)
           /\ (\A x \in Range(list) : x.name # item.name) =>
                 Range(AddVariable(list, item)) =
                     Range(list) \cup (IF item.value = <<>> THEN {} ELSE {item})
<1>1. CASE item.value = <<>>
  BY <1>1 DEF AddVariable
<1>2. CASE item.value # <<>>
  BY <1>2, AddMissingLemma DEF AddVariable
<1>3. QED
  BY <1>1, <1>2

\* The item of a variable, if it is set.
Variable(n, v) == IF v = <<>> THEN {} ELSE {Item(n, v)}

\* The environment of a process is made of words.
LEMMA ProxyTypeLemma ==
    ASSUME NEW p \in ProxyType, NEW additional \in Seq(Words)
    PROVE  /\ p.http \in Seq(Words) /\ p.https \in Seq(Words) /\ p.ca \in Seq(Words)
           /\ p.noProxy \o additional \in Seq(Words)
<1>1. /\ p.http \in Seq(STRING) /\ p.https \in Seq(STRING)
      /\ p.noProxy \in Seq(STRING) /\ p.ca \in Seq(STRING)
  BY DEF ProxyType
<1>2. /\ p.http \in Seq(Words) /\ p.https \in Seq(Words)
      /\ p.noProxy \in Seq(Words) /\ p.ca \in Seq(Words)
  BY <1>1, WordsLemma
<1>3. QED
  BY <1>2

\* Injecting the proxy variables adds those that have a value, where no variable of the
\* container has one of their names.
LEMMA InjectLemma ==
    ASSUME NEW list \in Seq(ItemType), NEW p \in ProxyType, NEW additional \in Seq(Words)
    PROVE  /\ InjectProxyEnvVarsWithNoProxyAdditions(list, p, additional) \in Seq(ItemType)
           /\ (\A x \in Range(list) : x.name \notin {"HTTP_PROXY", "HTTPS_PROXY", "NO_PROXY"}) =>
                 Range(InjectProxyEnvVarsWithNoProxyAdditions(list, p, additional)) =
                     Range(list) \cup Variable("HTTP_PROXY", p.http)
                                 \cup Variable("HTTPS_PROXY", p.https)
                                 \cup Variable("NO_PROXY", p.noProxy \o additional)
<1> DEFINE i1 == Item("HTTP_PROXY", p.http)
           i2 == Item("HTTPS_PROXY", p.https)
           i3 == Item("NO_PROXY", p.noProxy \o additional)
           l1 == AddVariable(list, i1)
           l2 == AddVariable(l1, i2)
           l3 == AddVariable(l2, i3)
<1>1. InjectProxyEnvVarsWithNoProxyAdditions(list, p, additional) = l3
  BY DEF InjectProxyEnvVarsWithNoProxyAdditions, GetProxyEnvVarsWithNoProxyAdditions
<1>2. {"HTTP_PROXY", "HTTPS_PROXY", "NO_PROXY"} \subseteq Words
  BY WordsLemma DEF Literals
<1>3. /\ i1 \in ItemType /\ i1.name = "HTTP_PROXY" /\ i1.value = p.http
      /\ i2 \in ItemType /\ i2.name = "HTTPS_PROXY" /\ i2.value = p.https
      /\ i3 \in ItemType /\ i3.name = "NO_PROXY" /\ i3.value = p.noProxy \o additional
  BY <1>2, ProxyTypeLemma, ItemLemma
<1> HIDE DEF i1, i2, i3
<1>4. l1 \in Seq(ItemType)
  BY <1>3, AddVariableLemma
<1>5. l2 \in Seq(ItemType)
  BY <1>3, <1>4, AddVariableLemma
<1>6. l3 \in Seq(ItemType)
  BY <1>3, <1>5, AddVariableLemma
<1>7. ASSUME \A x \in Range(list) : x.name \notin {"HTTP_PROXY", "HTTPS_PROXY", "NO_PROXY"}
      PROVE  Range(l3) = Range(list) \cup (IF p.http = <<>> THEN {} ELSE {i1})
                                     \cup (IF p.https = <<>> THEN {} ELSE {i2})
                                     \cup (IF p.noProxy \o additional = <<>> THEN {} ELSE {i3})
  <2>1. Range(l1) = Range(list) \cup (IF p.http = <<>> THEN {} ELSE {i1})
    BY <1>3, <1>7, AddVariableLemma
  <2>2. \A x \in Range(l1) : x.name \notin {"HTTPS_PROXY", "NO_PROXY"}
    <3>1. ASSUME NEW x \in Range(l1) PROVE x \in Range(list) \/ x = i1
      BY <2>1, Zenon
    <3>2. i1.name \notin {"HTTPS_PROXY", "NO_PROXY"}
      BY <1>3
    <3> HIDE DEF l1, i1
    <3>3. QED
      BY <1>7, <3>1, <3>2
  <2> HIDE DEF l1
  <2>3. Range(l2) = Range(l1) \cup (IF p.https = <<>> THEN {} ELSE {i2})
    BY <1>3, <1>4, <2>2, AddVariableLemma
  <2>4. \A x \in Range(l2) : x.name # "NO_PROXY"
    BY <1>3, <2>2, <2>3
  <2> HIDE DEF l2
  <2>5. Range(l3) = Range(l2) \cup (IF p.noProxy \o additional = <<>> THEN {} ELSE {i3})
    BY <1>3, <1>5, <2>4, AddVariableLemma
  <2>6. QED
    BY <2>1, <2>3, <2>5
<1>8. QED
  BY <1>1, <1>6, <1>7 DEF i1, i2, i3, Variable

\* What configuring the proxy does to each field of a pod.
LEMMA PodLemma ==
    ASSUME NEW k \in ObjectKinds, NEW pod \in Val(k), NEW p \in ProxyType,
           NEW additional \in Seq(Words)
    PROVE  LET new == AddProxyConfigToPodWithNoProxyAdditions(pod, p, additional)
           IN  /\ new \in Val(k)
               /\ \A f \in Fields(k) \ (EnvFields \cup MountFields \cup {"volumes"}) :
                     new[f] = pod[f]
               /\ \A f \in Fields(k) \cap EnvFields : new[f] =
                     IF IsProxyEnabled(p)
                     THEN InjectProxyEnvVarsWithNoProxyAdditions(pod[f], p, additional)
                     ELSE pod[f]
               /\ \A f \in Fields(k) \cap MountFields : new[f] =
                     IF IsTrustedCABundleConfigured(p)
                     THEN AddTrustedCABundleToContainer(pod[f]) ELSE pod[f]
               /\ "volumes" \in Fields(k) => new["volumes"] =
                     IF IsTrustedCABundleConfigured(p)
                     THEN AddMissing(pod["volumes"], GetTrustedCABundleVolume(p))
                     ELSE pod["volumes"]
<1> DEFINE new == AddProxyConfigToPodWithNoProxyAdditions(pod, p, additional)
<1>1. DOMAIN pod = Fields(k) /\ \A f \in Fields(k) : pod[f] \in Seq(ItemType)
  BY DEF Val
<1>2. /\ GetTrustedCABundleVolumeMount \in ItemType
      /\ GetTrustedCABundleVolume(p) \in ItemType
  <2>1. "trusted-ca-bundle" \in Words /\ << "ca-trust" >> \in Seq(Words)
    BY WordsLemma DEF Literals
  <2>2. p.ca \in Seq(Words)
    BY ProxyTypeLemma
  <2>3. QED
    BY <2>1, <2>2, ItemLemma DEF GetTrustedCABundleVolumeMount, GetTrustedCABundleVolume
<1>3. /\ DOMAIN new = Fields(k)
      /\ \A f \in Fields(k) : new[f] =
            IF f \in EnvFields /\ IsProxyEnabled(p)
            THEN InjectProxyEnvVarsWithNoProxyAdditions(pod[f], p, additional)
            ELSE IF f \in MountFields /\ IsTrustedCABundleConfigured(p)
            THEN AddTrustedCABundleToContainer(pod[f])
            ELSE IF f = "volumes" /\ IsTrustedCABundleConfigured(p)
            THEN AddMissing(pod[f], GetTrustedCABundleVolume(p))
            ELSE pod[f]
      /\ new = [f \in Fields(k) |-> new[f]]
  BY <1>1 DEF AddProxyConfigToPodWithNoProxyAdditions
<1> HIDE DEF new
<1>4. \A f \in Fields(k) : new[f] \in Seq(ItemType)
  <2> TAKE f \in Fields(k)
  <2>1. InjectProxyEnvVarsWithNoProxyAdditions(pod[f], p, additional) \in Seq(ItemType)
    BY <1>1, InjectLemma
  <2>2. /\ AddTrustedCABundleToContainer(pod[f]) \in Seq(ItemType)
        /\ AddMissing(pod[f], GetTrustedCABundleVolume(p)) \in Seq(ItemType)
    BY <1>1, <1>2, AddMissingLemma DEF AddTrustedCABundleToContainer
  <2>3. QED
    BY <1>1, <1>3, <2>1, <2>2
<1>5. new \in Val(k)
  BY <1>3, <1>4 DEF Val
<1>6. QED
  BY <1>3, <1>5 DEF new, EnvFields, MountFields

(***************************************************************************)
(* What is generated, carried over and filled in.                          *)
(***************************************************************************)

\* Before the proxy configuration is added: typed, with the fields of others left open,
\* and without repetitions in the lists compared without their order.
LEMMA Generated0Lemma ==
    ASSUME NEW k \in ObjectKinds, NEW s
    PROVE  /\ Generated0(k, s) \in Val(k)
           /\ \A f \in Fields(k) \cap LeftOpen : Generated0(k, s)[f] = <<>>
           /\ \A f \in Fields(k) \cap Lists : Distinct(Generated0(k, s)[f])
           /\ \A f \in Fields(k) \cap (EnvFields \cup MountFields) :
                 Generated0(k, s)[f] = << Item(f, << "generated" >>) >>
           /\ "volumes" \in Fields(k) => Generated0(k, s)["volumes"] =
                 << Item("volumes", << "first" >>), Item("volumes", << "second" >>) >>
<1> DEFINE g == Generated0(k, s)
           pair(f) == << Item(f, << "first" >>), Item(f, << "second" >>) >>
<1>1. /\ DOMAIN g = Fields(k)
      /\ g = [f \in Fields(k) |-> g[f]]
      /\ \A f \in Fields(k) : g[f] =
           IF f \in LeftOpen \/ (f = "annotations" /\ k # "Service") THEN <<>>
           ELSE IF f \in {"labels", "podLabels"}
           THEN IF s = 2 THEN << Item("custom", << "label" >>) >> ELSE <<>>
           ELSE IF f \in {"data", "hash", "container", "routeSpec"}
           THEN << Item(f, IF s = 2 THEN << "two" >> ELSE << "one" >>) >>
           ELSE IF f \in {"users", "dnsNames", "volumes"}
           THEN << Item(f, << "first" >>), Item(f, << "second" >>) >>
           ELSE << Item(f, << "generated" >>) >>
  BY DEF Generated0
<1> HIDE DEF g
<1>2. /\ << "label" >> \in Seq(Words) /\ << "one" >> \in Seq(Words)
      /\ << "two" >> \in Seq(Words) /\ << "first" >> \in Seq(Words)
      /\ << "second" >> \in Seq(Words) /\ << "generated" >> \in Seq(Words)
      /\ "custom" \in Words
  BY WordsLemma DEF Literals
<1>3. \A f \in Fields(k) : f \in Words
  BY WordsLemma
<1>4. \A f \in Fields(k) : /\ << Item(f, << "one" >>) >> \in Seq(ItemType)
                           /\ << Item(f, << "two" >>) >> \in Seq(ItemType)
                           /\ << Item(f, << "generated" >>) >> \in Seq(ItemType)
                           /\ << Item("custom", << "label" >>) >> \in Seq(ItemType)
  BY <1>2, <1>3, ItemLemma
<1>5. \A f \in Fields(k) : pair(f) \in Seq(ItemType) /\ Distinct(pair(f))
  <2> TAKE f \in Fields(k)
  <2>1. /\ Item(f, << "first" >>) \in ItemType /\ Item(f, << "first" >>).value = << "first" >>
        /\ Item(f, << "second" >>) \in ItemType /\ Item(f, << "second" >>).value = << "second" >>
    BY <1>2, <1>3, ItemLemma
  <2>2. << "first" >> # << "second" >>
    OBVIOUS
  <2>3. PICK a \in ItemType, b \in ItemType :
            a = Item(f, << "first" >>) /\ b = Item(f, << "second" >>) /\ a # b
    BY <2>1, <2>2
  <2>4. << a, b >> \in Seq(ItemType) /\ Distinct(<< a, b >>)
    BY <2>3 DEF Distinct
  <2>5. QED
    BY <2>3, <2>4
<1>6. \A f \in Fields(k) : g[f] \in Seq(ItemType)
  <2> TAKE f \in Fields(k)
  <2>1. <<>> \in Seq(ItemType)
    OBVIOUS
  <2>2. QED
    BY <1>1, <1>4, <1>5, <2>1
<1>7. g \in Val(k)
  BY <1>1, <1>6 DEF Val
<1>8. \A f \in Fields(k) \cap LeftOpen : g[f] = <<>>
  BY <1>1
<1>9. \A f \in Fields(k) \cap Lists : Distinct(g[f])
  BY <1>1, <1>5 DEF Lists, LeftOpen, Defaulted
<1>10. \A f \in Fields(k) \cap (EnvFields \cup MountFields) :
          g[f] = << Item(f, << "generated" >>) >>
  BY <1>1 DEF EnvFields, MountFields, LeftOpen, Defaulted
<1>11. "volumes" \in Fields(k) => g["volumes"] = pair("volumes")
  BY <1>1 DEF LeftOpen, Defaulted
<1>12. QED
  BY <1>7, <1>8, <1>9, <1>10, <1>11 DEF g

\* What each kind's generator adds for the proxy.
Additional(k) == IF k = "AgentDaemonSet" THEN GetInternalNoProxyEntries ELSE <<>>

\* The kinds whose pods are configured for the proxy.
Proxied == {"StatefulSet", "AgentDaemonSet", "Deployment"}

\* Which generator each kind has.
LEMMA GeneratorLemma ==
    ASSUME NEW k \in ObjectKinds, NEW s, NEW p
    PROVE  /\ k = "StatefulSet" => Generated(k, s, p) = GenerateSpireServerStatefulSet(s, p)
           /\ k = "AgentDaemonSet" => Generated(k, s, p) = generateSpireAgentDaemonSet(s, p)
           /\ k = "Deployment" => Generated(k, s, p) = generateDeployment(s, p)
           /\ k \notin Proxied => Generated(k, s, p) = Generated0(k, s)
<1>1. CASE k = "StatefulSet"
  BY <1>1, Zenon DEF Generated, Proxied
<1>2. CASE k = "AgentDaemonSet"
  BY <1>2, Zenon DEF Generated, Proxied
<1>3. CASE k = "Deployment"
  BY <1>3, Zenon DEF Generated, Proxied
<1>4. CASE k \notin Proxied
  <2>1. k # "StatefulSet" /\ k # "AgentDaemonSet" /\ k # "Deployment"
    BY <1>4 DEF Proxied
  <2>2. QED
    BY <2>1, Zenon DEF Generated
<1>5. QED
  BY <1>1, <1>2, <1>3, <1>4 DEF Proxied

\* A generated workload has the proxy configuration, and the probes' scheme is either left
\* to the API server or what the API server would fill in.
LEMMA ProxiedLemma ==
    ASSUME NEW k \in Proxied, NEW s, NEW p \in ProxyType
    PROVE  LET pod == AddProxyConfigToPodWithNoProxyAdditions(
                          Generated0(k, s), p, Additional(k))
           IN  /\ pod \in Val(k)
               /\ Additional(k) \in Seq(Words)
               /\ Generated(k, s, p) \in Val(k)
               /\ \A f \in Fields(k) \ {"scheme"} : Generated(k, s, p)[f] = pod[f]
<1> DEFINE pod == AddProxyConfigToPodWithNoProxyAdditions(Generated0(k, s), p, Additional(k))
<1>1. k \in ObjectKinds
  BY DEF Proxied, ObjectKinds
<1>2. Additional(k) \in Seq(Words)
  <2>1. "spire-server" \in Words /\ "kubernetes.default" \in Words
    BY WordsLemma DEF Literals
  <2>2. QED
    BY <2>1 DEF Additional, GetInternalNoProxyEntries
<1>3. pod \in Val(k)
  BY <1>1, <1>2, Generated0Lemma, PodLemma
<1>4. CASE k = "StatefulSet"
  BY <1>1, <1>2, <1>3, <1>4, GeneratorLemma
     DEF GenerateSpireServerStatefulSet, AddProxyConfigToPod, Additional
<1>5. CASE k = "AgentDaemonSet"
  BY <1>1, <1>2, <1>3, <1>5, GeneratorLemma
     DEF generateSpireAgentDaemonSet, AddProxyConfigToPodWithInternalNoProxy, Additional
<1>6. CASE k = "Deployment"
  <2>1. Generated(k, s, p) = [pod EXCEPT !.scheme = DefaultOf("scheme")]
    BY <1>1, <1>6, GeneratorLemma DEF generateDeployment, AddProxyConfigToPod, Additional
  <2>2. "scheme" \in Fields(k)
    BY <1>6, FieldsLemma DEF PodFields
  <2>3. DefaultOf("scheme") \in Seq(ItemType)
    BY <1>1, <2>2, WordsLemma, DefaultLemma
  <2> HIDE DEF pod
  <2>4. /\ Generated(k, s, p) \in Val(k)
        /\ \A f \in Fields(k) \ {"scheme"} : Generated(k, s, p)[f] = pod[f]
    BY <1>3, <2>1, <2>2, <2>3 DEF Val
  <2>5. QED
    BY <1>2, <1>3, <2>4 DEF pod
<1>7. QED
  BY <1>4, <1>5, <1>6 DEF Proxied

\* What every generator returns: the fields of others and the protocol are left open, and
\* the lists compared without their order have no repetitions.
LEMMA GeneratedLemma ==
    ASSUME NEW k \in ObjectKinds, NEW s, NEW p \in ProxyType
    PROVE  /\ Generated(k, s, p) \in Val(k)
           /\ \A f \in Fields(k) \cap (Carried \cup {"protocol"}) : Generated(k, s, p)[f] = <<>>
           /\ \A f \in Fields(k) \cap Lists : Distinct(Generated(k, s, p)[f])
<1> DEFINE g == Generated(k, s, p)
           g0 == Generated0(k, s)
<1>1. /\ g0 \in Val(k)
      /\ \A f \in Fields(k) \cap LeftOpen : g0[f] = <<>>
      /\ \A f \in Fields(k) \cap Lists : Distinct(g0[f])
  BY Generated0Lemma
<1>2. Carried \cup {"protocol"} \subseteq LeftOpen \ (EnvFields \cup MountFields \cup {"volumes", "scheme"})
  BY DEF Carried, LeftOpen, Defaulted, EnvFields, MountFields
<1>3. CASE k \notin Proxied
  BY <1>1, <1>2, <1>3, GeneratorLemma
<1>4. CASE k \in Proxied
  <2> DEFINE pod == AddProxyConfigToPodWithNoProxyAdditions(g0, p, Additional(k))
  <2>1. /\ g \in Val(k) /\ pod \in Val(k) /\ Additional(k) \in Seq(Words)
        /\ \A f \in Fields(k) \ {"scheme"} : g[f] = pod[f]
    BY <1>4, ProxiedLemma
  <2>2. /\ \A f \in Fields(k) \ (EnvFields \cup MountFields \cup {"volumes"}) : pod[f] = g0[f]
        /\ "volumes" \in Fields(k) => pod["volumes"] =
              IF IsTrustedCABundleConfigured(p)
              THEN AddMissing(g0["volumes"], GetTrustedCABundleVolume(p)) ELSE g0["volumes"]
    <3> HIDE DEF g0
    <3>1. \A f \in Fields(k) \ (EnvFields \cup MountFields \cup {"volumes"}) : pod[f] = g0[f]
      BY <1>1, <2>1, PodLemma
    <3>2. "volumes" \in Fields(k) => pod["volumes"] =
             IF IsTrustedCABundleConfigured(p)
             THEN AddMissing(g0["volumes"], GetTrustedCABundleVolume(p)) ELSE g0["volumes"]
      BY <1>1, <2>1, PodLemma
    <3>3. QED
      BY <3>1, <3>2
  <2>3. \A f \in Fields(k) \cap (Carried \cup {"protocol"}) : g[f] = <<>>
    BY <1>1, <1>2, <2>1, <2>2
  <2>4. GetTrustedCABundleVolume(p) \in ItemType
    <3>1. "trusted-ca-bundle" \in Words
      BY WordsLemma DEF Literals
    <3>2. QED
      BY <2>1, <3>1, ProxyTypeLemma, ItemLemma DEF GetTrustedCABundleVolume
  <2>5. "volumes" \in Fields(k) => Distinct(pod["volumes"])
    <3>1. SUFFICES ASSUME "volumes" \in Fields(k)
                   PROVE  Distinct(pod["volumes"])
      OBVIOUS
    <3>2. g0["volumes"] \in Seq(ItemType) /\ Distinct(g0["volumes"])
      BY <1>1, <3>1 DEF Val, Lists
    <3>3. Distinct(AddMissing(g0["volumes"], GetTrustedCABundleVolume(p)))
      BY <2>4, <3>2, AddMissingLemma
    <3>4. QED
      BY <2>2, <3>1, <3>2, <3>3
  <2>6. \A f \in Fields(k) \cap Lists : Distinct(g[f])
    <3> TAKE f \in Fields(k) \cap Lists
    <3>1. g[f] = pod[f]
      BY <2>1 DEF Lists
    <3>2. CASE f = "volumes"
      BY <2>5, <3>1, <3>2
    <3>3. CASE f # "volumes"
      BY <1>1, <2>2, <3>1, <3>3 DEF Lists, EnvFields, MountFields
    <3>4. QED
      BY <3>2, <3>3
  <2>7. QED
    BY <2>1, <2>3, <2>6
<1>5. QED
  BY <1>3, <1>4

\* The API server fills in what it must and touches nothing else.
LEMMA WithDefaultsLemma ==
    ASSUME NEW k \in ObjectKinds, NEW v \in Val(k)
    PROVE  /\ WithDefaults(v) \in Val(k)
           /\ Filled(WithDefaults(v))
           /\ \A f \in Fields(k) : WithDefaults(v)[f] =
                 IF f \in Defaulted /\ v[f] = <<>> THEN DefaultOf(f) ELSE v[f]
<1>1. DOMAIN v = Fields(k) /\ \A f \in Fields(k) : v[f] \in Seq(ItemType)
  BY DEF Val
<1>2. \A f \in Fields(k) : DefaultOf(f) \in Seq(ItemType) /\ DefaultOf(f) # <<>>
  BY WordsLemma, DefaultLemma
<1>3. /\ DOMAIN WithDefaults(v) = Fields(k)
      /\ WithDefaults(v) = [f \in Fields(k) |-> WithDefaults(v)[f]]
      /\ \A f \in Fields(k) : WithDefaults(v)[f] =
            IF f \in Defaulted /\ v[f] = <<>> THEN DefaultOf(f) ELSE v[f]
  BY <1>1 DEF WithDefaults
<1>4. \A f \in Fields(k) : WithDefaults(v)[f] \in Seq(ItemType)
  BY <1>1, <1>2, <1>3
<1>5. WithDefaults(v) \in Val(k)
  BY <1>3, <1>4 DEF Val
<1>6. Filled(WithDefaults(v))
  BY <1>2, <1>3 DEF Filled
<1>7. QED
  BY <1>3, <1>5, <1>6

\* These are the fields the reconcile functions carry over.
LEMMA PreservedLemma ==
    ASSUME NEW k \in ObjectKinds
    PROVE  \A f \in Fields(k) : f \in Preserved(k) <=> f \in Carried
<1>1. /\ k = "Service" => Preserved(k) = reconcileService
      /\ k = "Webhook" => Preserved(k) = reconcileWebhook
      /\ k = "CSIDriver" => Preserved(k) = reconcileCSIDriver
      /\ k = "SCC" => Preserved(k) = reconcileSCC
  BY Zenon DEF Preserved
<1>2. CASE k \in {"Service", "Webhook", "CSIDriver", "SCC"}
  BY <1>1, <1>2, FieldsLemma
     DEF reconcileService, reconcileWebhook, reconcileCSIDriver, reconcileSCC, Carried
<1>3. CASE k \notin {"Service", "Webhook", "CSIDriver", "SCC"}
  <2>1. k # "Service" /\ k # "Webhook" /\ k # "CSIDriver" /\ k # "SCC"
    BY <1>3
  <2>2. Preserved(k) = {}
    BY <2>1, Zenon DEF Preserved
  <2>3. \A f \in Fields(k) : f \notin Carried
    BY <1>3, FieldsLemma DEF ObjectKinds, PodFields, Carried
  <2>4. QED
    BY <2>2, <2>3
<1>4. QED
  BY <1>2, <1>3

\* What is compared and written: the fields of others as found, where they have a value.
LEMMA PreparedLemma ==
    ASSUME NEW k \in ObjectKinds, NEW existing \in Val(k), NEW desired \in Val(k)
    PROVE  /\ Prepared(k, existing, desired) \in Val(k)
           /\ \A f \in Fields(k) : Prepared(k, existing, desired)[f] =
                 IF f \in Carried /\ existing[f] # <<>> THEN existing[f]
                 ELSE IF f = "protocol" THEN DefaultOf(f)
                 ELSE desired[f]
<1> DEFINE new == Prepared(k, existing, desired)
<1>1. /\ DOMAIN desired = Fields(k)
      /\ \A f \in Fields(k) : existing[f] \in Seq(ItemType) /\ desired[f] \in Seq(ItemType)
  BY DEF Val
<1>2. \A f \in Fields(k) : DefaultOf(f) \in Seq(ItemType)
  BY WordsLemma, DefaultLemma
<1>3. /\ DOMAIN new = Fields(k)
      /\ new = [f \in Fields(k) |-> new[f]]
      /\ \A f \in Fields(k) : new[f] =
            IF f \in Preserved(k) /\ existing[f] # <<>> THEN existing[f]
            ELSE IF f = "protocol" THEN DefaultOf(f)
            ELSE desired[f]
  BY <1>1 DEF Prepared
<1> HIDE DEF new
<1>4. \A f \in Fields(k) : new[f] \in Seq(ItemType)
  BY <1>1, <1>2, <1>3
<1>5. new \in Val(k)
  BY <1>3, <1>4 DEF Val
<1>6. QED
  BY <1>3, <1>5, PreservedLemma DEF new

\* The fields of the operator's that the API server defaults.
LEMMA DefaultedLemma ==
    /\ \A f \in Defaulted : f \in Unasked \/ f \in {"protocol", "scheme"}
    /\ \A f \in Carried : f \in Unasked
    /\ \A f \in Lists \cup Maps : f \notin Defaulted
    /\ \A f \in Lists : f \notin {"labels", "annotations"}
    /\ "protocol" \in Defaulted /\ "scheme" \in Defaulted
    /\ "protocol" \notin Carried
BY DEF Defaulted, Unasked, Carried, Lists, Maps

\* An object that needs no update is as generated: no difference is overlooked, whatever
\* the way a field is compared and whoever has written the object.
LEMMA NoUpdateIsAsAsked ==
    ASSUME NEW k \in ObjectKinds, NEW s, NEW p \in ProxyType,
           NEW existing \in Val(k), Filled(existing),
           ~needsUpdate(k, existing, Prepared(k, existing, Generated(k, s, p)))
    PROVE  \A f \in Fields(k) \ Unasked :
               AsAsked(f, existing[f], WithDefaults(Generated(k, s, p))[f])
<1> DEFINE desired == Generated(k, s, p)
           prepared == Prepared(k, existing, desired)
           want == WithDefaults(desired)
<1>1. /\ desired \in Val(k)
      /\ \A f \in Fields(k) \cap (Carried \cup {"protocol"}) : desired[f] = <<>>
      /\ \A f \in Fields(k) \cap Lists : Distinct(desired[f])
  BY GeneratedLemma
<1> HIDE DEF desired
<1>2. /\ prepared \in Val(k)
      /\ \A f \in Fields(k) : prepared[f] =
            IF f \in Carried /\ existing[f] # <<>> THEN existing[f]
            ELSE IF f = "protocol" THEN DefaultOf(f)
            ELSE desired[f]
  BY <1>1, PreparedLemma
<1>3. /\ want \in Val(k)
      /\ \A f \in Fields(k) : want[f] =
            IF f \in Defaulted /\ desired[f] = <<>> THEN DefaultOf(f) ELSE desired[f]
  BY <1>1, WithDefaultsLemma
<1>4. \A c \in Comparison(k) : Matches(c.mode, existing[c.field], prepared[c.field])
  BY DEF needsUpdate, desired
<1> HIDE DEF prepared, want
<1>5. \A f, mode : Compares(k, f, mode) => Matches(mode, existing[f], prepared[f])
  <2> SUFFICES ASSUME NEW f, NEW mode, Compares(k, f, mode)
               PROVE  Matches(mode, existing[f], prepared[f])
    OBVIOUS
  <2>1. PICK c \in Comparison(k) : c = [field |-> f, mode |-> mode]
    BY DEF Compares
  <2>2. c.field = f /\ c.mode = mode
    BY <2>1
  <2>3. QED
    BY <1>4, <2>2
<1> SUFFICES ASSUME NEW f \in Fields(k) \ Unasked
             PROVE  AsAsked(f, existing[f], want[f])
  BY DEF want, desired
<1>6. f \in Fields(k) /\ f \notin Carried
  BY DefaultedLemma
<1>7. /\ existing[f] \in Seq(ItemType) /\ prepared[f] \in Seq(ItemType)
      /\ want[f] \in Seq(ItemType)
  BY <1>2, <1>3 DEF Val
<1>8. f \in Defaulted => existing[f] # <<>>
  BY DEF Filled, Val
<1>9. CASE Compares(k, f, "exact")
  <2>1. existing[f] = prepared[f]
    BY <1>5, <1>9, MatchesLemma
  <2>2. CASE f = "protocol"
    <3>1. prepared[f] = DefaultOf(f)
      BY <1>2, <1>6, <2>2
    <3>2. want[f] = DefaultOf(f)
      BY <1>1, <1>3, <1>6, <2>2, DefaultedLemma
    <3>3. QED
      BY <2>1, <3>1, <3>2 DEF AsAsked
  <2>3. CASE f # "protocol"
    <3>1. prepared[f] = desired[f]
      BY <1>2, <1>6, <2>3
    <3>2. want[f] = desired[f]
      BY <1>3, <1>6, <1>8, <2>1, <3>1
    <3>3. QED
      BY <2>1, <3>1, <3>2 DEF AsAsked
  <2>4. QED
    BY <2>2, <2>3
<1>10. ASSUME f \in Lists \cup Maps
       PROVE  prepared[f] = desired[f] /\ want[f] = desired[f]
  BY <1>2, <1>3, <1>6, <1>10, DefaultedLemma
<1>11. CASE Compares(k, f, "unordered") /\ f \in Lists
  <2>1. Len(existing[f]) = Len(prepared[f]) /\ Range(prepared[f]) \subseteq Range(existing[f])
    BY <1>5, <1>11, MatchesLemma
  <2>2. Distinct(prepared[f])
    BY <1>1, <1>6, <1>10, <1>11
  <2>3. Range(existing[f]) = Range(prepared[f])
    BY <1>7, <2>1, <2>2, SameItems
  <2>4. QED
    BY <1>10, <1>11, <2>3, DefaultedLemma DEF AsAsked
<1>12. CASE Compares(k, f, "subset") /\ f \in Maps
  <2>1. Range(prepared[f]) \subseteq Range(existing[f])
    BY <1>5, <1>12, MatchesLemma
  <2>2. QED
    BY <1>10, <1>12, <2>1 DEF AsAsked, Maps
<1>13. QED
  BY <1>9, <1>11, <1>12, NothingOverlooked

\* What is written is as generated.
LEMMA WrittenIsAsAsked ==
    ASSUME NEW k \in ObjectKinds, NEW s, NEW p \in ProxyType, NEW existing \in Val(k)
    PROVE  \A f \in Fields(k) \ Unasked :
               AsAsked(f, WithDefaults(Prepared(k, existing, Generated(k, s, p)))[f],
                          WithDefaults(Generated(k, s, p))[f])
<1> DEFINE desired == Generated(k, s, p)
           prepared == Prepared(k, existing, desired)
<1>1. /\ desired \in Val(k)
      /\ \A f \in Fields(k) \cap (Carried \cup {"protocol"}) : desired[f] = <<>>
  BY GeneratedLemma
<1> HIDE DEF desired
<1>2. /\ prepared \in Val(k)
      /\ \A f \in Fields(k) : prepared[f] =
            IF f \in Carried /\ existing[f] # <<>> THEN existing[f]
            ELSE IF f = "protocol" THEN DefaultOf(f)
            ELSE desired[f]
  BY <1>1, PreparedLemma
<1> HIDE DEF prepared
<1>3. /\ \A f \in Fields(k) : WithDefaults(desired)[f] =
            IF f \in Defaulted /\ desired[f] = <<>> THEN DefaultOf(f) ELSE desired[f]
      /\ \A f \in Fields(k) : WithDefaults(prepared)[f] =
            IF f \in Defaulted /\ prepared[f] = <<>> THEN DefaultOf(f) ELSE prepared[f]
  BY <1>1, <1>2, WithDefaultsLemma
<1>4. ASSUME NEW f \in Fields(k) \ Unasked
      PROVE  WithDefaults(prepared)[f] = WithDefaults(desired)[f]
  <2>1. f \in Fields(k) /\ f \notin Carried
    BY DefaultedLemma
  <2>2. CASE f = "protocol"
    BY <1>1, <1>2, <1>3, <2>1, <2>2, DefaultedLemma
  <2>3. CASE f # "protocol"
    BY <1>2, <1>3, <2>1, <2>3
  <2>4. QED
    BY <2>2, <2>3
<1>5. QED
  BY <1>4 DEF AsAsked, prepared, desired

\* What is written keeps the fields of others as they were stored.
LEMMA WrittenKeepsCarried ==
    ASSUME NEW k \in ObjectKinds, NEW s, NEW p \in ProxyType,
           NEW existing \in Val(k), Filled(existing)
    PROVE  \A f \in Carried \cap Fields(k) :
               WithDefaults(Prepared(k, existing, Generated(k, s, p)))[f] = existing[f]
<1> DEFINE desired == Generated(k, s, p)
           prepared == Prepared(k, existing, desired)
<1>1. /\ desired \in Val(k)
      /\ \A f \in Fields(k) \cap (Carried \cup {"protocol"}) : desired[f] = <<>>
  BY GeneratedLemma
<1> HIDE DEF desired
<1>2. /\ prepared \in Val(k)
      /\ \A f \in Fields(k) : prepared[f] =
            IF f \in Carried /\ existing[f] # <<>> THEN existing[f]
            ELSE IF f = "protocol" THEN DefaultOf(f)
            ELSE desired[f]
  BY <1>1, PreparedLemma
<1> HIDE DEF prepared
<1>3. \A f \in Fields(k) : WithDefaults(prepared)[f] =
          IF f \in Defaulted /\ prepared[f] = <<>> THEN DefaultOf(f) ELSE prepared[f]
  BY <1>2, WithDefaultsLemma
<1>4. \A f \in Carried \cap Fields(k) : prepared[f] = existing[f]
  BY <1>1, <1>2, DefaultedLemma
<1>5. \A f \in Defaulted \cap Fields(k) : existing[f] # <<>>
  BY DEF Filled, Val
<1>6. QED
  BY <1>3, <1>4, <1>5 DEF prepared, desired

\* The kinds of objects other controllers add to.
Shared == {"Service", "ServiceAccount", "Webhook", "Deployment"}

\* Only objects of these kinds are added to.
LEMMA AddedToLemma ==
    ASSUME NEW k \in ObjectKinds, NEW f \in DOMAIN FilledIn(k)
    PROVE  k \in Shared
<1> SUFFICES ASSUME k \notin Shared PROVE FALSE
  OBVIOUS
<1>1. k # "Service" /\ k # "ServiceAccount" /\ k # "Webhook" /\ k # "Deployment"
  BY DEF Shared
<1>2. FilledIn(k) = <<>>
  BY <1>1, Zenon DEF FilledIn
<1>3. DOMAIN << >> = {}
  OBVIOUS
<1>4. QED
  BY <1>2, <1>3, Zenon

\* A comparison made of fields and ways of comparing.
LEMMA InAsLemma ==
    ASSUME NEW mode, NEW F, NEW c \in As(mode, F)
    PROVE  c.mode = mode /\ c.field \in F
BY DEF As

\* What is compared of an object others add to: maps by inclusion, fields the operator asks
\* for, fields it carries over, and fields it does not set.
LEMMA SharedComparison ==
    ASSUME NEW k \in Shared, NEW c \in Comparison(k)
    PROVE  /\ c.field \in Fields(k)
           /\ \/ c.mode = "subset" /\ c.field \in Maps
              \/ c.mode \in {"exact", "unordered"} /\ c.field \notin Maps \cup Unasked
              \/ c.mode = "exact" /\ c.field \in Carried
              \/ c.mode = "ifSet" /\ c.field \in {"automount", "pullSecrets"} /\ k = "ServiceAccount"
<1> USE InAsLemma DEF Maps, LabelsMatch, AnnotationsMatch, Unasked, Carried
<1>1. CASE k = "Service"
  BY <1>1, FieldsLemma, ComparisonLemma, ResourceNeedsUpdateLemma DEF ServiceNeedsUpdate
<1>2. CASE k = "ServiceAccount"
  BY <1>2, FieldsLemma, ComparisonLemma, ResourceNeedsUpdateLemma DEF ServiceAccountNeedsUpdate
<1>3. CASE k = "Webhook"
  BY <1>3, FieldsLemma, ComparisonLemma, ResourceNeedsUpdateLemma
     DEF ValidatingWebhookConfigurationNeedsUpdate
<1>4. CASE k = "Deployment"
  BY <1>4, FieldsLemma, ComparisonLemma, ResourceNeedsUpdateLemma
     DEF configHash, DeploymentNeedsUpdate, podTemplate, containerSpecModified, volumesEqual,
         PodFields
<1>5. QED
  BY <1>1, <1>2, <1>3, <1>4 DEF Shared

\* Such an object is generated with nothing left to the API server that the operator compares.
LEMMA SharedGenerated ==
    ASSUME NEW k \in Shared, NEW s, NEW p \in ProxyType
    PROVE  /\ "scheme" \in Fields(k) => Generated(k, s, p)["scheme"] # <<>>
           /\ k = "ServiceAccount" =>
                 \A f \in {"automount", "pullSecrets"} : Generated(k, s, p)[f] = <<>>
<1>1. k \in ObjectKinds
  BY DEF Shared, ObjectKinds
<1>2. CASE k = "Deployment"
  <2> DEFINE pod == AddProxyConfigToPodWithNoProxyAdditions(Generated0(k, s), p, << >>)
  <2>1. Generated(k, s, p) = [pod EXCEPT !.scheme = DefaultOf("scheme")]
    BY <1>1, <1>2, GeneratorLemma DEF generateDeployment, AddProxyConfigToPod
  <2>2. k \in Proxied /\ Additional(k) = << >>
    BY <1>2 DEF Proxied, Additional
  <2>3. pod \in Val(k)
    BY <2>2, ProxiedLemma
  <2>4. "scheme" \in Fields(k)
    BY <1>2, FieldsLemma DEF PodFields
  <2> HIDE DEF pod
  <2>5. Generated(k, s, p)["scheme"] = DefaultOf("scheme")
    BY <2>1, <2>3, <2>4 DEF Val
  <2>6. DefaultOf("scheme") # << >>
    BY <1>1, <2>4, WordsLemma, DefaultLemma
  <2>7. QED
    BY <1>2, <2>5, <2>6
<1>3. CASE k # "Deployment"
  <2>1. "scheme" \notin Fields(k)
    BY <1>3, FieldsLemma DEF Shared
  <2>2. ASSUME k = "ServiceAccount"
        PROVE  \A f \in {"automount", "pullSecrets"} : Generated(k, s, p)[f] = <<>>
    <3>1. Generated(k, s, p) = Generated0(k, s)
      BY <1>1, <2>2, GeneratorLemma DEF Proxied
    <3>2. {"automount", "pullSecrets"} \subseteq Fields(k) \cap LeftOpen
      BY <2>2, FieldsLemma DEF LeftOpen
    <3>3. QED
      BY <1>1, <3>1, <3>2, Generated0Lemma
  <2>3. QED
    BY <2>1, <2>2
<1>4. QED
  BY <1>2, <1>3

\* What others add to an object is never why it is updated.
LEMMA UpdateHasReason ==
    ASSUME NEW k \in Shared, NEW s, NEW p \in ProxyType, NEW existing \in Val(k),
           needsUpdate(k, existing, Prepared(k, existing, Generated(k, s, p)))
    PROVE  Lacks(k, existing, WithDefaults(Generated(k, s, p)))
<1> DEFINE desired == Generated(k, s, p)
           prepared == Prepared(k, existing, desired)
           want == WithDefaults(desired)
<1>0. k \in ObjectKinds
  BY DEF Shared, ObjectKinds
<1>1. /\ desired \in Val(k)
      /\ \A f \in Fields(k) \cap (Carried \cup {"protocol"}) : desired[f] = <<>>
      /\ "scheme" \in Fields(k) => desired["scheme"] # <<>>
      /\ k = "ServiceAccount" => \A f \in {"automount", "pullSecrets"} : desired[f] = <<>>
  BY <1>0, GeneratedLemma, SharedGenerated
<1> HIDE DEF desired
<1>2. \A f \in Fields(k) : prepared[f] =
          IF f \in Carried /\ existing[f] # <<>> THEN existing[f]
          ELSE IF f = "protocol" THEN DefaultOf(f)
          ELSE desired[f]
  BY <1>0, <1>1, PreparedLemma
<1>3. \A f \in Fields(k) : want[f] =
          IF f \in Defaulted /\ desired[f] = <<>> THEN DefaultOf(f) ELSE desired[f]
  BY <1>0, <1>1, WithDefaultsLemma
<1>4. PICK c \in Comparison(k) : ~Matches(c.mode, existing[c.field], prepared[c.field])
  BY DEF needsUpdate, desired
<1> HIDE DEF prepared, want
<1> DEFINE f == c.field
<1>5. /\ f \in Fields(k)
      /\ \/ c.mode = "subset" /\ f \in Maps
         \/ c.mode \in {"exact", "unordered"} /\ f \notin Maps \cup Unasked
         \/ c.mode = "exact" /\ f \in Carried
         \/ c.mode = "ifSet" /\ f \in {"automount", "pullSecrets"} /\ k = "ServiceAccount"
  BY SharedComparison
<1> HIDE DEF f
<1>6. f \notin Unasked => prepared[f] = want[f]
  <2> SUFFICES ASSUME f \notin Unasked PROVE prepared[f] = want[f]
    OBVIOUS
  <2>1. f \notin Carried
    BY DefaultedLemma
  <2>2. CASE f = "protocol"
    BY <1>1, <1>2, <1>3, <1>5, <2>1, <2>2, DefaultedLemma
  <2>3. CASE f # "protocol"
    <3>1. f \in Defaulted => desired[f] # <<>>
      BY <1>1, <1>5, <2>3, DefaultedLemma
    <3>2. QED
      BY <1>2, <1>3, <1>5, <2>1, <2>3, <3>1
  <2>4. QED
    BY <2>2, <2>3
<1>7. ~Matches(c.mode, existing[f], prepared[f])
  BY <1>4 DEF f
<1>8. CASE c.mode = "subset" /\ f \in Maps
  <2>1. f \notin Unasked
    BY <1>8 DEF Maps, Unasked, Carried
  <2>2. ~(Range(want[f]) \subseteq Range(existing[f]))
    BY <1>6, <1>7, <1>8, <2>1, MatchesLemma
  <2>3. QED
    BY <1>5, <1>8, <2>1, <2>2 DEF Lacks, Maps, want, desired
<1>9. CASE c.mode \in {"exact", "unordered"} /\ f \notin Maps \cup Unasked
  <2>1. existing[f] # want[f]
    BY <1>6, <1>7, <1>9, MatchesLemma
  <2>2. QED
    BY <1>5, <1>9, <2>1 DEF Lacks, Maps, want, desired
<1>10. CASE c.mode = "exact" /\ f \in Carried
  <2>1. prepared[f] = existing[f]
    BY <1>1, <1>2, <1>5, <1>10, DefaultedLemma
  <2>2. QED
    BY <1>7, <1>10, <2>1, MatchesLemma
<1>11. CASE c.mode = "ifSet" /\ f \in {"automount", "pullSecrets"} /\ k = "ServiceAccount"
  <2>1. f \notin Carried /\ f # "protocol"
    BY <1>11 DEF Carried
  <2>2. prepared[f] = <<>>
    BY <1>1, <1>2, <1>5, <1>11, <2>1
  <2>3. Matches("ifSet", existing[f], << >>)
    BY Zenon DEF Matches
  <2>4. QED
    BY <1>7, <1>11, <2>2, <2>3
<1>12. QED
  BY <1>5, <1>8, <1>9, <1>10, <1>11

(***************************************************************************)
(* The inductive invariant.  RestIsAsGenerated rests on what the object    *)
(* was written with: every version that exists has its defaults filled in, *)
(* or else an object whose probe scheme is empty would compare equal to    *)
(* what is generated.  The room for a creation, which waits for nothing,   *)
(* is kept by the writes of others.                                        *)
(***************************************************************************)
VersionsOK(k, ch) ==
    /\ ch \in Seq(Version(k))
    /\ Len(ch) \in 1..(MaxLag + 2)
    /\ Len(ch) = MaxLag + 2 => Api(ch).exists
    /\ \A i \in DOMAIN ch : ch[i].exists => Filled(ch[i].val)

Typed ==
    /\ kind \in Kinds /\ spec \in {1, 2}
    /\ process \in Processes
    /\ queued \in BOOLEAN /\ changes \in 0..MaxChanges
    /\ VersionsOK(kind, objW)

IndInv == Typed /\ RestIsAsGenerated

\* A version the API server may store.
Storable(k, v) == v \in Version(k) /\ (v.exists => Filled(v.val))

\* Every version can be stored; the cached and the stored one are among them.
LEMMA VersionsLemma ==
    ASSUME NEW k, NEW ch, VersionsOK(k, ch)
    PROVE  /\ ch \in Seq(Version(k)) /\ Len(ch) > 0 /\ Len(ch) \in Nat
           /\ Storable(k, Api(ch)) /\ Storable(k, Cached(ch))
           /\ Api(ch).val \in Val(k) /\ Cached(ch).val \in Val(k)
           /\ Drained(ch) => Api(ch) = Cached(ch)
<1>1. ch \in Seq(Version(k)) /\ Len(ch) > 0 /\ Len(ch) \in Nat
  BY BoundsAssumption DEF VersionsOK
<1>2. /\ Cached(ch) \in Version(k) /\ Api(ch) \in Version(k)
      /\ 1 \in DOMAIN ch /\ Len(ch) \in DOMAIN ch
  BY <1>1, ApiLemma
<1>3. Storable(k, Api(ch)) /\ Storable(k, Cached(ch))
  BY <1>2 DEF VersionsOK, Storable, Api, Cached
<1>4. Api(ch).val \in Val(k) /\ Cached(ch).val \in Val(k)
  BY <1>2 DEF Version
<1>5. QED
  BY <1>1, <1>3, <1>4 DEF Drained, Api, Cached

\* Where there is room for it, a version can be added; the cache is then behind.
LEMMA AddVersion ==
    ASSUME NEW k, NEW ch, VersionsOK(k, ch), NEW v, Storable(k, v),
           Len(ch) < MaxLag + 2, Len(ch) = MaxLag + 1 => v.exists
    PROVE  VersionsOK(k, Append(ch, v)) /\ ~Drained(Append(ch, v))
<1>1. /\ ch \in Seq(Version(k)) /\ Len(ch) > 0 /\ Len(ch) \in Nat /\ v \in Version(k)
  BY VersionsLemma DEF Storable
<1>2. /\ Append(ch, v) \in Seq(Version(k))
      /\ Api(Append(ch, v)) = v
      /\ DOMAIN Append(ch, v) = 1..(Len(ch) + 1)
      /\ DOMAIN ch = 1..Len(ch)
      /\ \A i \in 1..Len(ch) : Append(ch, v)[i] = ch[i]
      /\ Append(ch, v)[Len(ch) + 1] = v
      /\ Len(Append(ch, v)) = Len(ch) + 1
  <2>1. /\ Append(ch, v) \in Seq(Version(k))
        /\ Api(Append(ch, v)) = v
        /\ DOMAIN Append(ch, v) = 1..(Len(ch) + 1)
        /\ DOMAIN ch = 1..Len(ch)
        /\ \A i \in 1..Len(ch) : Append(ch, v)[i] = ch[i]
        /\ Append(ch, v)[Len(ch) + 1] = v
    BY <1>1, AppendLemma, SMTT(30)
  <2>2. Len(Append(ch, v)) = Len(ch) + 1
    BY <1>1
  <2>3. QED
    BY <2>1, <2>2, Zenon
<1>3. PICK n \in Nat : n = Len(ch) /\ n > 0 /\ Len(Append(ch, v)) = n + 1
  BY <1>1, <1>2
<1>4. n + 1 \in 1..(MaxLag + 2) /\ n + 1 > 1 /\ (n + 1 = MaxLag + 2 => n = MaxLag + 1)
  BY <1>3, BoundsAssumption
<1>5. \A i \in DOMAIN Append(ch, v) : Append(ch, v)[i].exists => Filled(Append(ch, v)[i].val)
  <2> TAKE i \in DOMAIN Append(ch, v)
  <2>1. CASE i = Len(ch) + 1
    BY <1>2, <2>1 DEF Storable
  <2>2. CASE i # Len(ch) + 1
    <3>1. i \in DOMAIN ch /\ Append(ch, v)[i] = ch[i]
      BY <1>1, <1>2, <2>2
    <3>2. QED
      BY <3>1 DEF VersionsOK
  <2>3. QED
    BY <2>1, <2>2
<1>6. QED
  BY <1>2, <1>3, <1>4, <1>5 DEF VersionsOK, Drained

\* Delivering a version, and listing afresh, leave versions that could be stored.
LEMMA FewerVersions ==
    ASSUME NEW k, NEW ch, VersionsOK(k, ch)
    PROVE  /\ Len(ch) > 1 => VersionsOK(k, Deliver(ch))
           /\ VersionsOK(k, Relist(ch))
<1>1. ch \in Seq(Version(k)) /\ Len(ch) > 0 /\ Len(ch) \in Nat /\ Storable(k, Api(ch))
  BY VersionsLemma
<1>2. ASSUME Len(ch) > 1
      PROVE  VersionsOK(k, Deliver(ch))
  <2>1. /\ Deliver(ch) \in Seq(Version(k))
        /\ Api(Deliver(ch)) = Api(ch)
        /\ DOMAIN Deliver(ch) = 1..(Len(ch) - 1)
        /\ \A i \in 1..(Len(ch) - 1) : Deliver(ch)[i] = ch[i + 1]
        /\ DOMAIN ch = 1..Len(ch)
    BY <1>1, <1>2, DeliverLemma
  <2>2. Len(Deliver(ch)) = Len(ch) - 1
    BY <1>1, <1>2 DEF Deliver
  <2>3. /\ Len(Deliver(ch)) \in 1..(MaxLag + 2)
        /\ Len(Deliver(ch)) # MaxLag + 2
    BY <1>1, <1>2, <2>2, BoundsAssumption DEF VersionsOK
  <2>4. \A i \in DOMAIN Deliver(ch) : Deliver(ch)[i].exists => Filled(Deliver(ch)[i].val)
    <3> TAKE i \in DOMAIN Deliver(ch)
    <3>1. i + 1 \in DOMAIN ch /\ Deliver(ch)[i] = ch[i + 1]
      BY <1>1, <2>1
    <3>2. QED
      BY <3>1 DEF VersionsOK
  <2>5. QED
    BY <2>1, <2>3, <2>4 DEF VersionsOK
<1>3. VersionsOK(k, Relist(ch))
  <2>1. /\ Relist(ch) \in Seq(Version(k)) /\ Len(Relist(ch)) = 1
        /\ DOMAIN Relist(ch) = {1} /\ Relist(ch)[1] = Api(ch)
    BY <1>1, RelistLemma
  <2>2. 1 \in 1..(MaxLag + 2) /\ MaxLag + 2 # 1
    BY BoundsAssumption
  <2>3. QED
    BY <1>1, <2>1, <2>2 DEF VersionsOK, Storable
<1>4. QED
  BY <1>2, <1>3

\* An object as the operator writes it, and one with a field edited, can be stored.
LEMMA ObjectLemma ==
    ASSUME NEW k \in ObjectKinds, NEW v \in Val(k)
    PROVE  /\ Storable(k, Object(WithDefaults(v)))
           /\ Filled(v) => Storable(k, Object(v))
           /\ Object(WithDefaults(v)).val = WithDefaults(v)
           /\ Object(WithDefaults(v)).exists
<1>1. WithDefaults(v) \in Val(k) /\ Filled(WithDefaults(v))
  BY WithDefaultsLemma
<1>2. QED
  BY <1>1 DEF Object, Storable, Version

(***************************************************************************)
(* The steps.                                                              *)
(***************************************************************************)

\* What other controllers add is an item.
LEMMA FilledInLemma ==
    ASSUME NEW k \in ObjectKinds
    PROVE  \A f \in DOMAIN FilledIn(k) : FilledIn(k)[f] \in ItemType
<1> USE WordsLemma, ItemLemma DEF Literals
<1>1. CASE k = "Service"
  <2>1. FilledIn(k) = [annotations |-> Item("signed-by", << "service-ca" >>)]
    BY <1>1, Zenon DEF FilledIn
  <2>2. Item("signed-by", << "service-ca" >>) \in ItemType
    OBVIOUS
  <2>3. QED
    BY <2>1, <2>2
<1>2. CASE k = "ServiceAccount"
  <2>1. FilledIn(k) = [pullSecrets |-> Item("dockercfg", << "registry" >>)]
    BY <1>2, Zenon DEF FilledIn
  <2>2. Item("dockercfg", << "registry" >>) \in ItemType
    OBVIOUS
  <2>3. QED
    BY <2>1, <2>2
<1>3. CASE k = "Webhook"
  <2>1. FilledIn(k) = [caBundle |-> Item("caBundle", << "controller-manager" >>)]
    BY <1>3, Zenon DEF FilledIn
  <2>2. Item("caBundle", << "controller-manager" >>) \in ItemType
    OBVIOUS
  <2>3. QED
    BY <2>1, <2>2
<1>4. CASE k = "Deployment"
  <2>1. FilledIn(k) = [annotations |-> Item("revision", << "1" >>)]
    BY <1>4, Zenon DEF FilledIn
  <2>2. Item("revision", << "1" >>) \in ItemType
    OBVIOUS
  <2>3. QED
    BY <2>1, <2>2
<1>5. CASE k # "Service" /\ k # "ServiceAccount" /\ k # "Webhook" /\ k # "Deployment"
  <2>1. FilledIn(k) = <<>>
    BY <1>5, Zenon DEF FilledIn
  <2>2. QED
    BY <2>1
<1>6. QED
  BY <1>1, <1>2, <1>3, <1>4, <1>5

\* Immutable fields are fields the API server does not default.
LEMMA ImmutableLemma ==
    ASSUME NEW k \in ObjectKinds, NEW f \in Immutable(k)
    PROVE  f \notin Defaulted
<1>1. /\ k \in {"ClusterRoleBinding", "RoleBinding"} => Immutable(k) = {"roleRef"}
      /\ k = "CSIDriver" => Immutable(k) = {"attach"}
      /\ k = "StatefulSet" => Immutable(k) = {"selector", "claims"}
      /\ k \in {"AgentDaemonSet", "CSIDaemonSet", "Deployment"} => Immutable(k) = {"selector"}
  BY Zenon DEF Immutable
<1>2. Immutable(k) \subseteq {"roleRef", "attach", "selector", "claims"}
  <2>1. CASE k \in {"ClusterRoleBinding", "RoleBinding", "CSIDriver", "StatefulSet",
                    "AgentDaemonSet", "CSIDaemonSet", "Deployment"}
    BY <1>1, <2>1
  <2>2. CASE k \notin {"ClusterRoleBinding", "RoleBinding", "CSIDriver", "StatefulSet",
                       "AgentDaemonSet", "CSIDaemonSet", "Deployment"}
    <3>1. /\ k \notin {"ClusterRoleBinding", "RoleBinding"} /\ k # "CSIDriver"
          /\ k # "StatefulSet" /\ k \notin {"AgentDaemonSet", "CSIDaemonSet", "Deployment"}
      BY <2>2
    <3>2. Immutable(k) = {}
      BY <3>1, Zenon DEF Immutable
    <3>3. QED
      BY <3>2
  <2>3. QED
    BY <2>1, <2>2
<1>3. QED
  BY <1>2 DEF Defaulted

\* A changed field is a list of items, whichever way a user changes it.
LEMMA EditLemma ==
    ASSUME NEW old \in Seq(ItemType), NEW f \in Words
    PROVE  {<<>>, << Item(f, << "edited" >>) >>, Append(old, Item("extra", << "edited" >>)),
            Reordered(old)} \subseteq Seq(ItemType)
<1>1. << "edited" >> \in Seq(Words) /\ "extra" \in Words
  BY WordsLemma DEF Literals
<1>2. /\ << Item(f, << "edited" >>) >> \in Seq(ItemType)
      /\ Item("extra", << "edited" >>) \in ItemType
  BY <1>1, ItemLemma
<1>3. Append(old, Item("extra", << "edited" >>)) \in Seq(ItemType)
  BY <1>2
<1>4. Reordered(old) \in Seq(ItemType)
  <2>1. \A i \in 1..Len(old) : old[(Len(old) - i) + 1] \in ItemType
    OBVIOUS
  <2>2. QED
    BY <2>1 DEF Reordered
<1>5. <<>> \in Seq(ItemType)
  OBVIOUS
<1>6. QED
  BY <1>2, <1>3, <1>4, <1>5

\* A write of somebody else leaves the invariant: the cache is behind, so the object is
\* not at rest.
LEMMA WriteKeeps ==
    ASSUME IndInv, NEW v, Storable(kind, v), Write(v),
           kind' = kind, spec' = spec, process' = process, queued' = queued,
           changes' \in 0..MaxChanges
    PROVE  IndInv'
<1>1. Len(objW) <= MaxLag /\ objW' = Append(objW, v)
  BY DEF Write
<1>2. VersionsOK(kind, objW)
  BY DEF IndInv, Typed
<1>3. Len(objW) < MaxLag + 2 /\ Len(objW) # MaxLag + 1
  BY <1>1, <1>2, VersionsLemma, BoundsAssumption
<1>4. VersionsOK(kind, objW') /\ ~Drained(objW')
  BY <1>1, <1>2, <1>3, AddVersion
<1>5. Typed'
  BY <1>4 DEF IndInv, Typed
<1>6. RestIsAsGenerated'
  BY <1>4 DEF RestIsAsGenerated, AtRest
<1>7. QED
  BY <1>5, <1>6 DEF IndInv

\* A step after which a pass is due leaves the invariant.
LEMMA QueuedKeeps ==
    ASSUME IndInv, kind' = kind, spec' \in {1, 2}, process' \in Processes, queued' = TRUE,
           changes' \in 0..MaxChanges, VersionsOK(kind, objW')
    PROVE  IndInv'
<1>1. Typed'
  BY DEF IndInv, Typed
<1>2. RestIsAsGenerated'
  BY DEF RestIsAsGenerated, AtRest
<1>3. QED
  BY <1>1, <1>2 DEF IndInv

\* The constants' types.
LEMMA KindLemma ==
    ASSUME Typed
    PROVE  /\ kind \in ObjectKinds
           /\ process.proxy \in ProxyType
           /\ VersionsOK(kind, objW)
<1>1. kind \in ObjectKinds
  BY KindsAssumption DEF Typed
<1>2. process \in [proxy: ProxyType, createOnly: BOOLEAN]
  BY ProcessesAssumption DEF Typed
<1>3. QED
  BY <1>1, <1>2 DEF Typed

\* The operator starts where the object does not exist or was written by some process.
LEMMA InitIndInv == Init => IndInv
<1> SUFFICES ASSUME Init
             PROVE  IndInv
  OBVIOUS
<1>1. kind \in ObjectKinds /\ \A p \in Processes : p.proxy \in ProxyType
  <2>1. \A p \in Processes : p \in [proxy: ProxyType, createOnly: BOOLEAN]
    BY ProcessesAssumption
  <2>2. QED
    BY <2>1, KindsAssumption DEF Init
<1>2. Storable(kind, Absent)
  BY DEF Absent, Storable, Version, Val
<1>3. PICK v : Storable(kind, v) /\ objW = <<v>>
  <2>1. CASE objW = <<Absent>>
    BY <1>2, <2>1
  <2>2. CASE \E p \in Processes : objW = <<Object(WithDefaults(Generated(kind, 1, p.proxy)))>>
    BY <1>1, <2>2, GeneratedLemma, ObjectLemma
  <2>3. QED
    BY <2>1, <2>2 DEF Init
<1>4. VersionsOK(kind, objW)
  <2>1. v \in Version(kind)
    BY <1>3 DEF Storable
  <2>2. <<v>> \in Seq(Version(kind)) /\ Len(<<v>>) = 1 /\ DOMAIN <<v>> = {1} /\ <<v>>[1] = v
    BY <2>1, SingletonLemma
  <2>3. 1 \in 1..(MaxLag + 2) /\ MaxLag + 2 # 1
    BY BoundsAssumption
  <2>4. QED
    BY <1>3, <2>2, <2>3 DEF VersionsOK, Storable
<1>5. Typed
  BY <1>4, BoundsAssumption DEF Init, Typed
<1>6. RestIsAsGenerated
  BY DEF Init, RestIsAsGenerated, AtRest
<1>7. QED
  BY <1>5, <1>6 DEF IndInv

\* The users' changes leave the invariant.
LEMMA UsersKeep ==
    ASSUME IndInv, Users
    PROVE  IndInv'
<1> DEFINE val == Api(objW).val
<1>1. Typed /\ kind \in ObjectKinds /\ VersionsOK(kind, objW)
  BY KindLemma DEF IndInv
<1>2. val \in Val(kind) /\ (Api(objW).exists => Filled(val))
  BY <1>1, VersionsLemma DEF Storable
<1>3. Change => kind' = kind /\ changes' \in 0..MaxChanges
  BY <1>1, BoundsAssumption DEF Change, Typed
<1>4. \A f \in Fields(kind) : f \in Words /\ val[f] \in Seq(ItemType)
  BY <1>1, <1>2, WordsLemma DEF Val
<1>5. ASSUME NEW f \in Fields(kind), EditField(f)
      PROVE  IndInv'
  <2>1. PICK new \in {<<>>, << Item(f, << "edited" >>) >>,
                      Append(val[f], Item("extra", << "edited" >>)), Reordered(val[f])} :
            Write(Object(WithDefaults([val EXCEPT ![f] = new])))
    BY <1>5 DEF EditField
  <2>2. new \in Seq(ItemType)
    BY <1>4, <2>1, EditLemma
  <2>3. [val EXCEPT ![f] = new] \in Val(kind)
    BY <1>2, <2>2 DEF Val
  <2>4. Storable(kind, Object(WithDefaults([val EXCEPT ![f] = new])))
    BY <1>1, <2>3, ObjectLemma
  <2>5. spec' = spec /\ process' = process /\ queued' = queued
    BY <1>5 DEF EditField
  <2>6. kind' = kind /\ changes' \in 0..MaxChanges
    BY <1>3, <1>5 DEF EditField
  <2>7. QED
    BY <2>1, <2>4, <2>5, <2>6, WriteKeeps
<1>6. ASSUME NEW f \in Fields(kind), ReplaceObject(f)
      PROVE  IndInv'
  <2> DEFINE new == << Item(f, << "edited" >>) >>
  <2>1. Write(Object([val EXCEPT ![f] = new])) /\ Api(objW).exists /\ f \in Immutable(kind)
    BY <1>6 DEF ReplaceObject
  <2>2. new \in Seq(ItemType)
    BY <1>4, EditLemma
  <2> HIDE DEF new
  <2>3. [val EXCEPT ![f] = new] \in Val(kind)
    BY <1>2, <2>2 DEF Val
  <2>4. Filled([val EXCEPT ![f] = new])
    <3>1. f \notin Defaulted
      BY <1>1, <2>1, ImmutableLemma
    <3>2. QED
      BY <1>2, <2>1, <3>1 DEF Filled, Val
  <2>5. Storable(kind, Object([val EXCEPT ![f] = new]))
    BY <1>1, <2>3, <2>4, ObjectLemma
  <2>6. spec' = spec /\ process' = process /\ queued' = queued
    BY <1>6 DEF ReplaceObject
  <2>7. kind' = kind /\ changes' \in 0..MaxChanges
    BY <1>3, <1>6 DEF ReplaceObject
  <2>8. QED
    BY <2>1, <2>5, <2>6, <2>7, WriteKeeps
<1>7. CASE DeleteObject
  <2>1. Storable(kind, Absent)
    BY DEF Absent, Storable, Version, Val
  <2>2. spec' = spec /\ process' = process /\ queued' = queued /\ Write(Absent)
    BY <1>7 DEF DeleteObject
  <2>3. kind' = kind /\ changes' \in 0..MaxChanges
    BY <1>3, <1>7 DEF DeleteObject
  <2>4. QED
    BY <2>1, <2>2, <2>3, WriteKeeps
<1>8. CASE EditSpec
  <2>1. kind' = kind /\ changes' \in 0..MaxChanges
    BY <1>3, <1>8 DEF EditSpec
  <2>2. spec' \in {1, 2} /\ process' \in Processes /\ queued' = TRUE /\ objW' = objW
    BY <1>1, <1>8 DEF EditSpec, Typed
  <2>3. QED
    BY <1>1, <2>1, <2>2, QueuedKeeps
<1>9. CASE Restart
  <2>1. kind' = kind /\ changes' \in 0..MaxChanges
    BY <1>3, <1>9 DEF Restart
  <2>2. spec' \in {1, 2} /\ process' \in Processes /\ queued' = TRUE /\ objW' = Relist(objW)
    BY <1>1, <1>9 DEF Restart, Typed
  <2>3. VersionsOK(kind, objW')
    BY <1>1, <2>2, FewerVersions
  <2>4. QED
    BY <2>1, <2>2, <2>3, QueuedKeeps
<1>10. QED
  BY <1>5, <1>6, <1>7, <1>8, <1>9 DEF Users

\* What other controllers add, and what reaches the cache, leave the invariant.
LEMMA OthersKeep ==
    ASSUME IndInv, Others \/ DeliverObject
    PROVE  IndInv'
<1> DEFINE val == Api(objW).val
<1>1. Typed /\ kind \in ObjectKinds /\ VersionsOK(kind, objW)
  BY KindLemma DEF IndInv
<1>2. val \in Val(kind) /\ (Api(objW).exists => Filled(val))
  BY <1>1, VersionsLemma DEF Storable
<1>3. ASSUME NEW f \in Fields(kind), FillIn(f)
      PROVE  IndInv'
  <2> DEFINE item == FilledIn(kind)[f]
  <2>1. /\ Api(objW).exists /\ f \in DOMAIN FilledIn(kind)
        /\ Write(Object([val EXCEPT ![f] = Append(val[f], item)]))
    BY <1>3 DEF FillIn
  <2>2. item \in ItemType
    BY <1>1, <2>1, FilledInLemma
  <2> HIDE DEF item
  <2>3. Append(val[f], item) \in Seq(ItemType) /\ Append(val[f], item) # <<>>
    <3>1. val[f] \in Seq(ItemType)
      BY <1>2 DEF Val
    <3>2. QED
      BY <2>2, <3>1
  <2>4. PICK new \in Seq(ItemType) : new = Append(val[f], item) /\ new # <<>>
    BY <2>3
  <2>5. [val EXCEPT ![f] = new] \in Val(kind)
    BY <1>2 DEF Val
  <2>6. Filled([val EXCEPT ![f] = new])
    BY <1>2, <2>1, <2>4 DEF Filled, Val
  <2>7. Storable(kind, Object([val EXCEPT ![f] = new]))
    BY <1>1, <2>5, <2>6, ObjectLemma
  <2>8. /\ spec' = spec /\ process' = process /\ queued' = queued /\ kind' = kind
        /\ changes' \in 0..MaxChanges
    BY <1>1, <1>3 DEF FillIn, Typed
  <2>9. QED
    BY <2>1, <2>4, <2>7, <2>8, WriteKeeps
<1>4. CASE DeliverObject
  <2>1. Len(objW) > 1 /\ objW' = Deliver(objW) /\ queued' = TRUE
    BY <1>4 DEF DeliverObject
  <2>2. kind' = kind /\ spec' \in {1, 2} /\ process' \in Processes /\ changes' \in 0..MaxChanges
    BY <1>1, <1>4 DEF DeliverObject, Typed
  <2>3. VersionsOK(kind, objW')
    BY <1>1, <2>1, FewerVersions
  <2>4. QED
    BY <2>1, <2>2, <2>3, QueuedKeeps
<1>5. QED
  BY <1>3, <1>4 DEF Others

\* A pass leaves the invariant: it ends with nothing due only if it found the object in the
\* cache as generated, or wrote it.
LEMMA ReconcileKeeps ==
    ASSUME IndInv, Reconcile
    PROVE  IndInv'
<1> DEFINE existing == Cached(objW)
           desired == Generated(kind, spec, process.proxy)
           prepared == Prepared(kind, existing.val, desired)
<1>1. Typed /\ kind \in ObjectKinds /\ process.proxy \in ProxyType /\ VersionsOK(kind, objW)
  BY KindLemma DEF IndInv
<1>2. kind' = kind /\ spec' = spec /\ process' = process /\ changes' = changes
  BY DEF Reconcile
<1>3. /\ existing.val \in Val(kind) /\ (existing.exists => Filled(existing.val))
      /\ Drained(objW) => Api(objW) = existing
      /\ Len(objW) \in Nat /\ Len(objW) > 0
  BY <1>1, VersionsLemma DEF Storable
<1>4. desired \in Val(kind)
  BY <1>1, GeneratedLemma
<1>5. prepared \in Val(kind)
  BY <1>1, <1>3, <1>4, PreparedLemma
<1>6. CASE queued' = TRUE /\ objW' = objW
  <2>1. spec' \in {1, 2} /\ process' \in Processes /\ changes' \in 0..MaxChanges
    BY <1>1, <1>2 DEF Typed
  <2>2. QED
    BY <1>1, <1>2, <1>6, <2>1, QueuedKeeps
<1>7. ASSUME queued' = FALSE, VersionsOK(kind, objW'), RestIsAsGenerated'
      PROVE  IndInv'
  <2>1. Typed'
    BY <1>1, <1>2, <1>7 DEF Typed
  <2>2. QED
    BY <1>7, <2>1 DEF IndInv
<1>8. CASE ~Accepted /\ queued' = FALSE /\ objW' = objW
  <2>1. ~Accepted'
    BY <1>2, <1>8 DEF Accepted
  <2>2. RestIsAsGenerated'
    BY <2>1 DEF RestIsAsGenerated
  <2>3. QED
    BY <1>1, <1>7, <1>8, <2>2
<1>9. CASE ~existing.exists /\ CreateObject(desired)
  <2>1. CASE Api(objW).exists
    BY <1>6, <1>9, <2>1 DEF CreateObject
  <2>2. CASE ~Api(objW).exists
    <3> DEFINE v == Object(WithDefaults(desired))
    <3>1. objW' = Append(objW, v) /\ queued' = FALSE
      BY <1>9, <2>2 DEF CreateObject
    <3>2. Storable(kind, v) /\ v.exists
      BY <1>1, <1>4, ObjectLemma
    <3> HIDE DEF v
    <3>3. Len(objW) < MaxLag + 2
      <4>1. Len(objW) \in 1..(MaxLag + 2) /\ Len(objW) # MaxLag + 2
        BY <1>1, <2>2 DEF VersionsOK
      <4>2. QED
        BY <4>1, BoundsAssumption
    <3>4. VersionsOK(kind, objW') /\ ~Drained(objW')
      BY <1>1, <3>1, <3>2, <3>3, AddVersion
    <3>5. RestIsAsGenerated'
      BY <3>4 DEF RestIsAsGenerated, AtRest
    <3>6. QED
      BY <1>7, <3>1, <3>4, <3>5
  <2>3. QED
    BY <2>1, <2>2
<1>10. ASSUME queued' = FALSE, objW' = objW, existing.exists,
              Drained(objW) /\ ~process.createOnly =>
                 \A f \in Fields(kind) \ Unasked :
                    AsAsked(f, existing.val[f], WithDefaults(desired)[f])
       PROVE  IndInv'
  <2>1. process'.createOnly = process.createOnly
    BY <1>2
  <2>2. WithDefaults(desired)' = WithDefaults(desired)
    BY <1>2
  <2>3. RestIsAsGenerated'
    <3> SUFFICES ASSUME Drained(objW')
                 PROVE  /\ Api(objW').exists
                        /\ \/ process'.createOnly
                           \/ \A f \in Fields(kind') \ Unasked :
                                 AsAsked(f, Api(objW').val[f], WithDefaults(desired)'[f])
      BY DEF RestIsAsGenerated, AtRest
    <3>1. Api(objW') = existing /\ Drained(objW)
      BY <1>3, <1>10
    <3> HIDE DEF existing, desired
    <3>2. QED
      BY <1>2, <1>10, <2>1, <2>2, <3>1
  <2>4. QED
    BY <1>1, <1>7, <1>10, <2>3
<1>11. CASE /\ existing.exists
            /\ Guarded \/ ~needsUpdate(kind, existing.val, prepared)
            /\ queued' = FALSE /\ objW' = objW
  <2>1. ~Guarded => \A f \in Fields(kind) \ Unasked :
                       AsAsked(f, existing.val[f], WithDefaults(desired)[f])
    BY <1>1, <1>3, <1>11, NoUpdateIsAsAsked
  <2>2. ~process.createOnly => ~Guarded
    BY DEF Guarded
  <2>3. QED
    BY <1>10, <1>11, <2>1, <2>2
<1>12. CASE existing.exists /\ UpdateObject(prepared)
  <2> DEFINE v == Object(WithDefaults(prepared))
  <2>1. CASE /\ Drained(objW)
             /\ objW' = Store(objW, v) /\ queued' = FALSE
    <3>1. Storable(kind, v) /\ v.exists /\ v.val = WithDefaults(prepared)
      BY <1>1, <1>5, ObjectLemma
    <3>2. CASE v = Api(objW)
      <4>1. objW' = objW /\ existing = v
        BY <1>3, <2>1, <3>2 DEF Store
      <4>2. \A f \in Fields(kind) \ Unasked :
               AsAsked(f, WithDefaults(prepared)[f], WithDefaults(desired)[f])
        BY <1>1, <1>3, WrittenIsAsAsked
      <4>3. existing.val = WithDefaults(prepared)
        BY <3>1, <4>1
      <4>4. \A f \in Fields(kind) \ Unasked :
               AsAsked(f, existing.val[f], WithDefaults(desired)[f])
        BY <4>2, <4>3
      <4>5. QED
        BY <1>10, <1>12, <2>1, <4>1, <4>4
    <3>3. CASE v # Api(objW)
      <4>1. objW' = Append(objW, v)
        BY <2>1, <3>3 DEF Store
      <4>2. Len(objW) < MaxLag + 2
        BY <2>1, BoundsAssumption DEF Drained
      <4> HIDE DEF v
      <4>3. VersionsOK(kind, objW') /\ ~Drained(objW')
        BY <1>1, <3>1, <4>1, <4>2, AddVersion
      <4>4. RestIsAsGenerated'
        BY <4>3 DEF RestIsAsGenerated, AtRest
      <4>5. QED
        BY <1>7, <2>1, <4>3, <4>4
    <3>4. QED
      BY <3>2, <3>3
  <2>2. CASE queued' = TRUE /\ objW' = objW
    BY <1>6, <2>2
  <2>3. QED
    BY <1>12, <2>1, <2>2 DEF UpdateObject
<1>13. QED
  BY <1>8, <1>9, <1>11, <1>12 DEF Reconcile

\* Every step leaves the invariant.
LEMMA NextIndInv == IndInv /\ [Next]_vars => IndInv'
<1> SUFFICES ASSUME IndInv, [Next]_vars
             PROVE  IndInv'
  OBVIOUS
<1>1. CASE Users
  BY <1>1, UsersKeep
<1>2. CASE Others \/ DeliverObject
  BY <1>2, OthersKeep
<1>3. CASE Reconcile
  BY <1>3, ReconcileKeeps
<1>4. CASE UNCHANGED vars
  <2>1. Typed'
    BY <1>4 DEF vars, IndInv, Typed
  <2>2. RestIsAsGenerated'
    BY <1>4 DEF vars, IndInv, RestIsAsGenerated, AtRest, Accepted
  <2>3. QED
    BY <2>1, <2>2 DEF IndInv
<1>5. QED
  BY <1>1, <1>2, <1>3, <1>4 DEF Next

\* The invariant holds throughout.
LEMMA Invariance == Spec => []IndInv
<1>1. QED
  BY InitIndInv, NextIndInv, PTL DEF Spec

\* Whatever is written to the object, it keeps the fields of its kind, and no more
\* versions are on their way than the operator's own write adds to the others'.
THEOREM TypeCorrect == Spec => []TypeOK
<1>1. IndInv => TypeOK
  <2> SUFFICES ASSUME IndInv
               PROVE  TypeOK
    OBVIOUS
  <2>1. VersionsOK(kind, objW)
    BY DEF IndInv, Typed
  <2>2. \A i \in DOMAIN objW : objW[i] \in Version(kind)
    BY <2>1 DEF VersionsOK
  <2>3. \A i \in DOMAIN objW : DOMAIN objW[i].val = Fields(kind)
    BY <2>2 DEF Version, Val
  <2>4. QED
    BY <2>1, <2>3 DEF IndInv, Typed, VersionsOK, TypeOK
<1>2. QED
  BY <1>1, Invariance, PTL

\* At rest the object is there, and outside create-only mode it has every field it is asked
\* to have, whoever edited, replaced or deleted it meanwhile and with whatever configuration
\* it was written before: the comparison of each kind overlooks nothing the operator answers
\* for.
THEOREM RestCorrect == Spec => []RestIsAsGenerated
<1>1. IndInv => RestIsAsGenerated
  BY DEF IndInv
<1>2. QED
  BY <1>1, Invariance, PTL

\* What others have written to an object: an update keeps the fields it carries over, and
\* erases the pull secrets and annotations other controllers have added only where the object
\* lacked something the operator asks for.
THEOREM ForeignKept == Spec => KeepsForeignFields
<1> DEFINE want == WithDefaults(Generated(kind, spec, process.proxy))
           Keeps == queued /\ ~queued' /\ Api(objW).exists /\ Api(objW').exists =>
                       /\ \A f \in Carried \cap Fields(kind) : Api(objW').val[f] = Api(objW).val[f]
                       /\ \A f \in DOMAIN FilledIn(kind) :
                             FilledIn(kind)[f] \in Range(Api(objW).val[f]) \ Range(Api(objW').val[f]) =>
                                Lacks(kind, Api(objW).val, want)
<1>1. IndInv /\ [Next]_vars => [Keeps]_vars
  <2> SUFFICES ASSUME IndInv, Next PROVE Keeps
    OBVIOUS
  <2> SUFFICES ASSUME queued, ~queued', Api(objW).exists, Api(objW').exists
               PROVE  /\ \A f \in Carried \cap Fields(kind) : Api(objW').val[f] = Api(objW).val[f]
                      /\ objW' # objW /\ kind \in Shared => Lacks(kind, Api(objW).val, want)
    <3>1. kind \in ObjectKinds
      BY KindLemma DEF IndInv
    <3>2. ASSUME NEW f \in DOMAIN FilledIn(kind) PROVE kind \in Shared
      BY <3>1, <3>2, AddedToLemma
    <3>3. QED
      BY <3>2 DEF vars
  <2>1. Reconcile
    <3>1. ~Users
      BY DEF Users, EditField, ReplaceObject, DeleteObject, EditSpec, Restart
    <3>2. ~Others /\ ~DeliverObject
      BY DEF Others, FillIn, DeliverObject
    <3>3. QED
      BY <3>1, <3>2 DEF Next
  <2> DEFINE existing == Cached(objW)
             prepared == Prepared(kind, existing.val, Generated(kind, spec, process.proxy))
  <2>2. Typed /\ kind \in ObjectKinds /\ process.proxy \in ProxyType /\ VersionsOK(kind, objW)
    BY KindLemma DEF IndInv
  <2>3. /\ existing.val \in Val(kind) /\ (existing.exists => Filled(existing.val))
        /\ Drained(objW) => Api(objW) = existing
        /\ objW \in Seq(Version(kind)) /\ Len(objW) > 0
    BY <2>2, VersionsLemma DEF Storable
  <2>4. CASE objW' = objW
    BY <2>4
  <2>5. CASE /\ existing.exists /\ UpdateObject(prepared)
             /\ needsUpdate(kind, existing.val, prepared)
    <3> DEFINE v == Object(WithDefaults(prepared))
    <3>1. Drained(objW) /\ objW' = Store(objW, v)
      BY <2>5 DEF UpdateObject
    <3>2. prepared \in Val(kind)
      BY <2>2, <2>3, GeneratedLemma, PreparedLemma
    <3>3. v \in Version(kind) /\ v.val = WithDefaults(prepared)
      BY <2>2, <3>2, ObjectLemma DEF Storable
    <3> HIDE DEF v
    <3>4. Api(objW') = v
      <4>1. Api(Store(objW, v)) = v
        BY <2>3, <3>3, StoreLemma
      <4>2. QED
        BY <3>1, <4>1, Zenon
    <3>5. PICK found \in Val(kind) : found = existing.val /\ Filled(found)
      BY <2>3, <2>5
    <3>6. PICK proxy \in ProxyType : proxy = process.proxy
      BY <2>2
    <3>7. \A h \in Carried \cap Fields(kind) : WithDefaults(prepared)[h] = existing.val[h]
      <4>1. ASSUME NEW k \in ObjectKinds, found \in Val(k), NEW s
            PROVE  \A h \in Carried \cap Fields(k) :
                      WithDefaults(Prepared(k, found, Generated(k, s, proxy)))[h] = found[h]
        <5>1. Filled(found)
          BY <3>5
        <5>2. QED
          BY <4>1, <5>1, WrittenKeepsCarried
      <4>2. \A h \in Carried \cap Fields(kind) :
               WithDefaults(Prepared(kind, found, Generated(kind, spec, proxy)))[h] = found[h]
        BY <2>2, <4>1, Zenon
      <4>3. QED
        BY <3>5, <3>6, <4>2
    <3>8. ASSUME kind \in Shared PROVE Lacks(kind, existing.val, want)
      <4>1. ASSUME NEW k \in Shared, found \in Val(k), NEW s,
                   needsUpdate(k, found, Prepared(k, found, Generated(k, s, proxy)))
            PROVE  Lacks(k, found, WithDefaults(Generated(k, s, proxy)))
        BY <4>1, UpdateHasReason
      <4>2. Lacks(kind, found, WithDefaults(Generated(kind, spec, proxy)))
        BY <2>5, <3>5, <3>6, <3>8, <4>1, Zenon
      <4>3. QED
        BY <3>5, <3>6, <4>2
    <3>9. Api(objW) = existing
      BY <2>3, <3>1
    <3> HIDE DEF want, existing, prepared
    <3>10. QED
      BY <3>3, <3>4, <3>7, <3>8, <3>9
  <2>6. QED
    BY <2>1, <2>4, <2>5 DEF Reconcile, CreateObject
<1>2. QED
  BY <1>1, Invariance, PTL DEF Spec, KeepsForeignFields

(***************************************************************************)
(* The proxy configuration of the pods.                                    *)
(***************************************************************************)

\* What NO_PROXY of a workload has to be.
NoProxy(k, p) == IF IsProxyEnabled(p) THEN p.noProxy \o Additional(k) ELSE <<>>

\* The values of the items with a name.
ValuesOf(items, n) == {x.value : x \in {y \in items : y.name = n}}

\* The proxy variables of a container are those of the process.
ProxyVariables(env, k, p) ==
    /\ ValuesOf(env, "HTTP_PROXY") = {p.http} \ {<<>>}
    /\ ValuesOf(env, "HTTPS_PROXY") = {p.https} \ {<<>>}
    /\ ValuesOf(env, "NO_PROXY") = {NoProxy(k, p)} \ {<<>>}

\* They do not depend on the order of a list.
LEMMA ValuesLemma ==
    ASSUME NEW list, NEW n
    PROVE  /\ {list[i].value : i \in {j \in DOMAIN list : list[j].name = n}} =
                  ValuesOf(Range(list), n)
           /\ (\E i \in DOMAIN list : list[i].name = n) <=> (\E x \in Range(list) : x.name = n)
BY DEF ValuesOf, Range

\* The values of a variable that may be set.
LEMMA VariableLemma ==
    ASSUME NEW n \in Words, NEW v \in Seq(Words)
    PROVE  /\ \A x \in Variable(n, v) : x.name = n /\ x.value = v
           /\ Variable(n, v) # {} <=> v # <<>>
<1>1. Item(n, v).name = n /\ Item(n, v).value = v
  BY ItemLemma
<1>2. QED
  BY <1>1 DEF Variable

\* The environment of each container of a generated workload.
LEMMA EnvLemma ==
    ASSUME NEW k \in Proxied, NEW s, NEW p \in ProxyType, NEW f \in EnvFields \cap Fields(k)
    PROVE  ProxyVariables(Range(Generated(k, s, p)[f]), k, p)
<1> DEFINE g0 == Generated0(k, s)
           pod == AddProxyConfigToPodWithNoProxyAdditions(g0, p, Additional(k))
           env == Range(Generated(k, s, p)[f])
           own == Item(f, << "generated" >>)
           http == Variable("HTTP_PROXY", p.http)
           https == Variable("HTTPS_PROXY", p.https)
           no == Variable("NO_PROXY", p.noProxy \o Additional(k))
<1>1. k \in ObjectKinds /\ f \in Fields(k) /\ f \notin {"scheme", "HTTP_PROXY", "HTTPS_PROXY", "NO_PROXY"}
  BY DEF Proxied, ObjectKinds, EnvFields
<1>2. /\ Additional(k) \in Seq(Words)
      /\ Generated(k, s, p)[f] = pod[f]
  BY <1>1, ProxiedLemma
<1>3. g0 \in Val(k) /\ g0[f] = << own >>
  BY <1>1, Generated0Lemma
<1>4. own \in ItemType /\ own.name = f /\ g0[f] \in Seq(ItemType)
  <2>1. f \in Words /\ << "generated" >> \in Seq(Words)
    BY <1>1, WordsLemma DEF Literals
  <2>2. own \in ItemType /\ own.name = f /\ << own >> \in Seq(ItemType)
    BY <2>1, ItemLemma
  <2> HIDE DEF own, g0
  <2>3. QED
    BY <1>3, <2>2
<1> HIDE DEF own
<1>5. Range(g0[f]) = {own}
  BY <1>3 DEF Range
<1>6. pod[f] = IF IsProxyEnabled(p)
               THEN InjectProxyEnvVarsWithNoProxyAdditions(g0[f], p, Additional(k))
               ELSE g0[f]
  <2>1. f \in Fields(k) \cap EnvFields
    OBVIOUS
  <2> HIDE DEF g0
  <2>2. \A h \in Fields(k) \cap EnvFields :
           pod[h] = IF IsProxyEnabled(p)
                    THEN InjectProxyEnvVarsWithNoProxyAdditions(g0[h], p, Additional(k))
                    ELSE g0[h]
    BY <1>1, <1>2, <1>3, PodLemma
  <2> HIDE DEF pod
  <2>3. QED
    BY <2>1, <2>2
<1>7. env = {own} \cup (IF IsProxyEnabled(p) THEN http \cup https \cup no ELSE {})
  <2>1. CASE IsProxyEnabled(p)
    <3>1. \A x \in Range(g0[f]) : x.name \notin {"HTTP_PROXY", "HTTPS_PROXY", "NO_PROXY"}
      BY <1>1, <1>4, <1>5
    <3>2. Range(InjectProxyEnvVarsWithNoProxyAdditions(g0[f], p, Additional(k))) =
              Range(g0[f]) \cup http \cup https \cup no
      BY <1>2, <1>4, <3>1, InjectLemma
    <3>3. QED
      BY <1>2, <1>5, <1>6, <2>1, <3>2
  <2>2. CASE ~IsProxyEnabled(p)
    BY <1>2, <1>5, <1>6, <2>2
  <2>3. QED
    BY <2>1, <2>2
<1>8. /\ \A x \in http : x.name = "HTTP_PROXY" /\ x.value = p.http
      /\ http # {} <=> p.http # <<>>
      /\ \A x \in https : x.name = "HTTPS_PROXY" /\ x.value = p.https
      /\ https # {} <=> p.https # <<>>
      /\ \A x \in no : x.name = "NO_PROXY" /\ x.value = p.noProxy \o Additional(k)
      /\ no # {} <=> p.noProxy \o Additional(k) # <<>>
  <2>1. "HTTP_PROXY" \in Words /\ "HTTPS_PROXY" \in Words /\ "NO_PROXY" \in Words
    BY WordsLemma DEF Literals
  <2>2. /\ p.http \in Seq(Words) /\ p.https \in Seq(Words)
        /\ p.noProxy \o Additional(k) \in Seq(Words)
    BY <1>2, ProxyTypeLemma
  <2>3. /\ \A x \in http : x.name = "HTTP_PROXY" /\ x.value = p.http
        /\ http # {} <=> p.http # <<>>
    BY <2>1, <2>2, VariableLemma, Zenon
  <2>4. /\ \A x \in https : x.name = "HTTPS_PROXY" /\ x.value = p.https
        /\ https # {} <=> p.https # <<>>
    BY <2>1, <2>2, VariableLemma, Zenon
  <2>5. /\ \A x \in no : x.name = "NO_PROXY" /\ x.value = p.noProxy \o Additional(k)
        /\ no # {} <=> p.noProxy \o Additional(k) # <<>>
    <3>1. PICK w \in Seq(Words) : w = p.noProxy \o Additional(k)
      BY <2>2, Zenon
    <3>2. /\ \A x \in Variable("NO_PROXY", w) : x.name = "NO_PROXY" /\ x.value = w
          /\ Variable("NO_PROXY", w) # {} <=> w # <<>>
      BY <2>1, VariableLemma, SMTT(30)
    <3>3. QED
      BY <3>1, <3>2, Zenon
  <2>6. QED
    BY <2>3, <2>4, <2>5
<1> HIDE DEF env, http, https, no
<1>9. ValuesOf(env, "HTTP_PROXY") = {p.http} \ {<<>>}
  BY <1>1, <1>4, <1>7, <1>8 DEF ValuesOf, IsProxyEnabled
<1>10. ValuesOf(env, "HTTPS_PROXY") = {p.https} \ {<<>>}
  BY <1>1, <1>4, <1>7, <1>8 DEF ValuesOf, IsProxyEnabled
<1>11. ValuesOf(env, "NO_PROXY") = {NoProxy(k, p)} \ {<<>>}
  <2>1. PICK w : w = p.noProxy \o Additional(k)
    OBVIOUS
  <2>2. /\ \A x \in no : x.name = "NO_PROXY" /\ x.value = w
        /\ no # {} <=> w # <<>>
    BY <1>8, <2>1, Zenon
  <2>3. ValuesOf(env, "NO_PROXY") = {IF IsProxyEnabled(p) THEN w ELSE <<>>} \ {<<>>}
    <3>1. CASE IsProxyEnabled(p)
      BY <1>1, <1>4, <1>7, <1>8, <2>2, <3>1 DEF ValuesOf
    <3>2. CASE ~IsProxyEnabled(p)
      BY <1>1, <1>4, <1>7, <3>2 DEF ValuesOf
    <3>3. QED
      BY <3>1, <3>2
  <2>4. QED
    BY <2>1, <2>3, Zenon DEF NoProxy
<1>12. ProxyVariables(env, k, p)
  BY <1>9, <1>10, <1>11, Zenon DEF ProxyVariables
<1>13. QED
  BY <1>12 DEF env

\* The CA bundle of a generated workload: mounted in each container, from a volume.
LEMMA BundleLemma ==
    ASSUME NEW k \in Proxied, NEW s, NEW p \in ProxyType
    PROVE  /\ \A f \in MountFields \cap Fields(k) :
                 (\E x \in Range(Generated(k, s, p)[f]) : x.name = "trusted-ca-bundle")
                 <=> p.ca # <<>>
           /\ "volumes" \in Fields(k) =>
                 ValuesOf(Range(Generated(k, s, p)["volumes"]), "trusted-ca-bundle") =
                    {p.ca} \ {<<>>}
<1> DEFINE g0 == Generated0(k, s)
           pod == AddProxyConfigToPodWithNoProxyAdditions(g0, p, Additional(k))
           mount == GetTrustedCABundleVolumeMount
           volume == GetTrustedCABundleVolume(p)
<1>1. k \in ObjectKinds
  BY DEF Proxied, ObjectKinds
<1>2. /\ Additional(k) \in Seq(Words)
      /\ \A f \in Fields(k) \ {"scheme"} : Generated(k, s, p)[f] = pod[f]
  BY <1>1, ProxiedLemma
<1>3. g0 \in Val(k) /\ \A f \in Fields(k) : g0[f] \in Seq(ItemType)
  BY <1>1, Generated0Lemma DEF Val
<1>4. /\ mount \in ItemType /\ mount.name = "trusted-ca-bundle"
      /\ volume \in ItemType /\ volume.name = "trusted-ca-bundle" /\ volume.value = p.ca
  <2>1. "trusted-ca-bundle" \in Words /\ << "ca-trust" >> \in Seq(Words) /\ p.ca \in Seq(Words)
    BY <1>2, WordsLemma, ProxyTypeLemma DEF Literals
  <2>2. QED
    BY <2>1, ItemLemma DEF GetTrustedCABundleVolumeMount, GetTrustedCABundleVolume
<1>5. /\ \A f \in Fields(k) \cap MountFields : pod[f] =
           IF IsTrustedCABundleConfigured(p)
           THEN AddTrustedCABundleToContainer(g0[f]) ELSE g0[f]
      /\ "volumes" \in Fields(k) => pod["volumes"] =
           IF IsTrustedCABundleConfigured(p)
           THEN AddMissing(g0["volumes"], volume) ELSE g0["volumes"]
  BY <1>1, <1>2, <1>3, PodLemma
<1> HIDE DEF mount, volume
<1>6. ASSUME NEW f \in MountFields \cap Fields(k)
      PROVE  (\E x \in Range(Generated(k, s, p)[f]) : x.name = "trusted-ca-bundle")
             <=> p.ca # <<>>
  <2>1. Generated(k, s, p)[f] = pod[f]
    BY <1>2 DEF MountFields
  <2>2. PICK own \in ItemType : g0[f] = << own >> /\ own.name = f
    <3>1. f \in Words /\ << "generated" >> \in Seq(Words)
      BY <1>1, WordsLemma DEF Literals
    <3>2. g0[f] = << Item(f, << "generated" >>) >>
      BY <1>1, Generated0Lemma
    <3>3. Item(f, << "generated" >>) \in ItemType /\ Item(f, << "generated" >>).name = f
      BY <3>1, ItemLemma
    <3>4. QED
      BY <3>2, <3>3
  <2>3. Range(g0[f]) = {own}
    <3>1. Range(<< own >>) = {own}
      BY DEF Range
    <3>2. QED
      BY <2>2, <3>1, Zenon
  <2>4. \A x \in Range(g0[f]) : x.name # "trusted-ca-bundle"
    BY <2>2, <2>3 DEF MountFields
  <2>5. Range(AddTrustedCABundleToContainer(g0[f])) = Range(g0[f]) \cup {mount}
    BY <1>3, <1>4, <2>4, AddMissingLemma DEF AddTrustedCABundleToContainer, mount
  <2>6. QED
    BY <1>4, <1>5, <2>1, <2>4, <2>5 DEF IsTrustedCABundleConfigured
<1>7. ASSUME "volumes" \in Fields(k)
      PROVE  ValuesOf(Range(Generated(k, s, p)["volumes"]), "trusted-ca-bundle") =
                {p.ca} \ {<<>>}
  <2>1. Generated(k, s, p)["volumes"] = pod["volumes"]
    BY <1>2, <1>7
  <2>2. PICK a \in ItemType, b \in ItemType :
            g0["volumes"] = << a, b >> /\ a.name = "volumes" /\ b.name = "volumes"
    <3>1. "volumes" \in Words /\ << "first" >> \in Seq(Words) /\ << "second" >> \in Seq(Words)
      BY <1>1, <1>7, WordsLemma DEF Literals
    <3>2. g0["volumes"] = << Item("volumes", << "first" >>), Item("volumes", << "second" >>) >>
      BY <1>1, <1>7, Generated0Lemma
    <3>3. /\ Item("volumes", << "first" >>) \in ItemType
          /\ Item("volumes", << "first" >>).name = "volumes"
          /\ Item("volumes", << "second" >>) \in ItemType
          /\ Item("volumes", << "second" >>).name = "volumes"
      BY <3>1, ItemLemma
    <3> HIDE DEF g0
    <3>4. QED
      BY <3>2, <3>3
  <2>3. \A x \in Range(g0["volumes"]) : x.name # "trusted-ca-bundle"
    BY <2>2 DEF Range
  <2>4. Range(AddMissing(g0["volumes"], volume)) = Range(g0["volumes"]) \cup {volume}
    BY <1>3, <1>4, <1>7, <2>3, AddMissingLemma
  <2>5. QED
    BY <1>4, <1>5, <1>7, <2>1, <2>3, <2>4 DEF IsTrustedCABundleConfigured, ValuesOf
<1>8. QED
  BY <1>6, <1>7

\* At rest and outside create-only mode, every container of a workload has the proxy variables
\* and the CA bundle of the running process, or none, with a volume for the bundle; with a
\* proxy, the agent has NO_PROXY entries for the server and the Kubernetes API.
THEOREM ProxyCorrect == Spec => []ProxyReachesPods
<1>1. IndInv => ProxyReachesPods
  <2> DEFINE val == Api(objW).val
             p == process.proxy
             g == Generated(kind, spec, p)
             noProxy == NoProxy(kind, p)
  <2> SUFFICES ASSUME IndInv, AtRest, Accepted, ~process.createOnly, "hash" \in Fields(kind)
               PROVE  LET Has(f, name) == \E i \in DOMAIN val[f] : val[f][i].name = name
                          Value(f, name) == {val[f][i].value :
                                               i \in {j \in DOMAIN val[f] : val[f][j].name = name}}
                      IN  /\ \A f \in EnvFields \cap Fields(kind) :
                               /\ Value(f, "HTTP_PROXY") = {p.http} \ {<<>>}
                               /\ Value(f, "HTTPS_PROXY") = {p.https} \ {<<>>}
                               /\ Value(f, "NO_PROXY") = {noProxy} \ {<<>>}
                          /\ \A f \in MountFields \cap Fields(kind) :
                               Has(f, "trusted-ca-bundle") = (p.ca # <<>>)
                          /\ Value("volumes", "trusted-ca-bundle") = {p.ca} \ {<<>>}
    BY Zenon DEF ProxyReachesPods, NoProxy, Additional
  <2>1. Typed /\ kind \in ObjectKinds /\ p \in ProxyType
    BY KindLemma DEF IndInv
  <2>2. kind \in Proxied /\ "volumes" \in Fields(kind)
    BY <2>1, FieldsLemma DEF ObjectKinds, PodFields, Proxied
  <2>3. g \in Val(kind)
    BY <2>1, GeneratedLemma
  <2>4. \A f \in Fields(kind) \ Unasked : AsAsked(f, val[f], WithDefaults(g)[f])
    BY DEF IndInv, RestIsAsGenerated
  <2> HIDE DEF g, val
  <2>5. ASSUME NEW f \in (EnvFields \cup MountFields \cup {"volumes"}) \cap Fields(kind)
        PROVE  Range(val[f]) = Range(g[f])
    <3>1. f \in Fields(kind) \ Unasked /\ f \notin Defaulted /\ f \notin {"labels", "annotations"}
      BY DEF EnvFields, MountFields, Unasked, Carried, Defaulted
    <3>2. WithDefaults(g)[f] = g[f]
      BY <2>1, <2>3, <3>1, WithDefaultsLemma
    <3>3. QED
      BY <2>4, <3>1, <3>2 DEF AsAsked
  <2>6. ASSUME NEW f \in EnvFields \cap Fields(kind)
        PROVE  /\ ValuesOf(Range(val[f]), "HTTP_PROXY") = {p.http} \ {<<>>}
               /\ ValuesOf(Range(val[f]), "HTTPS_PROXY") = {p.https} \ {<<>>}
               /\ ValuesOf(Range(val[f]), "NO_PROXY") = {noProxy} \ {<<>>}
    <3>1. Range(val[f]) = Range(Generated(kind, spec, p)[f])
      BY <2>5 DEF g
    <3>2. ProxyVariables(Range(Generated(kind, spec, p)[f]), kind, p)
      BY <2>1, <2>2, EnvLemma
    <3>3. ProxyVariables(Range(val[f]), kind, p)
      BY <3>1, <3>2, Zenon
    <3>4. QED
      BY <3>3, Zenon DEF ProxyVariables
  <2>7. ASSUME NEW f \in MountFields \cap Fields(kind)
        PROVE  (\E x \in Range(val[f]) : x.name = "trusted-ca-bundle") <=> p.ca # <<>>
    <3>1. Range(val[f]) = Range(g[f])
      BY <2>5
    <3> HIDE DEF p
    <3>2. \A h \in MountFields \cap Fields(kind) :
             (\E x \in Range(Generated(kind, spec, p)[h]) : x.name = "trusted-ca-bundle")
             <=> p.ca # <<>>
      BY <2>1, <2>2, BundleLemma
    <3>3. QED
      BY <3>1, <3>2, Zenon DEF g
  <2>8. ValuesOf(Range(val["volumes"]), "trusted-ca-bundle") = {p.ca} \ {<<>>}
    <3>1. Range(val["volumes"]) = Range(g["volumes"])
      BY <2>2, <2>5
    <3>2. ValuesOf(Range(Generated(kind, spec, p)["volumes"]), "trusted-ca-bundle") =
             {p.ca} \ {<<>>}
      BY <2>1, <2>2, BundleLemma
    <3>3. QED
      BY <3>1, <3>2, Zenon DEF g
  <2> DEFINE Has(f, name) == \E i \in DOMAIN val[f] : val[f][i].name = name
             Value(f, name) == {val[f][i].value :
                                  i \in {j \in DOMAIN val[f] : val[f][j].name = name}}
  <2>9. \A f, n : Value(f, n) = ValuesOf(Range(val[f]), n)
    BY ValuesLemma
  <2>10. \A f, n : Has(f, n) <=> \E x \in Range(val[f]) : x.name = n
    BY ValuesLemma
  <2> HIDE DEF Has, Value
  <2>11. ASSUME NEW f \in EnvFields \cap Fields(kind)
         PROVE  /\ Value(f, "HTTP_PROXY") = {p.http} \ {<<>>}
                /\ Value(f, "HTTPS_PROXY") = {p.https} \ {<<>>}
                /\ Value(f, "NO_PROXY") = {noProxy} \ {<<>>}
    BY <2>6, <2>9
  <2>12. ASSUME NEW f \in MountFields \cap Fields(kind)
         PROVE  Has(f, "trusted-ca-bundle") = (p.ca # <<>>)
    <3>1. Has(f, "trusted-ca-bundle") <=> p.ca # <<>>
      BY <2>7, <2>10
    <3>2. QED
      BY <3>1, Zenon DEF Has
  <2>13. Value("volumes", "trusted-ca-bundle") = {p.ca} \ {<<>>}
    BY <2>8, <2>9
  <2>14. QED
    BY <2>11, <2>12, <2>13, Zenon DEF Has, Value
<1>2. QED
  BY <1>1, Invariance, PTL
=============================================================================
