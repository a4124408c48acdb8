---------------------------- MODULE OperandSteps ----------------------------
(***************************************************************************)
(* What one pass of each operand controller does to the cluster, as a      *)
(* sequence of steps; OperandController executes them.  A step is a record *)
(*   kind   "validate"   a check of the CR's spec                          *)
(*          "managed"    create the object, or update it unless the        *)
(*                       operator runs in create-only mode                 *)
(*          "unguarded"  the same without regard to create-only mode       *)
(*          "createonce" create the object if it is not there              *)
(*          "route"      the OpenShift Route, subject to managedRoute      *)
(*          "health"     publish the rollout state of a workload           *)
(*          "mark"       publish the condition of a group of objects       *)
(*   obj    the object, or "none"                                          *)
(*   cond   the status condition the step reports in                       *)
(*   from   what the generated object is computed from                     *)
(*   when   the feature of the CR's spec that enables the step, or "always"*)
(*   marks  a success sets the condition to True                           *)
(*   silent a failed read is returned without setting the condition        *)
(*   open   the generator leaves compared fields to the API server, so the *)
(*          comparison never finds the object as generated                 *)
(***************************************************************************)
EXTENDS Sequences

Step(kind, obj, cond) ==
    [kind |-> kind, obj |-> obj, cond |-> cond, from |-> {"spec"},
     when |-> "always", marks |-> kind # "validate", silent |-> FALSE, open |-> FALSE]

\* One of a group of objects: only "mark" reports the success of the group.
Member(step) == [step EXCEPT !.marks = FALSE]

If(feature, step) == [step EXCEPT !.when = feature]

From(inputs, step) == [step EXCEPT !.from = inputs]

\* Probes without a scheme, ports without a protocol and field references without an
\* API version: the defaults the API server fills in count as differences.
Open(step) == [step EXCEPT !.open = TRUE]

\* A workload is created or updated, then its health is read back from the cache.
Workload(obj, cond, inputs) ==
    << From(inputs, Member(Step("managed", obj, cond))), Step("health", obj, cond) >>

OpenWorkload(obj, cond, inputs) ==
    << Open(From(inputs, Member(Step("managed", obj, cond)))), Step("health", obj, cond) >>

(***************************************************************************)
(* SpireServer.                                                            *)
(***************************************************************************)

\* Inputs of the generated objects: the CR's spec and the ZTWIM's, whose trust
\* domain and cluster name reach the workload through the ConfigMap hashes.
generateSpireServerConfigMap == {"spec", "ztwim"}
generateControllerManagerConfig == {"spec", "ztwim"}
GenerateSpireServerStatefulSet == {"spec", "ztwim"}
generateFederationRoute == {"spec", "ztwim"}

ServerServiceAccount == << Step("managed", "server-sa", "ServiceAccountAvailable") >>

ServerService == << Member(Step("managed", "server-svc", "ServiceAvailable")) >>
ControllerManagerService == << Member(Step("managed", "cm-svc", "ServiceAvailable")) >>
ServerServices ==
    ServerService \o ControllerManagerService
        \o << Step("mark", "none", "ServiceAvailable") >>

ServerClusterRole == << Member(Step("managed", "server-clusterrole", "RBACAvailable")) >>
ServerClusterRoleBinding == << Member(Step("managed", "server-crb", "RBACAvailable")) >>
BundleRole == << Member(Step("managed", "bundle-role", "RBACAvailable")) >>
BundleRoleBinding == << Member(Step("managed", "bundle-rb", "RBACAvailable")) >>
ControllerManagerClusterRole == << Member(Step("managed", "cm-clusterrole", "RBACAvailable")) >>
ControllerManagerClusterRoleBinding == << Member(Step("managed", "cm-crb", "RBACAvailable")) >>
LeaderElectionRole == << Member(Step("managed", "le-role", "RBACAvailable")) >>
LeaderElectionRoleBinding == << Member(Step("managed", "le-rb", "RBACAvailable")) >>
ServerExternalCertRole ==
    << If("externalCert", Member(Step("managed", "cert-role", "RBACAvailable"))) >>
ServerExternalCertRoleBinding ==
    << If("externalCert", Member(Step("managed", "cert-rb", "RBACAvailable"))) >>
ServerExternalCertRBAC == ServerExternalCertRole \o ServerExternalCertRoleBinding
ServerRBAC ==
    ServerClusterRole \o ServerClusterRoleBinding \o BundleRole \o BundleRoleBinding
        \o ControllerManagerClusterRole \o ControllerManagerClusterRoleBinding
        \o LeaderElectionRole \o LeaderElectionRoleBinding \o ServerExternalCertRBAC
        \o << Step("mark", "none", "RBACAvailable") >>

Webhook == << Step("managed", "webhook", "ValidatingWebhookAvailable") >>

ServerConfigMap ==
    << From(generateSpireServerConfigMap,
            Step("managed", "server-config", "ServerConfigMapAvailable")) >>

\* Its last error branch returns without a condition.
ControllerManagerConfigMap ==
    << [From(generateControllerManagerConfig,
             Step("managed", "cm-config", "ControllerManagerConfigAvailable"))
        EXCEPT !.silent = TRUE] >>

BundleConfigMap == << Step("createonce", "bundle", "BundleConfigAvailable") >>

ServerStatefulSet ==
    OpenWorkload("statefulset", "StatefulSetAvailable", GenerateSpireServerStatefulSet)

ServerRoute ==
    << If("federation", From(generateFederationRoute,
          Step("route", "federation-route", "RouteAvailable"))) >>

ServerValidation ==
    << Step("validate", "none", "ConfigurationValid"),
       Step("validate", "none", "TTLConfigurationValid") >>

SpireServerSteps ==
    ServerValidation \o ServerServiceAccount \o ServerServices \o ServerRBAC \o Webhook
        \o ServerConfigMap \o ControllerManagerConfigMap \o BundleConfigMap
        \o ServerStatefulSet \o ServerRoute

(***************************************************************************)
(* SpireAgent.                                                             *)
(***************************************************************************)
generateAgentConfig == {"spec", "ztwim"}
generateSpireAgentDaemonSet == {"spec", "ztwim"}

AgentServiceAccount == << Step("managed", "agent-sa", "ServiceAccountAvailable") >>
AgentService ==
    << Member(Step("managed", "agent-svc", "ServiceAvailable")),
       Step("mark", "none", "ServiceAvailable") >>
AgentClusterRole == << Member(Step("managed", "agent-clusterrole", "RBACAvailable")) >>
AgentClusterRoleBinding == << Member(Step("managed", "agent-crb", "RBACAvailable")) >>
AgentRBACAvailable == << Step("mark", "none", "RBACAvailable") >>
AgentRBAC == AgentClusterRole \o AgentClusterRoleBinding \o AgentRBACAvailable
AgentSCC == << Step("unguarded", "agent-scc", "SecurityContextConstraintsAvailable") >>
AgentConfigMap ==
    << From(generateAgentConfig, Step("managed", "agent-config", "ConfigMapAvailable")) >>
AgentDaemonSet ==
    OpenWorkload("agent-daemonset", "DaemonSetAvailable", generateSpireAgentDaemonSet)
AgentValidation == << Step("validate", "none", "ConfigurationValid") >>

SpireAgentSteps ==
    AgentValidation \o AgentServiceAccount \o AgentService \o AgentRBAC \o AgentSCC
        \o AgentConfigMap \o AgentDaemonSet

(***************************************************************************)
(* SpiffeCSIDriver.                                                        *)
(***************************************************************************)
generateSpiffeCsiDriverDaemonSet == {"spec"}

CSIServiceAccount == << Step("managed", "csi-sa", "ServiceAccountAvailable") >>
CSIDriver == << Step("managed", "csidriver", "CSIDriverAvailable") >>
CSISCC == << Step("unguarded", "csi-scc", "SecurityContextConstraintsAvailable") >>
CSIDaemonSet ==
    OpenWorkload("csi-daemonset", "DaemonSetAvailable", generateSpiffeCsiDriverDaemonSet)
CSIValidation == << Step("validate", "none", "ConfigurationValid") >>

SpiffeCSIDriverSteps ==
    CSIValidation \o CSIServiceAccount \o CSIDriver \o CSISCC \o CSIDaemonSet

(***************************************************************************)
(* SpireOIDCDiscoveryProvider.                                             *)
(***************************************************************************)
generateOIDCConfigMapFromCR == {"spec", "ztwim"}
generateDeployment == {"spec", "ztwim"}

OIDCServiceAccount == << Step("managed", "oidc-sa", "ServiceAccountAvailable") >>
OIDCService == << Step("managed", "oidc-svc", "ServiceAvailable") >>
ClusterSpiffeIDs ==
    << Member(Step("managed", "oidc-spiffeid", "ClusterSPIFFEIDAvailable")),
       Member(Step("managed", "default-spiffeid", "ClusterSPIFFEIDAvailable")),
       Step("mark", "none", "ClusterSPIFFEIDAvailable") >>
OIDCConfigMap ==
    << From(generateOIDCConfigMapFromCR,
            Step("managed", "oidc-config", "ConfigMapAvailable")) >>
OIDCDeployment == Workload("oidc-deployment", "DeploymentAvailable", generateDeployment)
OIDCExternalCertRole ==
    << If("externalCert", Member(Step("managed", "oidc-cert-role", "RBACAvailable"))) >>
OIDCExternalCertRoleBinding ==
    << If("externalCert", Member(Step("managed", "oidc-cert-rb", "RBACAvailable"))) >>
OIDCExternalCertRBAC ==
    OIDCExternalCertRole \o OIDCExternalCertRoleBinding
        \o << If("externalCert", Step("mark", "none", "RBACAvailable")) >>
OIDCRoute == << Step("route", "oidc-route", "RouteAvailable") >>
OIDCValidation == << Step("validate", "none", "ConfigurationValid") >>

SpireOIDCDiscoveryProviderSteps ==
    OIDCValidation \o OIDCServiceAccount \o OIDCService \o ClusterSpiffeIDs
        \o OIDCConfigMap \o OIDCDeployment \o OIDCExternalCertRBAC \o OIDCRoute
=============================================================================
