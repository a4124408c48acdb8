------------------------------- MODULE Proxy -------------------------------
(***************************************************************************)
(* Proxy and trusted CA configuration of the operands' pods                *)
(* (pkg/controller/utils/proxy.go).  The operator process has a proxy      *)
(* environment [http, https, noProxy, ca]; each is a sequence of words,    *)
(* empty when the variable is not set.  A pod is a function from fields to *)
(* sequences of named items: the environment and the volume mounts of each *)
(* container, and the volumes.                                             *)
(***************************************************************************)
EXTENDS Sequences

ProxyType == [http: Seq(STRING), https: Seq(STRING), noProxy: Seq(STRING), ca: Seq(STRING)]

Item(name, value) == [name |-> name, value |-> value]

EnvFields == {"env", "sidecarEnv"}
MountFields == {"mounts", "sidecarMounts"}

\* Every pass reads the variables of the process afresh.  NO_PROXY alone is no proxy.
IsProxyEnabled(p) == p.http # <<>> \/ p.https # <<>>

IsTrustedCABundleConfigured(p) == p.ca # <<>>

ValidateProxyConfiguration(p) == IsProxyEnabled(p) => IsTrustedCABundleConfigured(p)

\* All three variables; those without a value are left out by AddVariable.
GetProxyEnvVarsWithNoProxyAdditions(p, additional) ==
    << Item("HTTP_PROXY", p.http), Item("HTTPS_PROXY", p.https),
       Item("NO_PROXY", p.noProxy \o additional) >>

GetInternalNoProxyEntries == << "spire-server", "kubernetes.default" >>

\* An item whose name is taken is left out.
AddMissing(list, item) ==
    IF \E i \in DOMAIN list : list[i].name = item.name THEN list ELSE Append(list, item)

\* A variable without a value is not set.
AddVariable(list, item) == IF item.value = <<>> THEN list ELSE AddMissing(list, item)

InjectProxyEnvVarsWithNoProxyAdditions(list, p, additional) ==
    LET variable == GetProxyEnvVarsWithNoProxyAdditions(p, additional)
    IN  AddVariable(AddVariable(AddVariable(list, variable[1]), variable[2]), variable[3])

GetTrustedCABundleVolumeMount == Item("trusted-ca-bundle", << "ca-trust" >>)
GetTrustedCABundleVolume(p) == Item("trusted-ca-bundle", p.ca)

AddTrustedCABundleToContainer(list) == AddMissing(list, GetTrustedCABundleVolumeMount)

\* Slip: the first container only.
AddProxyConfigToFirstContainer(pod, p, additional) ==
    [f \in DOMAIN pod |->
        IF f = "env" /\ IsProxyEnabled(p)
        THEN InjectProxyEnvVarsWithNoProxyAdditions(pod[f], p, additional)
        ELSE IF f = "mounts" /\ IsTrustedCABundleConfigured(p)
        THEN AddTrustedCABundleToContainer(pod[f])
        ELSE IF f = "volumes" /\ IsTrustedCABundleConfigured(p)
        THEN AddMissing(pod[f], GetTrustedCABundleVolume(p))
        ELSE pod[f]]

AddProxyConfigToPodWithNoProxyAdditions(pod, p, additional) ==
    [f \in DOMAIN pod |->
        IF f \in EnvFields /\ IsProxyEnabled(p)
        THEN InjectProxyEnvVarsWithNoProxyAdditions(pod[f], p, additional)
        ELSE IF f \in MountFields /\ IsTrustedCABundleConfigured(p)
        THEN AddTrustedCABundleToContainer(pod[f])
        ELSE IF f = "volumes" /\ IsTrustedCABundleConfigured(p)
        THEN AddMissing(pod[f], GetTrustedCABundleVolume(p))
        ELSE pod[f]]

AddProxyConfigToPod(pod, p) == AddProxyConfigToPodWithNoProxyAdditions(pod, p, <<>>)

AddProxyConfigToPodWithInternalNoProxy(pod, p) ==
    AddProxyConfigToPodWithNoProxyAdditions(pod, p, GetInternalNoProxyEntries)
=============================================================================
