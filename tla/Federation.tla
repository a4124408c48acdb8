----------------------------- MODULE Federation -----------------------------
(***************************************************************************)
(* The federation endpoint of the SPIRE server.  Five objects have to fit  *)
(* together: the Service port, the Role that lets the router read an       *)
(* external certificate, server.conf in the ConfigMap, the mounts of the   *)
(* StatefulSet and the Route (pkg/controller/spire-server: validation.go,  *)
(* configmap.go, service.go, rbac.go, statefulset.go, routes.go).  They    *)
(* are written one after the other while administrators edit the CR,       *)
(* requests fail and the operator restarts.  Reads are current here;       *)
(* OperandController is about stale ones.                                  *)
(***************************************************************************)
EXTENDS Naturals, Sequences, FiniteSets

CONSTANTS
    TrustDomain,    \* spec.trustDomain of the ZTWIM CR
    Federations,    \* the federation configurations administrators write
    MaxLives        \* bound: incarnations of the SpireServer CR

None == "none"                      \* no external secret
NoFederation == [profile |-> "none"]

\* spiffeId: what endpointSpiffeId holds, nothing, a SPIFFE ID or something else.
PeerType ==
    [domain: STRING, profile: {"https_spiffe", "https_web"}, https: BOOLEAN,
     spiffeId: {"none", "spiffe", "other"}]

FederationType ==
    [profile: {"https_spiffe", "https_web"}, web: {"none", "acme", "cert"}, tos: BOOLEAN,
     secret: STRING, refreshHint: Nat, peers: Seq(PeerType), managedRoute: BOOLEAN]

ASSUME FederationAssumption == Federations \subseteq FederationType /\ MaxLives \in Nat

VARIABLES
    cr,             \* [life, federation]: the CR; life 0 when absent
    lives,          \* incarnations so far
    objects,        \* "service", "role", "configmap", "statefulset", "route"
    createOnly,     \* CREATE_ONLY_MODE of the running process
    queued,         \* the work item is in the queue
    pc,             \* the object the pass is about to reconcile, or "idle"
    local           \* the CR as the pass read it

vars == <<cr, lives, objects, createOnly, queued, pc, local>>

Kinds == {"service", "role", "configmap", "statefulset", "route"}
Absent == [exists |-> FALSE]
NoCR == [life |-> 0, federation |-> NoFederation]

(***************************************************************************)
(* Configurations, records                                                 *)
(*   [profile, web, tos, secret, refreshHint, peers, managedRoute]         *)
(* with web = "none", "acme" or "cert" (which member of httpsWeb is set).  *)
(***************************************************************************)

\* The schema of the CRD: the patterns and the rule about one peer, ...
AdmittedPeer(p) ==
    /\ p.domain # "" /\ p.https /\ p.spiffeId # "other"
    /\ p.profile = "https_spiffe" => p.spiffeId # "none"

\* ... ranges, and the rules about one configuration ...
Admitted(f) ==
    /\ f.refreshHint \in 60..3600 /\ Len(f.peers) <= 50
    /\ f.profile = "https_web" => f.web # "none"
    /\ f.secret # None => f.web = "cert"
    /\ \A i \in DOMAIN f.peers : AdmittedPeer(f.peers[i])

\* ... and about a change: federation stays, its profile stays, and httpsWeb does not
\* switch between acme and servingCert.
AdmittedChange(old, new) ==
    old # NoFederation =>
        /\ new # NoFederation
        /\ new.profile = old.profile
        /\ old.web # "none" /\ new.web # "none" => new.web = old.web

validateAcmeConfig(f) == f.tos

validateBundleEndpoint(f) ==
    /\ f.profile = "https_web" =>
         f.web # "none" /\ (f.web = "acme" => validateAcmeConfig(f))
    /\ f.refreshHint > 0 => f.refreshHint \in 60..3600

\* Once more what the schema asks of a peer.
validateFederatedTrustDomain(p) ==
    /\ p.domain # "" /\ p.https
    /\ p.profile = "https_spiffe" => p.spiffeId = "spiffe"

\* Slip: a trust domain may be listed twice.
validateWithoutDuplicates(f) ==
    /\ validateBundleEndpoint(f)
    /\ Len(f.peers) <= 50
    /\ \A i \in DOMAIN f.peers :
         validateFederatedTrustDomain(f.peers[i]) /\ f.peers[i].domain # TrustDomain

validateFederationConfig(f) ==
    /\ validateBundleEndpoint(f)
    /\ Len(f.peers) <= 50
    /\ \A i \in DOMAIN f.peers :
         /\ validateFederatedTrustDomain(f.peers[i])
         /\ f.peers[i].domain # TrustDomain
         /\ \A j \in 1..(i - 1) : f.peers[j].domain # f.peers[i].domain

(***************************************************************************)
(* The generated objects, as far as federation goes.                       *)
(***************************************************************************)
getSpireServerService(f) ==
    [exists |-> TRUE, port |-> f # NoFederation,
     servingCertAnnotation |-> f # NoFederation]

getExternalSecretRefFromServer(f) ==
    IF f = NoFederation \/ f.web # "cert" THEN None ELSE f.secret

ExternalCertRole(f) == [exists |-> TRUE, secret |-> getExternalSecretRefFromServer(f)]

\* How the endpoint authenticates: its SVID, an ACME certificate or mounted files.
generateBundleEndpointConfig(f) ==
    [refreshHint |-> IF f.refreshHint = 0 THEN 300 ELSE f.refreshHint,
     tls |-> CASE f.profile = "https_spiffe" -> "svid"
               [] f.profile = "https_web" /\ f.web = "acme" -> "acme"
               [] f.profile = "https_web" /\ f.web = "cert" -> "files"
               [] OTHER -> "none"]

\* A map from trust domains: of two entries for one domain the last wins.
FederatesWith(peers) ==
    [d \in {peers[i].domain : i \in DOMAIN peers} |->
        LET last == CHOOSE i \in DOMAIN peers :
                      /\ peers[i].domain = d
                      /\ \A j \in DOMAIN peers : peers[j].domain = d => j <= i
        IN  peers[last].profile]

generateFederationConfig(f) ==
    [exists |-> TRUE, federation |-> TRUE,
     endpoint |-> generateBundleEndpointConfig(f), federatesWith |-> FederatesWith(f.peers)]

generateServerConfMap(f) ==
    IF f = NoFederation THEN [exists |-> TRUE, federation |-> FALSE]
    ELSE generateFederationConfig(f)

addFederationConfigurationToStatefulSet(f) ==
    [exists |-> TRUE, port |-> TRUE, servingCertMount |-> f.web = "cert"]

GenerateSpireServerStatefulSet(f) ==
    IF f = NoFederation THEN [exists |-> TRUE, port |-> FALSE, servingCertMount |-> FALSE]
    ELSE addFederationConfigurationToStatefulSet(f)

\* Slip: every https_web endpoint is re-encrypted.
RouteAlwaysReencrypt(f) ==
    IF f.profile = "https_spiffe"
    THEN [exists |-> TRUE, termination |-> "passthrough", cert |-> None]
    ELSE [exists |-> TRUE, termination |-> "reencrypt", cert |-> f.secret]

generateFederationRoute(f) ==
    IF f.profile = "https_spiffe" \/ f.web = "acme"
    THEN [exists |-> TRUE, termination |-> "passthrough", cert |-> None]
    ELSE [exists |-> TRUE, termination |-> "reencrypt", cert |-> f.secret]

(***************************************************************************)
(* The administrator, the garbage collector and failures.                  *)
(***************************************************************************)
Init ==
    /\ cr = NoCR /\ lives = 0 /\ objects = [k \in Kinds |-> Absent]
    /\ createOnly \in BOOLEAN
    /\ queued = FALSE /\ pc = "idle" /\ local = NoCR

CreateCR ==
    /\ cr = NoCR /\ lives < MaxLives
    /\ \E f \in Federations \cup {NoFederation} :
         /\ f # NoFederation => Admitted(f)
         /\ cr' = [life |-> lives + 1, federation |-> f]
    /\ lives' = lives + 1 /\ queued' = TRUE
    /\ UNCHANGED <<objects, createOnly, pc, local>>

EditCR ==
    /\ cr # NoCR
    /\ \E f \in Federations :
         /\ Admitted(f) /\ AdmittedChange(cr.federation, f) /\ f # cr.federation
         /\ cr' = [cr EXCEPT !.federation = f]
    /\ queued' = TRUE
    /\ UNCHANGED <<lives, objects, createOnly, pc, local>>

\* The objects the CR owns go with it; the Route has no owner reference and stays.
DeleteCR ==
    /\ cr # NoCR
    /\ cr' = NoCR
    /\ objects' = [k \in Kinds |-> IF k = "route" THEN objects[k] ELSE Absent]
    /\ queued' = TRUE
    /\ UNCHANGED <<lives, createOnly, pc, local>>

\* Deleting an object queues the CR.
DeleteObject(k) ==
    /\ cr # NoCR /\ objects[k].exists
    /\ objects' = [objects EXCEPT ![k] = Absent] /\ queued' = TRUE
    /\ UNCHANGED <<cr, lives, createOnly, pc, local>>

\* A request of the pass fails: the error goes to the queue.
RequestFails ==
    /\ pc # "idle"
    /\ pc' = "idle" /\ queued' = TRUE
    /\ UNCHANGED <<cr, lives, objects, createOnly, local>>

Restart ==
    /\ createOnly' \in BOOLEAN
    /\ pc' = "idle" /\ queued' = TRUE
    /\ UNCHANGED <<cr, lives, objects, local>>

(***************************************************************************)
(* One pass.                                                               *)
(***************************************************************************)

\* An object is created, or updated if it differs and updates are allowed.  Writing an
\* object of a deleted CR is taken back by the garbage collector, except for the Route.
Reconciled(k, desired) ==
    IF k # "route" /\ cr.life # local.life THEN objects
    ELSE IF objects[k].exists /\ createOnly THEN objects
    ELSE [objects EXCEPT ![k] = desired]

\* An invalid configuration ends the pass without an error.
validateConfiguration ==
    /\ pc = "idle" /\ queued
    /\ local' = cr /\ queued' = FALSE
    /\ pc' = IF /\ cr # NoCR
                /\ cr.federation # NoFederation => validateFederationConfig(cr.federation)
             THEN "service" ELSE "idle"
    /\ UNCHANGED <<cr, lives, objects, createOnly>>

reconcileService ==
    /\ pc = "service" /\ pc' = "role"
    /\ objects' = Reconciled("service", getSpireServerService(local.federation))
    /\ UNCHANGED <<cr, lives, createOnly, queued, local>>

\* Slip: the RBAC of the external certificate is not kept up to date.
CreateExternalCertRBAC ==
    /\ pc = "role" /\ pc' = "configmap"
    /\ objects' = IF getExternalSecretRefFromServer(local.federation) = None
                     \/ objects["role"].exists
                  THEN objects ELSE Reconciled("role", ExternalCertRole(local.federation))
    /\ UNCHANGED <<cr, lives, createOnly, queued, local>>

\* The Role and its RoleBinding; nothing is removed.
reconcileExternalCertRBAC ==
    /\ pc = "role" /\ pc' = "configmap"
    /\ objects' = IF getExternalSecretRefFromServer(local.federation) = None
                  THEN objects ELSE Reconciled("role", ExternalCertRole(local.federation))
    /\ UNCHANGED <<cr, lives, createOnly, queued, local>>

reconcileSpireServerConfigMap ==
    /\ pc = "configmap" /\ pc' = "statefulset"
    /\ objects' = Reconciled("configmap", generateServerConfMap(local.federation))
    /\ UNCHANGED <<cr, lives, createOnly, queued, local>>

reconcileStatefulSet ==
    /\ pc = "statefulset" /\ pc' = "route"
    /\ objects' = Reconciled("statefulset", GenerateSpireServerStatefulSet(local.federation))
    /\ UNCHANGED <<cr, lives, createOnly, queued, local>>

reconcileRoute ==
    /\ pc = "route" /\ pc' = "idle"
    /\ objects' = IF local.federation = NoFederation \/ ~local.federation.managedRoute
                  THEN objects ELSE Reconciled("route", generateFederationRoute(local.federation))
    /\ UNCHANGED <<cr, lives, createOnly, queued, local>>

Next ==
    \/ CreateCR \/ EditCR \/ DeleteCR \/ RequestFails \/ Restart
    \/ \E k \in Kinds : DeleteObject(k)
    \/ validateConfiguration \/ reconcileService \/ reconcileExternalCertRBAC
    \/ reconcileSpireServerConfigMap \/ reconcileStatefulSet \/ reconcileRoute

Spec == Init /\ [][Next]_vars

(***************************************************************************)
(* Properties.                                                             *)
(***************************************************************************)

\* Nothing is left to do for a configuration that was accepted.
Settled ==
    /\ ~queued /\ pc = "idle" /\ ~createOnly
    /\ cr # NoCR /\ cr.federation # NoFederation /\ validateFederationConfig(cr.federation)

\* When the controller comes to rest, the objects written by its five reconcile
\* functions fit together: there is a port behind the Route, the Route passes TLS
\* through exactly when the server holds the certificate that clients see, files named
\* in server.conf are mounted from a Secret that the Service asks for, and the router may
\* read the external certificate of the Route.
FederationFits ==
    Settled =>
        LET conf == objects["configmap"]  sts == objects["statefulset"]
            svc == objects["service"]     route == objects["route"]
        IN  /\ svc.port /\ sts.port
            /\ conf.endpoint.tls \in {"svid", "acme", "files"}
            /\ conf.endpoint.tls = "files" =>
                 sts.servingCertMount /\ svc.servingCertAnnotation
            /\ cr.federation.managedRoute =>
                 /\ route.exists
                 /\ route.termination = "passthrough" <=> conf.endpoint.tls \in {"svid", "acme"}
                 /\ route.cert # None =>
                      objects["role"].exists /\ objects["role"].secret = route.cert

\* Every trust domain an accepted configuration federates with is in server.conf, with
\* the profile of its own entry, and the server's own domain is not.
NoPeerLost ==
    Settled =>
        LET peers == cr.federation.peers
            map == objects["configmap"].federatesWith
        IN  /\ \A i \in DOMAIN peers : map[peers[i].domain] = peers[i].profile
            /\ DOMAIN map \subseteq {peers[i].domain : i \in DOMAIN peers} \ {TrustDomain}

\* The grant comes before the use: when a Route is given an external certificate, the Role
\* that lets the router read certificates exists and names this one.  In create-only mode
\* an older Role may still name another, since it is not updated; and where there is no
\* Role at all it was taken away under the pass, and another pass is due.
GrantBeforeUse ==
    [][LET route == objects'["route"]  role == objects["role"]
       IN  route # objects["route"] /\ route.exists /\ route.cert # None =>
             IF role.exists THEN role.secret = route.cert \/ createOnly ELSE queued]_vars
=============================================================================
