------------------------- MODULE SpireServer_proofs -------------------------
(***************************************************************************)
(* Proofs about the configuration of the SPIRE server.  The TTL rule and   *)
(* the advice are right for every cap, every width and every TTL.  For any *)
(* set of federation configurations: what the objects say when the         *)
(* controller comes to rest, and that a Route never gets a certificate     *)
(* before the Role that lets the router read it.                           *)
(***************************************************************************)
EXTENDS TTLValidation, Federation, TLAPS

(***************************************************************************)
(* TTL validation.                                                         *)
(***************************************************************************)

\* The comparison with the truncated quotient is the rule without division.
LEMMA CompatibleIff ==
    ASSUME NEW ca \in Nat, NEW t \in Int
    PROVE  hasCompatibleTTL(ca, t) <=> 6 * t <= ca /\ t <= activationThresholdCap
BY TTLAssumption DEF hasCompatibleTTL, MaxSVIDTTLForCATTL, activationThresholdDivisor

\* Six times a TTL up to the cap does not wrap around.
LEMMA NoWrap ==
    ASSUME NEW t \in Nat, t <= activationThresholdCap
    PROVE  MinCATTLForSVIDTTL(t) = 6 * t
<1> DEFINE d == t * 6
           m == 2 * Limit
<1>1. d \in Nat /\ d + Limit \in Nat /\ d + Limit < m /\ m \in Nat /\ m > 0
  BY TTLAssumption
<1>2. \A x \in Nat, y \in Nat \ {0} : x < y => x % y = x
  OBVIOUS
<1>3. (d + Limit) % m = d + Limit
  <2> HIDE DEF d, m
  <2> QED
    BY <1>1, <1>2
<1> QED
  BY <1>1, <1>3, TTLAssumption DEF MinCATTLForSVIDTTL, Wrap, activationThresholdDivisor

\* The result of a validation is about the present configuration.
ResultInv ==
    /\ config \in [ca: Int, x509: Int, jwt: Int]
    /\ result = NotValidated \/ result = validateTTLDurationsWithWarnings(config)

\* A pair of TTLs that the rule accepts.
Guaranteed(ca, t) == t > 0 /\ 6 * t <= ca /\ t <= activationThresholdCap

\* Whatever alternative of a warning is followed, the CA TTL does not shrink and the
\* SVID TTL is accepted.
LEMMA FollowWorks ==
    ASSUME NEW ca \in Nat, NEW t \in Nat, ca >= 6, t > 0,
           NEW f \in Follow(ca, t, TTLWarning(ca, t))
    PROVE  f.ca \in Nat /\ f.svid \in Nat /\ f.ca >= ca /\ Guaranteed(f.ca, f.svid)
<1> DEFINE w == TTLWarning(ca, t)
           max == MaxSVIDTTLForCATTL(ca)
<1> USE TTLAssumption
<1>1. /\ max \in Nat /\ max > 0 /\ 6 * max <= ca /\ max <= activationThresholdCap
      /\ max < activationThresholdCap => ca < 6 * max + 6
  BY DEF MaxSVIDTTLForCATTL, activationThresholdDivisor
<1>2. MinCATTLForSVIDTTL(MaxSVIDTTL) = 6 * activationThresholdCap
  BY NoWrap DEF MaxSVIDTTL
<1>3. CASE hasCompatibleTTL(ca, t)
  <2>1. w = Silent(ca, t)
    BY <1>3 DEF TTLWarning
  <2>2. f = [svid |-> t, ca |-> ca]
    BY <2>1 DEF Follow, Silent
  <2> QED
    BY <1>3, <2>2, CompatibleIff DEF Guaranteed
<1>4. CASE ~hasCompatibleTTL(ca, t) /\ t < MaxSVIDTTL
  <2>1. MinCATTLForSVIDTTL(t) = 6 * t /\ 6 * t > ca
    BY <1>4, NoWrap, CompatibleIff DEF MaxSVIDTTL
  <2>2. w = [kind |-> "either", svid |-> max, ca |-> 6 * t]
    BY <1>4, <2>1 DEF TTLWarning
  <2> HIDE DEF w, max
  <2>3. f \in {[svid |-> max, ca |-> ca], [svid |-> t, ca |-> 6 * t]}
    BY <2>2 DEF Follow, w
  <2> QED
    BY <1>1, <1>4, <2>1, <2>3 DEF Guaranteed, MaxSVIDTTL
<1>5. CASE ~hasCompatibleTTL(ca, t) /\ ~(t < MaxSVIDTTL) /\ ca < 6 * activationThresholdCap
  <2>1. w = [kind |-> "both", svid |-> activationThresholdCap, ca |-> 6 * activationThresholdCap]
    BY <1>2, <1>5 DEF TTLWarning, MaxSVIDTTL
  <2>2. f = [svid |-> activationThresholdCap, ca |-> 6 * activationThresholdCap]
    BY <2>1 DEF Follow
  <2> QED
    BY <1>5, <2>2 DEF Guaranteed
<1>6. CASE ~hasCompatibleTTL(ca, t) /\ ~(t < MaxSVIDTTL) /\ ~(ca < 6 * activationThresholdCap)
  <2>1. w = [kind |-> "svid", svid |-> max, ca |-> ca]
    BY <1>2, <1>6 DEF TTLWarning
  <2> HIDE DEF w, max
  <2>2. f = [svid |-> max, ca |-> ca]
    BY <2>1 DEF Follow, w
  <2> QED
    BY <1>1, <2>2 DEF Guaranteed
<1> QED
  BY <1>3, <1>4, <1>5, <1>6

\* The warnings are computed from integers, and so are the TTLs that follow them.
LEMMA FollowType ==
    ASSUME NEW ca \in Int, NEW t \in Int, NEW f \in Follow(ca, t, TTLWarning(ca, t))
    PROVE  f.ca \in Int /\ f.svid \in Int
<1> USE TTLAssumption
<1>1. MaxSVIDTTLForCATTL(ca) \in Int /\ MaxSVIDTTL \in Int
  BY DEF MaxSVIDTTLForCATTL, MaxSVIDTTL, activationThresholdDivisor
<1>2. 2 * Limit \in Nat \ {0}
  OBVIOUS
<1>3. ASSUME NEW d \in Int PROVE MinCATTLForSVIDTTL(d) \in Int
  <2>1. (d * 6 + Limit) % (2 * Limit) \in Int
    BY <1>2
  <2> QED
    BY <2>1 DEF MinCATTLForSVIDTTL, Wrap, activationThresholdDivisor
<1>4. MinCATTLForSVIDTTL(t) \in Int /\ MinCATTLForSVIDTTL(MaxSVIDTTL) \in Int
  BY <1>1, <1>3
<1>5. f \in [svid: Int, ca: Int]
  BY <1>1, <1>4 DEF Follow, TTLWarning, Silent
<1> QED
  BY <1>5

\* An error-free configuration has positive TTLs, and conversely a positive pair of
\* guaranteed TTLs has no error.
LEMMA ErrorIff ==
    ASSUME NEW c \in [ca: Int, x509: Int, jwt: Int]
    PROVE  TTLError(c) = "none" <=>
             c.ca > 0 /\ c.x509 > 0 /\ c.jwt > 0 /\ c.jwt <= c.ca /\ c.x509 <= c.ca
BY DEF TTLError

\* What following the advice on both SVIDs amounts to.
LEMMA FollowStep ==
    ASSUME ResultInv, FollowAdvice
    PROVE  /\ config \in [ca: Int, x509: Int, jwt: Int] /\ TTLError(config) = "none"
           /\ \E x \in Follow(config.ca, config.x509, TTLWarning(config.ca, config.x509)),
                 j \in Follow(config.ca, config.jwt, TTLWarning(config.ca, config.jwt)) :
                 config' = [ca |-> IF x.ca < j.ca THEN j.ca ELSE x.ca,
                            x509 |-> x.svid, jwt |-> j.svid]
<1>1. result = validateTTLDurationsWithWarnings(config) /\ result.error = "none"
  BY DEF ResultInv, FollowAdvice, NotValidated
<1>2. TTLError(config) = "none"
  BY <1>1 DEF validateTTLDurationsWithWarnings
<1>3. /\ result.x509 = TTLWarning(config.ca, config.x509)
      /\ result.jwt = TTLWarning(config.ca, config.jwt)
  BY <1>1, <1>2 DEF validateTTLDurationsWithWarnings
<1> QED
  BY <1>2, <1>3 DEF ResultInv, FollowAdvice

\* A result is always that of the present configuration, or none yet.
LEMMA ResultInvariant == TTLSpec => []ResultInv
<1>1. TTLInit => ResultInv
  <2>1. TTLs \subseteq Int
    BY TTLAssumption
  <2> QED
    BY <2>1 DEF TTLInit, Config, ResultInv
<1>2. ResultInv /\ [TTLNext]_ttlVars => ResultInv'
  <2> SUFFICES ASSUME ResultInv, [TTLNext]_ttlVars PROVE ResultInv'
    OBVIOUS
  <2>1. CASE handleTTLValidation
    BY <2>1 DEF handleTTLValidation, ResultInv
  <2>2. CASE FollowAdvice
    <3>1. result' = NotValidated
      BY <2>2 DEF FollowAdvice
    <3>2. PICK x \in Follow(config.ca, config.x509, TTLWarning(config.ca, config.x509)),
               j \in Follow(config.ca, config.jwt, TTLWarning(config.ca, config.jwt)) :
               config' = [ca |-> IF x.ca < j.ca THEN j.ca ELSE x.ca,
                          x509 |-> x.svid, jwt |-> j.svid]
      BY <2>2, FollowStep
    <3>3. config.ca \in Int /\ config.x509 \in Int /\ config.jwt \in Int
      BY DEF ResultInv
    <3>4. x.ca \in Int /\ x.svid \in Int /\ j.ca \in Int /\ j.svid \in Int
      BY <3>3, FollowType
    <3> QED
      BY <3>1, <3>2, <3>4 DEF ResultInv
  <2>3. CASE UNCHANGED ttlVars
    BY <2>3 DEF ttlVars, ResultInv
  <2> QED
    BY <2>1, <2>2, <2>3 DEF TTLNext
<1> QED
  BY <1>1, <1>2, PTL DEF TTLSpec

\* hasCompatibleTTL, with its truncating division and its cap, warns exactly about the
\* SVID TTLs that the upstream rule does not guarantee.
THEOREM SilenceIsRight == TTLSpec => []SilenceIsGuarantee
<1>1. ResultInv => SilenceIsGuarantee
  <2> SUFFICES ASSUME ResultInv, result.error = "none"
               PROVE  SilenceIsGuarantee
    BY DEF SilenceIsGuarantee
  <2>1. result = validateTTLDurationsWithWarnings(config)
    BY DEF ResultInv, NotValidated
  <2>2. TTLError(config) = "none"
    BY <2>1 DEF validateTTLDurationsWithWarnings
  <2>3. /\ result.x509 = TTLWarning(config.ca, config.x509)
        /\ result.jwt = TTLWarning(config.ca, config.jwt)
    BY <2>1, <2>2 DEF validateTTLDurationsWithWarnings
  <2>4. config.ca \in Nat /\ config.x509 \in Int /\ config.jwt \in Int
    BY <2>2, ErrorIff DEF ResultInv
  <2>5. ASSUME NEW t \in Int
        PROVE  NoWarning(TTLWarning(config.ca, t)) <=> hasCompatibleTTL(config.ca, t)
    BY DEF NoWarning, TTLWarning, Silent
  <2> QED
    BY <2>3, <2>4, <2>5, CompatibleIff DEF SilenceIsGuarantee
<1> QED
  BY <1>1, ResultInvariant, PTL

\* Advised configurations are accepted ones.
AdvisedInv ==
    advised => Guaranteed(config.ca, config.x509) /\ Guaranteed(config.ca, config.jwt)

\* The advice in the warnings always leads to a configuration that is accepted without
\* error and warning, for any mix of the alternatives offered for the two SVIDs.
THEOREM AdviceIsRight == TTLSpec => []AdviceWorks
<1>1. TTLInit => AdvisedInv
  BY DEF TTLInit, AdvisedInv
<1>2. ResultInv /\ AdvisedInv /\ [TTLNext]_ttlVars => AdvisedInv'
  <2> SUFFICES ASSUME ResultInv, AdvisedInv, [TTLNext]_ttlVars PROVE AdvisedInv'
    OBVIOUS
  <2>1. CASE handleTTLValidation
    BY <2>1 DEF handleTTLValidation, AdvisedInv
  <2>2. CASE FollowAdvice
    <3> SUFFICES ASSUME advised'
                 PROVE  Guaranteed(config'.ca, config'.x509) /\ Guaranteed(config'.ca, config'.jwt)
      BY DEF AdvisedInv
    <3>1. config.ca >= 6
      BY <2>2 DEF FollowAdvice, activationThresholdDivisor
    <3>2. /\ config.ca \in Nat /\ config.x509 \in Nat /\ config.jwt \in Nat
          /\ config.x509 > 0 /\ config.jwt > 0
      BY <2>2, FollowStep, ErrorIff
    <3>3. PICK x \in Follow(config.ca, config.x509, TTLWarning(config.ca, config.x509)),
               j \in Follow(config.ca, config.jwt, TTLWarning(config.ca, config.jwt)) :
               config' = [ca |-> IF x.ca < j.ca THEN j.ca ELSE x.ca,
                          x509 |-> x.svid, jwt |-> j.svid]
      BY <2>2, FollowStep
    <3>4. /\ x.ca \in Nat /\ x.svid \in Nat /\ Guaranteed(x.ca, x.svid)
          /\ j.ca \in Nat /\ j.svid \in Nat /\ Guaranteed(j.ca, j.svid)
      BY <3>1, <3>2, FollowWorks
    <3>5. /\ config'.x509 = x.svid /\ config'.jwt = j.svid
          /\ config'.ca \in Nat /\ config'.ca >= x.ca /\ config'.ca >= j.ca
      BY <3>3, <3>4
    <3> QED
      BY <3>4, <3>5, TTLAssumption DEF Guaranteed
  <2>3. CASE UNCHANGED ttlVars
    BY <2>3 DEF ttlVars, AdvisedInv
  <2> QED
    BY <2>1, <2>2, <2>3 DEF TTLNext
<1>3. ResultInv /\ AdvisedInv => AdviceWorks
  <2> SUFFICES ASSUME ResultInv, AdvisedInv, result # NotValidated, advised
               PROVE  AdviceWorks
    BY DEF AdviceWorks
  <2>1. result = validateTTLDurationsWithWarnings(config)
    BY DEF ResultInv
  <2>2. Guaranteed(config.ca, config.x509) /\ Guaranteed(config.ca, config.jwt)
    BY DEF AdvisedInv
  <2>3. config.ca \in Int /\ config.x509 \in Int /\ config.jwt \in Int
    BY DEF ResultInv
  <2>4. config.ca > 0 /\ config.jwt <= config.ca /\ config.x509 <= config.ca
    BY <2>2, <2>3 DEF Guaranteed
  <2>5. TTLError(config) = "none"
    BY <2>2, <2>4, ErrorIff DEF ResultInv, Guaranteed
  <2>6. hasCompatibleTTL(config.ca, config.x509) /\ hasCompatibleTTL(config.ca, config.jwt)
    BY <2>2, <2>3, <2>4, CompatibleIff DEF Guaranteed
  <2> QED
    BY <2>1, <2>5, <2>6
       DEF AdviceWorks, validateTTLDurationsWithWarnings, TTLWarning, Silent, NoWarning
<1> QED
  BY <1>1, <1>2, <1>3, ResultInvariant, PTL DEF TTLSpec

(***************************************************************************)
(* Federation.                                                             *)
(***************************************************************************)

Accepted(f) == f = NoFederation \/ (f \in Federations /\ validateFederationConfig(f))

\* What the pass has behind it is as the configuration it works on asks.
Written ==
    LET f == local.federation
    IN  /\ pc \in {"role", "configmap", "statefulset", "route", "idle"} =>
             objects["service"] = getSpireServerService(f)
        /\ pc \in {"configmap", "statefulset", "route", "idle"} =>
             \/ getExternalSecretRefFromServer(f) = None
             \/ objects["role"] = ExternalCertRole(f)
        /\ pc \in {"statefulset", "route", "idle"} =>
             objects["configmap"] = generateServerConfMap(f)
        /\ pc \in {"route", "idle"} =>
             objects["statefulset"] = GenerateSpireServerStatefulSet(f)
        /\ pc = "idle" =>
             \/ f = NoFederation \/ ~f.managedRoute
             \/ objects["route"] = generateFederationRoute(f)

TypeInv ==
    /\ cr \in [life: Nat, federation: Federations \cup {NoFederation}]
    /\ local \in [life: Nat, federation: Federations \cup {NoFederation}]
    /\ lives \in Nat /\ cr.life <= lives /\ local.life <= lives
    /\ cr.life = 0 => cr = NoCR
    /\ DOMAIN objects = Kinds
    /\ createOnly \in BOOLEAN /\ queued \in BOOLEAN
    /\ pc \in Kinds \cup {"idle"}
    /\ pc # "idle" => local.life # 0 /\ Accepted(local.federation)

\* Nothing queued: the pass works on, or has worked on, the CR as it is, and with
\* updates allowed everything behind it is as asked.
RestInv ==
    ~queued => /\ local = cr
               /\ ~createOnly /\ cr # NoCR /\ Accepted(cr.federation) => Written

\* A pass over a CR that is gone finds no Role, and another pass follows it.
GoneInv ==
    pc # "idle" /\ cr.life # local.life => queued /\ ~objects["role"].exists

\* The Role names the certificate of the configuration, or is an older one that
\* create-only mode keeps, or was taken away and another pass is due.
Granted(secret) ==
    IF objects["role"].exists THEN objects["role"].secret = secret \/ createOnly ELSE queued

\* Once the Role is behind the pass it is there for the Route.
RoleInv ==
    pc \in {"configmap", "statefulset", "route"} =>
        \/ getExternalSecretRefFromServer(local.federation) = None
        \/ Granted(getExternalSecretRefFromServer(local.federation))

\* The inductive invariant.
FedInv == TypeInv /\ RestInv /\ GoneInv /\ RoleInv

\* The types of the configurations.
LEMMA FederationTypes ==
    /\ \A f \in Federations : f \in FederationType /\ f # NoFederation
    /\ NoCR \in [life: Nat, federation: Federations \cup {NoFederation}]
    /\ NoCR.life = 0 /\ NoCR.federation = NoFederation
BY FederationAssumption DEF FederationType, NoFederation, NoCR

\* Initially nothing exists and nothing is queued.
LEMMA FedInit == Init => FedInv
<1> SUFFICES ASSUME Init PROVE FedInv
  OBVIOUS
<1>1. /\ cr = NoCR /\ local = NoCR /\ lives = 0 /\ pc = "idle" /\ queued = FALSE
      /\ createOnly \in BOOLEAN /\ DOMAIN objects = Kinds
  BY DEF Init
<1>2. TypeInv
  <2>1. /\ cr \in [life: Nat, federation: Federations \cup {NoFederation}]
        /\ local \in [life: Nat, federation: Federations \cup {NoFederation}]
        /\ cr.life = 0 /\ local.life = 0
    BY <1>1, FederationTypes
  <2>2. lives \in Nat /\ cr.life <= lives /\ local.life <= lives
    BY <1>1, <2>1
  <2>3. QED
    BY <1>1, <2>1, <2>2, Zenon DEF TypeInv
<1>3. RestInv /\ GoneInv /\ RoleInv
  BY <1>1 DEF RestInv, GoneInv, RoleInv
<1>4. QED
  BY <1>2, <1>3 DEF FedInv

\* Administrators, the garbage collector, failures and restarts.
LEMMA FedOthers ==
    ASSUME FedInv,
           \/ CreateCR \/ EditCR \/ DeleteCR \/ RequestFails \/ Restart
           \/ \E k \in Kinds : DeleteObject(k)
    PROVE  FedInv'
<1> USE FederationTypes
<1>1. queued' = TRUE /\ local' = local
  BY DEF CreateCR, EditCR, DeleteCR, RequestFails, Restart, DeleteObject
<1>2. RestInv'
  BY <1>1 DEF RestInv
<1>3. CASE CreateCR
  <2>1. PICK f \in Federations \cup {NoFederation} : cr' = [life |-> lives + 1, federation |-> f]
    BY <1>3 DEF CreateCR
  <2>2. TypeInv'
    BY <1>1, <1>3, <2>1 DEF CreateCR, FedInv, TypeInv
  <2>3. cr.life = 0 /\ UNCHANGED <<objects, pc, createOnly>>
    BY <1>3 DEF CreateCR
  <2>4. pc # "idle" => ~objects["role"].exists
    BY <2>3 DEF FedInv, TypeInv, GoneInv
  <2>5. GoneInv' /\ RoleInv'
    BY <1>1, <2>3, <2>4 DEF GoneInv, RoleInv, Granted
  <2>6. QED
    BY <1>2, <2>2, <2>5 DEF FedInv
<1>4. CASE EditCR
  <2>1. PICK f \in Federations : cr' = [cr EXCEPT !.federation = f]
    BY <1>4 DEF EditCR
  <2>2. cr' = [life |-> cr.life, federation |-> f] /\ cr.life # 0
    BY <1>4, <2>1 DEF FedInv, TypeInv, EditCR
  <2>3. TypeInv'
    BY <1>1, <1>4, <2>2 DEF EditCR, FedInv, TypeInv
  <2>4. GoneInv'
    BY <1>1, <1>4, <2>2 DEF EditCR, FedInv, GoneInv
  <2>5. RoleInv'
    BY <1>1, <1>4 DEF EditCR, FedInv, RoleInv, Granted
  <2>6. QED
    BY <1>2, <2>3, <2>4, <2>5 DEF FedInv
<1>5. CASE DeleteCR
  <2>1. TypeInv'
    BY <1>1, <1>5 DEF DeleteCR, FedInv, TypeInv
  <2>2. objects'["role"] = Absent
    BY <1>5 DEF DeleteCR, Kinds
  <2>3. GoneInv' /\ RoleInv'
    BY <1>1, <2>2 DEF GoneInv, RoleInv, Granted, Absent
  <2>4. QED
    BY <1>2, <2>1, <2>3 DEF FedInv
<1>6. CASE RequestFails \/ Restart
  <2>1. TypeInv' /\ GoneInv' /\ RoleInv'
    BY <1>1, <1>6 DEF RequestFails, Restart, FedInv, TypeInv, GoneInv, RoleInv
  <2>2. QED
    BY <1>2, <2>1 DEF FedInv
<1>7. ASSUME NEW k \in Kinds, DeleteObject(k) PROVE FedInv'
  <2>1. objects' = [objects EXCEPT ![k] = Absent] /\ UNCHANGED <<cr, lives, createOnly, pc>>
    BY <1>7 DEF DeleteObject
  <2>2. TypeInv'
    BY <1>1, <2>1 DEF FedInv, TypeInv
  <2>3. objects'["role"] = objects["role"] \/ ~objects'["role"].exists
    BY <2>1 DEF FedInv, TypeInv, Kinds, Absent
  <2>4. GoneInv' /\ RoleInv'
    BY <1>1, <2>1, <2>3 DEF FedInv, GoneInv, RoleInv, Granted
  <2>5. QED
    BY <1>2, <2>2, <2>4 DEF FedInv
<1>8. QED
  BY <1>3, <1>4, <1>5, <1>6, <1>7

\* What a reconcile function leaves behind: the object as asked, with current reads and
\* updates allowed, and the other objects as they were.
LEMMA ReconciledLemma ==
    ASSUME TypeInv, NEW k \in Kinds, NEW desired
    PROVE  /\ DOMAIN Reconciled(k, desired) = Kinds
           /\ cr.life = local.life /\ ~createOnly => Reconciled(k, desired)[k] = desired
           /\ k # "route" /\ cr.life # local.life => Reconciled(k, desired) = objects
           /\ cr.life = local.life /\ createOnly =>
                Reconciled(k, desired)[k] = IF objects[k].exists THEN objects[k] ELSE desired
           /\ \A q \in Kinds \ {k} : Reconciled(k, desired)[q] = objects[q]
BY DEF TypeInv, Reconciled

\* The start of a pass: nothing is behind it yet, or the CR is refused.
LEMMA FedValidate == ASSUME FedInv, validateConfiguration PROVE FedInv'
<1>1. /\ local' = cr /\ queued' = FALSE /\ UNCHANGED <<cr, lives, objects, createOnly>>
      /\ pc' = IF /\ cr # NoCR
                  /\ cr.federation # NoFederation => validateFederationConfig(cr.federation)
               THEN "service" ELSE "idle"
  BY DEF validateConfiguration
<1>2. cr.federation \in Federations \cup {NoFederation}
  BY DEF FedInv, TypeInv
<1>3. pc' = IF cr # NoCR /\ Accepted(cr.federation) THEN "service" ELSE "idle"
  BY <1>1, <1>2, FederationTypes DEF Accepted
<1>4. TypeInv'
  BY <1>1, <1>3 DEF FedInv, TypeInv, Kinds, Accepted
<1>5. RestInv' /\ GoneInv' /\ RoleInv'
  BY <1>1, <1>3 DEF RestInv, GoneInv, RoleInv, Written, Accepted
<1>6. QED
  BY <1>4, <1>5 DEF FedInv

\* The five reconcile functions.
LEMMA FedReconcile ==
    ASSUME FedInv,
           \/ reconcileService \/ reconcileExternalCertRBAC \/ reconcileSpireServerConfigMap
           \/ reconcileStatefulSet \/ reconcileRoute
    PROVE  FedInv'
<1> DEFINE f == local.federation
<1>1. UNCHANGED <<cr, lives, createOnly, queued, local>> /\ pc # "idle" /\ TypeInv
  BY DEF reconcileService, reconcileExternalCertRBAC, reconcileSpireServerConfigMap,
     reconcileStatefulSet, reconcileRoute, FedInv
<1>2. ~queued => local = cr
  BY DEF FedInv, RestInv
<1>3. ASSUME ~queued, ~createOnly PROVE cr # NoCR /\ Accepted(cr.federation) /\ Written
  <2>1. local = cr /\ local.life # 0 /\ Accepted(local.federation)
    BY <1>1, <1>2, <1>3 DEF TypeInv
  <2>2. QED
    BY <1>3, <2>1, FederationTypes DEF FedInv, RestInv
<1>4. TypeInv' /\ pc' \in Kinds \cup {"idle"}
  BY <1>1, ReconciledLemma DEF reconcileService, reconcileExternalCertRBAC,
     reconcileSpireServerConfigMap, reconcileStatefulSet, reconcileRoute, TypeInv, Kinds, Accepted
<1>5. ASSUME ~queued, ~createOnly PROVE Written'
  <2>1. cr.life = local.life /\ Written
    BY <1>2, <1>3, <1>5
  <2>2. CASE reconcileService
    <3>1. /\ pc' = "role" /\ objects'["service"] = getSpireServerService(f)
      BY <1>1, <1>5, <2>1, <2>2, ReconciledLemma DEF reconcileService, Kinds
    <3>2. QED
      BY <1>1, <3>1 DEF Written
  <2>3. CASE reconcileExternalCertRBAC
    <3>1. /\ pc = "role" /\ pc' = "configmap" /\ objects'["service"] = objects["service"]
          /\ \/ getExternalSecretRefFromServer(f) = None
             \/ objects'["role"] = ExternalCertRole(f)
      BY <1>1, <1>5, <2>1, <2>3, ReconciledLemma DEF reconcileExternalCertRBAC, Kinds
    <3>2. QED
      BY <1>1, <2>1, <3>1 DEF Written
  <2>4. CASE reconcileSpireServerConfigMap
    <3>1. /\ pc = "configmap" /\ pc' = "statefulset"
          /\ objects'["service"] = objects["service"] /\ objects'["role"] = objects["role"]
          /\ objects'["configmap"] = generateServerConfMap(f)
      BY <1>1, <1>5, <2>1, <2>4, ReconciledLemma DEF reconcileSpireServerConfigMap, Kinds
    <3>2. QED
      BY <1>1, <2>1, <3>1 DEF Written
  <2>5. CASE reconcileStatefulSet
    <3>1. /\ pc = "statefulset" /\ pc' = "route"
          /\ objects'["service"] = objects["service"] /\ objects'["role"] = objects["role"]
          /\ objects'["configmap"] = objects["configmap"]
          /\ objects'["statefulset"] = GenerateSpireServerStatefulSet(f)
      BY <1>1, <1>5, <2>1, <2>5, ReconciledLemma DEF reconcileStatefulSet, Kinds
    <3>2. QED
      BY <1>1, <2>1, <3>1 DEF Written
  <2>6. CASE reconcileRoute
    <3>1. /\ pc = "route" /\ pc' = "idle"
          /\ objects'["service"] = objects["service"] /\ objects'["role"] = objects["role"]
          /\ objects'["configmap"] = objects["configmap"]
          /\ objects'["statefulset"] = objects["statefulset"]
          /\ \/ f = NoFederation \/ ~f.managedRoute
             \/ objects'["route"] = generateFederationRoute(f)
      BY <1>1, <1>5, <2>1, <2>6, ReconciledLemma DEF reconcileRoute, Kinds
    <3>2. QED
      BY <1>1, <2>1, <3>1 DEF Written
  <2>7. QED
    BY <2>2, <2>3, <2>4, <2>5, <2>6
<1>6. RestInv'
  BY <1>1, <1>2, <1>5 DEF RestInv
<1>7. GoneInv' /\ RoleInv'
  <2> DEFINE secret == getExternalSecretRefFromServer(f)
             role == objects["role"]
  <2>1. CASE reconcileExternalCertRBAC
    <3>1. /\ pc = "role" /\ pc' = "configmap"
          /\ objects' = IF secret = None THEN objects ELSE Reconciled("role", ExternalCertRole(f))
      BY <2>1 DEF reconcileExternalCertRBAC
    <3>2. CASE secret = None
      BY <1>1, <3>1, <3>2 DEF FedInv, GoneInv, RoleInv
    <3>3. CASE secret # None /\ cr.life # local.life
      <4>1. objects' = objects
        BY <1>1, <3>1, <3>3, ReconciledLemma DEF Kinds
      <4>2. QED
        BY <1>1, <3>1, <3>3, <4>1 DEF FedInv, GoneInv, RoleInv, Granted
    <3>4. CASE secret # None /\ cr.life = local.life
      <4>1. \/ objects'["role"] = ExternalCertRole(f)
            \/ createOnly /\ role.exists /\ objects'["role"] = role
        BY <1>1, <3>1, <3>4, ReconciledLemma DEF Kinds, TypeInv
      <4>2. ExternalCertRole(f).exists /\ ExternalCertRole(f).secret = secret
        BY DEF ExternalCertRole
      <4>3. QED
        BY <1>1, <3>1, <3>4, <4>1, <4>2 DEF GoneInv, RoleInv, Granted
    <3>5. QED
      BY <3>2, <3>3, <3>4
  <2>2. CASE \/ reconcileService \/ reconcileSpireServerConfigMap
             \/ reconcileStatefulSet \/ reconcileRoute
    <3>1. /\ objects'["role"] = role
          /\ pc' \in {"configmap", "statefulset", "route"} => pc \in {"configmap", "statefulset"}
      BY <1>1, <2>2, ReconciledLemma DEF reconcileService, reconcileSpireServerConfigMap,
         reconcileStatefulSet, reconcileRoute, Kinds
    <3>2. QED
      BY <1>1, <3>1 DEF FedInv, GoneInv, RoleInv, Granted
  <2>3. QED
    BY <2>1, <2>2
<1>8. QED
  BY <1>4, <1>6, <1>7 DEF FedInv

\* Every step keeps the invariant.
LEMMA FedNext == FedInv /\ [Next]_vars => FedInv'
<1> SUFFICES ASSUME FedInv, [Next]_vars PROVE FedInv'
  OBVIOUS
<1>1. CASE UNCHANGED vars
  BY <1>1 DEF vars, FedInv, TypeInv, RestInv, GoneInv, RoleInv, Granted, Written, Accepted
<1>2. QED
  BY <1>1, FedOthers, FedValidate, FedReconcile DEF Next

\* The invariant holds.
LEMMA FedCorrect == Spec => []FedInv
BY FedInit, FedNext, PTL DEF Spec

\* At rest every object is as the CR's configuration asks.
LEMMA SettledObjects ==
    ASSUME FedInv, Settled
    PROVE  LET f == cr.federation
           IN  /\ f \in FederationType /\ f # NoFederation /\ validateFederationConfig(f)
               /\ objects["service"] = getSpireServerService(f)
               /\ \/ getExternalSecretRefFromServer(f) = None
                  \/ objects["role"] = ExternalCertRole(f)
               /\ objects["configmap"] = generateFederationConfig(f)
               /\ objects["statefulset"] = addFederationConfigurationToStatefulSet(f)
               /\ f.managedRoute => objects["route"] = generateFederationRoute(f)
<1> DEFINE f == cr.federation
<1>1. f \in Federations /\ f # NoFederation /\ validateFederationConfig(f)
  BY DEF FedInv, TypeInv, Settled
<1>2. f \in FederationType
  BY <1>1, FederationTypes
<1>3. local = cr /\ Written /\ pc = "idle"
  BY <1>1 DEF FedInv, RestInv, Settled, Accepted
<1>4. QED
  BY <1>1, <1>2, <1>3 DEF Written, generateServerConfMap, GenerateSpireServerStatefulSet

\* How an accepted endpoint authenticates.
LEMMA EndpointTLS ==
    ASSUME NEW f \in FederationType, validateFederationConfig(f)
    PROVE  generateBundleEndpointConfig(f).tls =
              IF f.profile = "https_spiffe" THEN "svid"
              ELSE IF f.web = "acme" THEN "acme" ELSE "files"
<1>1. f.profile = "https_web" => f.web \in {"acme", "cert"}
  <2>1. validateBundleEndpoint(f)
    BY Zenon DEF validateFederationConfig
  <2>2. f.profile = "https_web" => f.web # "none"
    BY <2>1, Zenon DEF validateBundleEndpoint
  <2>3. f.web \in {"none", "acme", "cert"}
    BY DEF FederationType
  <2>4. QED
    BY <2>2, <2>3
<1>2. f.profile \in {"https_spiffe", "https_web"}
  BY DEF FederationType
<1>3. QED
  BY <1>1, <1>2 DEF generateBundleEndpointConfig

\* The objects fit together at rest, for any set of configurations and any order of
\* edits, deletions, failures and restarts.
THEOREM ObjectsFit == Spec => []FederationFits
<1>1. FedInv => FederationFits
  <2> SUFFICES ASSUME FedInv, Settled
               PROVE  LET conf == objects["configmap"]  sts == objects["statefulset"]
                          svc == objects["service"]     route == objects["route"]
                      IN  /\ svc.port /\ sts.port
                          /\ conf.endpoint.tls \in {"svid", "acme", "files"}
                          /\ conf.endpoint.tls = "files" =>
                               sts.servingCertMount /\ svc.servingCertAnnotation
                          /\ cr.federation.managedRoute =>
                               /\ route.exists
                               /\ route.termination = "passthrough" <=>
                                    conf.endpoint.tls \in {"svid", "acme"}
                               /\ route.cert # None =>
                                    objects["role"].exists /\ objects["role"].secret = route.cert
    BY DEF FederationFits
  <2> DEFINE f == cr.federation
             tls == objects["configmap"].endpoint.tls
  <2>1. f \in FederationType /\ f # NoFederation /\ validateFederationConfig(f)
    BY SettledObjects
  <2>2. f.profile = "https_web" => f.web \in {"acme", "cert"}
    BY <2>1 DEF validateFederationConfig, validateBundleEndpoint, FederationType
  <2>3. f.profile \in {"https_spiffe", "https_web"}
    BY <2>1 DEF FederationType
  <2>4. tls = IF f.profile = "https_spiffe" THEN "svid"
              ELSE IF f.web = "acme" THEN "acme" ELSE "files"
    BY <2>1, SettledObjects, EndpointTLS DEF generateFederationConfig
  <2>5. objects["service"].port /\ objects["service"].servingCertAnnotation
    <3>1. objects["service"] = [exists |-> TRUE, port |-> f # NoFederation,
                                servingCertAnnotation |-> f # NoFederation]
      BY SettledObjects DEF getSpireServerService
    <3>2. (f # NoFederation) = TRUE
      BY <2>1
    <3>3. objects["service"] = [exists |-> TRUE, port |-> TRUE, servingCertAnnotation |-> TRUE]
      BY <3>1, <3>2, Zenon
    <3>4. QED
      BY <3>3
  <2>6. objects["statefulset"].port /\ objects["statefulset"].servingCertMount = (f.web = "cert")
    BY SettledObjects DEF addFederationConfigurationToStatefulSet
  <2>7. ASSUME f.managedRoute
        PROVE  LET route == objects["route"]
               IN  /\ route.exists
                   /\ route.termination = "passthrough" <=> tls \in {"svid", "acme"}
                   /\ route.cert # None => f.web = "cert" /\ route.cert = f.secret
    BY <2>2, <2>3, <2>4, <2>7, SettledObjects DEF generateFederationRoute, None
  <2>8. ASSUME f.web = "cert", f.secret # None
        PROVE  objects["role"].exists /\ objects["role"].secret = f.secret
    BY <2>1, <2>8, SettledObjects DEF getExternalSecretRefFromServer, ExternalCertRole
  <2>9. QED
    BY <2>2, <2>3, <2>4, <2>5, <2>6, <2>7, <2>8
<1>2. QED
  BY <1>1, FedCorrect, PTL

\* The map of an accepted list of peers has the profile of every entry.
LEMMA EveryPeer ==
    ASSUME NEW f \in FederationType, validateFederationConfig(f), NEW i \in DOMAIN f.peers
    PROVE  FederatesWith(f.peers)[f.peers[i].domain] = f.peers[i].profile
<1> DEFINE peers == f.peers
           d == peers[i].domain
           P(k) == peers[k].domain = d /\ \A j \in DOMAIN peers : peers[j].domain = d => j <= k
           last == CHOOSE k \in DOMAIN peers : P(k)
<1>1. peers \in Seq(PeerType) /\ DOMAIN peers = 1..Len(peers)
  BY DEF FederationType
<1>2. \A j \in DOMAIN peers : \A k \in 1..(j - 1) : peers[k].domain # peers[j].domain
  BY DEF validateFederationConfig
<1>3. \A j, k \in DOMAIN peers : j < k => peers[j].domain # peers[k].domain
  BY <1>1, <1>2
<1>4. \A j \in DOMAIN peers : peers[j].domain = d => j = i
  BY <1>1, <1>3
<1>5. P(i)
  BY <1>1, <1>4
<1>6. last \in DOMAIN peers /\ P(last)
  BY <1>5
<1>7. last = i
  BY <1>4, <1>6
<1>8. FederatesWith(peers)[d] = peers[last].profile
  BY DEF FederatesWith
<1>9. QED
  BY <1>7, <1>8

\* No peer of an accepted configuration is lost on its way into server.conf.
THEOREM PeersArrive == Spec => []NoPeerLost
<1>1. FedInv => NoPeerLost
  <2> SUFFICES ASSUME FedInv, Settled
               PROVE  LET peers == cr.federation.peers
                          map == objects["configmap"].federatesWith
                      IN  /\ \A i \in DOMAIN peers : map[peers[i].domain] = peers[i].profile
                          /\ DOMAIN map \subseteq {peers[i].domain : i \in DOMAIN peers} \ {TrustDomain}
    BY DEF NoPeerLost
  <2> DEFINE f == cr.federation
  <2>1. f \in FederationType /\ validateFederationConfig(f)
    BY SettledObjects
  <2>2. objects["configmap"].federatesWith = FederatesWith(f.peers)
    BY SettledObjects DEF generateFederationConfig
  <2>3. \A i \in DOMAIN f.peers : FederatesWith(f.peers)[f.peers[i].domain] = f.peers[i].profile
    BY <2>1, EveryPeer
  <2>4. DOMAIN FederatesWith(f.peers) = {f.peers[i].domain : i \in DOMAIN f.peers}
    BY DEF FederatesWith
  <2>5. \A i \in DOMAIN f.peers : f.peers[i].domain # TrustDomain
    BY <2>1 DEF validateFederationConfig
  <2>6. QED
    BY <2>2, <2>3, <2>4, <2>5
<1>2. QED
  BY <1>1, FedCorrect, PTL

\* When a Route is given an external certificate, the Role is there and names it, with
\* the two exceptions of GrantBeforeUse: an older Role that create-only mode keeps, and
\* a Role taken away under the pass.  It holds also while the CR is edited, deleted or
\* re-created under a running pass.
THEOREM GrantFirst == Spec => GrantBeforeUse
<1>1. FedInv /\ [Next]_vars =>
        LET route == objects'["route"]  role == objects["role"]
        IN  route # objects["route"] /\ route.exists /\ route.cert # None =>
              IF role.exists THEN role.secret = route.cert \/ createOnly ELSE queued
  <2> SUFFICES ASSUME FedInv, [Next]_vars, objects'["route"] # objects["route"],
                      objects'["route"].exists, objects'["route"].cert # None
               PROVE  Granted(objects'["route"].cert)
    BY DEF Granted
  <2> DEFINE f == local.federation
  <2>1. TypeInv /\ "route" \in Kinds /\ DOMAIN objects = Kinds
    BY DEF FedInv, TypeInv, Kinds
  <2>2. ASSUME NEW k \in Kinds PROVE ~DeleteObject(k)
    BY <2>1 DEF DeleteObject, Absent
  <2>3. reconcileRoute
    BY <2>1, <2>2, ReconciledLemma DEF Next, vars, CreateCR, EditCR, DeleteCR, RequestFails,
       Restart, validateConfiguration, reconcileService, reconcileExternalCertRBAC,
       reconcileSpireServerConfigMap, reconcileStatefulSet, Kinds
  <2>4. /\ pc = "route" /\ f # NoFederation /\ objects'["route"] = generateFederationRoute(f)
    BY <2>1, <2>3 DEF reconcileRoute, Reconciled
  <2>5. f \in FederationType /\ validateFederationConfig(f)
    BY <2>1, <2>4, FederationTypes DEF TypeInv, Accepted
  <2>6. f.profile = "https_web" => f.web \in {"acme", "cert"}
    BY <2>5 DEF validateFederationConfig, validateBundleEndpoint, FederationType
  <2>7. f.profile \in {"https_spiffe", "https_web"}
    BY <2>5 DEF FederationType
  <2>8. f.web = "cert" /\ objects'["route"].cert = f.secret
    BY <2>4, <2>6, <2>7 DEF generateFederationRoute
  <2>9. \/ getExternalSecretRefFromServer(f) = None
        \/ Granted(getExternalSecretRefFromServer(f))
    BY <2>4 DEF FedInv, RoleInv
  <2>10. QED
    BY <2>4, <2>8, <2>9 DEF getExternalSecretRefFromServer
<1>2. QED
  BY <1>1, FedCorrect, PTL DEF Spec, GrantBeforeUse
=============================================================================
