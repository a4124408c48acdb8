---------------------------- MODULE TTLValidation ----------------------------
(***************************************************************************)
(* The TTL checks of a SpireServer CR and the advice in their warnings     *)
(* (pkg/controller/spire-server/validation.go, handleTTLValidation), with  *)
(* an administrator who edits the CR and may follow the advice.  Durations *)
(* are signed integers of a fixed width, as time.Duration is.              *)
(***************************************************************************)
EXTENDS Integers

CONSTANTS
    activationThresholdCap,     \* seven days in the code
    Limit,                      \* durations are in -Limit..(Limit - 1); 2^63 ns in the code
    TTLs                        \* bound: the TTLs an administrator tries

ASSUME TTLAssumption ==
    /\ activationThresholdCap \in Nat \ {0} /\ Limit \in Nat
    /\ 6 * activationThresholdCap < Limit
    /\ TTLs \subseteq (-Limit)..(Limit - 1)

VARIABLES
    config,         \* [ca, x509, jwt]: the CA TTL and the default TTLs of the SVIDs
    result,         \* what the last validation returned
    advised         \* history: config comes from following the advice of a warning

ttlVars == <<config, result, advised>>

activationThresholdDivisor == 6

\* Arithmetic on durations wraps around.
Wrap(d) == ((d + Limit) % (2 * Limit)) - Limit

MaxSVIDTTL == activationThresholdCap

\* Slip: the cap is forgotten.
MaxSVIDTTLForCATTLUncapped(caTTL) == caTTL \div activationThresholdDivisor

MaxSVIDTTLForCATTL(caTTL) ==
    IF caTTL \div activationThresholdDivisor < activationThresholdCap
    THEN caTTL \div activationThresholdDivisor
    ELSE activationThresholdCap

MinCATTLForSVIDTTL(svidTTL) == Wrap(svidTTL * activationThresholdDivisor)

hasCompatibleTTL(caTTL, svidTTL) == MaxSVIDTTLForCATTL(caTTL) >= svidTTL

\* Which check of validateTTLDurationsWithWarnings fails first.
TTLError(c) ==
    IF c.ca <= 0 THEN "ca_ttl"
    ELSE IF c.x509 <= 0 THEN "default_x509_svid_ttl"
    ELSE IF c.jwt <= 0 THEN "default_jwt_svid_ttl"
    ELSE IF c.ca < c.jwt THEN "ca below jwt"
    ELSE IF c.ca < c.x509 THEN "ca below x509"
    ELSE "none"

Silent(caTTL, svidTTL) == [kind |-> "none", svid |-> svidTTL, ca |-> caTTL]

\* Slip: the cap is compared last.
TTLWarningSwapped(caTTL, svidTTL) ==
    IF hasCompatibleTTL(caTTL, svidTTL) THEN Silent(caTTL, svidTTL)
    ELSE IF caTTL < MinCATTLForSVIDTTL(MaxSVIDTTL)
    THEN [kind |-> "either", svid |-> MaxSVIDTTLForCATTL(caTTL),
          ca |-> MinCATTLForSVIDTTL(svidTTL)]
    ELSE [kind |-> "svid", svid |-> MaxSVIDTTLForCATTL(caTTL), ca |-> caTTL]

\* The three warnings: set the SVID TTL to svid or less, the CA TTL to ca or more, or
\* both.
TTLWarning(caTTL, svidTTL) ==
    IF hasCompatibleTTL(caTTL, svidTTL) THEN Silent(caTTL, svidTTL)
    ELSE IF svidTTL < MaxSVIDTTL
    THEN [kind |-> "either", svid |-> MaxSVIDTTLForCATTL(caTTL),
          ca |-> MinCATTLForSVIDTTL(svidTTL)]
    ELSE IF caTTL < MinCATTLForSVIDTTL(MaxSVIDTTL)
    THEN [kind |-> "both", svid |-> MaxSVIDTTL, ca |-> MinCATTLForSVIDTTL(MaxSVIDTTL)]
    ELSE [kind |-> "svid", svid |-> MaxSVIDTTLForCATTL(caTTL), ca |-> caTTL]

NoWarning(w) == w.kind = "none"

validateTTLDurationsWithWarnings(c) ==
    IF TTLError(c) # "none"
    THEN [error |-> TTLError(c), x509 |-> Silent(c.ca, c.x509), jwt |-> Silent(c.ca, c.jwt)]
    ELSE [error |-> "none",
          x509  |-> TTLWarning(c.ca, c.x509),
          jwt   |-> TTLWarning(c.ca, c.jwt)]

(***************************************************************************)
(* The administrator and the controller.                                   *)
(***************************************************************************)
NotValidated == [error |-> "pending", x509 |-> Silent(0, 0), jwt |-> Silent(0, 0)]

Config == [ca: TTLs, x509: TTLs, jwt: TTLs]

TTLInit == config \in Config /\ result = NotValidated /\ advised = FALSE

handleTTLValidation ==
    /\ result = NotValidated
    /\ result' = validateTTLDurationsWithWarnings(config)
    /\ UNCHANGED <<config, advised>>

\* What following a warning leads to: [svid, ca] pairs.
Follow(caTTL, svidTTL, w) ==
    CASE w.kind = "none" -> {[svid |-> svidTTL, ca |-> caTTL]}
      [] w.kind = "either" -> {[svid |-> w.svid, ca |-> caTTL], [svid |-> svidTTL, ca |-> w.ca]}
      [] w.kind = "both" -> {[svid |-> w.svid, ca |-> w.ca]}
      [] w.kind = "svid" -> {[svid |-> w.svid, ca |-> caTTL]}

\* The administrator follows the warnings about both SVIDs in one edit.
FollowAdvice ==
    /\ result.error = "none"
    /\ ~NoWarning(result.x509) \/ ~NoWarning(result.jwt)
    /\ \E x \in Follow(config.ca, config.x509, result.x509),
          j \in Follow(config.ca, config.jwt, result.jwt) :
          config' = [ca |-> IF x.ca < j.ca THEN j.ca ELSE x.ca,
                     x509 |-> x.svid, jwt |-> j.svid]
    /\ advised' = (config.ca >= activationThresholdDivisor)
    /\ result' = NotValidated

TTLNext == handleTTLValidation \/ FollowAdvice

TTLSpec == TTLInit /\ [][TTLNext]_ttlVars

(***************************************************************************)
(* Properties.                                                             *)
(***************************************************************************)

\* A configuration that is accepted without a warning keeps the promise of the upstream
\* rule, stated without division: SVIDs live for at most a sixth of the CA's TTL and for
\* at most the cap.
SilenceIsGuarantee ==
    result.error = "none" =>
        /\ NoWarning(result.x509) <=>
             6 * config.x509 <= config.ca /\ config.x509 <= activationThresholdCap
        /\ NoWarning(result.jwt) <=>
             6 * config.jwt <= config.ca /\ config.jwt <= activationThresholdCap

\* The advice works: an administrator who follows it, for both SVIDs at once and taking
\* any of the offered alternatives, gets a configuration without error and warning (from
\* a CA TTL of at least six units, below which an SVID TTL of zero is suggested).
AdviceWorks ==
    result # NotValidated /\ advised =>
        /\ result.error = "none"
        /\ NoWarning(result.x509) /\ NoWarning(result.jwt)
=============================================================================
