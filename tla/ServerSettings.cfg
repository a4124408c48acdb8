SPECIFICATION SettingsSpec
CONSTANTS
    activationThresholdCap = 4
    Limit = 32
    TTLs <- SmallTTLs
    TrustDomain = "own"
    Federations <- AllFederations
    MaxLives = 2
INVARIANTS SilenceIsGuarantee AdviceWorks FederationFits NoPeerLost
PROPERTY GrantBeforeUse
CHECK_DEADLOCK FALSE
