CONSTANTS
    a = a
    b = b
    c = c
    t1 = t1
    t2 = t2
    t3 = t3
    P = P
    Q = Q
    provider = provider
    Blank = Blank
    NoProfile = NoProfile
    Surfaces <- MCSurfaces
    Profiles <- MCProfiles
    ProviderOf <- MCProviderOf
    HeldIn <- OneHeldIn
    HeldOut <- MCHeldOut
    Repeats = 1
    Rounds = 2
    MaxProposals = 2
    Pool <- SmallPool
    Setups <- LLMForP
    CrossTargets <- CrossQ
    Findings <- AFinding
    SmokeConfigured = TRUE
    ConfigSchemas = {"1.2"}
SPECIFICATION Spec
INVARIANTS
    GatedCommit
PROPERTIES
    CertifiedOnlyAfterPass
CHECK_DEADLOCK FALSE
