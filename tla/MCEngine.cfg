CONSTANTS
    a = a
    b = b
    c = c
    t1 = t1
    t2 = t2
    t3 = t3
    P = P
    Q = Q
    provider = provider
    Blank = Blank
    NoProfile = NoProfile
    Surfaces <- MCSurfaces
    Profiles <- MCProfiles
    ProviderOf <- MCProviderOf
    HeldIn <- MCHeldIn
    HeldOut <- MCHeldOut
    Repeats = 1
    Rounds = 2
    MaxProposals = 2
    Pool <- MCPool
    Setups <- OwnTarget
    CrossTargets <- None
    Findings <- None
    SmokeConfigured = TRUE
    ConfigSchemas = {"1.1"}
SPECIFICATION Spec
INVARIANTS
    LineageReplays
    BestCommittedGroupMaximal
    AuditVerifies
    TrajectoryImproves
PROPERTIES
    ImplementsLedger
CHECK_DEADLOCK FALSE
