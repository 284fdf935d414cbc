SPECIFICATION Spec
CHECK_DEADLOCK FALSE
CONSTANTS
    t1 = t1
    t2 = t2
    t3 = t3
    m1 = m1
    m2 = m2
    s1 = s1
    s2 = s2
    h0 = h0
    h1 = h1
    HeldIn <- MCHeldIn
    HeldOut = 1
    Mechanisms <- MCMechanisms
    Surfaces <- MCSurfaces
    Harnesses <- MCHarnesses
    Rounds = 2
    Width = 2
    Attempts = 2
    Stated <- MCStated
INVARIANTS
    VerifiedGains
