CONSTANTS
    j1 = j1
    j2 = j2
    u = u
    gen = gen
    Bundles = {1, 2}
    Submitted <- AnyJSON
    Generated = {}
    LoopJobs <- MCLoopJobs
    UserJobs = {}
    Evolving <- MCLoopJobs
    MaxStarts = 1
    MaxCrashes = 0
SPECIFICATION Spec
INVARIANTS
    NoBundleStopsTheLoop
CHECK_DEADLOCK FALSE
