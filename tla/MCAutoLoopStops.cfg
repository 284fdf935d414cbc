CONSTANTS
    j1 = j1
    j2 = j2
    u = u
    gen = gen
    Bundles = {}
    Submitted <- Objects
    Generated = {}
    LoopJobs <- MCLoopJobs
    UserJobs <- MCUserJobs
    Evolving <- MCLoopJobs
    MaxStarts = 2
    MaxCrashes = 0
SPECIFICATION Spec
INVARIANTS
    StopNotLost
PROPERTY
    StopHonoured
CHECK_DEADLOCK FALSE
