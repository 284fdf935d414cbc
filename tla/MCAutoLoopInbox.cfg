CONSTANTS
    j1 = j1
    j2 = j2
    u = u
    gen = gen
    Bundles = {1, 2}
    Submitted <- AnyJSON
    Generated <- MCGenerated
    LoopJobs <- MCLoopJobs
    UserJobs = {}
    Evolving <- MCLoopJobs
    MaxStarts = 2
    MaxCrashes = 1
SPECIFICATION Spec
INVARIANTS
    OneLoop
    LearnedOnlyIfProcessed
    ProcessedAreLearned
    LineageKept
CHECK_DEADLOCK FALSE
