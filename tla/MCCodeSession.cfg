CONSTANTS
    glm = glm
    codex = codex
    check = check
    MaxThreads = 2
    Glm = glm
    Headless <- OneHeadless
    Judges <- OneJudge
    Checks <- OneCheck
    MaxSteps = 2
    MaxTools = 1
    MaxAttempts = 2
    MaxAutoContinue = 1
    MaxSends = 2
    MaxEvents = 1
SPECIFICATION Spec
INVARIANTS
    ThreadsDoNotMix
    ConversationKept
    InterruptedNotRecorded
    RequestTellsHowTurnsEnded
PROPERTY
    TurnEnds
CHECK_DEADLOCK FALSE
