CONSTANTS
    t1 = t1
    t2 = t2
    Tasks <- MCTasks
    HeldIn <- MCHeldIn
    Repeats = 3
SPECIFICATION Spec
INVARIANTS
    EarlyStopKeepsVerdict
    DecisionMatchesFullVote
PROPERTY Decides
CHECK_DEADLOCK FALSE
