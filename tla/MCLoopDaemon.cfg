SPECIFICATION Spec
CONSTANTS
    Procs <- MCProcs
    Harnesses <- MCHarnesses
    Bad <- MCBad
    Initial = "h0"
    Launchers = {t1}
    MaxRuns = 2
INVARIANTS
    TornSourceHasBackup
    OneLoopAtATime
    StoppedMeansStopped
PROPERTIES
    SignalledLoopEnds
