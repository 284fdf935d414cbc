SPECIFICATION PlanSpec
CONSTANTS
    Captures = {"A", "B"}
    Observed <- ObservedDef
    PaperModels = {"m"}
    Plans <- PlansDef
    Orders <- OrdersDef
    Labels <- LabelsDef
    Stub = "stub"
    NoPlan = NoPlan
    NoKey = NoKey
    MaxPlanning = 3
    MaxMixed = 1
    Keys = {"k1", "k2"}
    Trusted = {"k1"}
    MaxAdmissions = 2
    MaxCommands = 1
    Fixture = TRUE
    NoRun = NoRun
    NoBundle = NoBundle
    NoSignature = NoSignature
    NoFile = NoFile
    Torn = Torn
INVARIANTS
    CleanDiffIsThePlannedRun
    RehearsedPlanIsCoherent
    AsPlannedDiffsClean
    VerifiedIsOneCapture
    HonestCaptureVerdict
CHECK_DEADLOCK FALSE
