SPECIFICATION Spec
CONSTANTS
    n1 = n1
    n2 = n2
    o1 = o1
    o2 = o2
    Operators = {o1, o2}
    Names = {n1, n2}
    FirstContents <- Contents
    FirstCatalogs <- FirstCatalogsDef
    Kinds = {"image_policy"}
    Paths = {"p", "q"}
    Versions = {"v1", "v2"}
    Malformed = {"v2"}
    Targets <- TargetsDef
    Keys = {"k1", "k2"}
    TrustedKey = "k1"
    Dependencies = {"d"}
    Backends = {"minimax"}
    NoFile = NoFile
    NoManifest = NoManifest
    NoSignature = NoSignature
    NoCheck = NoCheck
    NoBinding = NoBinding
    NoReport = NoReport
    MaxCommands = 5
    Advisories <- AdvisoriesDef
    Digests = {"d1", "d2"}
    Affects <- AffectsDef
    Period = 1
    FieldSets <- FieldSetsDef
    ImagePolicies <- ImagePoliciesDef
    VulnerabilityPolicies <- VulnerabilityPoliciesDef
    Requests <- RequestsDef
    NoDigest = NoDigest
    NoPolicy = NoPolicy
    NoTrivyReport = NoTrivyReport
    NoScan = NoScan
    NoResult = NoResult
    Torn = Torn
    LastDay = 2
    MaxScans = 2
    MaxChanges = 1
INVARIANTS
    BoundPoliciesWereReviewed
    SignedBindingWasApproved
    AdmittedRowsHoldEvidence
    AdmissionKeepsDriftOk
    LiveVerdictIsOfThisScan
    OldAdvisoriesAllowed
SYMMETRY Symmetry
CHECK_DEADLOCK FALSE
