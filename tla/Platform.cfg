SPECIFICATION PlatformSpec
CONSTANTS
    Parts = {"pool", "flush", "quota", "cache", "registry", "sli", "budget", "merkle", "charter", "inbox", "roles", "situations", "resolution", "evaluation", "data", "migration"}
    Borrowers = {t1, t2}
    RegoFiles = {"good", "bad"}
    Invalid = {"bad"}
    PoolSize = 2
    Flushers = {f1, f2}
    Meters = {m1, m2}
    Limits = {1, 2}
    UnitLimit = 10
    HourTicks = 2
    MaxRecords = 2
    MaxUsage = 4
    Measures = {1, 2, 3}
    Window = 1
    MaxMeasurements = 4
    LatencyTarget = 2
    AvailabilityTargets = {50, 90, 100}
    LeafHashes <- MCLeafHashes
    MaxLeaves = 6
    Users = {u1, u2}
    UserRole <- MCUserRole
    PhaseIds = {1, 2}
    MaxHalfDays = 5
    OVERDUE_DAYS = 2
    PRIORITY_DAYS = 1
    Sessions = {s1, s2}
    MaxSituations = 3
    Bounds = {1}
    u1 = u1
    u2 = u2
    s1 = s1
    s2 = s2
    NumPolicies = 3
    EntryChoices <- MCEntryChoices
    Jurisdictions <- MCJurisdictions
    DecisionAnswers <- MCDecisionAnswers
    RuleAnswers = {"error", "undefined", "true", "false", "mixed"}
    MaxEvaluated = 2
    Sources = {1, 2, 3}
    SourcePlans <- MCSourcePlans
    MaxRequests = 2
    NumPhases = 3
    ExecCharters <- MCCharters
    ExecConcurrency = 2
    KnownPackages = {"k"}
    PackagePhrases <- MCPackagePhrases
    KnownFeatures = {"act", "gate", "dictgate", "absent", "foreign"}
    KnownPolicies = {"p"}
    KnownTypes = {"T"}
    CallablePhrases = {"act", "gate", "dictgate", "foreign"}
    DictPhrases = {"dictgate"}
    Entries = {1, 2}
    Readers = {r1, r2}
    GateTtl = 1
    PolicyTtl = 2
    MaxEntries = 1
    MaxVersions = 2
    MaxEvaluation = 1
    DesiredSchemas <- MCDesiredSchemas
INVARIANTS
    
    EnginesAccounted
    
    CachesCurrent
    
    ExecutionFollowsCharter
    
    
PROPERTIES
    PlatformProgresses
CHECK_DEADLOCK FALSE
