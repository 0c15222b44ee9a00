CONSTANTS
    Null = Null
    Parts = {"consent", "certificates", "records", "waiting", "service_clock", "phrase_clock", "charters", "bindings", "workflow", "policies", "publishing", "storage", "links", "packets"}
    ConsentClients = {c1, c2}
    ConsentScopes = {"consideration_authorization", "ai_scoring"}
    MaxTokens = 2
    MaxConsentTime = 2
    CertClients = {c1, c2}
    CertFacts = {e1}
    MaxCerts = 2
    MaxRecords = 1
    MaxCertTime = 1
    WaitClients = {c1, c2}
    WaitDays = 2
    MaxWaitTime = 3
    MaxWaitRows = 5
    CharterClients = {c1, c2}
    MaxCharters = 3
    Gates = {"gate", "cert"}
    WorkflowClients = {c1, c2}
    MaxRuns = 2
    PolicyClients = {c1, c2}
    PolicyVersions = {1, 2}
    Contents = {"x"}
    MaxPolicyRows = 2
    k1 = k1
    perf = perf
    conduct = conduct
    Callers = {c1, c2}
    Chains = {k1}
    Writes <- SameChain
    Datas = {x, y}
    MaxEvidence = 3
    MaxEntries = 4
    Packets = {p1, p2}
    Sealers = {c1, c2}
    CEPTypes = {perf, conduct}
    Validity <- MCValidity
    Facts = {f1, f2}
    MaxTime = 3
SPECIFICATION MCSpec
INVARIANTS
    ConsentChecksAgree
    
    ReferencesResolve
    
    
    
    ChainsVerify
    ReferenceIsSealed
PROPERTIES
    WithdrawalIsFinal
    ExpiredStaysExpired
    WaitingIsPausableClock
CHECK_DEADLOCK FALSE
