SPECIFICATION KronSpec
CONSTANTS
    a = a
    b = b
    c = c
    d = d
    e = e
    Ops = {a, b, c, d, e}
    Preds <- DiamondPreds
    Limit = 2
    StopOnError = TRUE
    NoBranch = {c, e}
    AlreadyRun = {b}
    Parts = {"flow", "bucket", "breaker", "exchange", "branches", "graph", "builder"}
    Callers = {k1, k2}
    Capacity = 2
    RefillRate = 1
    InvokeTimeout = 2
    FailureThreshold = 2
    RecoveryTime = 2
    HalfOpenMaxCalls = 1
    MaxRetries = 2
    MaxDelay = 2
    Owners = {o1, o2}
    MaxMessages = 2
    Messages = {m1, m2}
    BranchNames = {"b1"}
    MaxOrder = 3
    GraphNodes = {n1, n2, n3}
    MaxEdges = 3
INVARIANTS
    FlowSafe
    CalledOnce
    MailAccounted
    StructuresConsistent
PROPERTIES
    BucketIsMeter
    BreakerProtocol
    KronProgresses
CHECK_DEADLOCK FALSE
