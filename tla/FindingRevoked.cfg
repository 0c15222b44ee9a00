CONSTANTS
    Null = Null
    Parts = {"grants"}
    MaxDay = 13
    MaxDeliveries = 2
    PredicateValues = {1, 3}
    PolicyTimes = {1, 2, 3}
    MaxCoreTime = 4
    MaxHistory = 3
    Parties <- NotifiedParties
    Actors = {a1, a2, a3}
    MaxDepth = 3
    MaxAuthTime = 2
    MaxDelegations = 3
    PatternClients = {c1, c2}
    Lookback = 2
    Threshold = 2
    MaxToday = 5
    MaxActs = 4
    Items = {"x", "y", "z"}
    MaxItems = 3
    LegalClients = {c1, c2}
    MaxHolds = 2
    MaxLegalNow = 2
    DealItems = {"p", "q"}
    MaxDeployNow = 3
    MaxDeployRows = 2
    p1 = p1
    p2 = p2
    d1 = d1
    d2 = d2
    Users = {u1, u2}
    Docs = {d1, d2}
    Phases = {p1, p2}
    GrantNodes <- TwoPhaseGrants
    Readers = {r1}
    TTL = 1
    Safety = 2
    MaxTokens = 1
    MaxTime = 0
SPECIFICATION MCSpec
PROPERTIES RevokedStaysRevoked
SYMMETRY Symmetry
CHECK_DEADLOCK FALSE
