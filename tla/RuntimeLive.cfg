CONSTANTS
    N = 4
    Requires <- ForkRequires
    Awaits <- ForkAwaits
    Triggers = {"t1", "t2"}
    Handlers = {h1, h2}
    Calls = {"complete", "fire"}
    Outcomes = {}
    Transactional = TRUE
    MaxCrashes = 1
SPECIFICATION FairSpec
PROPERTIES RunCloses
CHECK_DEADLOCK FALSE
