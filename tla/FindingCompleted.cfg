CONSTANTS
    N = 2
    Requires <- ParallelRequires
    Awaits <- ParallelAwaits
    Triggers = {"t1"}
    Handlers = {h1}
    Calls = {"complete", "fail"}
    Outcomes = {}
    Transactional = TRUE
    MaxCrashes = 0
SPECIFICATION Spec
INVARIANTS CompletedMeansAllCompleted
SYMMETRY Symmetry
CHECK_DEADLOCK FALSE
