CONSTANTS
    N = 6
    Requires <- MixedRequires
    Awaits <- MixedAwaits
    Triggers = {"t1"}
    Handlers = {h1, h2}
    Calls = {"complete", "fail", "fire"}
    Outcomes = {"rejected"}
    Transactional = FALSE
    MaxCrashes = 1
SPECIFICATION Spec
INVARIANTS JoinsExact
SYMMETRY Symmetry
CHECK_DEADLOCK FALSE
