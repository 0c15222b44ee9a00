CONSTANTS
    N = 2
    Requires <- ParallelRequires
    Awaits <- ParallelAwaits
    Triggers = {"t1"}
    Handlers = {h1, h2}
    Calls = {"complete", "fail"}
    Outcomes = {}
    Transactional = TRUE
    MaxCrashes = 0
SPECIFICATION Spec
PROPERTIES TerminalIsFinal
SYMMETRY Symmetry
CHECK_DEADLOCK FALSE
