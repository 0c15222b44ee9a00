CONSTANTS
    N = 4
    Requires <- ForkRequires
    Awaits <- ForkAwaits
    Triggers = {"t1", "t2"}
    Handlers = {h1, h2}
    Calls = {"complete", "fail", "fire", "cancel"}
    Outcomes = {}
    Transactional = TRUE
    MaxCrashes = 1
SPECIFICATION Spec
INVARIANTS RequiresFirst RowsConsistent NoLostActivation
PROPERTIES NeverReopened
SYMMETRY Symmetry
CHECK_DEADLOCK FALSE
