SPECIFICATION Spec
CONSTANTS
    d1 = d1 d2 = d2 d3 = d3 h1 = h1 h2 = h2 w1 = w1 w2 = w2
    None = None
    Deliveries = {d1, d2}
    HeadOf <- Successive2
    Runs <- ThreeRuns
    Handlers = {h1}
    Workers = {w1, w2}
    MaxHead = 2
    MaxArrivals = 3
    Incidents = {"gitError", "redelivery", "duplicate", "delay"}
    MaxIncidents = 3
    MayRequest = FALSE
SYMMETRY Processes
CHECK_DEADLOCK FALSE
INVARIANTS PipelineInv CompletedHasSnapshot CursorNotFailed BuildExclusive BlockedReleasable NothingAbandoned OutcomesAgree
PROPERTY ImplementsOutcome
