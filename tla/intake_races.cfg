SPECIFICATION Spec
CONSTANTS
    d1 = d1 d2 = d2 d3 = d3 h1 = h1 h2 = h2 w1 = w1 w2 = w2
    None = None
    Deliveries = {d1, d2, d3}
    HeadOf <- SameHead3
    Runs <- ThreeRuns
    Handlers = {h1, h2}
    Workers = {w1}
    MaxHead = 2
    MaxArrivals = 3
    Incidents = {"gitError", "sendError", "handlerCrash", "redelivery", "duplicate", "delay", "scopeChange", "workerCrash"}
    MaxIncidents = 1
    MayRequest = TRUE
SYMMETRY Processes
CHECK_DEADLOCK FALSE
INVARIANTS TypeOK NoHeadLost PendingRecoverable DispatchBacked DispatchedOnce CancelledHasNoEvents
PROPERTIES ImplementsSlot
