SPECIFICATION FairSpec
CONSTANTS
    d1 = d1 d2 = d2 d3 = d3 h1 = h1 h2 = h2 w1 = w1 w2 = w2
    None = None
    Deliveries = {d1, d2}
    HeadOf <- Successive2
    Runs <- ThreeRuns
    Handlers = {h1}
    Workers = {w1, w2}
    MaxHead = 2
    MaxArrivals = 2
    Incidents = {"gitError", "workerCrash"}
    MaxIncidents = 2
    MayRequest = TRUE
CHECK_DEADLOCK FALSE
PROPERTIES PendingStarts RunningEndsUnlessLost FailureReachesCursor
