SPECIFICATION FairSpec
CONSTANTS
    d1 = d1 d2 = d2 d3 = d3 h1 = h1 h2 = h2 w1 = w1 w2 = w2
    None = None
    Deliveries = {d1, d2}
    HeadOf <- Successive2
    Runs <- TwoRuns
    Handlers = {h1}
    Workers = {w1}
    MaxHead = 2
    MaxArrivals = 2
    Incidents = {}
    MaxIncidents = 0
    MayRequest = FALSE
CHECK_DEADLOCK FALSE
PROPERTIES BlockedHandedOver
