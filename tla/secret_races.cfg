SPECIFICATION Spec
CONSTANTS
    h1 = h1 h2 = h2 p1 = p1 p2 = p2 d1 = d1
    Handlers = {h1, h2}
    Operators = {p1, p2}
    Deliveries = {d1}
    Grace = 2
    Lag = 1
    MaxSecrets = 3
    MaxTime = 3
    None = None
INVARIANTS SecretsInv EventsNameTheirSecret
PROPERTIES AcceptedIffInForce
CHECK_DEADLOCK FALSE
SYMMETRY Alike
