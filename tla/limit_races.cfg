SPECIFICATION Spec
CONSTANTS
    q1 = q1 q2 = q2 q3 = q3 q4 = q4 q5 = q5 q6 = q6
    s1 = s1 s2 = s2 s3 = s3 c1 = c1 c2 = c2
    None = None
    Requests = {q1, q2, q3, q4}
    Sources = {s1, s2}
    Connections = {c1, c2}
    Window = 2
    Lag = 1
    MaxRequests = 2
    MaxSourceRequests = 3
    MaxConnectionBuckets = 2
    MaxFailures = 2
    MaxFailureBuckets = 1
INVARIANTS LimitsInv WithinLimits TablesBounded
PROPERTY RefusedForCause
SYMMETRY Alike
