SPECIFICATION Spec
CONSTANTS
    b1 = b1 b2 = b2 r1 = r1 r2 = r2 i1 = i1 i2 = i2 i3 = i3 i4 = i4
    None = None
    Builders = {b1, b2}
    Runs = {r1, r2}
    Manual = {r2}
    Ids = {i1, i2, i3, i4}
    Empty = {2}
    MaxVersion = 3
    MaxKinds = 2
    MayHappen = {"again", "gitError", "diskError", "dbError", "lostAck", "crash"}
INVARIANTS BuildInv RowHasArchive NoOrphan NothingLeftRunning WaitsEnd
PROPERTIES EmptyInForce ImplementsOutcome
CHECK_DEADLOCK FALSE
SYMMETRY Alike
