SPECIFICATION FairSpec
CONSTANTS
    b1 = b1 b2 = b2 r1 = r1 r2 = r2 i1 = i1 i2 = i2 i3 = i3 i4 = i4
    None = None
    Builders = {b1, b2}
    Runs = {r1}
    Manual = {}
    Ids = {i1, i2, i3, i4}
    Empty = {2}
    MaxVersion = 3
    MaxKinds = 1
    MayHappen = {"again", "gitError", "diskError", "dbError"}
PROPERTY BuildEnds
CHECK_DEADLOCK FALSE
