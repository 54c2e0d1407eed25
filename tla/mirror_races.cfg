SPECIFICATION Spec
CONSTANTS
    Users = {u1, u2, u3}
    MaxHead = 1
    MayHappen = {"gitError", "forcePush", "crash"}
INVARIANTS MirrorInv ReadsWhatItResolved
PROPERTIES MirrorKeepsCommits UseEnds
CHECK_DEADLOCK FALSE
