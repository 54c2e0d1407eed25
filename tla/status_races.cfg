SPECIFICATION Spec
CONSTANTS
    o1 = o1 o2 = o2 v1 = v1 b1 = b1 n1 = n1 n2 = n2
    None = None
    Operators = {o1}
    Verifiers = {v1}
    Builders = {b1}
    Names = {n1, n2}
    Asked <- TwoRefs
    MaxChanges = 2
INVARIANT StatusInv
PROPERTIES DefaultAsAsked UndisturbedTells
