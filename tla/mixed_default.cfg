SPECIFICATION Spec
CONSTANTS
    o1 = o1 o2 = o2 v1 = v1 b1 = b1 n1 = n1 n2 = n2
    None = None
    Operators = {o1, o2}
    Verifiers = {}
    Builders = {}
    Names = {n1, n2}
    Asked <- ThreeRefs
    MaxChanges = 0
PROPERTY DefaultAsAsked
