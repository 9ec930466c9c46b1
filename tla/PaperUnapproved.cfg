CONSTANTS
    s1 = s1
    s2 = s2
    o1 = o1
    o2 = o2
    o3 = o3
    c1 = c1
    c2 = c2
    c3 = c3
    c4 = c4
    c5 = c5
    c6 = c6
    c7 = c7
    Signals = {s1}
    Orders = {o1}
    Calls = {c1, c2, c3}
    MaxOverlap = 2
    NoSignal = NoSignal
    NoOrder = NoOrder
    NoPosition = NoPosition
SPECIFICATION Spec
SYMMETRY Symmetric
PROPERTIES
    ExecutesApproved
CHECK_DEADLOCK FALSE
