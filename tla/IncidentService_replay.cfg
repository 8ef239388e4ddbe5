\* A replay whose order was cancelled meanwhile.
CONSTANTS
    c1 = c1
    c2 = c2
    c3 = c3
    i1 = i1
    k1 = k1
    k2 = k2
    o1 = o1
    o2 = o2
    r1 = r1
    sup = sup
    op = op
    None = None
    Calls = {c1, c2}
    Keys = {k1}
    Orders = {o1, o2}
    Reasons = {r1}
    Users = {sup}
    Approvers = {sup}
    Proposers = {op}
    Seeded <- MCSeeded
SPECIFICATION Spec
CHECK_DEADLOCK FALSE
PROPERTIES
    ReplayReturnsExisting
