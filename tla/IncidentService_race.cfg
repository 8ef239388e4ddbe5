\* Three calls of a supervisor and an operator racing on one key with two
\* contents; one of them may use the key of a seeded incident instead.
CONSTANTS
    c1 = c1
    c2 = c2
    c3 = c3
    i1 = i1
    k1 = k1
    k2 = k2
    o1 = o1
    o2 = o2
    r1 = r1
    sup = sup
    op = op
    None = None
    Calls = {c1, c2, c3}
    Keys = {k1, k2}
    Orders = {o1, o2}
    Reasons = {r1}
    Users = {sup, op}
    Approvers = {sup}
    Proposers = {op}
    Seeded <- MCSeeded
SPECIFICATION MCSpec
CHECK_DEADLOCK FALSE
INVARIANTS
    TypeOK
    OneIncidentPerKey
    AssertionHolds
    AuditMatchesIncidents
    TruthfulAnswer
PROPERTIES
    CallEnds
    RegistrySpec
