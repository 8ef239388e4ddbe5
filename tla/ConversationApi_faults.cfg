\* Two faults (crash, failed write, tool timeout), with a reader, an operator and two supervisors.
CONSTANTS
    q1 = q1
    q2 = q2
    q3 = q3
    m1 = m1
    m2 = m2
    t1 = t1
    t2 = t2
    i1 = i1
    k1 = k1
    k2 = k2
    o0 = o0
    o1 = o1
    o2 = o2
    r1 = r1
    reader = reader
    op = op
    sup = sup
    sup2 = sup2
    None = None
    Threads = {t1}
    Requests = {q1, q2}
    Calls = {m1, m2}
    Keys = {k1}
    Orders = {o1}
    Reasons = {r1}
    Readers = {reader}
    Operators = {op}
    Supervisors = {sup, sup2}
    Deactivatable = {}
    Seeded <- MCSeeded
    AuditIds = {1, 2}
    MaxFaults = 2
SPECIFICATION Spec
SYMMETRY Symmetry
CHECK_DEADLOCK FALSE
INVARIANTS
    TypeOK
    LockProtectsConversation
    StoresAgree
    ReadersOnlyRead
PROPERTIES
    LifecycleSpec
