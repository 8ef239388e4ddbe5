\* Two sessions and one chat, or one session and two; profile changes and a call given up.
CONSTANTS
    s1 = s1
    s2 = s2
    t1 = t1
    t2 = t2
    k1 = k1
    o1 = o1
    o2 = o2
    r1 = r1
    op = op
    sup = sup
    None = None
    Absent = Absent
    Sessions = {s1, s2}
    Threads = {t1, t2}
    Keys = {k1}
    Orders = {o1}
    Reasons = {r1}
    Readers = {}
    Operators = {op}
    Supervisors = {sup}
    Switching = {s1}
    MaxTimeouts = 1
    MaxInterruptions = 1
SPECIFICATION MCSpec
CHECK_DEADLOCK FALSE
INVARIANTS
    TypeOK
    ClicksStayOnTheScreen
    DeletionsAreConfirmed
    NewChatIsShown
PROPERTIES
    OffersAreOpen
    SessionsRecover
