\* Two sessions of one supervisor and two possible proposals.
CONSTANTS
    s1 = s1
    s2 = s2
    t1 = t1
    t2 = t2
    k1 = k1
    o1 = o1
    o2 = o2
    r1 = r1
    op = op
    sup = sup
    None = None
    Absent = Absent
    Sessions = {s1, s2}
    Threads = {t1}
    Keys = {k1}
    Orders = {o1, o2}
    Reasons = {r1}
    Readers = {}
    Operators = {op}
    Supervisors = {sup}
    Switching = {}
    MaxTimeouts = 0
    MaxInterruptions = 0
SPECIFICATION UnseenSpec
CHECK_DEADLOCK FALSE
PROPERTIES
    DecisionsCoverWhatWasShown
