\* Two procedures with an edit, two failures, stops or downgrades.
CONSTANTS
    f1 = f1
    f2 = f2
    c1 = c1
    c2 = c2
    bad = bad
    None = None
    Nil = Nil
    Names = {f1, f2}
    Texts <- TwoTexts
    Suspicious = {bad}
    MaxEdits = 1
    MaxFaults = 2
SPECIFICATION FairSpec
CHECK_DEADLOCK FALSE
INVARIANTS
    TypeOK
    SchemaIsItsRevision
    MigrationsRunThrough
    QuarantinedTextsAreNotFound
    ProceduresAreFound
    ServersFindTheirTables
PROPERTIES
    EventuallyServed
