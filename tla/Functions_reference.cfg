\* Every pair of reasons of at most five characters over a blank and two letters;
\* every suite of two cases, over one read tool and create_incident.
CONSTANTS
    blank = blank
    a = a
    b = b
    Blank = blank
    Letters = {a, b}
    MinReason = 3
    MaxReason = 4
    MaxText = 5
    lookup = lookup
    create_incident = create_incident
    malformed = malformed
    Tools = {lookup, create_incident}
    SENSITIVE_TOOL = create_incident
    Malformed = malformed
    MaxCases = 2
    MaxTurns = 2
SPECIFICATION MCSpec
CHECK_DEADLOCK FALSE
INVARIANTS
    StoredReasonIsNormal
    HashMeansSameWords
    SuccessMeansNothingWritten
    ExitCodeIsExact
