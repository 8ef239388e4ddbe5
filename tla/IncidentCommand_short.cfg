\* Every pair of reasons of at most five characters over a blank and two letters.
CONSTANTS
    blank = blank
    a = a
    b = b
    Blank = blank
    Letters = {a, b}
    MinReason = 3
    MaxReason = 4
    MaxText = 5
SPECIFICATION TextsSpec
CHECK_DEADLOCK FALSE
INVARIANTS
    StoredReasonIsLongEnough
