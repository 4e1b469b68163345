CONSTANTS
    a = a
    A = A
    b = b
    None = None
    Pending = Pending
    MaxWord = 3
    Words <- MCWords
    Fold <- MCFold
    Inputs <- MCInputs
    MaxDistance = 2

SPECIFICATION Spec
INVARIANT RowsAreDistances
PROPERTY FindsNearest
CHECK_DEADLOCK FALSE
