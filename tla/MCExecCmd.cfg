CONSTANTS
    Pending = Pending
    c1 = c1
    c2 = c2
    Codes <- MCCodes
    Children = {c1, c2}
    MaxOutput = 3

SPECIFICATION FairExecSpec
INVARIANT NothingLeftBehind
PROPERTIES OneVerdict SettlesUnlessHeld
CHECK_DEADLOCK FALSE
