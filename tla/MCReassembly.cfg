CONSTANTS
    Records = 3
    Lengths = {0, 1, 3, 4, 5, 6}
    Cuts <- MCCuts
    Claims = {0, 2, 4, 5}
    MaxHandshakeBytes = 8
    MaxRecordFragment = 5
    None = None

SPECIFICATION FairSpec
INVARIANTS TypeOK AnswerIsPromise BufferBound
PROPERTIES AnswerStable ContractSpec CallReturns
CHECK_DEADLOCK FALSE
