\* --concurrency that is not a number.
SPECIFICATION Spec
CONSTANTS
    a = a
    b = b
    core = core
    Runs <- MCRuns
    NumGates = 3
    NumWaves = 2
    WaveOf <- MCWaveOf
    Cacheable <- MCCacheable
    Files <- MCFiles
    Declared <- MCDeclared
    ReadBy <- MCReadBy
    Modes = {"prepush"}
    Limits <- MCLimitsNaN
    NaN = NaN
    MaxEdits = 0
    None = None
INVARIANT ExitCodeHonest
