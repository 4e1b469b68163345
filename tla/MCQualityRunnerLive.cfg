\* Every invocation ends, whatever --concurrency parses to, unless a gate never closes.
SPECIFICATION FairSpec
CONSTANTS
    a = a
    b = b
    core = core
    Runs <- MCRuns
    NumGates = 3
    NumWaves = 2
    WaveOf <- MCWaveOf
    Cacheable <- MCCacheable
    Files <- MCFiles
    Declared <- MCDeclared
    ReadBy <- MCReadBy
    Modes = {"prepush"}
    Limits <- MCLimitsNaN
    NaN = NaN
    MaxEdits = 0
    None = None
PROPERTY EveryRunExits
