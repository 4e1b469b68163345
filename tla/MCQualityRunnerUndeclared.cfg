\* spdx-headers, whose key does not have what it reads.
SPECIFICATION Spec
CONSTANTS
    a = a
    b = b
    core = core
    Runs <- MCRuns
    NumGates = 1
    NumWaves = 1
    WaveOf <- OneWave
    Cacheable = {1}
    Files <- MCFiles
    Declared <- Declares
    ReadBy <- Reads
    Modes = {"prepush"}
    Limits <- MCLimits
    NaN = NaN
    MaxEdits = 1
    None = None
PROPERTY EveryExitZeroEarned
