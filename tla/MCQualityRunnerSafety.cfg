\* Two invocations that share the index, three gates, an edit at any moment.
SPECIFICATION Spec
CONSTANTS
    a = a
    b = b
    core = core
    Runs <- MCRuns
    NumGates = 3
    NumWaves = 2
    WaveOf <- MCWaveOf
    Cacheable <- MCCacheable
    Files <- MCFiles
    Declared <- MCDeclared
    ReadBy <- MCReadBy
    Modes = {"prepush"}
    Limits <- MCLimits
    NaN = NaN
    MaxEdits = 1
    None = None
CONSTRAINT AnyTwo
SYMMETRY Symmetric
INVARIANTS WavesInOrder ExitCodeHonest CacheSound
PROPERTY ExitZeroMeansTreePasses
