CONSTANTS
    None = None
    Messages <- MCMessages
    Hellos <- MCHellos
    Raw <- MCRaw
    Bodies = {}
    MaxHandshakeBytes = 64
    MinLimit = 2
    MaxLimit = 258
    MaxHost = 9
    MaxLabel = 4
    MaxBody = 4
    MaxFree = 10
    MaxShort = 4
    MaxExts = 3

SPECIFICATION BuiltSpec
INVARIANTS TypeOK ListIsMeaning PairsVerbatim HostIsMeaning BuiltIsObserved 
PROPERTY ImplementsWalk
CHECK_DEADLOCK FALSE
