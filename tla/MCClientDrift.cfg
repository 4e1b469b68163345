CONSTANTS
    None = None
    Hellos <- MCHellos
    Greases = {2570, 64250}
    Additions <- MCAdditions
    NewHosts = {"www.example.net"}
    MaxChanges = 2

SPECIFICATION Spec
INVARIANT VersionsAgree
PROPERTIES GreaseInvisible OrderInvisible OfferNeverDemotes OfferVisible
CHECK_DEADLOCK FALSE
