SPECIFICATION FairSpec
CONSTANTS
    SN = {g1, g2}
    MaxConns = 3
    MaxOpFails = 1
    MaxCrashes = 1
INVARIANTS
    TypeOK
    AloneIsListed
    NoGhost
    ListedWasAuthenticated
PROPERTIES
    EventuallyUnlisted
