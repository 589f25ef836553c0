SPECIFICATION FairSpec
CONSTANTS
    ThreadCnts = {0, 1, 2}
    IntBits = 2
    MaxFds = 2
    MaxIds = 5
CHECK_DEADLOCK FALSE
INVARIANTS
    ServerInv
    RemovalIsExact
PROPERTIES
    AcceptResumes
    StopDestroys
