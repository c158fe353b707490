\* Liveness with one fault.
SPECIFICATION FairSpec
CONSTANTS
    grabowski = grabowski
    maulwurf = maulwurf
    None = None
    Peer <- MCPeer
    MaxOps = 1
    MaxGeneration = 3
    MaxFaults = 1
    MaxLate = 0
PROPERTIES BegunIsAccounted OutcomeIsDelivered SettledIsForgotten PreparedMovesOn
CHECK_DEADLOCK FALSE
