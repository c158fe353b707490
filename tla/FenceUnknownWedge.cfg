\* An unknown outcome reconciled, then overtaken by another settlement.
SPECIFICATION FairSpec
CONSTANTS
    grabowski = grabowski
    maulwurf = maulwurf
    None = None
    Peer <- MCPeer
    MaxOps = 1
    MaxGeneration = 3
    MaxFaults = 1
    MaxLate = 0
PROPERTIES ReconciledUnblocks
CHECK_DEADLOCK FALSE
