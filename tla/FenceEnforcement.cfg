\* Two peers, one operation each, two faults, one late request.
SPECIFICATION Spec
CONSTANTS
    grabowski = grabowski
    maulwurf = maulwurf
    None = None
    Peer <- MCPeer
    MaxOps = 1
    MaxGeneration = 3
    MaxFaults = 2
    MaxLate = 1
INVARIANTS EffectsFenced RecordIsTrue NoOrphanInFlight PhaseIsBacked
CHECK_DEADLOCK FALSE
