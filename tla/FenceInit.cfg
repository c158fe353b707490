\* Three openers, three interrupted openings, two files lost.
SPECIFICATION FairSpec
CONSTANTS
    rpc1 = rpc1  rpc2 = rpc2  rpc3 = rpc3
    None = None
    Proc <- MCProc
    MaxCrashes = 3
    MaxLost = 2
INVARIANTS OneStore RefusedOnlyForLoss
PROPERTIES SetUpCompletes
