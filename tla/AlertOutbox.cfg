SPECIFICATION FairSpec
CONSTANTS
    c1 = c1  c2 = c2  c3 = c3
    Manual = Manual
    None = None
    Alert = {1, 2}
    Call = {c1, c2, c3}
    AlertOf <- TwoAboutOne
    Earlier = {c3}
    Unrenderable = {1}
    Limit = 2
    MaxScan = 3
    MaxDeaths = 2
    MaxSwitches = 1
INVARIANTS UnboundIsWithdrawn AckIsEarned
PROPERTIES NotPushedAgain Delivered
