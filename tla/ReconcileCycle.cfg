SPECIFICATION FairSpec
CONSTANTS
    good = good
    bad = bad
    poison = poison
    Task = {good, bad, poison}
    Failing = {bad}
    Poison = {poison}
    Retired = {bad}
    Limit = 3
    ActiveLimit = 1
    None = None
    MaxAborts = 1
INVARIANT TypeOK
PROPERTIES
    Recovered
    Noticed
    NonePassedOver
