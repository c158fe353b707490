SPECIFICATION FairSpec
CONSTANTS
    task = task
    repo = repo
    path = path
    None = None
    Foreign = Foreign
    Task = {task}
    Key = {repo, path}
    KeysOf <- BothKeys
    MaxAttempt = 2
    MaxCrashes = 2
INVARIANTS RunningIsOpen OneUnit RunsUnderLease AdoptionHolds ReceiptChain
PROPERTIES ImplementsOutcome DecidedIsCompleted Settles
CHECK_DEADLOCK FALSE
