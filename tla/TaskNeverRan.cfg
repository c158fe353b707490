SPECIFICATION Spec
CONSTANTS
    task = task
    repo = repo
    path = path
    None = None
    Foreign = Foreign
    Task = {task}
    Key = {repo, path}
    KeysOf <- BothKeys
    MaxAttempt = 2
    MaxCrashes = 1
INVARIANTS CompletedRan
CHECK_DEADLOCK FALSE
