SPECIFICATION Spec
CONSTANTS
    lane = lane
    operator = operator
    task = task
    run = run
    dir = dir
    file = file
    repo = repo
    branch = branch
    p1 = p1
    p2 = p2
    p3 = p3
    b1 = b1
    b2 = b2
    work = work
    other = other
    attemptwork = attemptwork
    None = None
    Owner = {lane, task}
    Lane = {lane}
    Task = {task}
    Rebinder = {}
    Key = {branch}
    PathKey = {}
    RepoKey = {branch}
    BranchKey = {branch}
    Gate = {}
    Within = {}
    Covers = {}
    Scope = {}
    Purpose = {work}
    AttemptPurpose = attemptwork
    Binding = {b1, b2}
    Proc = {p1, p2, p3}
    OwnerOf <- TwoOfTask
    Asks <- SingleAsks
    Keeper = {}
    Ttl = {2, 3}
    MaxLag = 1
    MaxClock = 4
    MaxNonce = 2
SYMMETRY TwinSymmetry
INVARIANTS AttemptIsFrozen OneAttempt
PROPERTY CompletionIsExact
CHECK_DEADLOCK FALSE
