SPECIFICATION Spec
CONSTANTS
    lane = lane
    operator = operator
    task = task
    run = run
    dir = dir
    file = file
    repo = repo
    branch = branch
    p1 = p1
    p2 = p2
    p3 = p3
    b1 = b1
    b2 = b2
    work = work
    other = other
    attemptwork = attemptwork
    None = None
    Owner = {lane, run}
    Lane = {lane}
    Task = {}
    Rebinder = {run}
    Key = {dir}
    PathKey = {dir}
    RepoKey = {}
    BranchKey = {}
    Gate = {}
    Within = {}
    Covers = {}
    Scope = {}
    Purpose = {work, other}
    AttemptPurpose = attemptwork
    Binding = {}
    Proc = {p1, p2, p3}
    OwnerOf <- TwoOfLane
    Asks <- SingleAsks
    Keeper = {p1, p3}
    Ttl = {2}
    MaxLag = 1
    MaxClock = 3
    MaxNonce = 2
SYMMETRY PurposeSymmetry
PROPERTIES ImplementsClaims GuardedIsExact
CHECK_DEADLOCK FALSE
