SPECIFICATION Spec
CONSTANTS
    lane = lane
    operator = operator
    task = task
    run = run
    dir = dir
    file = file
    repo = repo
    branch = branch
    p1 = p1
    p2 = p2
    p3 = p3
    b1 = b1
    b2 = b2
    work = work
    other = other
    attemptwork = attemptwork
    None = None
    Owner = {lane, operator, task}
    Lane = {lane}
    Task = {task}
    Rebinder = {}
    Key = {dir, file, repo, branch}
    PathKey = {dir, file}
    RepoKey = {repo, branch}
    BranchKey = {}
    Gate = {}
    Within <- MCWithin
    Covers <- MCCovers
    Scope <- MCScope
    Purpose = {work}
    AttemptPurpose = attemptwork
    Binding = {}
    Proc = {p1, p2, p3}
    OwnerOf <- ScopeCallers
    Asks <- ScopeAsks
    Keeper = {}
    Ttl = {2}
    MaxLag = 1
    MaxClock = 3
    MaxNonce = 2
INVARIANT TerminalHoldsNothing
PROPERTIES NoScopeOverlapArises NoRepositoryOverlapArises ImplementsClaims
CHECK_DEADLOCK FALSE
