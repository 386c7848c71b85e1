SPECIFICATION Spec
CONSTANTS
    Jobs = {j1, j2}
    Publisher = j1
    Spellings = {bare, full}
    FirstName = bare
    Pages = {live, p1, p2, p3}
    Live = live
    NoPage = NoPage
    WriteRetries = 1
    OtherRetries = 0
    MaxRestarts = 1
    Rotations = {r1, r2}
    Initial = initial
    Services = {worker, orchestrator}
    Concurrent = FALSE
    Sites = {s1}
    MaxCompromises = 2
    Issues = {i1, i2}
    Finders = {poller, webhook}
    Poller = poller
    Threads = {t1}
    MaxReports = 3
    Diffs = {d1, d2}
    Paths = {a, b}
    FirstRetries = 1
    MaxReboots = 1
CHECK_DEADLOCK FALSE
INVARIANTS CredentialsWork
PROPERTIES FailsClosed CompromiseIsTold BugIsTaken DeadPollerIsTold
