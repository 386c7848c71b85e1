SPECIFICATION Spec
CONSTANTS
    disk = disk
    leak = leak
    duplicate = duplicate
    Sweeps = {s1, s2}
    Automatic = {disk}
    Structural = {duplicate}
    Decisions = {leak}
    Throttled = {duplicate}
    Roster <- TheRoster
    MaxTroubles = 2
    MaxDeaths = 1
    Clients = {a1}
    Threads = {t1, t2}
    RequestTTL = 2
    SessionTTL = 2
    EscalateAfter = 1
    MaxTime = 2
    MaxTaps = 1
INVARIANTS ActsOnlyWhereApproved MoveHasTap LedgerTellsTruth
PROPERTIES TroubleIsOwned
CHECK_DEADLOCK FALSE
