SPECIFICATION Spec
CONSTANTS
  Checks <- MCChecks
  Fixable = {"disk"}
  Verified = {"disk"}
  Deferred = {}
  Threshold = 2
  Interval = 2
  MaxDeaths = 1
  Containers = {a, b}
  Grace = 2
  MaxMishaps = 2
  Prints = {p, q}
  Serious = {p}
  Cadence = 3
  Window = 2
  MaxClassify = 2
  MaxLines = 2
  MaxTroubles = 1
  MaxUpdate = 5
  Kind <- MCKind
  MaxLoopDeaths = 1
  Invariants <- MCInvariants
  Standing = {"ledger"}
  MaxTickets = 3
  MaxSlips = 2
  CollectMax = 1
  AlertMax = 1
  KnowledgeMax = 1
  CacheMax = 1
  Hosts = {w, h}
  Spine = w
  MaxBoot = 2
  MaxFaults = 1
CHECK_DEADLOCK FALSE
INVARIANTS NoTicketInReachTwice SeenIsHandled
PROPERTIES OutagePaged AlarmSettles EveryUpdateServed BreakBlocks
