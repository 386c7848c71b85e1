SPECIFICATION Spec
CONSTANTS
  MaxGates = 3
  Unlocks = {u1}
  MaxStir = 2
  Writers = {w1, w2}
  Keys = {k1}
  MaxEvents = 3
  MaxFaults = 1
  Cards = {c1, c2, c3, c4}
  Sessions = {s1}
  Owner <- MCOwner
  Suppressing = {c1, c2, c3}
  Fabricated = {}
  YieldBound = 2
  MaxYield = 4
  TIER1_MAX_TURNS = 1
  COMPACTION_TRIGGER_TURNS = 2
  Folders = {f1, f2}
  MaxCalls = 2
  Pace = 1
  MaxTurns = 13
  TalkTurns = 2
  MaxMisses = 1
  Requests = {r1}
  Providers = {"anthropic", "litellm", "hermes"}
  MAX_AGENTIC_ITERATIONS = 2
  HOURLY_CALL_CAP = 2
  INTERACTIVE_BUDGET = 2
  Ids = {i1, i2}
  Contents = {a1, a2}
  NoIngest = none
  Ingests = {g1, g2}
CHECK_DEADLOCK FALSE
INVARIANTS QueuedIsSomewhere CardHonoredOnce  PrivateIsLocal
PROPERTIES LookShowsAll FactsAreKept
