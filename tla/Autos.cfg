SPECIFICATION FairSpec
CONSTANTS
  NSteps = 2
  GateIds = {}
  Kind <- AutoAuto
  MaxRetries <- RetryOnce
  Threads = {t1, t2}
  CallbackGates = {}
  Overrides = {}
  LateDecisions = FALSE
  MaxCrashes = 2
INVARIANTS AttemptBudget StepsInOrder
PROPERTIES JobSettles
