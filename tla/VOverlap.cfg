SPECIFICATION Spec
CONSTANTS
  NSteps = 3
  GateIds = {1}
  Kind <- GateThenAutos
  MaxRetries <- NoRetry
  Threads = {t1, t2}
  CallbackGates = {}
  Overrides = {}
  LateDecisions = FALSE
  MaxCrashes = 0
INVARIANTS StepsInOrder
