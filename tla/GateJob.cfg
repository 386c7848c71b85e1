SPECIFICATION FairSpec
CONSTANTS
  NSteps = 2
  GateIds = {1, 2}
  Kind <- GateThenAuto
  MaxRetries <- RetryGate
  Threads = {t1, t2}
  CallbackGates = {1}
  Overrides = {}
  LateDecisions = TRUE
  MaxCrashes = 0
PROPERTIES DecisionEndsJob
