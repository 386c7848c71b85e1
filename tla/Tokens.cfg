SPECIFICATION Spec
CONSTANTS
  NSteps = 2
  GateIds = {1}
  Kind <- GatedExec
  MaxRetries <- NoRetry
  Threads = {t1, t2}
  CallbackGates = {}
  Overrides = {o1}
  LateDecisions = FALSE
  MaxCrashes = 1
CONSTRAINT OneDisturbance
SYMMETRY ThreadSymmetry
INVARIANTS NoFalseAlarm RecordedOrLogged MutationApproved JobSuccessIsEarned
PROPERTIES TokenSpec
