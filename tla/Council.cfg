SPECIFICATION FairSpec
CONSTANTS
  Kinds = {"reviewed", "devops", "hostops", "wp_probe", "fleet", "sprint", "synthetic"}
  Surfaces = {buzz}
  MaxTaps = 2
  MaxCrashes = 2
CHECK_DEADLOCK FALSE
INVARIANTS ApprovedByRight ReapedJobEnded OneDecision
PROPERTIES DecisionReachesEngine
