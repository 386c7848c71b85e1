SPECIFICATION Spec
CONSTANTS
    Signatures = {e1, e2}
    MAX_SIGNATURES_PER_RUN = 2
    TokenPlaced = TRUE
    MaxFaults = 2
    TIER1_CHAR_CAP = 3
    TIER3_CHAR_CAP = 3
    TIER4_CHAR_CAP = 2
    TIER5_STABLE_CHAR_CAP = 5
    TIER5_VOLATILE_CHAR_CAP = 4
    TIER3_TOP_K = 2
    TIER3_SCORE_THRESHOLD = 2
    RubricSize = 1
    Worlds <- MCWorlds
INVARIANTS EveryLegCounts PackageFits
PROPERTIES TroubleIsMet
