---------------------------- MODULE GreenBaseline ----------------------------
(***************************************************************************)
(* The green baseline and its witnesses.  A sensor outside the worker      *)
(* proves that alerts are delivered and stamps a receipt, the worker's     *)
(* collector copies the stamp while it is fresh; a daily job proves that   *)
(* an advisor recalls what it was taught.  The baseline (scripts/          *)
(* green_baseline.py) reads the stamps as journeys, everything else as     *)
(* diagnostics, and the session start keeps its verdict for ten minutes.   *)
(***************************************************************************)
EXTENDS Naturals

CONSTANTS
    CollectMax,   \* MAXAGE of witness_collector.sh, in ticks
    AlertMax,     \* the 36 hours of alert_delivery_verdict
    KnowledgeMax, \* the 48 hours of knowledge_use_verdict
    CacheMax      \* _BASELINE_TTL_S

ASSUME BaselineAssumption ==
    CollectMax \in Nat /\ AlertMax \in Nat /\ KnowledgeMax \in Nat /\ CacheMax \in Nat

VARIABLES
    delivers,   \* does Telegram deliver alerts?
    recalls,    \* does the advisor recall its knowledge?
    sensor,     \* the sensor's stamp
    stamp,      \* the worker's copy, its age counted from the copying
    witnessedAt,\* age of the GREEN stamp of the knowledge journey
    failing,    \* age of failing_since in the .last stamp
    cache,      \* the cached verdict
    shown,      \* the last run: how it answered, and its exit code
    delivery,   \* ticks since an alert was last known to be delivered
    recall      \* ticks since the advisor last recalled in a journey

baselineVars ==
    <<delivers, recalls, sensor, stamp, witnessedAt, failing, cache, shown, delivery, recall>>

NoStamp == [verdict |-> "none", age |-> 0]
Unstamped == KnowledgeMax + 2              \* no file
Uncached == CacheMax + 1
SensorAge == 0..CollectMax + 1             \* ages are counted up to the first that is too old
StampAge == 0..AlertMax + 1
KnowledgeAge == 0..KnowledgeMax + 1
DeliveryAge == 0..AlertMax + CollectMax + CacheMax + 1
Nothing == [by |-> "none", verdict |-> "none", code |-> 0]
Verdicts == {"GREEN", "AMBER", "RED"}

BaselineTypeOK ==
    /\ delivers \in BOOLEAN /\ recalls \in BOOLEAN
    /\ sensor \in {NoStamp} \cup [verdict : {"GREEN", "RED"}, age : SensorAge]
    /\ stamp \in {NoStamp} \cup [verdict : {"GREEN", "RED"}, age : StampAge]
    /\ witnessedAt \in 0..Unstamped /\ failing \in 0..Unstamped
    /\ cache \in 0..Uncached
    /\ shown = Nothing \/ shown \in [by : {"live", "cached"}, verdict : Verdicts, code : {0, 1}]
    /\ delivery \in DeliveryAge /\ recall \in KnowledgeAge

BaselineInit ==
    /\ delivers = TRUE /\ recalls = TRUE
    /\ sensor = NoStamp /\ stamp = NoStamp /\ witnessedAt = Unstamped /\ failing = Unstamped
    /\ cache = Uncached /\ shown = Nothing
    /\ delivery = AlertMax + CollectMax + CacheMax + 1 /\ recall = KnowledgeMax + 1

-----------------------------------------------------------------------------
WorldChanges ==
    /\ \/ delivers' = ~delivers /\ UNCHANGED recalls
       \/ recalls' = ~recalls /\ UNCHANGED delivers
    /\ shown' = Nothing
    /\ UNCHANGED <<sensor, stamp, witnessedAt, failing, cache, delivery, recall>>

Elapsed(age, limit) == IF age = limit THEN limit ELSE age + 1
Aged(record, limit) == IF record = NoStamp THEN NoStamp ELSE [record EXCEPT !.age = Elapsed(@, limit)]

TimePasses ==
    /\ sensor' = Aged(sensor, CollectMax + 1) /\ stamp' = Aged(stamp, AlertMax + 1)
    /\ witnessedAt' = IF witnessedAt = Unstamped THEN Unstamped ELSE Elapsed(witnessedAt, KnowledgeMax + 1)
    /\ failing' = IF failing = Unstamped THEN Unstamped ELSE Elapsed(failing, KnowledgeMax + 1)
    /\ cache' = Elapsed(cache, Uncached)
    /\ delivery' = Elapsed(delivery, AlertMax + CollectMax + CacheMax + 1)
    /\ recall' = Elapsed(recall, KnowledgeMax + 1)
    /\ shown' = Nothing
    /\ UNCHANGED <<delivers, recalls>>

-----------------------------------------------------------------------------
\* alert_delivery_heartbeat.main on the sensor: GREEN needs Telegram's receipt for this run.
SensorRuns ==
    /\ sensor' = [verdict |-> IF delivers THEN "GREEN" ELSE "RED", age |-> 0]
    /\ delivery' = IF delivers THEN 0 ELSE delivery
    /\ shown' = Nothing
    /\ UNCHANGED <<delivers, recalls, stamp, witnessedAt, failing, cache, recall>>

\* witness_collector.sh: a stamp that is not fresh is not copied.
Collects ==
    /\ sensor # NoStamp /\ sensor.age <= CollectMax
    /\ stamp' = [sensor EXCEPT !.age = 0]
    /\ shown' = Nothing
    /\ UNCHANGED <<delivers, recalls, sensor, witnessedAt, failing, cache, delivery, recall>>

\* Mutant of KnowledgeRuns: every failed run starts the streak anew.
KnowledgeRestarts ==
    /\ \/ recalls /\ witnessedAt' = 0 /\ failing' = Unstamped /\ recall' = 0
       \/ failing' = 0 /\ UNCHANGED <<witnessedAt, recall>>
    /\ shown' = Nothing
    /\ UNCHANGED <<delivers, recalls, sensor, stamp, cache, delivery>>

\* knowledge_journey_heartbeat.main: of three attempts one was witnessed, or none (a model
\* that recalls may still miss three times); only the first refreshes the GREEN stamp.
KnowledgeRuns ==
    /\ \/ recalls /\ witnessedAt' = 0 /\ failing' = Unstamped /\ recall' = 0
       \/ /\ failing' = IF failing = Unstamped THEN 0 ELSE failing
          /\ UNCHANGED <<witnessedAt, recall>>
    /\ shown' = Nothing
    /\ UNCHANGED <<delivers, recalls, sensor, stamp, cache, delivery>>

-----------------------------------------------------------------------------
\* alert_delivery_verdict.
AlertVerdict ==
    CASE stamp = NoStamp -> "UNKNOWN"
      [] stamp # NoStamp /\ (stamp.verdict = "RED" \/ stamp.age > AlertMax) -> "RED"
      [] OTHER -> "GREEN"

\* knowledge_use_verdict.
KnowledgeVerdict ==
    CASE witnessedAt <= KnowledgeMax -> "GREEN"
      [] witnessedAt = KnowledgeMax + 1 -> "RED"
      [] witnessedAt = Unstamped /\ failing = KnowledgeMax + 1 -> "RED"
      [] OTHER -> "UNKNOWN"

\* run_suite: a red journey or a diagnostic that raises blocks, an unknown journey only
\* withholds GREEN.
Verdict(diagnostics) ==
    CASE ~diagnostics \/ "RED" \in {AlertVerdict, KnowledgeVerdict} -> "RED"
      [] diagnostics /\ AlertVerdict = "GREEN" /\ KnowledgeVerdict = "GREEN" -> "GREEN"
      [] OTHER -> "AMBER"
ExitCode(diagnostics) == IF Verdict(diagnostics) = "RED" THEN 1 ELSE 0
Live(diagnostics) == [by |-> "live", verdict |-> Verdict(diagnostics), code |-> ExitCode(diagnostics)]

\* --no-cache: the close and CI gate.
RunGate ==
    /\ \E diagnostics \in BOOLEAN : shown' = Live(diagnostics)
    /\ UNCHANGED <<delivers, recalls, sensor, stamp, witnessedAt, failing, cache, delivery, recall>>

\* _run_cached at the start of a session: a cached verdict is printed as green; a live run
\* that exits 0 is cached.
RunCached ==
    /\ \/ /\ cache # Uncached
          /\ shown' = [by |-> "cached", verdict |-> "GREEN", code |-> 0] /\ UNCHANGED cache
       \/ /\ cache = Uncached
          /\ \E diagnostics \in BOOLEAN :
               /\ shown' = Live(diagnostics)
               /\ cache' = IF ExitCode(diagnostics) = 0 THEN 0 ELSE Uncached
    /\ UNCHANGED <<delivers, recalls, sensor, stamp, witnessedAt, failing, delivery, recall>>

BaselineJob == SensorRuns \/ Collects
BaselineNext == WorldChanges \/ TimePasses \/ BaselineJob \/ KnowledgeRuns \/ RunGate \/ RunCached
BaselineFairness == WF_baselineVars(TimePasses) /\ WF_baselineVars(KnowledgeRuns)
BaselineSpec == BaselineInit /\ [][BaselineNext]_baselineVars /\ BaselineFairness

-----------------------------------------------------------------------------
\* A live GREEN is witnessed from outside and recently: an alert was delivered within the
\* 36 hours of the copy plus the two of the original, a recall within 48 hours, though each
\* stage only knows the age of its own file.
LiveGreenIsRecent ==
    shown.by = "live" /\ shown.verdict = "GREEN" =>
        delivery <= AlertMax + CollectMax /\ recall <= KnowledgeMax

\* A break that stays blocks the gate for good: the recall journey even when it never was
\* green, the alert channel once it has a stamp, whether or not the sensor still runs.
BreakBlocks ==
    /\ <>[](~recalls) => <>[](ExitCode(TRUE) = 1)
    /\ <>[](~delivers /\ stamp # NoStamp) => <>[](ExitCode(TRUE) = 1)

\* "Cache a GREEN verdict on worker disk ... ONLY green is cached - a RED/AMBER always
\* re-runs live" (green_baseline.py:1746-1750): what a session is told is green was green
\* within the cache's time.
CachedGreenIsRecent ==
    shown.by = "cached" =>
        delivery <= AlertMax + CollectMax + CacheMax
=============================================================================
