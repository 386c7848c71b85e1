------------------------------ MODULE Watchdog ------------------------------
(***************************************************************************)
(* The half-hourly watchdog of the scheduler (kai-scheduler/watchdog.py,   *)
(* run_watchdog_checks).  A cycle runs the checks in their order, counts   *)
(* consecutive failures, tries a remedy, and collects the failures that    *)
(* are paged at the end of the cycle.  Failure counts and alert times are  *)
(* one file, saved at every change; the failures of the cycle are not.     *)
(* Then two smaller jobs of the same file: the sweep of the containers and *)
(* the triage of the warnings they log.                                    *)
(***************************************************************************)
EXTENDS Naturals, FiniteSets, Sequences

CONSTANTS
    Checks,      \* CHECKS, a sequence of keys
    Fixable,     \* REMEDIATABLE
    Verified,    \* the remedies that check again before they claim success
    Deferred,    \* DEFERRED_CHECKS; the only service of OAUTH_SERVICES is one
    Threshold,   \* CONSECUTIVE_FAIL_THRESHOLD
    Interval,    \* ALERT_INTERVAL_HOURS, in cycles
    MaxDeaths    \* bound on crashes of the scheduler

CheckKeys == {Checks[i] : i \in 1..Len(Checks)}

ASSUME WatchAssumption ==
    /\ Checks \in Seq(CheckKeys) /\ \A i, j \in 1..Len(Checks) : Checks[i] = Checks[j] => i = j
    /\ Verified \subseteq Fixable /\ Fixable \subseteq CheckKeys /\ Deferred \subseteq CheckKeys
    /\ Threshold \in Nat \ {0} /\ Interval \in Nat \ {0} /\ MaxDeaths \in Nat

VARIABLES
    health,   \* health[k]: what a probe of k finds
    fails,    \* fails[k]: consecutive failures, counted up to the threshold
    alerted,  \* alerted[k]: cycles since the alert was marked
    round,    \* place in the cycle: 0 idle, then the next check, then PageTime
    failures, \* keys to page at the end of the cycle
    deaths,
    reds,     \* reds[k]: failed probes of k since it was last found or made healthy
    quiet     \* quiet[k]: cycles since k was paged in the present outage

watchVars == <<health, fails, alerted, round, failures, deaths, reds, quiet>>

Never == Interval + 2                  \* no alert on record
Age == 0..Never
PageTime == Len(Checks) + 1             \* the place after the last check
Cap(n, m) == IF n > m THEN m ELSE n

WatchTypeOK ==
    /\ health \in [CheckKeys -> {"ok", "flap", "down", "muted"}]
    /\ fails \in [CheckKeys -> 0..Threshold] /\ reds \in [CheckKeys -> 0..Threshold]
    /\ alerted \in [CheckKeys -> Age] /\ quiet \in [CheckKeys -> Age]
    /\ round \in 0..PageTime
    /\ failures \subseteq CheckKeys /\ deaths \in 0..MaxDeaths

WatchInit ==
    /\ health = [k \in CheckKeys |-> "ok"]
    /\ fails = [k \in CheckKeys |-> 0] /\ reds = [k \in CheckKeys |-> 0]
    /\ alerted = [k \in CheckKeys |-> Never] /\ quiet = [k \in CheckKeys |-> Never]
    /\ round = 0 /\ failures = {} /\ deaths = 0

-----------------------------------------------------------------------------
\* The world: a service fails, flaps (timeouts, 5xx), recovers; the red hosts of the
\* fleet are all inside a maintenance window.
HealthChanges(k) ==
    /\ \E h \in {"ok", "flap", "down"} \cup IF k = Checks[1] THEN {"muted"} ELSE {} :
          h # health[k] /\ health' = [health EXCEPT ![k] = h]
    /\ UNCHANGED <<fails, alerted, round, failures, deaths, reds, quiet>>

\* The next run of the job, half an hour later; every age grows by a cycle.
CycleStarts ==
    /\ round = 0
    /\ round' = 1
    /\ alerted' = [k \in CheckKeys |-> IF alerted[k] = Never THEN Never ELSE Cap(alerted[k] + 1, Interval + 1)]
    /\ quiet' = [k \in CheckKeys |-> IF quiet[k] = Never THEN Never ELSE Cap(quiet[k] + 1, Interval + 1)]
    /\ UNCHANGED <<health, fails, failures, deaths, reds>>

\* Mutant of MayAlert: an alert on record silences the check for good.
MayAlertOnce(k) == alerted[k] = Never

\* _should_alert compares wall-clock times: an alert marked Interval cycles ago may be on
\* either side of the limit.
MayAlert(k) == alerted[k] >= Interval
MayStaySilent(k) == alerted[k] <= Interval

\* _record_success and _clear_alert, after a good probe, a mute or a remedy that claims
\* success: the outage counts as over.
Recovered(k) ==
    /\ fails' = [fails EXCEPT ![k] = 0] /\ alerted' = [alerted EXCEPT ![k] = Never]
    /\ reds' = [reds EXCEPT ![k] = 0] /\ quiet' = [quiet EXCEPT ![k] = Never]
    /\ UNCHANGED failures

\* _should_alert marks the alert when it says yes; the page waits for the end of the cycle.
Escalates(k) ==
    \/ /\ MayAlert(k)
       /\ alerted' = [alerted EXCEPT ![k] = 0]
       /\ failures' = failures \cup {k}
    \/ MayStaySilent(k) /\ UNCHANGED <<alerted, failures>>

Fails(k) ==
    /\ fails' = [fails EXCEPT ![k] = Cap(@ + 1, Threshold)]
    /\ reds' = [reds EXCEPT ![k] = Cap(@ + 1, Threshold)]
    /\ UNCHANGED quiet

\* A remedy that checks again (_try_fix_disk) claims success when the check is good; the
\* others claim it when they have asked for the repair, or found nothing they could do.
RemedyClaims(k) ==
    /\ health' = IF k \in Verified THEN [health EXCEPT ![k] = "ok"] ELSE health
    /\ Recovered(k)

\* A failure that is counted and goes no further: under the threshold, or transient.
Tolerated(k) == fails[k] + 1 < Threshold \/ health[k] = "flap"

\* One turn of the loop over CHECKS.
RunCheck ==
    /\ round \in 1..Len(Checks)
    /\ round' = round + 1
    /\ UNCHANGED deaths
    /\ LET k == Checks[round] IN
       \/ k \in Deferred /\ UNCHANGED <<health, fails, alerted, failures, reds, quiet>>
       \/ /\ k \notin Deferred /\ health[k] \in {"ok", "muted"}
          /\ Recovered(k) /\ UNCHANGED health
       \/ /\ k \notin Deferred /\ health[k] \in {"flap", "down"}
          /\ \/ Tolerated(k) /\ Fails(k) /\ UNCHANGED <<health, alerted, failures>>
             \/ ~Tolerated(k) /\ k \in Fixable /\ RemedyClaims(k)
             \/ ~Tolerated(k) /\ Fails(k) /\ Escalates(k) /\ UNCHANGED health

\* The end of the cycle: the collected failures are paged one by one.
Page(k) ==
    /\ round = PageTime /\ k \in failures
    /\ failures' = failures \ {k}
    /\ quiet' = [quiet EXCEPT ![k] = 0]
    /\ UNCHANGED <<health, fails, alerted, round, deaths, reds>>

CycleEnds ==
    /\ round = PageTime /\ failures = {}
    /\ round' = 0
    /\ UNCHANGED <<health, fails, alerted, failures, deaths, reds, quiet>>

\* The scheduler dies.  The file keeps what was saved, or is empty when it died in the
\* middle of the write: _load_alert_state then starts from nothing.
WatchDies ==
    /\ deaths < MaxDeaths /\ deaths' = deaths + 1
    /\ round # 0 /\ round' = 0 /\ failures' = {}
    /\ \E torn \in BOOLEAN :
         IF torn
         THEN /\ fails' = [k \in CheckKeys |-> 0] /\ alerted' = [k \in CheckKeys |-> Never]
              /\ reds' = [k \in CheckKeys |-> 0] /\ quiet' = [k \in CheckKeys |-> Never]
         ELSE UNCHANGED <<fails, alerted, reds, quiet>>
    /\ UNCHANGED health

WatchJob == CycleStarts \/ RunCheck \/ CycleEnds \/ \E k \in CheckKeys : Page(k)
WatchNext == WatchJob \/ WatchDies \/ \E k \in CheckKeys : HealthChanges(k)
WatchSpec == WatchInit /\ [][WatchNext]_watchVars /\ WF_watchVars(WatchJob)

-----------------------------------------------------------------------------
\* A page is earned and not repeated: it is prepared after Threshold failed probes with
\* no good one and no claimed repair between them, and no page of the same outage was
\* sent in the last Interval cycles (_record_failure, _should_alert, _clear_alert; the
\* counter and the mark survive a restart in a file that a crash may tear).
PageEarned == \A k \in failures : reds[k] = Threshold /\ quiet[k] >= Interval

\* An outage is never silent: a check that stays down is paged again and again, whatever
\* crash lost a page that was already marked as sent (run_watchdog_checks marks the alert
\* when it decides and pages at the end of the cycle).
OutagePaged ==
    \A k \in CheckKeys \ (Deferred \cup (Fixable \ Verified)) :
        <>[](health[k] = "down") => []<>(quiet[k] = 0)

\* What "remediation succeeded = recovery" (watchdog.py:1397) says: a remedy that is
\* counted as a success left a healthy check.
RemedyMeansRecovery ==
    [][\A k \in Fixable : fails[k] > 0 /\ fails'[k] = 0 /\ round' # 0 => health'[k] # "down"]_watchVars

-----------------------------------------------------------------------------
(***************************************************************************)
(* The five-minute sweep over all containers (kai-scheduler/watchdog.py,   *)
(* run_fleet_container_check): a container that was bad at every sweep for *)
(* the grace period is alarmed once, and a sweep that does not list it     *)
(* forgets it.  The state of the sweep is a file.                          *)
(***************************************************************************)

CONSTANTS
    Containers,
    Grace,       \* FLEET_CONTAINER_GRACE_SEC, in sweeps
    MaxMishaps   \* bound on sweeps and writes that fail

ASSUME AlarmAssumption == Grace \in Nat \ {0} /\ MaxMishaps \in Nat

VARIABLES
    ill,       \* containers restarting or exited non-zero
    entries,   \* the file: entries[c] = sweeps since c was first seen bad, and whether alarmed
    mishaps

alarmVars == <<ill, entries, mishaps>>

Unlisted == [since |-> Grace + 1, alerted |-> FALSE]
Entries == [since : 0..Grace + 1, alerted : BOOLEAN]

AlarmTypeOK ==
    /\ ill \subseteq Containers /\ entries \in [Containers -> Entries]
    /\ mishaps \in 0..MaxMishaps

AlarmInit ==
    /\ ill = {} /\ entries = [c \in Containers |-> Unlisted] /\ mishaps = 0

ContainerChanges(c) ==
    /\ ill' = IF c \in ill THEN ill \ {c} ELSE ill \cup {c}
    /\ UNCHANGED <<entries, mishaps>>

-----------------------------------------------------------------------------
\* _fleet_bad_containers: the docker call may fail, and then nothing is bad.
Listings == {[bad |-> ill, mishap |-> 0], [bad |-> {}, mishap |-> 1]}

Listed(c) == entries[c] # Unlisted

\* Mutant of Older: every sweep writes a new first_seen.
OlderAnew(c) == 0

Older(c) == IF entries[c].since >= Grace THEN Grace ELSE entries[c].since + 1

\* One sweep.  The limit is a comparison of wall-clock seconds: the sweep at which the grace
\* period ends may fall just short of it.  The mark is set whether or not notify worked, and
\* the new state is written last.
Sweep ==
    \E list \in Listings, slow \in SUBSET Containers, unsaved \in {0, 1} :
        LET age(c) == IF Listed(c) THEN Older(c) ELSE 0
            late(c) == Listed(c) /\ entries[c].since = Grace - 1 /\ c \in slow
            pages == {c \in list.bad : ~entries[c].alerted /\ age(c) >= Grace /\ ~late(c)}
            next(c) == IF c \in list.bad
                       THEN [since |-> age(c), alerted |-> entries[c].alerted \/ c \in pages]
                       ELSE Unlisted
        IN /\ slow \subseteq {c \in list.bad : late(c)}
           /\ mishaps' = mishaps + list.mishap + unsaved /\ mishaps' <= MaxMishaps
           /\ entries' = IF unsaved = 1 THEN entries ELSE [c \in Containers |-> next(c)]
           /\ UNCHANGED ill

AlarmNext == Sweep \/ \E c \in Containers : ContainerChanges(c)
AlarmSpec == AlarmInit /\ [][AlarmNext]_alarmVars /\ WF_alarmVars(Sweep)

-----------------------------------------------------------------------------
\* A container that stays bad is marked as alarmed for good, through sweeps and writes that
\* fail, and one that stays well is forgotten so that its next outage is alarmed again.
AlarmSettles ==
    \A c \in Containers :
        /\ <>[](c \in ill) => <>[](entries[c].alerted)
        /\ <>[](c \notin ill) => <>[](entries[c] = Unlisted)

-----------------------------------------------------------------------------
(***************************************************************************)
(* Warnings in the containers' logs (kai-scheduler/watchdog.py,            *)
(* check_container_warnings): at every watchdog run the log of the last    *)
(* minutes is read, lines whose fingerprint is not in the dedupe file are  *)
(* classified by a local model and the serious ones filed as bugs in Plane *)
(* (kai-scheduler/triage.py).  The file is written when all are done.      *)
(***************************************************************************)

CONSTANTS
    Prints,       \* fingerprints of warnings
    Serious,      \* those that are real bugs or missing configuration
    Cadence,      \* ticks between two runs of the watchdog (30 minutes)
    Window,       \* _WARNING_SCAN_MINUTES, in ticks
    MaxClassify,  \* _WARNING_MAX_CLASSIFY_PER_RUN
    MaxLines,     \* bound on lines in the log that can still be read
    MaxTroubles   \* bound on calls that fail, deaths, and dedupe entries that expire

ASSUME TriageAssumption ==
    /\ Serious \subseteq Prints
    /\ Cadence \in Nat \ {0} /\ Window \in Nat \ {0}
    /\ MaxClassify \in Nat \ {0} /\ MaxLines \in Nat /\ MaxTroubles \in Nat

VARIABLES
    lines,     \* the readable log, oldest first
    phase,     \* ticks since the last run
    dedupe,    \* the dedupe file: fingerprints seen in the last day
    triage,       \* the run: the lines still to classify and the dedupe map in memory
    troubles,
    filings    \* filings[p]: bugs filed for p since it was last forgotten

triageVars == <<lines, phase, dedupe, triage, troubles, filings>>

Line == [print : Prints, age : 0..Window, read : BOOLEAN]
NoJob == [at |-> "idle"]
MaxFilings == 3

TriageTypeOK ==
    /\ lines \in Seq(Line) /\ Len(lines) <= MaxLines /\ phase \in 0..Cadence
    /\ dedupe \subseteq Prints
    /\ triage = NoJob \/ (triage.at = "work" /\ triage.todo \in Seq(Prints) /\ triage.map \subseteq Prints)
    /\ troubles \in 0..MaxTroubles /\ filings \in [Prints -> 0..MaxFilings]

TriageInit ==
    /\ lines = <<>> /\ phase = 0 /\ dedupe = {} /\ triage = NoJob /\ troubles = 0
    /\ filings = [p \in Prints |-> 0]

Trouble == troubles < MaxTroubles /\ troubles' = troubles + 1

-----------------------------------------------------------------------------
\* A container logs a warning.
Warn(p) ==
    /\ Len(lines) < MaxLines
    /\ lines' = Append(lines, [print |-> p, age |-> 0, read |-> FALSE])
    /\ UNCHANGED <<phase, dedupe, triage, troubles, filings>>

\* Five minutes pass; _docker_logs_since reads no line older than the window.
Readable(l) == l.age < Window
Tick ==
    /\ phase < Cadence /\ triage = NoJob
    /\ phase' = phase + 1
    /\ LET kept == SelectSeq(lines, Readable)
       IN lines' = [i \in 1..Len(kept) |-> [kept[i] EXCEPT !.age = @ + 1]]
    /\ UNCHANGED <<dedupe, triage, troubles, filings>>

\* The run: lines that the file does not know, at most MaxClassify of them.
Unknown(l) == l.print \notin dedupe
Prefix(s, n) == SubSeq(s, 1, IF Len(s) < n THEN Len(s) ELSE n)
Scan ==
    /\ phase = Cadence /\ triage = NoJob
    /\ phase' = 0
    /\ lines' = [i \in 1..Len(lines) |-> [lines[i] EXCEPT !.read = TRUE]]
    /\ LET fresh == SelectSeq(lines, Unknown)
           todo == Prefix([i \in 1..Len(fresh) |-> fresh[i].print], MaxClassify)
       IN triage' = IF fresh = <<>> THEN NoJob ELSE [at |-> "work", todo |-> todo, map |-> dedupe]
    /\ UNCHANGED <<dedupe, troubles, filings>>

\* create_plane_bug: a failed post is logged and returns nothing.
File(p) == [filings EXCEPT ![p] = IF @ = MaxFilings THEN @ ELSE @ + 1]

\* One line: classified, entered in the map whatever the class, filed when serious.  The
\* classifier that fails calls it noise.
Classify ==
    /\ triage.at = "work" /\ triage.todo # <<>>
    /\ LET p == Head(triage.todo) IN
       /\ triage' = [triage EXCEPT !.todo = Tail(@), !.map = @ \cup {p}]
       /\ \/ filings' = (IF p \in Serious THEN File(p) ELSE filings) /\ UNCHANGED troubles
          \/ p \in Serious /\ Trouble /\ UNCHANGED filings
    /\ UNCHANGED <<lines, phase, dedupe>>

SaveDedupe ==
    /\ triage.at = "work" /\ triage.todo = <<>>
    /\ dedupe' = triage.map /\ triage' = NoJob
    /\ UNCHANGED <<lines, phase, troubles, filings>>

\* The scheduler dies in a run: what it filed is not in the file.
TriageDies ==
    /\ triage.at = "work" /\ Trouble
    /\ triage' = NoJob
    /\ filings' = [p \in Prints |-> IF p \in dedupe THEN filings[p] ELSE 0]
    /\ UNCHANGED <<lines, phase, dedupe>>

\* _WARNING_DEDUPE_HOURS pass for an entry.
Forget(p) ==
    /\ p \in dedupe /\ triage = NoJob /\ Trouble
    /\ dedupe' = dedupe \ {p} /\ filings' = [filings EXCEPT ![p] = 0]
    /\ UNCHANGED <<lines, phase, triage>>

TriageNext ==
    \/ Tick \/ Scan \/ Classify \/ SaveDedupe \/ TriageDies
    \/ \E p \in Prints : Warn(p) \/ Forget(p)

-----------------------------------------------------------------------------
\* A warning that the file knows is not filed again before it is forgotten: the run's list
\* was made against the file it will replace (check_container_warnings).
KnownNotRefiled == [][\A p \in dedupe : filings'[p] <= filings[p]]_triageVars

\* "Scrape WARNING+ from container logs, dedupe, classify via qwen-mid, file Plane bugs"
\* (watchdog.py:1162): one warning is one bug.
FiledOnce == \A p \in Prints : filings[p] <= 1

\* "slightly larger than the 15-min watchdog cadence to overlap" (watchdog.py:1048): no line
\* becomes unreadable before a run has read it.  The job runs every 30 minutes.
EveryLineIsRead ==
    [][phase' = phase + 1 => \A i \in 1..Len(lines) : Readable(lines[i]) \/ lines[i].read]_triageVars
=============================================================================
