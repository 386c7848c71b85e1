------------------------------ MODULE HostWatch ------------------------------
(***************************************************************************)
(* The watchers that stand outside the worker, each a script of cron that  *)
(* keeps what it knows in a file: the shim's autoheal (scripts/            *)
(* buzz_shim_watchdog.py), the watcher on the mini that pages when the     *)
(* worker is dead (mini_alert_watcher.sh) and the error streams of Buzz    *)
(* (buzz_error_watchdog.py).  The run of a script is one step: the first   *)
(* takes a lock, the others are shorter than their period.                 *)
(***************************************************************************)
EXTENDS Naturals, FiniteSets

CONSTANTS Signatures,    \* errors the streams of Buzz can show
          MAX_SIGNATURES_PER_RUN,
          TokenPlaced,   \* the mini has the token and the chat of its own Telegram sender
          MaxFaults      \* bound: how often something breaks

VARIABLES shimUp, consecutive_failures, cooling,          \* the shim, and the autoheal's file
          workerUp, CONSECUTIVE_FAIL, PAGED, told,        \* the worker, the mini's file, Leo
          stale,                                          \* PAGED is of an outage a run saw the end of
          standing, prior_keys, paged,                    \* errors logged now, those of the last run, those paged
          faults

shimVars == <<shimUp, consecutive_failures, cooling>>
miniVars == <<workerUp, CONSECUTIVE_FAIL, PAGED, told, stale>>
errorVars == <<standing, prior_keys, paged>>
hwVars == <<shimVars, miniVars, errorVars, faults>>

FAIL_THRESHOLD == 2

HWInit ==
    /\ shimUp = TRUE /\ consecutive_failures = 0 /\ cooling = FALSE
    /\ workerUp = TRUE /\ CONSECUTIVE_FAIL = 0 /\ PAGED = FALSE /\ told = FALSE /\ stale = FALSE
    /\ standing = [sig \in Signatures |-> 0] /\ prior_keys = {} /\ paged = {}
    /\ faults = 0

Counted(n) == IF n < FAIL_THRESHOLD THEN n + 1 ELSE n        \* only the threshold is looked at

ShimWedges == shimUp /\ faults < MaxFaults /\ faults' = faults + 1 /\ shimUp' = FALSE /\ UNCHANGED <<consecutive_failures, cooling, miniVars, errorVars>>
CooldownEnds == cooling /\ cooling' = FALSE /\ UNCHANGED <<shimUp, consecutive_failures, miniVars, errorVars, faults>>

\* One run: a live shim may miss the probe, a wedged one never answers it.  At the second
\* miss in a row it is restarted, unless it was a short while ago; a restart that fails is
\* tried again by the next run.  The file may not get written: then the run never was.
Saves(fails, cool) ==
    \/ consecutive_failures' = fails /\ cooling' = cool
    \/ UNCHANGED <<consecutive_failures, cooling>>
ProbeAnswers == shimUp /\ UNCHANGED shimUp /\ Saves(0, cooling)
ProbeMisses ==
    LET fails == Counted(consecutive_failures) IN
    IF fails < FAIL_THRESHOLD \/ cooling
    THEN UNCHANGED shimUp /\ Saves(fails, cooling)
    ELSE \/ shimUp' = TRUE /\ Saves(0, TRUE)                   \* restart_shim
         \/ UNCHANGED shimUp /\ Saves(fails, FALSE)
ShimRun == (ProbeAnswers \/ ProbeMisses) /\ UNCHANGED <<miniVars, errorVars, faults>>

\* The worker, or its nightly push of backups, is gone.
WorkerDies == workerUp /\ faults < MaxFaults /\ faults' = faults + 1 /\ workerUp' = FALSE /\ UNCHANGED <<CONSECUTIVE_FAIL, PAGED, told, stale, shimVars, errorVars>>
WorkerReturns == ~workerUp /\ workerUp' = TRUE /\ UNCHANGED <<CONSECUTIVE_FAIL, PAGED, told, stale, shimVars, errorVars, faults>>

\* The mini's file is emptied and then written: it may be left as it was, or empty.
MiniSaves(fails, mark) ==
    \/ CONSECUTIVE_FAIL' = fails /\ PAGED' = mark
    \/ UNCHANGED <<CONSECUTIVE_FAIL, PAGED>>
    \/ CONSECUTIVE_FAIL' = 0 /\ PAGED' = FALSE

\* An outage is over for the mini when a run finds the worker well; where that is not written,
\* the file goes on saying that the outage was paged.
MiniSeesGood == workerUp /\ MiniSaves(0, FALSE) /\ told' = FALSE /\ stale' = PAGED'

\* At the second miss in a row a page is sent, or staged where there is no token; one that
\* fails is tried again.
MiniSeesBad ==
    /\ LET fails == Counted(CONSECUTIVE_FAIL) IN
       IF fails >= FAIL_THRESHOLD /\ ~PAGED
       THEN \/ MiniSaves(fails, TRUE) /\ told' = (told \/ TokenPlaced)
            \/ TokenPlaced /\ MiniSaves(fails, FALSE) /\ UNCHANGED told
       ELSE MiniSaves(fails, PAGED) /\ UNCHANGED told
    /\ stale' = (stale /\ PAGED')

\* Mutant of MiniRun: a page that fails counts as sent.
MiniRunForgetsFailure ==
    LET fails == Counted(CONSECUTIVE_FAIL) IN
    /\ \/ MiniSeesGood
       \/ MiniSeesBad
       \/ /\ fails >= FAIL_THRESHOLD /\ ~PAGED
          /\ MiniSaves(fails, TRUE) /\ stale' = (stale /\ PAGED') /\ UNCHANGED told
    /\ UNCHANGED <<workerUp, shimVars, errorVars, faults>>
\* A worker that is up may be unreachable for one run.
MiniRun == (MiniSeesGood \/ MiniSeesBad) /\ UNCHANGED <<workerUp, shimVars, errorVars, faults>>

\* An error is logged once in a while, or many times in a window of the logs.
ErrorStarts(sig) == standing[sig] = 0 /\ faults < MaxFaults /\ faults' = faults + 1 /\ (\E n \in 1..2 : standing' = [standing EXCEPT ![sig] = n]) /\ paged' = paged \ {sig} /\ UNCHANGED <<prior_keys, shimVars, miniVars>>
ErrorStops(sig) == standing[sig] > 0 /\ standing' = [standing EXCEPT ![sig] = 0] /\ UNCHANGED <<prior_keys, paged, shimVars, miniVars, faults>>

\* What was logged twice in the window, or was there at the last run, is worth a page; the
\* most frequent first, up to a cap.
Seen == {sig \in Signatures : standing[sig] > 0}
Qualifying == {sig \in Seen : standing[sig] >= 2 \/ sig \in prior_keys}
FirstOf(ss) == {sub \in SUBSET ss :
    /\ Cardinality(sub) = IF Cardinality(ss) < MAX_SIGNATURES_PER_RUN THEN Cardinality(ss) ELSE MAX_SIGNATURES_PER_RUN
    /\ \A x \in sub, y \in ss \ sub : standing[x] >= standing[y]}
\* A page may fail, and the file may not get written.
ErrorRun ==
    /\ \E chosen \in FirstOf(Qualifying), lost \in SUBSET Signatures : paged' = paged \cup (chosen \ lost)
    /\ prior_keys' \in {Seen, prior_keys}
    /\ UNCHANGED <<standing, shimVars, miniVars, faults>>

ShimNext == ShimWedges \/ CooldownEnds \/ ShimRun
MiniNext == WorkerDies \/ WorkerReturns \/ MiniRun
ErrorNext == (\E sig \in Signatures : ErrorStarts(sig) \/ ErrorStops(sig)) \/ ErrorRun
HWNext == ShimNext \/ MiniNext \/ ErrorNext

\* cron runs each script for ever; what is tried for ever (a restart, a page, the write of a
\* file) succeeds in the end; a cooldown ends.  The steps fairness is stated of:
ShimCounts == ShimRun /\ consecutive_failures' > consecutive_failures
ShimHeals == ShimRun /\ ~shimUp /\ shimUp'
MiniCounts == MiniRun /\ CONSECUTIVE_FAIL' > CONSECUTIVE_FAIL
MiniTells == MiniRun /\ ~told /\ told'
ErrorSaves == ErrorRun /\ prior_keys' = Seen
ErrorTells(sig) == ErrorRun /\ sig \notin paged /\ sig \in paged'

-----------------------------------------------------------------------------
\* A wedged shim answers again (the outage KAI-1182 was a shim that hung and was never
\* restarted), a dead worker is told to Leo or comes back (S1-B4), and an error that does
\* not stop is paged while there are no more of them than a run pages: no counter, cooldown,
\* mark, failed page or file that is not written keeps one of the three from it, but for a
\* mark that the run which saw the outage before end could not take back.
TroubleIsMet ==
    /\ ~shimUp ~> shimUp
    /\ ~workerUp ~> (workerUp \/ told \/ stale)
    /\ \A sig \in Signatures : (standing[sig] > 0) ~> (standing[sig] = 0 \/ sig \in paged)

\* A standing outage pages once, then a recovery resets (mini_alert_watcher.sh:21-22).  Not so
\* where the recovery was not written: the next outage is then not told.
EveryOutageIsTold == ~workerUp ~> (workerUp \/ told)
=============================================================================
