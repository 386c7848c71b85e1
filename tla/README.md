# Kai system: TLA+ models of approvals, workflows and watches

Kai is one person's automation platform: a council of LLM advisors, an
orchestrator that runs multi-step jobs, a worker API, a scheduler with its
watchdogs, and several chat surfaces, each in a container of its own. What can
do damage (publish a page, place a secret on a host, deploy a plugin, change
Kai's own code) waits for a review by the council and for Leo, the owner. What
runs by itself (sweeps, probes, tickets, pages) must neither act without him nor
go silent on him.

This directory models both halves from the source: how a decision comes to be,
travels and takes effect; and how the watches see, file and tell. TLC checks the
models on small instances, TLAPS proves the main safety properties for all.

Contents: the system (1), the modules (2), what is checked (3), bounds and
fairness (4), what is proved (5), where the code departs from what it says (6),
what is not modelled and the plan (7). `PROJECT.json` holds the same as data:
components, runs, mutants, the map from definitions to source lines, hazards,
theorems.

## 1. The system

### Components, state and operations

| Component | State | Operations that change it |
|---|---|---|
| Engine and store (`kai-orchestrator/engine.py`, `db.py`) | SQLite rows: jobs, steps, gates, events, overrides, hostops_audit | create_job, create_step, transition, open_gate, resolve_gate, consume_hostops_gate, list_pending_gates, record_override |
| Workflow execution (`workflow_base.py`, `capabilities/council.py`) | step rows read when a thread starts; the retry counter in hand | start, resume, _run_step, council.gate |
| Host operations (`workflows/hostops_*.py`, `capabilities/hostops.py`, `hostops_audit.py`) | the remote host; audit rows | find a resolved gate, consume it, mutate, record; reconcile() |
| Deliverers and restart (`main.py`) | threads | run_workflow, POST /gates/{id}/resolve, the poller, override_step, the startup resume |
| Page and source workflows (`workflows/wordpress_*.py`, `devops_self_modify.py`) | a WordPress site; the working tree, index and head of Kai's repository | read, draft, update, publish, set the homepage; verify, apply, commit, note on a ticket |
| Council gate (`kai-council-api/routes_council_gate.py`) | one state.json per gate, background tasks | receive_gate, _process_gate, resolve_gate, list_pending_gates (which reaps), the escalation loop |
| Council conversation (`router.py`, `council_config.py`, `usage_tracker.py`) | the usage file | POST /council/message: limit, providers, tools, recording |
| Bug workflow (`routes_bug_workflow.py`, `graphs/`) | the processed file; one graph per thread | poll, webhook, diagnose, review, validate |
| Memory Service and registry (`context_service.py`, `registry.py`) | turns and summary of a conversation; verified facts | append, compact, assemble; ingest |
| Worker: approvals (`routes/mode_lock.py`, `turn_gate.py`, `t2.py`) | requests and session unlocks under flock; ledger, claims, yields; cards | request, status, decide, expire; register, claim; respond |
| Worker: captures (`parking_lot.py`, `inbox.py`, `clarification_store.py`, `dispatch.py`) | cards and inbox files of the vault; pending questions in one file | capture, edit, triage, archive, delete; scan, reprocess; ask, answer, expire |
| Worker: WordPress (`routes/wordpress.py`, `capabilities/wp_*.py`) | none of their own; the security baseline; a site's application password | checks and edits; the daily scan; the rotation |
| Provisioning (`security/provision_*.py`) | an audit file | one authorized move of a secret |
| Notification gateway, Buzz desk (`shared/notify_gateway.py`, `kai-buzz/buzz_approve.py`) | duplicate marks, three queues; prompts it has posted | notify, drain; poll, prompt, bind a reply, post the decision |
| Custodians (`shared/devops_ownership.py`, `sprint_gate.py`, `scripts/devops_*`) | run stamps; tickets on Plane | assess, remedy, ask, execute, file |
| Scheduler and watchdogs (`scheduler.py`, `watchdog.py`, `invariants.py`) | failure counts, alert times, results, ticket references, seen boots, the Telegram offset | check, remedy, page; sweep; triage; file; serve updates |
| Host scripts (`scripts/green_baseline.py`, watchers, heartbeats) | stamps, counters, cooldowns in small files | probe, stamp, collect, heal, page |
| The rest | dashboards, bridges, speech, PHP plugin, backups | no protocol the gates or the watches depend on |

### How they interact

```
        chat ----> council turn ----> Memory Service        sweeps, watchdogs, invariants
                     |                                         |  find, heal, file, page
                     v                                         v
run_workflow --> Workflow thread --(council.gate)--> council <-- sprint gate
                     |                                 | review, policy
                     | awaiting_gate                   v
   override_step -> steps, gates <- callback, 30 s poll, T2 card - Leo (Buzz, Telegram, card)
                     |                                                  |
                     v                                                  v
                resume thread -> consume -> host, site, repo -> audit   mode lock -> provisioning
```

Threads of the orchestrator share only the SQLite file. Python's sqlite3 opens a
transaction at the first write, so a SELECT followed by an UPDATE in one method
is two steps for everybody else; `consume_hostops_gate`, whose UPDATE repeats
its condition, is one. Services call each other over HTTP with short timeouts: a
call may be answered, fail, or take effect with its answer lost. Everything else
is kept in files that one process reads, changes and renames into place, mostly
without a lock between the reading and the renaming, while cron, request threads
and an event loop run on.

### What is hard here

* Nothing stops two threads from resuming one job: a callback, the poller, an
  override and the startup resume each start one, from rows it reads at its start.
* A process may die between any two transactions, files or calls.
* A callback is sent once; a poll may find nothing; an answer may be lost after
  the call took effect, so that a retry meets what it did itself.
* A decision may come before the step that asked is written as waiting, after the
  asker gave up, or twice from two surfaces.
* A mutation, its authority, its audit record and the status of its step live in
  four places; a reboot, its announcement, its verification and the note that it
  was seen in four as well.
* The lock of the mode-lock store lies on a file that every save replaces.
* A review ends with whatever model answered last: the local fallback must not
  approve, and what was said to a private advisor must not reach the cloud because of it.
* Sweeps, scans and rewrites overlap: cron and the scheduler start the next while
  the last still runs or waits for Leo.
* A check that sees nothing must not say that all is well.

### What makes it correct

Approval: no mutation without an approved gate; one approval, one mutation; no
approval that neither Leo nor a reviewer entitled to it gave; no move of a secret
without a tap for it in time. Order: a step runs after every earlier one
succeeded; a job succeeds only if its rows did. Accounting: each mutation and
move on record or in the log, no false alarm, one ticket within reach per broken
invariant, no card Leo was told is saved lost but to another of its name. Budget: attempts within the declared retries, a
held session let go once per card. Privacy: what is said to a private advisor stays local.
Progress: a decision ends the pause; a job settles; an outage, a compromise, a
break or a container that stays bad is told, and goes on being told.

## 2. The modules

| Module | Models | Checked by |
|---|---|---|
| `EngineStore` | the rows and every SQL transaction of `Engine` used below, check and write apart where the code has them apart | `MCOrchestrator` |
| `ResumeThread` | `Workflow.start`, `resume`, `_run_step`, `council.gate`; extends EngineStore | |
| `HostopsExec` | exec steps of hostops.deploy, `record_mutation`, `reconcile`; extends ResumeThread | |
| `GateResolution` | callback, poller, `override_step`, `resolve_gate`; extends HostopsExec | |
| `Orchestrator` | the composition with restarts and fairness; extends GateResolution | |
| `ApprovalToken` | abstract promise: a token is requested, granted, denied or withdrawn, spent once, used once; refined by Orchestrator (`TokenSpec`) | |
| `CouncilGate` | one gate between the council, Leo, the T2 card, the reaper and the orchestrator | itself |
| `GateReviews` | the review that CouncilGate takes for one step: the chain of models, the policy, the escalation | `MCWorkflows` |
| `ModeLock`, `Provisioning` | the store of write requests with the two inodes of its lock; the move of a secret that asks it (extends ModeLock) | `MCConsent` |
| `Custodian` | overlapping sweeps, the three dispositions, the sprint gate and its deadline | `MCConsent` |
| `BuzzApprove` | the prompts Leo sees and the binding of his replies | `MCDesk` |
| `NotifyQueue` | duplicate marks, a queue file and its drain by rename | `MCDesk` |
| `TurnGate` | blocker cards, one-shot claims, the bound on yields | `MCDesk` |
| `CouncilTurn`, `ContextMemory` | a message to an advisor; the turns, window and summary it leaves (CouncilTurn extends ContextMemory) | `MCDesk` |
| `FactRegistry` | verified facts and concurrent ingests | `MCDesk` |
| `ContextPackage` | what the model is given with one message: a pure function of what the stores hold | `MCChecks` |
| `Watchdog` | the cycle of checks with remedies and pages, the container sweep, the triage of warnings | `MCOps` |
| `TelegramLoop` | the long poll of Telegram and its offset | `MCOps` |
| `InvariantRunner` | the half-hourly run, its results and its tickets | `MCOps` |
| `GreenBaseline` | receipts, stamps and journeys behind the gate of a session | `MCOps` |
| `FleetWatch` | heartbeats, reboots, announcement, verification, maintenance windows | `MCOps` |
| `InboxScan`, `Clarification`, `ParkingLot` | the inbox, questions about an intent, capture cards | `MCCapture` |
| `InvariantChecks`, `BaselineChecks`, `SiteChecks` | every check of the two engines, the custodians and the WordPress routes as a decision on what its probes answer; the block validator | `MCChecks` |
| `HostWatch` | the watchers outside the worker: shim autoheal, mini watcher, error watchdog | `MCChecks` |
| `PageWorkflows` | jobs that publish, build and edit pages of one site, under the names their callers give it | `MCWorkflows` |
| `SiteSecurity` | the daily scan of the sites and the rotation of a password | `MCWorkflows` |
| `BugWorkflow` | poller, webhook and investigations of bugs | `MCWorkflows` |
| `SelfModify` | changes to Kai's own source | `MCWorkflows` |
| `JobProofs` | theorems about Orchestrator | tlapm |
| `CouncilProofs` | theorems about CouncilGate, NotifyQueue, BuzzApprove, Watchdog | tlapm |
| `ServiceProofs` | theorems about FactRegistry, TurnGate, CouncilTurn, ContextMemory, Custodian, GateReviews, Provisioning, GreenBaseline | tlapm |
| `WatchProofs` | theorems about InboxScan, FleetWatch, SiteSecurity, InvariantRunner, ParkingLot, PageWorkflows, SelfModify, BugWorkflow, TelegramLoop | tlapm |
| `CheckProofs` | theorems about ContextPackage, SiteChecks, Clarification | tlapm |

An MC module puts components together that share no state. Its variable `part`
chooses one of them at the start, so that the sizes add up and do not multiply;
fairness is stated for each part alone, which the action of the other parts
cannot satisfy.

### Correspondence with the code

`Orchestrator` follows one job. `step[s]` is the s-th row by rowid with its
status and retry_count, `gate[g]` a gate row, `events` the facts of the events
table (what was once written, which histories are stated about). A workflow
class is given by `Kind` and `MaxRetries`: a step is *auto* (a capability that
succeeds, reports failure or raises), *gate* (council.gate) or *exec* (a gated
host mutation whose gate step comes before it). A thread's `snap` is the list of
rows `resume` read, `retry` the counter of the dict in hand, `to` the status of
the transition under way, `g` the gate id in hand. The names of its program
counter say where it is: `snapshot` (before the first SELECT of resume),
`stepRead`/`stepWrite` (the two halves of `_transition_step`), `execute`, `post`
(gate row inserted, council not yet called), `failed` (result not ok), `reread`
and `final` (the two later SELECTs of resume), `jobRead`/`jobWrite`, and
`consume`, `mutate`, `audit` for an exec step. `council[g]` is what the council
knows of a gate; `mutations[g]` counts host calls made on the authority of g;
`audit` and `errorLog` are the audit rows and the logged failures to write one.
A restart loses every thread and handler, keeps every row, and starts one thread
if the job is running or queued.

In `CouncilGate` a gate is followed in the council's store (`status`,
`resolution`), in the orchestrator's row (`engine`), on the T2 card (`card`) and
in the memory of those who work on it. `kind` stands for the branches of
`_process_gate`, `verdict` is the outcome of the review, `leo` the answers Leo has
given anywhere. `GateReviews` takes the review apart: the advisor asked next, the
last thing said and by which model, the policy's answer; and what comes after: the
alert of the escalation and its mark (`_escalate_stale_gates`).

`ModeLock` keeps the store (`store`) and, for each route that has opened it, the
snapshot that route will write back: the lock is on the inode, the rename gives
the path a new one, so a route is an open and a commit, with other commits in
between. `Provisioning` adds the attempts (`pc`, the request in hand, the ledger).

`Custodian` has one program counter per sweep, over the roster of problems;
tickets, gates and stamps are shared. In `NotifyQueue` a writer that has opened
the queue holds the file itself, which the drain renames and removes under it. In
`TurnGate` the ledger, the claims and the counter are on disk and survive a death.
`CouncilTurn` follows each message through limit, provider, fallback, tools and
recording; what a message holds back (`holds`) and what its conversation has taken in
(`confided`) are the reasons why it is private. `ContextMemory` knows a turn by its place in
the conversation; a call that records one is three steps, for between its two transactions
(`committed`, `due`) other calls and compactions go on.

In `ParkingLot` a capture has a number and a file name, `slug`, from a second or from a day
and title, and `lot` and `archive` hold one card per name. In `InvariantRunner` a ticket is on
the page that the runner reads, beyond it, or closed.

The checks (`InvariantChecks`, `BaselineChecks`, `SiteChecks`) are operators with
the names of the functions they translate. A probe's answer is one of a small set
(nothing, refused, garbled, empty, stale, bad, good ...); which answers a probe
can give is part of the model (`Evidence`, `Answers`, `Probes`, `SiteAnswers`).

`Watchdog`, `InvariantRunner`, `GreenBaseline`, `FleetWatch`, `HostWatch` keep what
the code keeps on disk apart from what it keeps in memory; a death loses the
second. Times are small counters with the code's comparisons, or the two facts a
comparison can tell apart.

`PageWorkflows`, `SiteSecurity`, `BugWorkflow` and `SelfModify` have a program
counter for each job, rotation or thread between two calls. A request that changes
something may fail, take effect, or take effect with its answer lost.

## 3. What is checked

Runs that must hold:

| Run | Instance | Properties |
|---|---|---|
| `tokens` | gate + exec step, 2 threads, 1 override or 1 restart, poller only | `NoFalseAlarm`, `RecordedOrLogged`, `MutationApproved`, `JobSuccessIsEarned`, refinement `TokenSpec` |
| `autos` | 2 auto steps with one retry each, 2 restarts | `AttemptBudget`, `StepsInOrder`, liveness `JobSettles` |
| `gatejob` | gate with a retry + auto step, 2 gate ids, late decisions | liveness `DecisionEndsJob` |
| `council` | every kind of gate, one surface, 2 restarts | `ApprovedByRight`, `ReapedJobEnded`, `OneDecision`, liveness `DecisionReachesEngine` |
| `consent` | custodians, provisioning | `ActsOnlyWhereApproved`, `MoveHasTap`, `LedgerTellsTruth`, liveness `TroubleIsOwned` |
| `desk` | prompts, queue, turn gate, conversation, registry | `QueuedIsSomewhere`, `CardHonoredOnce`, `LagIsBounded`, `PrivateIsLocal`, action `LookShowsAll`, `FactsAreKept` |
| `ops` | the scheduler's watches | `NoTicketInReachTwice`, `SeenIsHandled`, liveness `OutagePaged`, `AlarmSettles`, `EveryUpdateServed`, `BreakBlocks` |
| `capture` | inbox, questions, parking lot | `ProcessedIsNoted`, `SavedIsKept`, liveness `PendingSettles` |
| `checks` | every check on every answer, the package of a message, the host watchers | `EveryLegCounts`, `PackageFits`, liveness `TroubleIsMet` |
| `workflows` | page jobs, password, security scan, bugs, reviews and their escalation, source | `CredentialsWork`, action `FailsClosed`, liveness `CompromiseIsTold`, `BugIsTaken`, `DeadPollerIsTold` |

What they show, beyond their comments in the modules:

* `TokenSpec`: the gate rows together with the host implement `ApprovalToken` where
  the poller is the only deliverer, with an override or a restart at any moment.
  With a callback as well a gate is used twice (departure 2).
* `MutationApproved` and `JobSuccessIsEarned` hold in the same run; the second is the
  defect recorded as BUG-14 in the repository's tests.
* `RecordedOrLogged`: every mutation has an audit row, or an error in the log, unless the
  process died, or the row of a failure, which carries no evidence, names a second gate of its
  operation. A step that raises after the host was changed leaves the log only (departure 6).
* `StepsInOrder` holds where one thread works on the job, as in `autos`; its mutant is
  the defect of job 6af6c143. Where two threads overlap it does not (run `overlap`).
* `NoFalseAlarm` is about the pair (audit row, gate row): the row of a failure names
  the newest consumed gate, which need not be the one the thread used.
* `OneDecision` compares the council's record with the orchestrator's row whatever
  the order of callback, poll, crash and reaper.
* `MoveHasTap` holds although the lock of the store is broken, because the route
  that consumes an approval and the one that records it re-check the request and
  its deadline; `DecisionSticks`, which says the same of every client, does not.
* `PrivateIsLocal` follows what was said to a private advisor into the conversation and with
  its later messages to whichever model replaces one that fails. What carries only the flag
  does leave (`FlaggedIsLocal`, section 6).
* `LagIsBounded` counts what the model is told in no form, with turns recorded at once, two
  compactions at once of which the older may write last, fallbacks and restarts.
* `LookShowsAll`: a look that ends without an error has shown what it listed; one whose card
  could not be posted does not count it as told.
* `SavedIsKept`: of the captures under a name one stays, in the lot or archived, until Leo deletes
  one of them, so a capture alone under its name is never lost; `NoTicketInReachTwice` lets a
  second ticket be filed only where the first is on no page the runner reads and in none of its
  records; section 6 says where that leaves Leo.
* `DeadPollerIsTold`: with the Buzz poller dead a gate that waits is told, though alerts fail
  and the loop may end between an alert and its mark.
* `FailsClosed` relates a check of the homepage to an act that lies several steps,
  retries, overrides and restarts later; only a job on another name of the site comes between.
* `OutagePaged`, `AlarmSettles`, `BreakBlocks`, `TroubleIsMet`, `CompromiseIsTold` say
  that no count, cooldown or mark silences what stays broken.
* `EveryLegCounts` is evaluated on every check: a probe that answers with the very
  trouble the check looks for is never outvoted by the others.

The runs that TLC must refute: `rejected` (`RejectedNeverLands`, departure 1), with one
change to the source and the attempts at verifying it, and `overlap`
(`StepsInOrder`, departure 4), with a gate and two ordinary steps, two threads and
no retry, override, restart or callback.

For each property of a passing run `PROJECT.json` names a mutant, a small change
to one mapped definition that a plausible bug would make and that breaks the
property. Mutants are kept beside the definitions they change.

The modules state more than the runs list. These hold on the instances of the
same configurations, and section 5 proves some of them: every `...TypeOK`; of the approvals `AwaitingIsEarned`, `DecisionArrives`, `NagStops`,
`GuessOnlyWhenSingle`, `ResolvedFirst`, `OnlyTriagedReachLeo`, `HandedOnFirst`,
`MarkedWasSent`, `TicketsAreBounded`, `FailureHasTicket`, `YieldsBounded`,
`ValidIsWellFormed`, `SummaryIsOld`, `SummaryKeeps` (one folder); of the watches
`PageEarned`, `RemedyMeansRecovery` (remedies that are verified), `ServedInOrder`,
`LiveGreenIsRecent`, `NothingSeenNothingGreen`, `KnownNotRefiled`; of the captures
`InboxDrains`; of the workflows `OnlyVerifiedLands`, `SuccessIsCommitted`,
`NoDoubleTrigger` (one thread); and `SingleUse` where the poller alone delivers.
`AttemptEnds` holds under the specification of `Provisioning`, `RebootFound` and
`RecoveryNeverSilent` under that of `FleetWatch`, which state the fairness that the
MC modules leave out; `TurnEnds` of `CouncilTurn` and `JobsSettle` of `PageWorkflows` are stated and not
checked. Others are refuted, and section 6 names them.

## 4. Bounds and fairness

| Bound | Value | Why it is enough |
|---|---|---|
| `NSteps`, `Threads`, `GateIds`, `MaxRetries` | 2, 2, up to 2, up to 1 | one step that gates or fails and one that must not run; a late writer and one other; a second gate only where a gate step retries; one retry tells `<` from `<=` |
| `MaxCrashes`, `MaxDeaths`, `MaxRestarts`, `MaxReboots` | up to 2 | a second crash in the recovery from the first, in the engine and the council; elsewhere recovery is the next run |
| `Overrides`, `MaxTaps` | 1, 2 | several are of one shape; a surface that answers again |
| consent: `Sweeps`, `Threads`, `MaxTime`, TTLs | 2, 2, 2, 2 | a sweep that waits and one that overlaps it; two routes on two inodes; a request that is in time, at its end, after it |
| desk: `MaxGates`, `MaxEvents`, `Cards`, `YieldBound` | 3, 3, 4, 2 | a card of two items and one that comes later; a line before, during and after a drain; more cards than the bound lets go |
| desk: window, threshold, `Folders`, `MaxCalls`, `Pace`, `MaxTurns`; `TalkTurns` | 1, 2, 2, 2, 1, 13; 2 | turns enough for the bound to be reached after a compaction that was lost; two turns recorded at once, two compactions at once and one more turn meanwhile; a message to an advisor and a later one |
| ops: `Threshold`, `Interval`, `Grace`, `Checks`, `MaxMishaps`, `MaxTickets`, `MaxBoot` | 2, 2, 2, 2 checks, 2, 3, 2 | below, at and above each limit; a failing check beside another; one ticket more than the invariants need |
| capture: `MaxFiles`, `Scans`, `MaxItems`, `Requests` | 2, 2, 2, 2 | two scans that have listed the same file; two writers of one file |
| capture: cards | one under a name, or two that may share it | two requests and the first rewrite at work on one card, or one request with a later rewrite and a restart; a name taken again once its card is archived |
| checks: `Signatures`, `MAX_SIGNATURES_PER_RUN`, `MaxFaults` | 2, 2, 2 | every check and every answer is enumerated; a cap that is reached |
| checks: the ceilings of the tiers, `TIER3_TOP_K`, `TIER3_SCORE_THRESHOLD`, `RubricSize` | 2 to 5, 2, 2, 1 | more turns, hits and blocks than fit, of sizes below, at and above a ceiling; a hit on either side of the threshold and one more than the top |
| workflows: `Jobs`, `Spellings`, `Pages`, `Rotations`, `Issues`, `MaxReports`, `Diffs` | 2, 2, 4, 2, 2, 3, 2 | the publishing job and one beside it, under the same name of the site or another; a rotation after another |

Each restriction of a run is a question of its own. `tokens` has no callbacks: with
them single use fails; and by its constraint `OneDisturbance` a behaviour is followed
through an override or a restart, not both: with both, more threads than two slots may
be due at once, where the model would stop at a bound the program does not have. The
proofs cover any number of both, and callbacks where section 5 says so. `gatejob` has `LateDecisions`
because an early decision may be lost, and no restart because of the gap between
the commit of a resolution and the step's transition. `council` has one surface;
`workflows` one rotation at a time and one
bug thread; `desk` no card that is made up. What happens beyond is
in section 6. Where two names of the site are in use, `workflows` leaves a job whose step raised
where it is (`OneTrouble`). Symmetry is used only where no liveness property is checked.
`CHECK_DEADLOCK FALSE` stands where a gate, a message or a job ends and nothing
need follow.

Sizes (distinct states): tokens 849,000, autos 13,000, gatejob 124,000, council 8,400, consent
433,000, desk 1,998,000, ops 252,000, capture 662,000, checks 141,000, workflows 359,000; each
within three minutes.

Fairness. `Orchestrator!Fairness`: weak on each thread's and each handler's next step
(daemon threads under the operating system's scheduler), weak on the poller's
cycle (an endless loop whose exceptions are caught; its back-off is at most
300 s), strong on a decided gate being reported when asked (`PollAnswered`: some
request of many is answered). Callbacks, decisions, overrides and restarts have
none. `CouncilGate`: weak on the review, on requests that have been accepted, on
the reaper and on the orchestrator's poller; none on Leo, the job, the card or
callbacks. The MC modules state theirs: weak on what a scheduler or cron starts
again and again and on the thread that has begun; strong on a call or the
write of a file that is tried for ever and now and then succeeds (a page, a filing, an
alert, the expiry of questions, a watcher's state); none on Leo, on faults or on deaths. Where a watch can only tell what
it gets through, the assumption is named in the action (`ScanTells`,
`MiniTells`, `ShimHeals`, `ErrorTells`, `FilesTicket`, `PollsAll`). The page jobs and the messages
have none, for nothing of theirs is checked to come.

## 5. What is proved

`tlapm` checks every proof. No theorem bounds the number of steps, gates, threads,
messages, sweeps, writers or restarts; they assume only what the modules assume
(`NSteps` is a positive natural, `Kind` and `MaxRetries` are total, an exec step
follows its gate step, `Kinds` are known kinds, ...) and what a theorem says.

* `JobProofs!Typing`: `Spec => []TypeOK`; `Shaping`: `Spec => []Typed`. The type
  invariant is not inductive alone: `step' = [step EXCEPT ![th[t].at] = ...]`
  keeps its type only if a thread in that state has a step in hand. `ShapeOK`
  says so for threads, handlers and gate rows, and `Typed == TypeOK /\ ShapeOK`
  is inductive.
* `JobProofs!Approved`: `MutationApproved`. The invariant adds
  `ApprovalOnRecord`: an approval bit in a gate row is on record among the events,
  and so is the approval of a gate that a thread is about to mutate on, which
  carries the fact over the window between consume and mutate, in which any other
  handler may overwrite the row.
* `JobProofs!Earned`: `JobSuccessIsEarned`. It needs three facts. `RowsExist`:
  whatever is in flight concerns a row that exists. `QuietStart`: until `start` has
  created its last row nothing else works on the job. `SuccessOnRecord`: a row that
  shows `succeeded` was logged so, and a thread about to write the roll-up has all
  of them logged. Logged facts are never removed, hence the stale read of the
  roll-up does no harm.
* `JobProofs!Refines`: `TokenSpec`, a refinement, where the council sends no callback
  (`CallbackGates = {}`), overrides and restarts included. `PollerAlone`: nobody but the
  poller resolves a gate, so that the row it checked is pending still when it writes.
  `HeldOnce`: a consumed gate stays consumed, in the hands of one thread that has not
  used it, or used. Each step of the program is then a step of `ApprovalToken` or none.
* `JobProofs!NoAlarm`: `NoFalseAlarm` where the council sends no callback. On top of the
  invariant of the refinement: the gate an exec step holds belongs to the step before
  it, is consumed once the step mutates, and stays consumed while the record is written.
* `JobProofs!OnRecord`: `RecordedOrLogged` where the council sends no callback. What is
  used is recorded, logged or in the hands of a thread about to record it
  (`RecordsKept`), and stays so for as long as the process lives.
* `JobProofs!Budget` and `InOrder`: `AttemptBudget` and `StepsInOrder` for a job without
  gates whose steps nobody overrides (`Ungated`). `Alone`: one thread is at work at a
  time, since nothing but a start and a restart begins one. `Paced` ties the attempts
  made to the retries on the row and the counter in hand; `Walks` says that what lies
  behind a thread has succeeded. With a gate the budget is not kept: a step that failed
  recoverably is run again by the thread that the resolution starts.
* `JobProofs!OrderOfOne`: `StepsInOrder` for every workflow, with gates, callbacks, lost
  answers, overrides and restarts, where no two threads work on the job at a time
  (`Threads` has one element; an empty slot is filled again and again). `Trails`: a
  thread past a row has seen it succeed, or has just written its success, or stops.
* `CouncilProofs!ByRight`: `ApprovedByRight`, from `Carried` (an approval held by
  the background task, by a request, by the store or by the orchestrator was given
  by right) and `Fresh` (a verdict is given once and not before the gate was
  received). `Reaped`: `ReapedJobEnded`, since a job that has ended stays ended.
  `Agreement`: `OneDecision` where one listener takes Leo's answers, for any number
  of answers, restarts and reapings; the invariant follows a decision from the
  request to both records.
* `CouncilProofs!QueuedStays`: `QueuedIsSomewhere`; a queue is renamed before it is read and
  removed after it is posted, and whoever still holds the renamed file writes to it
  before its end or is excused. `OnlyTriaged`: `OnlyTriagedReachLeo`. `MarkedSent`:
  `MarkedWasSent`, whose invariant relates the marks on disk to the map each writer holds.
* `CouncilProofs!NothingUnshown`: the action property `LookShowsAll`; what a look has listed
  is on the desk it is about to leave, and what is on the desk has been shown
  (`ToldInv`); a card that could not be posted is on the desk only where the look is not over.
* `CouncilProofs!PagesEarned`: `PageEarned` of the watchdog. The counter in the file is the
  number of failed probes, and the mark of an alert is never older than the page
  (`WatchInv`): a key is collected only behind its own turn in the cycle, hence once, which
  needs that no key occurs twice in `CHECKS`, as it does not.
* `ServiceProofs!FactsKept`: `FactsAreKept`; the batch a writer holds was computed
  from the registry under the lock, so the replacement only adds.
  `OneFactPerId`: no two facts of one id.
* `ServiceProofs!HonoredOnce`: `CardHonoredOnce`, by counting claims against cards
  (the claim of a card is a file that is created or not). `Bounded`: no session is
  let go more often than the bound.
* `ServiceProofs!PrivateStays`: `PrivateIsLocal`. The conversations of private advisors take in
  what is said to them, all others never hold any of it (`HeldInv`), and a message to a private
  advisor never has a provider of the cloud, in no state of its turn (`RequestInv`).
* `ServiceProofs!NotLongForgotten`: `LagIsBounded`, for any number of turns that are recorded at
  once and of compactions that overlap. The turns are cut into what the model gets word by
  word, what the summary has, and a middle; the invariant counts the middle against the
  counter of the trigger, the calls that have yet to look at it, and the compactions under
  way, each of which started no more than `Pace` turns ago. `NothingUnlearned`: the action
  property `SummaryKeeps` where a compaction ends before the next one is due (`Folders` has
  one element): what the
  compaction has read is the summary still when it writes. `NothingTwice`: `SummaryIsOld`, for
  any number of overlapping compactions.
* `ServiceProofs!ActsByRight`: `ActsOnlyWhereApproved`; an approval a sweep holds is
  Leo's answer to the gate this sweep raised. `TicketsBounded`: `TicketsAreBounded`, for
  finitely many sweeps; the sweeps about to file a ticket of a problem and its tickets
  together do not outnumber the sweeps, for one becomes a filer only while there is none.
* `ServiceProofs!GreenIsWitnessed`: `LiveGreenIsRecent`; each stamp that is good bounds the
  time since the fact it stands for, the copy's by its own age and the original's limit.

* `ServiceProofs!TapBehindMove`: `MoveHasTap`; an approval found in the store, in the
  snapshot a route will write back, in an answer or with a client has a tap behind
  it. A late write can undo a decision, it cannot make one. `LedgerIsTrue`:
  `LedgerTellsTruth`; an attempt has neither record nor outcome before it has moved
  the secret, and adds nothing once it has recorded the move.
* `WatchProofs!FiledIsNoted`: `ProcessedIsNoted`; a scan marks a file only after it
  has noted what it did with it, and a note is never taken back.
* `WatchProofs!SeenLast`: `SeenIsHandled`; the map of boots that a run carries and
  will write holds only reboots that were announced and have entered their
  verification or are about to.
* `WatchProofs!RotationIsSafe`: `CredentialsWork` where rotations come one at a time;
  the password a run creates is not among those it found and will revoke.
* `WatchProofs!OneTicket`: `NoTicketInReachTwice`. A search does not find a standing ticket, nor
  one beyond its page,
  which has no marker; the invariant says what keeps a second one from being filed: as
  long as it is open, the results name it or none, and so does the tie, which names it
  once restored.
* `WatchProofs!Saved`: `SavedIsKept`, also where names are taken again. Whatever is at work under
  a name holds a card of that name, so a late write puts back one that was there, and a request
  that is about to drop a routed card has copied it. A capture that shares its name with no
  other is therefore kept.
* `WatchProofs!HandedFirst`: `HandedOnFirst`: a card that says it was handed on, wherever it is
  held, has the task, inbox file or project of a capture under its name behind it.
* `WatchProofs!HomepageAsExpected`: the action property `FailsClosed`. `one_active_build`
  lets one job at a time publish a homepage under a name of the site; from its check to its write
  the homepage is the one it has read, or its own, or that of a job on another name, which
  stays on record with the job (`PublishInv`). A person vouches for a step that waits or
  raised, and the check never raises.
* `WatchProofs!VerifiedLands`, `SuccessCommitted`: `OnlyVerifiedLands` and
  `SuccessIsCommitted` of the changes to the source. `SourceInv` says what a job's step
  means for the repository, whoever brought it about: past the verifier its diff was
  passed, past the patch it is in the tree, while staged it is in the index or already
  committed by another, past the commit it is in the history. No step takes anything out of
  the tree, and the index is emptied into the history only.
* `WatchProofs!AwaitingEarned`: `AwaitingIsEarned` of the investigations of bugs. A thread
  that is diagnosed again has a round left, and past a decision the round had its
  approvals or was the last one (`Reviewed`); marks, lost or torn, do not come into it.
* `WatchProofs!UpdatesInOrder`: `ServedInOrder` of the Telegram loop. What the server has
  forgotten and what the loop has passed are both done with; the next update is the
  further of the two (`Turn`), and a batch goes on from there.

* `CheckProofs!PackageAlwaysFits`: `PackageFits`, for any ceilings and any stores. A step of
  `PKSpec` is one assembly, so the invariant is plain and the work is in the lemmas: the
  length of a text is the sum of its pieces (`LengthIsSum`, `LengthOfMore`); the hits of a
  query have a ranking, whose first members are its best (`RankedInOrder`, `FirstAreBest`);
  what a tier keeps fits, and adding what it left out would not (`OrderedFits`, `TurnsFit`,
  `FactsFit`, `HitsFit`, `BlocksFit`).
* `CheckProofs!ValidDocuments`: what `validate` accepts is `WellFormed`, whatever the length and
  nesting. The reading is a sequence of stacks of open blocks (`Nested`). A block that was
  opened is on the stack until the delimiter that takes it off, which bears its name
  (`OpenedIsMatched`), and whatever a closing delimiter takes off was put there
  (`ClosedIsMatched`); openings and closings in between are even (`Balance`).
* `CheckProofs!AnsweredBeforeDispatched`: `ResolvedFirst`. `ClarifyInv`: only the worker's one
  event loop stands between an answer and its dispatch, and while it does the post has been
  answered once more than it has been dispatched.

These three are about data of any size. Induction theorems that take an operator cannot be
used with the installed provers; the proofs go by sets instead: a set of numbers that is not
empty has a least member (`LeastNumber`), hence one that holds 0 and each next holds all
(`UpTo`), and a recursive function takes its values step by step (`StepByStep`).

Only model-checked: every liveness property, which needs fairness and ENABLED, and
`EveryLegCounts`, which is a statement about finitely many answers, in no constant, that
TLC goes through one by one. `KnownNotRefiled` and `GuessOnlyWhenSingle` rest on `SelectSeq`,
of which the provers know no definition. `StepsInOrder`, `AttemptBudget` and
`SummaryKeeps` are proved under the hypotheses named above and are not true without them.

## 6. Where the code departs from what it says

Departures 1 and 4 are refuted by TLC in runs of their own. A name in parentheses
is a property of the modules that TLC refutes on the instance of the same
configuration, or with the one constant changed that is named. What has no name
was seen while the code was translated and is in the models' steps.

### Approvals and host operations

1. **A rejected diff that lands** (`rejected`). `verify_semantic` has no
   `max_retries` of its own, and `_run_step` (workflow_base.py:151) repeats a failed
   result without looking at `failed_permanent`: a diff is put to the model again, up to
   three times after the first, and applied when it passes once. devops_self_modify.py:13 says
   "Verifier reject = workflow ends failed_permanent, no apply, no commit."
2. **An approval used twice** (`SingleUse` with a callback). `resolve_gate`
   (engine.py:165-175) checks `pending` and updates without a condition. Callback
   and poller both pass the check; one resolves, a thread consumes the gate and
   mutates the host; the other's UPDATE makes the gate resolved again and a resumed
   step consumes it once more. `AND status='pending'` and a look at the row count,
   as in `consume_hostops_gate`, would close it.
3. **A job that never ran all its steps** (`WholeWorkflowRan` with restarts). `start`
   (workflow_base.py:24-31) commits row by row; a restart resumes what is there.
4. **A step after a failed one** (`overlap`). The council's answer to the POST of a gate
   is lost and its thread waits for it to be answered or to time out; meanwhile the
   poller brings the decision and starts a second thread. Both run the next step; one writes
   `failed_permanent`, the other's UPDATE, guarded by a status read before
   (engine.py:52-64), makes it `running` again, and the first, which re-reads the row
   to stop the chain (workflow_base.py:56-66), executes the step after it. An
   override gives a second thread as well. With the guard in the UPDATE itself
   (`AND status NOT IN (...)`) TLC finds the order kept, with a callback and an
   override besides.
   And **an override that did nothing** (`OverrideTakesEffect`, main.py:426-463).
5. **A decision before the pause** (`DecisionEndsJob` without `LateDecisions`,
   workflow_base.py:126-128), or a death between the commit of `resolve_gate`
   (engine.py:182) and the step's transition: the gate is resolved, the step waits,
   nothing would resume it.
6. **A mutation without a record**, although hostops_audit.py:8-9 says every executed
   mutation is recorded: a death between the two (workflow_base.py:109-123); an exception
   after the host was changed, say an answer that cannot be decoded (hostops.py:165, 174),
   which `_run_step` logs and which skips the record (164-167); or a failed mutation whose row names the newest consumed gate of the operation and not
   its own (`_consumed_gate`, hostops_audit.py:63-83).
7. **A rejection that stops nothing** (`RejectStops`, t2.py:161-175): the answer of the
   council to the rejecting card is not looked at.

* `_transition_step` says "already terminal" (engine.py:43-45), and a terminal row is
  rewritten all the same when another thread wrote it after the read.
* A secret that cannot be resolved is audited as authorization `autonomous`
  (hostops_audit.py:138-144, hostops_deploy.py:213-218) although nothing ran;
  hostops_audit.py:25 names "the only two mutating host-ops", and publish_post,
  update_wp and place_fleet_secret are not audited there.
* The peer-review requirement (engine.py:391-393) looks at `steps.input`, which
  nothing writes. Policy is read when the step executes (capabilities/hostops.py:403)
  and may have become "allow" after a gate was asked for.
* routes_council_gate.py:52-55 calls the hostops gates "ALWAYS human-only"; lines
  754-765 approve them when the autonomy policy says so. With two surfaces
  answering at once the council's record may differ from the orchestrator's
  (lines 652-664). A council that restarts during a review leaves the gate in
  `processing` for ever (line 521). `_fire_callback` takes HTTP 200 with an error
  body as delivered. The local model may write the brief of a creative gate that
  KAI then approves on the cloud.
* Mode lock: a decision may be undone by a writer who had the lock of the old inode
  (`DecisionSticks`, mode_lock.py:27-28 and 188), and the marking of an escalation is
  lost in the same way or follows a failed send (`EscalationReachesLeo`,
  scheduler.py:252).
* Buzz: a card that cannot be posted ends its half of the look, and the next look tries again
  (buzz_approve.py:429-430, 460-461); one of those Leo has asked for ends the process. The drain of the
  queues says "nothing is lost mid-drain" (235-236): a writer slower than the whole drain writes
  to a file that is then removed (`QueuedIsSomewhere` excuses it).
* Buzz: a reply that names no item known is bound to the single live one
  (`NamedItemOrNothing`, buzz_approve.py:643).

### Custodians and sprint gate

* A closed ticket blocks refiling (`TroubleIsQueued`, devops_ownership.py:4-8); an
  approved decision executes nothing where the custodian has no `execute_decision`
  (139-146); a tap that comes after the sweep gave up changes only the gate; a
  finding whose filing or remedy failed still counts as handled; overlapping
  sweeps can file twice.
* The inventory's run is stamped before its findings are filed and fails open; the
  backups' cooldown is stamped before the run; the services custodian is blind when
  `docker inspect` exits with an error; updates are silent when apt's count cannot
  be read; `disk_structural` says "persists after safe reclaim" and was judged
  before.
* The error watchdog's cap per run can starve the rarest signature; it and the shim
  autoheal page the dashboard where the docs say Leo; the mini watcher marks a
  staged page as paged. "A standing outage pages once, then a recovery resets"
  (mini_alert_watcher.sh:21-22), unless the one run that sees the recovery cannot write
  its file (line 94): the next outage is not told (`EveryOutageIsTold`). A page that was delivered and not answered is sent twice.

### Source changes and bugs

* self_modify names no site, and NULLs are distinct in `one_active_build` (db.py:104):
  any number run at once. A commit takes what anybody staged; a patch that fails half
  way stays in the tree; the trailer of a ticket may be lost; the sha may be another
  job's.
* Two threads take one bug (`NoDoubleTrigger` with two threads,
  routes_bug_workflow.py:129); a bug that was marked and whose run died is not
  investigated; feedback set in a routing function is not persisted; a torn
  processed file starts fresh; only the first 50 issues are read.

### WordPress

* An update reads the status and writes later, so a page published in between is
  edited live (`DraftsOnly`, capabilities/wordpress.py:356), or unpublished
  (`SuccessIsPublished`). The homepage is set, and coming-soon disabled, before the
  page is published. A create whose answer is lost makes a second draft. Results
  `failed_permanent` are retried like any failure. A job parked by an exception
  blocks its kind on its site until it is overridden or the service restarts (db.py:104).
* `one_active_build` keys on the name of the site as its caller wrote it (main.py:305-317), while
  the credentials are found by a normalised part of it (capabilities/wordpress.py:96-112): two
  names of one site are two live jobs, and one replaces what the other has put on the front
  since its check (`HomepageMatches`, wordpress_publish_homepage.py:360 "Fail closed unless the
  live homepage matches the caller's predecessor").
* `verify_front_page_set` looks at `show_on_front` only, the REST fallback of
  `verify_live` not at the front page; `publish_post` answers `"published": True`
  whatever the status; `set_custom_css` does not read the answer; a document of
  blanks is valid with a warning; drift is "clean" for a profile that cannot be
  parsed.
* The daily scan takes a baseline it cannot parse for a first scan, and a filing that
  fails is not repeated (`CompromiseIsFiled`, wp_security.py:24). Two rotations at once
  revoke each other's password (`CredentialsWork` with `Concurrent`,
  rotate_wp_app_password.py:258-259).

### Conversation and context

* A turn at or past the budget's warning returns before the hourly cap, which
  council_config.py:144 calls a "hard block for all traffic types"
  (`RunawayIsStopped`). The usage file is read, changed and written by three services
  without a lock. A turn whose provider raises is not counted. Degrading applies
  to one provider only.
* A message that is private by its flag is kept in the advisor's ordinary conversation and goes
  to the cloud with the window, or in the summary, of the next message that is not
  (`FlaggedIsLocal`, router.py:591-596, 511; line 606 has it "always local"). What is said to the
  private advisors, "whose turns must never leave" (privacy_tiers.py:3), stays. A redelivered message is answered twice,
  since the router passes no turn id.
* Of two overlapping foldings the older may write last (`SummaryKeeps` with two folders,
  context_service.py:999), which costs turns until the next; the counter is reset before the
  fold, so a restart loses one; the fallback summarises three turns and truncates when it is full.
* The persona may be evicted by the cap of the stable part (`PersonaIsKept`,
  context_service.py:938-939 says it "is always present"); facts of a project reach
  messages that name none (`ProjectFactsStayHome`, registry.py:321-323).

### Captures

* Two writers of the pending file dispatch an item twice (`DispatchedOnce`,
  clarification_store.py:8); an option cut to 64 bytes comes back as a site that does
  not exist (`SiteIsAnOption`, clarification_surface.py:117-119); the worker's event loop
  posts to itself (`LoopServesItself`).
* A capture is named by its second, or by its day and title among the cards still in the lot
  (kai-worker-api/parking_lot.py:208-215): once the first is archived the name is free, and archiving
  the second renames it over the first (routes/parking_lot.py:400, 585, 594, 603, 607), although
  Leo was told "Saved to vault." (`EveryCaptureIsKept`; routes/parking_lot.py:299 "so nothing is
  lost"). Two captures in one second share a card. The enrichment puts a summary in the place of
  the first line of the body, all of a one-line capture (`WordsAreKept`, 225-241).
* A stale write of a job re-opens an archived card (`ArchivedStays`); a council that answers an
  error still counts as "Inbox processed"; Sprint A answers "Captured to parking
  lot." and parks nothing.

### Watches

* Invariants: an adopted ticket is closed at the first pass although nothing failed
  (`RecoveryHadFailure`, invariants.py:87-89), one page of 100 issues is searched (222-227) of a
  project that green_baseline.py:114-121 puts at 1330, so that a ticket whose answer was lost and that
  has left the page is filed again (`OneOpenTicket`, 339 "No duplicate will be filed while this
  issue is open"), a recovery may find no ticket to close
  (`RecoveryClosesTicket`, 193-196). Two checks look for a group "done" that Plane
  calls "completed" (1175-1325).
* Green baseline: AMBER is cached although "ONLY green is cached" (`CachedGreenIsRecent`,
  green_baseline.py:1747-1751); a preflight passes with members that are not green
  (`PreflightAllGreen`, 1514); `disk_pressure` is green when nothing could be read,
  `container_roster` with no container checked.
* Fleet: "complete" although containers restart (`CompleteMeansHealthy`,
  watchdog.py:655-657); the death of the own tailnet is not RED (`TailnetDeathIsRed`,
  fleet_heartbeat.py:351-353); maintenance may mute the spine.
* Watchdog: a remedy that nobody verified counts as recovery (`RemedyMeansRecovery`,
  watchdog.py:1397); a warning is filed twice (`FiledOnce`, 1162) or read by no scan,
  since the job runs every 30 minutes and looks back 25 (`EveryLineIsRead`, 1048); the
  container sweep's failure resets its grace; the archive's window of 65 minutes has
  gaps (1239-1282).
* The probe of Telegram's inbound side pages the dashboard (telegram_inbound_probe.py:179)
  where its line 15 says Leo. That a gate asked on Buzz is told by alert when the Buzz
  poller is down (`DeadPollerIsTold`) rests on an alert being accepted at last.

## 7. Not modelled, and the plan

Components without a module, and why:

* the worker's remaining routes (calendar, mail, health data, projects, settings): JSON files and
  third-party APIs, one writer each or the pattern that `ParkingLot` and
  `Clarification` show;
* learning, the weekly statistics and the remaining capabilities: calls to other
  services, which a workflow sees as success, failure or exception (`ExecuteAuto`);
* signal bus and proactive queue: a presence record and a producer's duplicate
  check, and no reader in the repository depends on either being exact;
* Buzz bridges and shim, MCP, voice, web, PHP plugin: forwarding and interfaces
  that hold no state the gates depend on;
* the remaining scripts, skills, configuration and backups: operational data.

Left out of the modelled components: the branch of `_gate` in which policy allows an
operation without a gate; publish_post, update_wp and place_fleet_secret as steps of
their own; several gated jobs at once, which meet only in the `one_active_build` index
(`PageWorkflows` and `SelfModify` have it); the tables of metrics and tool executions;
cards of other kinds; cosigned briefs and direct messages; the tools of the council
and consultations between advisors; digests, briefings and the execution registry of
the scheduler; the wording of every message. File writes are atomic, which they are
where the code renames, and nearly so where it does not. A failed `UPDATE` of
SQLite (a locked database) is not distinguished from an exception of the step. Questions on the
web, which no route answers, are left out. Of a message's package `CouncilTurn` has what was said in
the conversation, not recall, facts, session write-ups (context_service.py:565-580) or the state of the
day; what `consult_specialist` (execute_tool.py:48-113) carries from one advisor to another
is not followed. A page that fails is not told from one that arrives in `Watchdog`. `BugWorkflow`
takes the mark of a bug and the start of its thread for one step (routes_bug_workflow.py:129-141).
An override of a step that failed for good changes nothing while one thread is on the job
(engine.py:43-54), and `PageWorkflows` does not have it; with two threads see departure 4.

The plan from here, proofs first:

1. The type invariants of the components beside `Orchestrator`; a selection from a sequence
   that the provers can see through, and with it what an answer by message may land on
   (`GuessOnlyWhenSingle`) and that a known warning is not filed again (`KnownNotRefiled`);
   and `StepsInOrder` of a job whose UPDATE is guarded, as departure 4 suggests.
2. `CouncilGate` and `Orchestrator` composed: the first already follows the row of the
   gate and could be refined by the second.
3. Several gated jobs over one database, the autonomous branch, the acknowledgement of
   deviations.
4. The cards of other kinds and the scheduler's digests, where a lost update costs a
   notice.
