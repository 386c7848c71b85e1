---------------------------- MODULE CouncilGate ----------------------------
(***************************************************************************)
(* The life of one gate between the services: the council's gate store and *)
(* its background review (kai-council-api/routes_council_gate.py), Leo's   *)
(* answers through the Buzz or another surface, the card of the T2 queue   *)
(* (kai-worker-api/routes/t2.py), the reaper of orphaned gates, and the    *)
(* orchestrator's gate row, to which a callback, the fallback poller and   *)
(* the T2 card all write.                                                  *)
(*                                                                         *)
(* The store's update() holds a lock, but resolve_gate reads the status in *)
(* one call and updates it in another, and so does the reaper.  Here the   *)
(* engine's own resolve is one step; its two halves are in GateResolution. *)
(***************************************************************************)
EXTENDS Naturals

CONSTANTS
    Kinds,       \* classes of gate, by what _process_gate does with them
    Surfaces,    \* surfaces whose adapter posts Leo's answer to the council
    MaxTaps,     \* bound on the answers given on each surface
    MaxCrashes   \* bound on the restarts of the council process

AllKinds == {"reviewed",   \* plan_gate, dev_gate, creative_gate
             "devops", "hostops", "wp_probe",
             "fleet",      \* hostops_place_fleet_secret and unknown types
             "sprint", "synthetic"}
Jobless == {"sprint", "synthetic"}   \* no workflow waits for the answer

ASSUME KindsAssumption == Kinds \subseteq AllKinds
ASSUME MaxTapsAssumption == MaxTaps \in Nat
ASSUME MaxCrashesAssumption == MaxCrashes \in Nat

Decisions == {"approved", "rejected"}

VARIABLES
    kind,        \* gate_type of the stored gate
    status,      \* "status" in its state.json
    resolution,  \* what its "resolution" says
    verdict,     \* what the review decided
    task,        \* the background task of _process_gate
    tap,         \* tap[s]: the resolve request of surface s
    reap,        \* whether a listing found the gate orphaned and is about to say so
    card,        \* the gate's entry in the T2 queue
    engine,      \* the gate's row in the orchestrator
    job,         \* status of the orchestrator's job
    leo,         \* the answers Leo has given, on any surface
    crashes

council == <<kind, status, resolution, verdict, task, tap, reap>>
vars == <<council, card, engine, job, leo, crashes>>

TaskPC == {"idle", "review", "card", "callback"}
Request == [pc : {"idle", "update", "callback"}, says : Decisions \cup {"none"}, n : Nat]
NoTask == [pc |-> "idle", says |-> "none"]

TypeOK ==
    /\ kind \in Kinds \cup {"none"}
    /\ status \in {"none", "processing", "pending_leo", "resolved", "orphaned"}
    /\ resolution \in Decisions \cup {"none", "orphaned"}
    /\ verdict \in {"none", "autonomous", "ask", "failed"}
    /\ task \in [pc : TaskPC, says : Decisions \cup {"none"}]
    /\ tap \in [Surfaces -> Request]
    /\ reap \in BOOLEAN
    /\ card \in Decisions \cup {"none", "pending"}
    /\ engine \in Decisions \cup {"none", "pending", "orphaned"}
    /\ job \in {"none", "running", "succeeded", "failed_permanent"}
    /\ leo \subseteq Decisions
    /\ crashes \in 0..MaxCrashes

Init ==
    /\ kind = "none" /\ status = "none" /\ resolution = "none" /\ verdict = "none"
    /\ task = NoTask
    /\ tap = [s \in Surfaces |-> [pc |-> "idle", says |-> "none", n |-> 0]]
    /\ reap = FALSE
    /\ card = "none" /\ engine = "none" /\ job = "none" /\ leo = {} /\ crashes = 0

(***************************************************************************)
(* The orchestrator, as far as this gate goes                              *)
(***************************************************************************)

\* A resolution arrives at POST /gates/{id}/resolve: a row that is not pending
\* keeps what it has, and the answer is HTTP 200 in either case.
EngineTakes(d) == engine' = IF engine = "pending" THEN d ELSE engine

\* The job ends, because of this gate's decision or of anything else.
JobEnds ==
    /\ job = "running"
    /\ job' \in {"succeeded", "failed_permanent"}
    /\ UNCHANGED <<council, card, engine, leo, crashes>>

\* An operator's override ends the waiting step; list_pending_gates retires the gate.
StepOverridden ==
    /\ engine = "pending" /\ job = "running"
    /\ engine' = "orphaned"
    /\ UNCHANGED <<council, card, job, leo, crashes>>

\* Mutant of Poll: only approvals are acted upon.
PollApprovals ==
    /\ engine = "pending" /\ job = "running"
    /\ status = "resolved" /\ resolution = "approved"
    /\ EngineTakes(resolution)
    /\ UNCHANGED <<council, card, job, leo, crashes>>

\* The fallback poller finds the gate resolved.
Poll ==
    /\ engine = "pending" /\ job = "running"
    /\ status = "resolved"
    /\ EngineTakes(resolution)
    /\ UNCHANGED <<council, card, job, leo, crashes>>

\* Before it asks, it retires the pending gate of a job that has ended.
Retire ==
    /\ engine = "pending" /\ job # "running"
    /\ engine' = "orphaned"
    /\ UNCHANGED <<council, card, job, leo, crashes>>

(***************************************************************************)
(* receive_gate and the background task of _process_gate                   *)
(***************************************************************************)

\* council.gate has inserted the row and posts it; a sprint run or the probe
\* posts a gate of its own, of which the orchestrator knows nothing.
Receive(k) ==
    /\ status = "none"
    /\ kind' = k /\ status' = "processing"
    /\ task' = [NoTask EXCEPT !.pc = "review"]
    /\ engine' = IF k \in Jobless THEN "none" ELSE "pending"
    /\ job' = IF k \in Jobless THEN "none" ELSE "running"
    /\ UNCHANGED <<resolution, verdict, tap, reap, card, leo, crashes>>

\* The task resolves the gate itself, whatever the store holds by then.
TaskResolves(d) ==
    /\ status' = "resolved" /\ resolution' = d
    /\ task' = [pc |-> "callback", says |-> d]
    /\ UNCHANGED <<kind, tap, reap, card, engine, job, leo, crashes>>

\* A ROUTINE verdict that is not the fallback reviewer's, the autonomy policy, or
\* a draft of the governed-pipeline probe.
ReviewApproves ==
    /\ task.pc = "review" /\ kind \in {"devops", "hostops", "wp_probe"}
    /\ verdict' = "autonomous"
    /\ TaskResolves("approved")

\* Mutant of ReviewFails: a gate whose reviewer is unavailable goes through.
ReviewFailsOpen ==
    /\ task.pc = "review" /\ kind \in {"reviewed", "devops", "hostops"}
    /\ verdict' = "failed"
    /\ TaskResolves("approved")

\* The review raised an exception: the gate is denied.
ReviewFails ==
    /\ task.pc = "review" /\ kind \in {"reviewed", "devops", "hostops"}
    /\ verdict' = "failed"
    /\ TaskResolves("rejected")

\* Leo is asked; a hostops gate also gets a card in the T2 queue.
ReviewAsks ==
    /\ task.pc = "review" /\ kind \notin {"wp_probe", "synthetic"}
    /\ verdict' = "ask" /\ status' = "pending_leo"
    /\ task' = [NoTask EXCEPT !.pc = IF kind = "hostops" THEN "card" ELSE "idle"]
    /\ UNCHANGED <<kind, resolution, tap, reap, card, engine, job, leo, crashes>>

\* A synthetic probe stays in processing for the probe to resolve.
ReviewLeaves ==
    /\ task.pc = "review" /\ kind = "synthetic"
    /\ task' = NoTask
    /\ UNCHANGED <<kind, status, resolution, verdict, tap, reap, card, engine, job, leo, crashes>>

Review == ReviewApproves \/ ReviewFails \/ ReviewAsks \/ ReviewLeaves

\* POST /t2/queue is answered, or fails and is only logged.
PostCard ==
    /\ task.pc = "card"
    /\ card' \in {"none", "pending"}
    /\ task' = NoTask
    /\ UNCHANGED <<kind, status, resolution, verdict, tap, reap, engine, job, leo, crashes>>

\* _fire_callback reaches the orchestrator, or its failure is only logged.
TaskCallback ==
    /\ task.pc = "callback"
    /\ EngineTakes(task.says) \/ UNCHANGED engine
    /\ task' = NoTask
    /\ UNCHANGED <<kind, status, resolution, verdict, tap, reap, card, job, leo, crashes>>

(***************************************************************************)
(* resolve_gate: Leo's answer through a surface                            *)
(***************************************************************************)

\* A listing shows Leo what was pending_leo; the probe answers its own gate.
Shown == verdict = "ask" \/ kind = "synthetic"

\* Mutant of Answerable: a gate already resolved is not refused.
AnswerableAgain == status \in {"pending_leo", "processing", "resolved"}

\* Anything else is refused with 409.
Answerable == status \in {"pending_leo", "processing"}

TapCheck(s, d) ==
    /\ tap[s].pc = "idle" /\ tap[s].n < MaxTaps
    /\ Shown /\ Answerable
    /\ tap' = [tap EXCEPT ![s] = [pc |-> "update", says |-> d, n |-> tap[s].n + 1]]
    /\ leo' = leo \cup {d}
    /\ UNCHANGED <<kind, status, resolution, verdict, task, reap, card, engine, job, crashes>>

TapUpdate(s) ==
    /\ tap[s].pc = "update"
    /\ status' = "resolved" /\ resolution' = tap[s].says
    /\ tap' = [tap EXCEPT ![s].pc = IF kind \in Jobless THEN "idle" ELSE "callback"]
    /\ UNCHANGED <<kind, verdict, task, reap, card, engine, job, leo, crashes>>

TapCallback(s) ==
    /\ tap[s].pc = "callback"
    /\ EngineTakes(tap[s].says) \/ UNCHANGED engine
    /\ tap' = [tap EXCEPT ![s].pc = "idle"]
    /\ UNCHANGED <<kind, status, resolution, verdict, task, reap, card, job, leo, crashes>>

(***************************************************************************)
(* The T2 card: its answer goes to the orchestrator, not to the council    *)
(***************************************************************************)

\* The entry is marked only after HTTP 200; on an error it stays pending, whether
\* the orchestrator took the resolution or not.
AnswerCard(d) ==
    /\ card = "pending"
    /\ leo' = leo \cup {d}
    /\ \/ EngineTakes(d) /\ card' = d
       \/ EngineTakes(d) /\ UNCHANGED card
       \/ UNCHANGED <<engine, card>>
    /\ UNCHANGED <<council, job, crashes>>

(***************************************************************************)
(* The reaper of list_pending_gates                                        *)
(***************************************************************************)

TerminalJobStates == {"succeeded", "failed_permanent"}

\* Mutant of ReapCheck: an orchestrator that does not answer counts as "job gone".
ReapOnBlip ==
    /\ status = "pending_leo" /\ ~reap
    /\ job # "none"
    /\ reap' = TRUE
    /\ UNCHANGED <<kind, status, resolution, verdict, task, tap, card, engine, job, leo, crashes>>

\* The listing read pending_leo and the orchestrator answered that the job ended.
ReapCheck ==
    /\ status = "pending_leo" /\ ~reap
    /\ job \in TerminalJobStates
    /\ reap' = TRUE
    /\ UNCHANGED <<kind, status, resolution, verdict, task, tap, card, engine, job, leo, crashes>>

ReapUpdate ==
    /\ reap
    /\ status' = "orphaned" /\ resolution' = "orphaned" /\ reap' = FALSE
    /\ UNCHANGED <<kind, verdict, task, tap, card, engine, job, leo, crashes>>

\* The council restarts: the store is on disk, tasks and requests are gone.
Crash ==
    /\ crashes < MaxCrashes
    /\ crashes' = crashes + 1
    /\ task' = NoTask /\ reap' = FALSE
    /\ tap' = [s \in Surfaces |-> [tap[s] EXCEPT !.pc = "idle"]]
    /\ UNCHANGED <<kind, status, resolution, verdict, card, engine, job, leo>>

Next ==
    \/ \E k \in Kinds : Receive(k)
    \/ Review \/ PostCard \/ TaskCallback
    \/ \E s \in Surfaces : \/ \E d \in Decisions : TapCheck(s, d)
                           \/ TapUpdate(s) \/ TapCallback(s)
    \/ \E d \in Decisions : AnswerCard(d)
    \/ ReapCheck \/ ReapUpdate
    \/ JobEnds \/ StepOverridden \/ Poll \/ Retire
    \/ Crash

Spec == Init /\ [][Next]_vars

(***************************************************************************)
(* Fairness.  Background tasks and handlers that were started run on, the  *)
(* orchestrator's poller and the Buzz poller, whose listing is the reaper, *)
(* loop for ever.  Nothing is assumed of Leo, of the job or of callbacks.  *)
(***************************************************************************)
Fairness ==
    /\ WF_vars(Review) /\ WF_vars(TaskCallback)
    /\ \A s \in Surfaces : WF_vars(TapUpdate(s)) /\ WF_vars(TapCallback(s))
    /\ WF_vars(ReapCheck) /\ WF_vars(ReapUpdate)
    /\ WF_vars(Poll) /\ WF_vars(Retire)

FairSpec == Spec /\ Fairness

(***************************************************************************)
(* Properties                                                              *)
(***************************************************************************)

\* The orchestrator holds an approval only if Leo gave it or the review of a
\* kind of gate that may be approved without him said so; a reviewer that is
\* unavailable, a crash, the reaper or a race of surfaces never produces one
\* (test_bug18_gate_fail_closed.py, the comments at lines 746-748 and 787-791).
ApprovedByRight ==
    engine = "approved" =>
        \/ "approved" \in leo
        \/ (verdict = "autonomous" /\ kind \in {"devops", "hostops", "wp_probe"})

\* "A live gate is NEVER reaped on a transient blip" (line 531): a gate is orphaned only when its job
\* has ended.
ReapedJobEnded == status = "orphaned" => job \in {"succeeded", "failed_permanent"}

\* Where the council is the only door and its listener takes one answer after
\* another, its record of a gate and the orchestrator's tell the same decision,
\* whether callback or poller brought it, and whatever crashed in between.
OneDecision ==
    (card = "none" /\ status = "resolved" /\ engine \in Decisions) => engine = resolution

\* Leo is not asked for ever about a job that has ended (the 20-hour incident the
\* reaper was written for, lines 526-529).
NagStops ==
    (status = "pending_leo" /\ job \in {"succeeded", "failed_permanent"})
        ~> (status # "pending_leo")

\* A decision in the council's store leaves no gate pending in the orchestrator,
\* although its callback may be lost and the reaper may overwrite it.
DecisionReachesEngine == (status = "resolved") ~> (engine # "pending")

\* What the card promises: "reject to stop the workflow" (line 844).
RejectStops == card = "rejected" => engine # "approved"
=============================================================================
