---------------------------- MODULE ResumeThread ----------------------------
(***************************************************************************)
(* Workflow.start, Workflow.resume and Workflow._run_step                  *)
(* (kai-orchestrator/workflow_base.py) as run by the threads that          *)
(* main.py launches, with the council.gate capability                      *)
(* (kai-orchestrator/capabilities/council.py) that approval steps execute. *)
(*                                                                         *)
(* main.py starts one thread per run_workflow call, per resolved gate, per *)
(* override and per interrupted job at startup, and nothing stops two of   *)
(* them from working on the same job; each works from the step rows it     *)
(* read when it started.  A thread's program counter moves between SQL     *)
(* transactions and external calls; computation in between is folded into  *)
(* the step before it.                                                     *)
(***************************************************************************)
EXTENDS EngineStore

CONSTANTS
    Kind,        \* Kind[s]: "auto", "gate" or "exec" (see HostopsExec)
    MaxRetries,  \* StepDef.max_retries of step s
    Threads      \* identities of the threads alive at the same time

ASSUME KindAssumption == Kind \in [Steps -> {"auto", "gate", "exec"}]
ASSUME MaxRetriesAssumption == MaxRetries \in [Steps -> Nat]

VARIABLES
    th,       \* th[t]: the state of thread t
    council,  \* council[g]: what the council knows and has decided of gate g
    ran       \* ran[s]: how often the capability of step s has been executed

PC == {"idle", "create", "start", "snapshot", "stepRead", "stepWrite",
       "execute", "post", "failed", "reread", "final", "jobRead", "jobWrite",
       "consume", "mutate", "audit"}

ThreadState ==
    [pc    : PC,
     at    : Nat,                 \* row of the for loop
     snap  : [Steps -> StepRow],  \* rows as resume() read them
     retry : Nat,                 \* step["retry_count"] of the dict in hand
     to    : StepStatus,          \* new_status of the transition in progress
     g     : GateIds \cup {0}]    \* gate_id in hand

Idle == [pc |-> "idle", at |-> 0, snap |-> [s \in Steps |-> NoStepRow],
         retry |-> 0, to |-> "absent", g |-> 0]

CouncilStatus == {"unsent", "open", "approved", "rejected"}

ThreadTypeOK ==
    /\ th \in [Threads -> ThreadState]
    /\ council \in [GateIds -> CouncilStatus]
    /\ ran \in [Steps -> Nat]

ThreadInit ==
    /\ th = [t \in Threads |-> Idle]
    /\ council = [g \in GateIds |-> "unsent"]
    /\ ran = [s \in Steps |-> 0]

Go(t, state) == th' = [th EXCEPT ![t] = state]
At(t, pc)    == th[t].pc = pc

\* A thread handed to threading.Thread(...).start(), about to enter resume().
Fresh == [Idle EXCEPT !.pc = "snapshot"]

(***************************************************************************)
(* run_workflow: Workflow.start in the request handler, then the thread    *)
(***************************************************************************)

StartJob(t) ==
    /\ job = "absent" /\ At(t, "idle")
    /\ CreateJobRow
    /\ Go(t, [Idle EXCEPT !.pc = "create", !.at = 1])
    /\ UNCHANGED <<council, ran>>

StartStep(t) ==
    /\ At(t, "create")
    /\ CreateStepRow(th[t].at)
    /\ Go(t, IF th[t].at < NSteps THEN [th[t] EXCEPT !.at = @ + 1]
                                  ELSE [Idle EXCEPT !.pc = "start"])
    /\ UNCHANGED <<council, ran>>

\* transition("job", "running"); its guard cannot fail, the id is not known yet.
StartRunning(t) ==
    /\ At(t, "start")
    /\ WriteJob("running")
    /\ Go(t, Fresh)
    /\ UNCHANGED <<council, ran>>

(***************************************************************************)
(* resume(): the loop over the snapshot                                    *)
(***************************************************************************)

\* The first row from i on that the loop does not skip, as a set of at most one.
Unfinished(snap, i) ==
    {s \in Steps : s >= i /\ snap[s].status \notin {"succeeded", "absent"}}
NextRow(snap, i) ==
    {s \in Unfinished(snap, i) : \A u \in Unfinished(snap, i) : s <= u}

\* What the loop does at that row, by the status the snapshot shows.
Visit(state, s) ==
    CASE state.snap[s].status = "awaiting_gate" -> Idle
      [] state.snap[s].status = "failed_permanent" ->
           [state EXCEPT !.pc = "jobRead", !.at = s, !.to = "failed_permanent"]
      [] OTHER ->
           [state EXCEPT !.pc = "stepRead", !.at = s, !.to = "running",
                         !.retry = state.snap[s].retries]

Advance(t, state, i) ==
    \/ /\ Unfinished(state.snap, i) = {}
       /\ Go(t, [state EXCEPT !.pc = "final", !.at = 0])
    \/ \E s \in NextRow(state.snap, i) : Go(t, Visit(state, s))

ResumeSnapshot(t) ==
    /\ At(t, "snapshot")
    /\ Advance(t, [th[t] EXCEPT !.snap = step], 1)
    /\ UNCHANGED <<storeVars, council, ran>>

\* Mutant of ResumeReread: the row is not read again (the defect of job 6af6c143).
ResumeBlindly(t) ==
    /\ At(t, "reread")
    /\ Advance(t, th[t], th[t].at + 1)
    /\ UNCHANGED <<storeVars, council, ran>>

\* After _run_step returned True: the row's authoritative status is re-read.
ResumeReread(t) ==
    /\ At(t, "reread")
    /\ IF step[th[t].at].status = "failed_permanent"
       THEN Go(t, [th[t] EXCEPT !.pc = "jobRead", !.to = "failed_permanent"])
       ELSE Advance(t, th[t], th[t].at + 1)
    /\ UNCHANGED <<storeVars, council, ran>>

\* After the loop: all rows are re-read and rolled up.
Existing == {s \in Steps : step[s].status # "absent"}
\* Mutant of RollUp: rows that neither failed nor succeeded are not looked at.
RollUpFailuresOnly ==
    IF \E s \in Existing : step[s].status = "failed_permanent" THEN "failed_permanent"
    ELSE "succeeded"

RollUp ==
    IF \E s \in Existing : step[s].status = "failed_permanent" THEN "failed_permanent"
    ELSE IF \A s \in Existing : step[s].status = "succeeded" THEN "succeeded"
    ELSE "absent"

ResumeFinal(t) ==
    /\ At(t, "final")
    /\ Go(t, IF RollUp = "absent" THEN Idle
             ELSE [th[t] EXCEPT !.pc = "jobRead", !.to = RollUp])
    /\ UNCHANGED <<storeVars, council, ran>>

(***************************************************************************)
(* Transitions: a read that stops at a terminal row, then a write          *)
(***************************************************************************)

\* What _run_step does once transition() has returned, True or False alike.
AfterTransition(state) ==
    CASE state.to = "running" -> [state EXCEPT !.pc = "execute"]
      [] state.to = "pending" -> [state EXCEPT !.pc = "stepRead", !.to = "running"]
      [] state.to \in {"succeeded", "failed_permanent"} -> [state EXCEPT !.pc = "reread"]
      [] OTHER -> Idle   \* awaiting_gate pauses, failed_recoverable re-raises

StepTransitionRead(t) ==
    /\ At(t, "stepRead")
    /\ Go(t, IF step[th[t].at].status \in Terminal THEN AfterTransition(th[t])
             ELSE [th[t] EXCEPT !.pc = "stepWrite"])
    /\ UNCHANGED <<storeVars, council, ran>>

StepTransitionWrite(t) ==
    /\ At(t, "stepWrite")
    /\ WriteStep(th[t].at, th[t].to)
    /\ Go(t, AfterTransition(th[t]))
    /\ UNCHANGED <<council, ran>>

JobTransitionRead(t) ==
    /\ At(t, "jobRead")
    /\ Go(t, IF job \in Terminal THEN Idle ELSE [th[t] EXCEPT !.pc = "jobWrite"])
    /\ UNCHANGED <<storeVars, council, ran>>

JobTransitionWrite(t) ==
    /\ At(t, "jobWrite")
    /\ WriteJob(th[t].to)
    /\ Go(t, Idle)
    /\ UNCHANGED <<council, ran>>

(***************************************************************************)
(* _run_step: executing the capability                                     *)
(***************************************************************************)

CountRun(t) == ran' = [ran EXCEPT ![th[t].at] = @ + 1]
Transition(t, status) == [th[t] EXCEPT !.pc = "stepRead", !.to = status, !.g = 0]

\* An ordinary capability succeeds, reports failure, or raises (a success
\* without the verification the engine requires raises as well).
ExecuteAuto(t) ==
    /\ At(t, "execute") /\ Kind[th[t].at] = "auto"
    /\ \/ Go(t, Transition(t, "succeeded"))
       \/ Go(t, [th[t] EXCEPT !.pc = "failed"])
       \/ Go(t, Transition(t, "failed_recoverable"))
    /\ CountRun(t)
    /\ UNCHANGED <<storeVars, council>>

\* council.gate persists a fresh gate before it calls the council.
OpenGate(t) ==
    /\ At(t, "execute") /\ Kind[th[t].at] = "gate"
    /\ \E g \in GateIds :
         /\ gate[g].status = "absent"
         /\ \A h \in GateIds : h < g => gate[h].status # "absent"
         /\ InsertGate(g, th[t].at)
         /\ Go(t, [th[t] EXCEPT !.pc = "post", !.g = g])
    /\ CountRun(t)
    /\ UNCHANGED council

\* POST /council/gate is answered, refused, or accepted with the answer lost.
PostGate(t) ==
    /\ At(t, "post")
    /\ \/ /\ council' = [council EXCEPT ![th[t].g] = "open"]
          /\ \/ Go(t, Transition(t, "awaiting_gate"))
             \/ Go(t, [th[t] EXCEPT !.pc = "failed", !.g = 0])
       \/ /\ UNCHANGED council
          /\ Go(t, [th[t] EXCEPT !.pc = "failed", !.g = 0])
    /\ UNCHANGED <<storeVars, ran>>

\* Mutant of RetryOrFail: the attempt is compared with <= instead of <.
RetryOnceMore(t) ==
    /\ At(t, "failed")
    /\ IF th[t].retry <= MaxRetries[th[t].at]
       THEN /\ BumpRetries(th[t].at)
            /\ Go(t, [Transition(t, "pending") EXCEPT !.retry = @ + 1])
       ELSE /\ UNCHANGED storeVars
            /\ Go(t, Transition(t, "failed_permanent"))
    /\ UNCHANGED <<council, ran>>

\* A result that is not ok: count the attempt and retry, or fail for good.
RetryOrFail(t) ==
    /\ At(t, "failed")
    /\ IF th[t].retry < MaxRetries[th[t].at]
       THEN /\ BumpRetries(th[t].at)
            /\ Go(t, [Transition(t, "pending") EXCEPT !.retry = @ + 1])
       ELSE /\ UNCHANGED storeVars
            /\ Go(t, Transition(t, "failed_permanent"))
    /\ UNCHANGED <<council, ran>>

ThreadStep(t) ==
    \/ StartStep(t) \/ StartRunning(t)
    \/ ResumeSnapshot(t) \/ ResumeReread(t) \/ ResumeFinal(t)
    \/ StepTransitionRead(t) \/ StepTransitionWrite(t)
    \/ JobTransitionRead(t) \/ JobTransitionWrite(t)
    \/ ExecuteAuto(t) \/ OpenGate(t) \/ PostGate(t) \/ RetryOrFail(t)
=============================================================================
