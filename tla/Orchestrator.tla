---------------------------- MODULE Orchestrator ----------------------------
(***************************************************************************)
(* The orchestrator process: one job's workflow threads, the gate          *)
(* callbacks, the gate poller and the operator's overrides over the        *)
(* durable store, with the process killed and restarted (main.py startup). *)
(*                                                                         *)
(* Kinds of concurrency that are left to interleave: the statements of two *)
(* resume threads of the job, of a callback and the poller resolving the   *)
(* same gate, of an override and either, and a kill between any two.       *)
(***************************************************************************)
EXTENDS GateResolution

CONSTANT MaxCrashes    \* bound on the number of restarts in a behaviour

ASSUME MaxCrashesAssumption == MaxCrashes \in Nat

VARIABLE crashes

vars == <<storeVars, th, council, ran, hostVars, gateVars, crashes>>

Init ==
    /\ StoreInit /\ ThreadInit /\ HostInit /\ HandlerInit
    /\ crashes = 0

\* Mutant of ResumeInterrupted: only running jobs are picked up.
ResumeRunningOnly ==
    IF job = "running"
    THEN \E t \in Threads : th' = [u \in Threads |-> IF u = t THEN Fresh ELSE Idle]
    ELSE th' = [u \in Threads |-> Idle]

\* _resume_interrupted_jobs at startup: one thread for a job found running or
\* queued.
ResumeInterrupted ==
    IF job \in {"running", "queued"}
    THEN \E t \in Threads : th' = [u \in Threads |-> IF u = t THEN Fresh ELSE Idle]
    ELSE th' = [u \in Threads |-> Idle]

\* The process dies; what is durable, the host and the council remain.  At
\* startup the interrupted job is resumed, then the poller starts.  A callback
\* not yet received may still come.
Restart ==
    /\ crashes < MaxCrashes
    /\ crashes' = crashes + 1
    /\ ResumeInterrupted
    /\ rs' = [r \in Handlers |-> IF r = <<Poller, 0>> THEN NewHandler("idle")
                                 ELSE IF rs[r].pc = "new" THEN rs[r]
                                 ELSE NewHandler("done")]
    /\ todo' = {}
    /\ UNCHANGED <<storeVars, council, ran, hostVars>>

Run(t) == StartJob(t) \/ ThreadStep(t)

Next ==
    \/ \E t \in Threads : \/ Run(t) /\ UNCHANGED <<hostVars, gateVars, crashes>>
                          \/ ExecStep(t) /\ UNCHANGED <<gateVars, crashes>>
    \/ \E g \in GateIds : (Decide(g) \/ PollAnswered(g) \/ PollUnanswered(g)) /\ UNCHANGED crashes
    \/ \E g \in CallbackGates : (Callback(g) \/ LoseCallback(g)) /\ UNCHANGED crashes
    \/ PollCycle /\ UNCHANGED crashes
    \/ \E r \in Handlers : (ResolveStep(r) \/ OverrideCheck(r)) /\ UNCHANGED crashes
    \/ Restart

Spec == Init /\ [][Next]_vars

(***************************************************************************)
(* Fairness.  A started thread runs on (daemon threads of one process under*)
(* the OS scheduler), the poller loops forever, and a council that has     *)
(* decided answers one of its repeated questions.  Nothing is assumed of   *)
(* callbacks, decisions, overrides or restarts.                            *)
(***************************************************************************)
Fairness ==
    /\ \A t \in Threads :
         /\ WF_vars(ThreadStep(t) /\ UNCHANGED <<hostVars, gateVars, crashes>>)
         /\ WF_vars(ExecStep(t) /\ UNCHANGED <<gateVars, crashes>>)
    /\ \A r \in Handlers : WF_vars(ResolveStep(r) /\ UNCHANGED crashes)
    /\ WF_vars(PollCycle /\ UNCHANGED crashes)
    /\ \A g \in GateIds : /\ WF_vars(PollUnanswered(g) /\ UNCHANGED crashes)
                          /\ SF_vars(PollAnswered(g) /\ UNCHANGED crashes)

FairSpec == Spec /\ Fairness

(***************************************************************************)
(* Properties                                                              *)
(***************************************************************************)

TypeOK ==
    /\ StoreTypeOK /\ ThreadTypeOK /\ HostTypeOK /\ HandlerTypeOK
    /\ crashes \in 0..MaxCrashes

\* What the program counters say of the data in hand.
ThreadShape(x) ==
    /\ x.pc \notin {"idle", "start", "snapshot", "final", "jobRead", "jobWrite"}
         => x.at \in Steps
    /\ x.pc \in {"jobRead", "jobWrite"} => x.to \in Terminal
    /\ x.pc \in {"post", "consume", "mutate"} => x.g \in GateIds

HandlerShape(x) ==
    /\ x.pc \in {"check", "update"} => x.g \in GateIds
    /\ x.pc \in {"stepRead", "stepWrite", "record"} => x.step \in Steps
    /\ x.pc = "update" => gate[x.g].status # "absent"

ShapeOK ==
    /\ \A t \in Threads : ThreadShape(th[t])
    /\ \A r \in Handlers : HandlerShape(rs[r])
    /\ \A g \in GateIds : gate[g].status # "absent" => gate[g].step \in Steps

\* A job is rolled up as succeeded only if every one of its step rows was once
\* recorded as succeeded, whatever threads, callbacks, overrides and restarts
\* did in between (resume, workflow_base.py:74-97; the defect of BUG-14).
JobSuccessIsEarned ==
    <<"job", 0, "succeeded">> \in events => \A s \in Existing : Logged(s, "succeeded")

\* Why: before run_workflow has launched its thread nothing else works on the
\* job, so no row is added once a roll-up is possible; ...
QuietStart ==
    /\ job = "absent" => \A s \in Steps : step[s].status = "absent"
    /\ \A t \in Threads :
         (job = "absent" /\ th[t].pc # "idle") \/ th[t].pc \in {"create", "start"} =>
           /\ job = "queued"
           /\ \A u \in Threads \ {t} : th[u].pc = "idle"
    /\ (job = "absent" \/ \E t \in Threads : th[t].pc \in {"create", "start"}) =>
         /\ <<"job", 0, "succeeded">> \notin events
         /\ \A g \in GateIds : council[g] = "unsent"
         /\ \A r \in Handlers : rs[r].pc \in {"new", "idle", "done"}

\* ... every statement about a row, in flight or due, is about a row that is there
\* (an UPDATE never adds one); ...
RowsExist ==
    /\ \A t \in Threads :
         /\ \A s \in Steps : th[t].snap[s].status # "absent" => s \in Existing
         /\ th[t].pc \in {"stepRead", "stepWrite", "execute", "post", "failed", "reread",
                          "consume", "mutate", "audit"} => th[t].at \in Existing
         /\ th[t].pc \in {"stepRead", "stepWrite"} => th[t].to # "absent"
    /\ \A g \in GateIds : gate[g].status # "absent" => gate[g].step \in Existing
    /\ \A r \in Handlers : rs[r].pc \in {"stepRead", "stepWrite"} => rs[r].step \in Existing

\* ... and the step rows, or a thread about to write the roll-up, show as
\* succeeded only what is on record as such.
SuccessOnRecord ==
    /\ \A s \in Steps : step[s].status = "succeeded" => Logged(s, "succeeded")
    /\ \A t \in Threads :
         th[t].pc \in {"jobRead", "jobWrite"} /\ th[t].to = "succeeded" =>
           \A s \in Existing : Logged(s, "succeeded")

\* Every mutation of the host was made on the authority of a gate that some
\* decision approved (hostops_deploy.py:3-4, consume_hostops_gate).
MutationApproved ==
    \A g \in GateIds : mutations[g] > 0 => <<"gate", g, "approved">> \in events

\* Why: an approval bit in a gate row, and a thread about to mutate, both have
\* the approval on record.
ApprovalOnRecord ==
    /\ \A g \in GateIds : gate[g].approved => <<"gate", g, "approved">> \in events
    /\ \A t \in Threads :
         th[t].pc = "mutate" => <<"gate", th[t].g, "approved">> \in events

\* One approval carries at most one mutation (engine.py:222-228, "single-use /
\* replay refused" in hostops_deploy.py:18-19).
SingleUse == \A g \in GateIds : mutations[g] <= 1

\* A step's capability is executed only after every earlier step of the job
\* was recorded as succeeded (the fail-closed chain of workflow_base.py:56-61).
\* It is true of one thread at a time and refuted where two overlap: the late
\* UPDATE of one (engine.py:52) hides a failure from the other's second look.
StepsInOrder ==
    \A t \in Threads : th[t].pc = "execute" =>
        \A s \in Existing : s < th[t].at => Logged(s, "succeeded")

\* The reconciler raises no alarm about a mutation made through the door.
NoFalseAlarm == Unreconciled = {}

\* A gate's mutation is on record, or its step is in the log as one that raised or
\* could not be recorded, or a thread is about to record it.
Recorded(g) ==
    \/ \E row \in audit : row.gate = g
    \/ gate[g].step + 1 \in errorLog
    \/ \E t \in Threads : At(t, "audit") /\ th[t].g = g

\* A second gate of the same operation was consumed as well: the record of a failure,
\* which carries no evidence, names the newer of the two.
Overtaken(g) == \E h \in GateIds \ {g} :
    gate[h].step = gate[g].step /\ gate[h].status = "consumed"

\* No mutation of the host goes untold while the process lives: it has an audit row,
\* or the log names its step in an error that the watchdog reads, or (a failed mutation)
\* its row went to another gate of the operation (_consumed_gate, hostops_audit.py:63-83).
\* The row alone is not certain: "it records every executed mutation"
\* (hostops_audit.py:8-9) fails for a step that raises after the host was changed
\* (workflow_base.py:164-167 records nothing).
RecordedOrLogged ==
    crashes = 0 => \A g \in GateIds : mutations[g] > 0 => Recorded(g) \/ Overtaken(g)

\* The attempts counted for a step never pass its budget, restarts included, and
\* its capability runs once per attempt plus at most once per restart
\* (workflow_base.py:149-162: retry_count is persisted before the retry).
AttemptBudget ==
    \A s \in Steps : /\ step[s].retries <= MaxRetries[s]
                     /\ ran[s] <= step[s].retries + 1 + crashes

\* A job rolled up as succeeded ran the whole workflow: every StepDef has a row
\* and was recorded as succeeded ("a workflow that is killed mid-run resumes
\* from the last verified step on restart", workflow_base.py:13-15).
WholeWorkflowRan ==
    <<"job", 0, "succeeded">> \in events => \A s \in Steps : Logged(s, "succeeded")

\* An override the audit trail records did transition its step to succeeded
\* (override_step, main.py:430-463).
OverrideTakesEffect ==
    \A s \in Steps : <<"override", s, "recorded">> \in events => Logged(s, "succeeded")

\* The gate rows and the host implement single-use approval tokens.
Token == INSTANCE ApprovalToken WITH
    Ids   <- GateIds,
    token <- [g \in GateIds |->
                CASE gate[g].status = "absent"   -> "none"
                  [] gate[g].status = "pending"  -> "requested"
                  [] gate[g].status = "resolved" ->
                       IF gate[g].approved THEN "granted" ELSE "denied"
                  [] gate[g].status = "consumed" -> "spent"
                  [] gate[g].status = "orphaned" -> "withdrawn"],
    used  <- mutations
TokenSpec == Token!Spec

\* A started job does not hang: it becomes terminal, or one of its steps is
\* parked after an exception (only a restart resumes such a job).
Raised == \E s \in Steps : step[s].status = "failed_recoverable"
JobSettles == (job # "absent") ~> (job \in Terminal \/ Raised)

\* A decided gate leaves the pending state although its callback may be lost
\* (the fallback poller, main.py:196-257).
DecisionArrives == \A g \in GateIds : Decided(g) ~> (gate[g].status # "pending")

\* A job paused at a gate goes on once the gate is decided: "the callback will
\* re-trigger resume() when the gate resolves" (workflow_base.py:45-46).
DecisionEndsJob ==
    \A g \in GateIds : Decided(g) ~> (job \in Terminal \/ Raised)
=============================================================================
