---------------------------- MODULE EngineStore ----------------------------
(***************************************************************************)
(* The orchestrator's durable store (kai-orchestrator/db.py) and the SQL   *)
(* statements the Engine class (kai-orchestrator/engine.py) issues on it.  *)
(*                                                                         *)
(* One job is modelled with its rows of `steps`, its rows of `gates` and   *)
(* the facts its `events` rows state.  Every operator below is one SQLite  *)
(* transaction.  An Engine method that first SELECTs and later UPDATEs     *)
(* spans two of them: Python's sqlite3 opens the write transaction only at *)
(* the UPDATE, and the UPDATE of _transition_step, of _transition_job and  *)
(* of resolve_gate has no status in its WHERE clause, so other threads run *)
(* between the two.  The modules that call these operators keep them apart.*)
(***************************************************************************)
EXTENDS Integers, FiniteSets

CONSTANTS
    NSteps,      \* number of StepDefs of the workflow class
    GateIds      \* ids council.gate may generate, in order of opening

ASSUME NStepsAssumption == NSteps \in Nat \ {0}
ASSUME GateIdsAssumption == GateIds \subseteq Nat \ {0}

Steps == 1..NSteps

\* engine.py:9; no code path writes "cancelled", so no row ever holds it.
Terminal == {"succeeded", "failed_permanent"}

StepStatus == {"absent", "pending", "running", "awaiting_gate",
               "succeeded", "failed_permanent", "failed_recoverable"}
JobStatus  == {"absent", "queued", "running", "succeeded", "failed_permanent"}
GateStatus == {"absent", "pending", "resolved", "consumed", "orphaned"}

VARIABLES
    job,     \* status column of the job's row
    step,    \* step[s]: status and retry_count of the s-th row, by rowid
    gate,    \* gate[g]: status, step_id and resolution.approved of a gate row
    events   \* facts of the events table, as <<kind, number, what>>

storeVars == <<job, step, gate, events>>

StepRow == [status : StepStatus, retries : Nat]
GateRow == [status : GateStatus, step : 0..NSteps, approved : BOOLEAN]
Event   == {"job", "step", "gate", "override"} \X Nat \X
           (StepStatus \cup JobStatus \cup {"approved", "rejected", "recorded"})

NoStepRow == [status |-> "absent", retries |-> 0]
NoGateRow == [status |-> "absent", step |-> 0, approved |-> FALSE]

StoreTypeOK ==
    /\ job \in JobStatus
    /\ step \in [Steps -> StepRow]
    /\ gate \in [GateIds -> GateRow]
    /\ events \subseteq Event

StoreInit ==
    /\ job = "absent"
    /\ step = [s \in Steps |-> NoStepRow]
    /\ gate = [g \in GateIds |-> NoGateRow]
    /\ events = {}

\* Whether the events table shows that step s was once written with a status.
Logged(s, status) == <<"step", s, status>> \in events

(***************************************************************************)
(* Steps and the job                                                       *)
(***************************************************************************)

CreateJobRow == job' = "queued" /\ UNCHANGED <<step, gate, events>>

CreateStepRow(s) ==
    /\ step' = [step EXCEPT ![s].status = "pending"]
    /\ UNCHANGED <<job, gate, events>>

\* The UPDATE and the event of _transition_step, after its guard was read.
WriteStep(s, status) ==
    /\ step' = [step EXCEPT ![s].status = status]
    /\ events' = events \cup {<<"step", s, status>>}
    /\ UNCHANGED <<job, gate>>

\* The UPDATE and the event of _transition_job, after its guard was read.
WriteJob(status) ==
    /\ job' = status
    /\ events' = events \cup {<<"job", 0, status>>}
    /\ UNCHANGED <<step, gate>>

BumpRetries(s) ==
    /\ step' = [step EXCEPT ![s].retries = @ + 1]
    /\ UNCHANGED <<job, gate, events>>

(***************************************************************************)
(* Gates                                                                   *)
(***************************************************************************)

InsertGate(g, s) ==
    /\ gate' = [gate EXCEPT ![g] = [status |-> "pending", step |-> s,
                                    approved |-> FALSE]]
    /\ UNCHANGED <<job, step, events>>

\* The UPDATE of resolve_gate: whatever the row holds by then, it becomes
\* resolved with this caller's resolution.
WriteResolution(g, approved) ==
    /\ gate' = [gate EXCEPT ![g].status = "resolved", ![g].approved = approved]
    /\ events' = events \cup {<<"gate", g, IF approved THEN "approved" ELSE "rejected">>}
    /\ UNCHANGED <<job, step>>

\* Mutant of ConsumeGate: the approval is checked and left in place.
KeepGate(g) == UNCHANGED storeVars

\* The UPDATE of consume_hostops_gate, whose WHERE repeats status='resolved'.
ConsumeGate(g) ==
    /\ gate' = [gate EXCEPT ![g].status = "consumed"]
    /\ UNCHANGED <<job, step, events>>

\* Mutant of Consumable: any resolution counts as approval.
ConsumableAnyway(g) == gate[g].status = "resolved"

Consumable(g) == gate[g].status = "resolved" /\ gate[g].approved

\* The gate find_resolved_hostops_gate returns for the operation gated by step
\* s: the newest resolved one; whether it was approved is not looked at here.
ResolvedGates(s) == {g \in GateIds : gate[g].status = "resolved" /\ gate[g].step = s}
NewestResolved(s) == {g \in ResolvedGates(s) : \A h \in ResolvedGates(s) : h <= g}

\* Gates list_pending_gates retires, and those it returns for polling.
PendingGates == {g \in GateIds : gate[g].status = "pending"}
Orphans == {g \in PendingGates :
              job \in Terminal \/ step[gate[g].step].status \in Terminal}

RetireOrphans ==
    /\ gate' = [g \in GateIds |->
                  IF g \in Orphans THEN [gate[g] EXCEPT !.status = "orphaned"]
                                   ELSE gate[g]]
    /\ UNCHANGED <<job, step, events>>

RecordOverride(s) ==
    /\ events' = events \cup {<<"override", s, "recorded">>}
    /\ UNCHANGED <<job, step, gate>>
=============================================================================
