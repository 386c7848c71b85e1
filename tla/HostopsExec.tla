---------------------------- MODULE HostopsExec ----------------------------
(***************************************************************************)
(* The exec steps of the hostops.deploy workflow                           *)
(* (kai-orchestrator/workflows/hostops_deploy.py, capabilities/hostops.py) *)
(* and the audit record _run_step writes for them (hostops_audit.py).      *)
(*                                                                         *)
(* An exec step s follows its gate step s - 1.  It looks up a resolved gate*)
(* of the job, consumes it, mutates the host, and _run_step then records   *)
(* the mutation before the step's own transition.  These are four separate *)
(* transactions or calls.  The policy is the one under which a gate is     *)
(* required; the autonomous branch of deploy_plugin is not modelled.  A    *)
(* gate or exec step whose operation the job did not request is skipped:   *)
(* such a step is of Kind "auto".                                          *)
(***************************************************************************)
EXTENDS ResumeThread

ASSUME ExecFollowsGate ==
    \A s \in Steps : Kind[s] = "exec" => /\ s - 1 \in Steps
                                         /\ Kind[s - 1] = "gate"
                                         /\ MaxRetries[s] = 0

VARIABLES
    mutations,  \* mutations[g]: host mutations executed on the authority of g
    audit,      \* rows of hostops_audit: step, gate_id (0 is NULL) and outcome
    errorLog    \* exec steps of which the log says that they raised, or that an
                \* audit write failed

hostVars == <<mutations, audit, errorLog>>

AuditRow == [step : Steps, gate : GateIds \cup {0}, ok : BOOLEAN]

HostTypeOK ==
    /\ mutations \in [GateIds -> Nat]
    /\ audit \subseteq AuditRow
    /\ errorLog \subseteq Steps

HostInit ==
    /\ mutations = [g \in GateIds |-> 0]
    /\ audit = {}
    /\ errorLog = {}

\* An audit row is due: the outcome is kept in the thread's `to`.
AuditDue(t, ok) ==
    [th[t] EXCEPT !.pc = "audit", !.to = IF ok THEN "succeeded" ELSE "failed_permanent"]

\* The gate_id of the audit row of a failure, which carries no evidence: the
\* newest consumed gate of the operation, or NULL.
ConsumedGates(s) == {g \in GateIds : gate[g].status = "consumed" /\ gate[g].step = s}
RecoveredGate(s) ==
    IF ConsumedGates(s) = {} THEN {0}
    ELSE {g \in ConsumedGates(s) : \A h \in ConsumedGates(s) : h <= g}

\* find_resolved_hostops_gate: without a gate the step fails (gate_required).
\* With one, place_secret first resolves its payload, which may be unavailable,
\* and the capability may refuse its arguments; the refusal is not audited.
FindGate(t) ==
    /\ At(t, "execute") /\ Kind[th[t].at] = "exec"
    /\ \/ Go(t, [th[t] EXCEPT !.pc = "failed"])
       \/ \E g \in NewestResolved(th[t].at - 1) :
            \/ Go(t, [th[t] EXCEPT !.pc = "consume", !.g = g])
            \/ Go(t, AuditDue(t, FALSE))
    /\ CountRun(t)
    /\ UNCHANGED <<storeVars, council, hostVars>>

\* consume_hostops_gate, or a refusal that executes and audits nothing.
Consume(t) ==
    /\ At(t, "consume")
    /\ IF Consumable(th[t].g)
       THEN /\ ConsumeGate(th[t].g)
            /\ Go(t, [th[t] EXCEPT !.pc = "mutate"])
       ELSE /\ UNCHANGED storeVars
            /\ Go(t, [th[t] EXCEPT !.pc = "failed", !.g = 0])
    /\ UNCHANGED <<council, ran, hostVars>>

\* The host call: it may take effect or not before it fails.  An error that the
\* capability does not catch (its answer, or the secret, cannot be decoded) leaves
\* _run_step by its except clause: it is logged and the step is parked, unaudited.
Mutate(t) ==
    /\ At(t, "mutate")
    /\ \E effect \in BOOLEAN :
         /\ mutations' = IF effect THEN [mutations EXCEPT ![th[t].g] = @ + 1]
                                   ELSE mutations
         /\ \/ /\ \E ok \in BOOLEAN : (ok => effect) /\ Go(t, AuditDue(t, ok))
               /\ UNCHANGED errorLog
            \/ /\ Go(t, Transition(t, "failed_recoverable"))
               /\ errorLog' = errorLog \cup {th[t].at}
    /\ UNCHANGED <<storeVars, council, ran, audit>>

\* Mutant of RecordMutation: only successes are put on record.
RecordSuccess(t) ==
    LET ok == th[t].to = "succeeded"
    IN /\ At(t, "audit")
       /\ audit' = IF ok THEN audit \cup {[step |-> th[t].at, gate |-> th[t].g, ok |-> TRUE]}
                         ELSE audit
       /\ Go(t, IF ok THEN Transition(t, "succeeded")
                      ELSE [th[t] EXCEPT !.pc = "failed", !.g = 0])
       /\ UNCHANGED <<storeVars, council, ran, mutations, errorLog>>

\* record_mutation; an error while writing is logged and never fails the step.
RecordMutation(t) ==
    LET ok == th[t].to = "succeeded"
    IN /\ At(t, "audit")
       /\ \/ /\ \E g \in IF ok THEN {th[t].g} ELSE RecoveredGate(th[t].at - 1) :
                  audit' = audit \cup {[step |-> th[t].at, gate |-> g, ok |-> ok]}
             /\ UNCHANGED errorLog
          \/ /\ errorLog' = errorLog \cup {th[t].at}
             /\ UNCHANGED audit
       /\ Go(t, IF ok THEN Transition(t, "succeeded")
                      ELSE [th[t] EXCEPT !.pc = "failed", !.g = 0])
       /\ UNCHANGED <<storeVars, council, ran, mutations>>

ExecStep(t) == FindGate(t) \/ Consume(t) \/ Mutate(t) \/ RecordMutation(t)

(***************************************************************************)
(* reconcile(): the audit rows not accounted for by a consumed gate.  A row*)
(* without a gate_id was recorded as authorization "autonomous" and is     *)
(* accepted.                                                               *)
(***************************************************************************)
Accounted(row) ==
    row.gate # 0 => /\ gate[row.gate].status = "consumed"
                    /\ gate[row.gate].step = row.step - 1

Unreconciled == {row \in audit : ~Accounted(row)}
=============================================================================
