--------------------------- MODULE GateResolution ---------------------------
(***************************************************************************)
(* How a decision reaches the engine (kai-orchestrator/main.py): the       *)
(* council's callback, the fallback poller, and the operator's override of *)
(* a step.  Each runs in a thread of its own: `cb[g]` is the request       *)
(* handler of gate g's callback, `poller` the one gate-poller thread and   *)
(* `ov[o]` the handler of override request o.                              *)
(*                                                                         *)
(* The council is seen as this side sees it: it knows a gate once the POST *)
(* arrived, decides it once, and sends one callback, which may be lost     *)
(* (_fire_callback logs an error and never retries).                       *)
(***************************************************************************)
EXTENDS HostopsExec

CONSTANTS
    CallbackGates,  \* gates whose callback the council can deliver
    Overrides,      \* override requests the operator may send
    LateDecisions   \* TRUE: a gate is decided only after its step has paused

ASSUME CallbackGatesAssumption == CallbackGates \subseteq GateIds
ASSUME LateDecisionsAssumption == LateDecisions \in BOOLEAN

Poller == "poller"
Callbacks == {<<"callback", g>> : g \in CallbackGates}
OverrideCalls == {<<"override", o>> : o \in Overrides}
Handlers == Callbacks \cup OverrideCalls \cup {<<Poller, 0>>}

VARIABLES
    rs,      \* rs[r]: the state of handler r
    todo     \* the gates the poller still has to ask about in this cycle

gateVars == <<rs, todo>>

HandlerPC == {"new", "idle", "check", "update", "stepRead", "stepWrite",
              "record", "spawn", "done"}

HandlerState ==
    [pc   : HandlerPC,
     g    : GateIds \cup {0},    \* gate being resolved; 0 for an override
     yes  : BOOLEAN,             \* resolution.get("approved")
     step : 0..NSteps]           \* step to transition

NewHandler(pc) == [pc |-> pc, g |-> 0, yes |-> FALSE, step |-> 0]

HandlerTypeOK ==
    /\ rs \in [Handlers -> HandlerState]
    /\ todo \subseteq GateIds

HandlerInit ==
    /\ rs = [r \in Handlers |-> IF r = <<Poller, 0>> THEN NewHandler("idle")
                                                    ELSE NewHandler("new")]
    /\ todo = {}

Set(r, state) == rs' = [rs EXCEPT ![r] = state]
In(r, pc)     == rs[r].pc = pc

\* Where a handler ends: the poller goes on with its cycle.
Finished(r) == NewHandler(IF r = <<Poller, 0>> THEN "idle" ELSE "done")

(***************************************************************************)
(* The council and the two ways its decision arrives                       *)
(***************************************************************************)

Decide(g) ==
    /\ council[g] = "open"
    /\ LateDecisions => step[gate[g].step].status \in Terminal \cup {"awaiting_gate"}
    /\ \E d \in {"approved", "rejected"} : council' = [council EXCEPT ![g] = d]
    /\ UNCHANGED <<storeVars, th, ran, hostVars, gateVars>>

Decided(g) == council[g] \in {"approved", "rejected"}
Resolving(g) == [pc |-> "check", g |-> g, yes |-> council[g] = "approved", step |-> 0]

\* POST /gates/{id}/resolve arrives, or never does.
Callback(g) ==
    /\ In(<<"callback", g>>, "new") /\ Decided(g)
    /\ Set(<<"callback", g>>, Resolving(g))
    /\ UNCHANGED <<storeVars, th, council, ran, hostVars, todo>>

LoseCallback(g) ==
    /\ In(<<"callback", g>>, "new") /\ Decided(g)
    /\ Set(<<"callback", g>>, NewHandler("done"))
    /\ UNCHANGED <<storeVars, th, council, ran, hostVars, todo>>

\* list_pending_gates: orphans are retired, the others are polled in turn.
PollCycle ==
    /\ In(<<Poller, 0>>, "idle") /\ todo = {}
    /\ RetireOrphans
    /\ todo' = PendingGates \ Orphans
    /\ UNCHANGED <<th, council, ran, hostVars, rs>>

\* GET /council/gate/{id}/state for the next gate of the cycle.
PollNext(g) ==
    /\ In(<<Poller, 0>>, "idle") /\ g \in todo
    /\ \A h \in todo : g <= h
    /\ todo' = todo \ {g}
    /\ UNCHANGED <<storeVars, th, council, ran, hostVars>>

PollAnswered(g) ==
    /\ Decided(g)
    /\ PollNext(g)
    /\ Set(<<Poller, 0>>, Resolving(g))

\* No answer, 404, or a gate the council is still working on: left for later.
PollUnanswered(g) == PollNext(g) /\ UNCHANGED rs

(***************************************************************************)
(* Engine.resolve_gate, then _trigger_resume                               *)
(***************************************************************************)

\* The SELECT: a gate that is not pending is refused and nothing is resumed.
ResolveCheck(r) ==
    /\ In(r, "check")
    /\ Set(r, IF gate[rs[r].g].status = "pending" THEN [rs[r] EXCEPT !.pc = "update"]
                                                 ELSE Finished(r))
    /\ UNCHANGED <<storeVars, th, council, ran, hostVars, todo>>

ResolveUpdate(r) ==
    /\ In(r, "update")
    /\ WriteResolution(rs[r].g, rs[r].yes)
    /\ Set(r, [rs[r] EXCEPT !.pc = "stepRead", !.step = gate[rs[r].g].step])
    /\ UNCHANGED <<th, council, ran, hostVars, todo>>

\* The waiting step's transition, in a transaction of its own.
Resolved(r) == [rs[r] EXCEPT !.pc = IF rs[r].g = 0 THEN "record" ELSE "spawn"]

HandlerStepRead(r) ==
    /\ In(r, "stepRead")
    /\ Set(r, IF step[rs[r].step].status \in Terminal THEN Resolved(r)
              ELSE [rs[r] EXCEPT !.pc = "stepWrite"])
    /\ UNCHANGED <<storeVars, th, council, ran, hostVars, todo>>

HandlerStepWrite(r) ==
    /\ In(r, "stepWrite")
    /\ WriteStep(rs[r].step, IF rs[r].yes THEN "succeeded" ELSE "failed_permanent")
    /\ Set(r, Resolved(r))
    /\ UNCHANGED <<th, council, ran, hostVars, todo>>

\* Mutant of TriggerResume: the decision is stored and nobody resumes the job.
ResolveOnly(r) ==
    /\ In(r, "spawn")
    /\ Set(r, Finished(r))
    /\ UNCHANGED <<storeVars, th, council, ran, hostVars, todo>>

\* _trigger_resume; the new thread may take any time to be scheduled.
TriggerResume(r) ==
    /\ In(r, "spawn")
    /\ \E t \in Threads : At(t, "idle") /\ Go(t, Fresh)
    /\ Set(r, Finished(r))
    /\ UNCHANGED <<storeVars, council, ran, hostVars, todo>>

(***************************************************************************)
(* POST /jobs/{id}/steps/{id}/override                                     *)
(***************************************************************************)

\* The 404 and the 409; a failed_permanent step passes.  The operator acts on a
\* job whose start has returned its id.
OverrideCheck(r) ==
    /\ r \in OverrideCalls /\ In(r, "new")
    /\ \A t \in Threads : th[t].pc \notin {"create", "start"}
    /\ \E s \in Existing :
         /\ step[s].status # "succeeded"
         /\ Set(r, [NewHandler("stepRead") EXCEPT !.yes = TRUE, !.step = s])
    /\ UNCHANGED <<storeVars, th, council, ran, hostVars, todo>>

\* record_override: the transition's result is not looked at.
OverrideRecord(r) ==
    /\ In(r, "record")
    /\ RecordOverride(rs[r].step)
    /\ Set(r, [rs[r] EXCEPT !.pc = "spawn"])
    /\ UNCHANGED <<th, council, ran, hostVars, todo>>

ResolveStep(r) == ResolveCheck(r) \/ ResolveUpdate(r) \/ HandlerStepRead(r)
                  \/ HandlerStepWrite(r) \/ TriggerResume(r) \/ OverrideRecord(r)
=============================================================================
