---------------------------- MODULE Provisioning ----------------------------
(***************************************************************************)
(* The authorized move of a secret to another node: the entry point        *)
(* (security/provision_run.py), the capability that composes policy, gate, *)
(* source, transport and audit (security/provision_capability.py), and the *)
(* gate's client of the mode-lock store (security/provision_gate.py).      *)
(*                                                                         *)
(* Policy, the tailnet guard, the secret file and the transport are        *)
(* modelled by their verdicts: each may say yes or no.                     *)
(***************************************************************************)
EXTENDS ModeLock

VARIABLES
    deadline,  \* deadline[a]: when the gate stops waiting
    moved,     \* attempts whose secret bytes may be on the node
    verdict,   \* verdict[a]: what the transport returned
    outcome,   \* outcome[a]: status of the result printed for a
    audit      \* records of the audit file, as <<attempt, outcome>>

provVars == <<deadline, moved, verdict, outcome, audit>>
provisioningVars == <<lockVars, clientVars, provVars>>

ClientPC == {"idle", "new", "asking", "told", "polling", "granted", "refused",
             "moving", "moved", "ended", "killed"}
\* provision_audit._OUTCOMES
Outcome == {"denied_policy", "denied_gate", "denied_unavailable", "errored",
            "succeeded", "failed"}
\* The entry point's own refusals leave no record.
Refusal == {"refused_unenrolled", "refused_no_transport_config"}

ProvTypeOK ==
    /\ LockTypeOK
    /\ pc \in [Clients -> ClientPC]
    /\ deadline \in [Clients -> 0..MaxTime]
    /\ moved \subseteq Clients
    /\ verdict \in [Clients -> {"none", "verified", "unverified"}]
    /\ outcome \in [Clients -> {"none", "ok"} \cup Outcome \cup Refusal]
    /\ audit \subseteq Clients \X Outcome

ProvInit ==
    /\ LockInit
    /\ pc = [c \in Clients |-> "idle"]
    /\ deadline = [a \in Clients |-> 0]
    /\ moved = {}
    /\ verdict = [a \in Clients |-> "none"]
    /\ outcome = [a \in Clients |-> "none"]
    /\ audit = {}

-----------------------------------------------------------------------------
Goto(c, p) == pc' = [pc EXCEPT ![c] = p]

\* _emit: the record may or may not reach the disk; that does not stop the caller,
\* who learns which.
Emit(a, what, persisted) == audit' = IF persisted THEN audit \cup {<<a, what>>} ELSE audit

\* run: the enrollment gate and the transport map, before anything is asked.
Refuse(a) ==
    /\ pc[a] = "idle"
    /\ \E r \in Refusal : outcome' = [outcome EXCEPT ![a] = r]
    /\ Goto(a, "ended")
    /\ UNCHANGED <<lockVars, inbox, deadline, moved, verdict, audit>>

\* authorize_provision says no to the name or the node, or something raises.
PolicyDenies(a) ==
    /\ pc[a] = "idle"
    /\ \E p \in BOOLEAN, what \in {"denied_policy", "errored"} :
         Emit(a, what, p) /\ outcome' = [outcome EXCEPT ![a] = what]
    /\ Goto(a, "ended")
    /\ UNCHANGED <<lockVars, inbox, deadline, moved, verdict>>
PolicyAllows(a) ==
    /\ pc[a] = "idle"
    /\ Goto(a, "new")
    /\ UNCHANGED <<lockVars, inbox, provVars>>

-----------------------------------------------------------------------------
(* request_approval of the gate: one POST, then polls until the deadline     *)

AsksToMove(t, c, surface) ==
    /\ pc[c] = "new"
    /\ now + RequestTTL <= MaxTime   \* bound: a request can run out within the clock
    /\ RequestApproval(t, c, surface)
    /\ Goto(c, "asking")
    /\ UNCHANGED <<inbox, provVars>>

\* The POST raises, or its response does not come in time: the request may be stored.
AskFails(c) ==
    /\ pc[c] \in {"new", "asking"} /\ inbox[c] = "none"
    /\ Goto(c, "refused")
    /\ op' = [t \in Threads |-> IF op[t] # Idle /\ op[t].rid = {c} /\ op[t].kind # "tap"
                                THEN [op[t] EXCEPT !.live = FALSE] ELSE op[t]]
    /\ UNCHANGED <<now, store, buzz, known, taps, inbox, provVars>>

\* Bound: the deadline is not past the end of the clock.
Deadline == IF now + RequestTTL < MaxTime THEN now + RequestTTL ELSE MaxTime

\* A session that answers at once is no fresh tap.
HearsAsked(c) ==
    /\ pc[c] = "asking" /\ inbox[c] # "none"
    /\ Goto(c, IF inbox[c] = "approved_session" THEN "refused" ELSE "told")
    /\ inbox' = [inbox EXCEPT ![c] = "none"]
    /\ deadline' = [deadline EXCEPT ![c] = Deadline]
    /\ UNCHANGED <<lockVars, moved, verdict, outcome, audit>>

Polls(t, c) ==
    /\ pc[c] = "told"
    /\ ApprovalStatus(t, c)
    /\ Goto(c, "polling")
    /\ UNCHANGED <<inbox, provVars>>

\* Mutant of PollVerdict: a session grant counts as an approval.
PollVerdictLax(c, status) ==
    CASE status \in {"approved_once", "approved_session"} -> "granted"
      [] status \in {"denied", "expired", "consumed"} -> "refused"
      [] now >= deadline[c] -> "refused"
      [] OTHER -> "told"

\* Only approved_once authorizes a move; an unknown status is waited out.
PollVerdict(c, status) ==
    CASE status = "approved_once" -> "granted"
      [] status \in {"denied", "expired", "consumed", "approved_session"} -> "refused"
      [] now >= deadline[c] -> "refused"
      [] OTHER -> "told"

HearsPolled(c) ==
    /\ pc[c] = "polling" /\ inbox[c] # "none"
    /\ Goto(c, PollVerdict(c, inbox[c]))
    /\ inbox' = [inbox EXCEPT ![c] = "none"]
    /\ UNCHANGED <<lockVars, provVars>>

\* A poll that raises, before or after it reached the store, counts as no status.
PollFails(c) ==
    /\ pc[c] \in {"told", "polling"} /\ inbox[c] = "none"
    /\ Goto(c, PollVerdict(c, "error"))
    /\ op' = [t \in Threads |-> IF op[t] # Idle /\ op[t].rid = {c} /\ op[t].kind = "poll"
                                THEN [op[t] EXCEPT !.live = FALSE] ELSE op[t]]
    /\ UNCHANGED <<now, store, buzz, known, taps, inbox, provVars>>

-----------------------------------------------------------------------------
(* provision_secret after the gate                                          *)

GateDenied(a) ==
    /\ pc[a] = "refused"
    /\ outcome' = [outcome EXCEPT ![a] = "denied_gate"]
    /\ \E p \in BOOLEAN : Emit(a, "denied_gate", p)
    /\ Goto(a, "ended")
    /\ UNCHANGED <<lockVars, inbox, deadline, moved, verdict>>

SecretMissing(a) ==
    /\ pc[a] = "granted"
    /\ outcome' = [outcome EXCEPT ![a] = "denied_unavailable"]
    /\ \E p \in BOOLEAN : Emit(a, "denied_unavailable", p)
    /\ Goto(a, "ended")
    /\ UNCHANGED <<lockVars, inbox, deadline, moved, verdict>>
SecretRead(a) ==
    /\ pc[a] = "granted"
    /\ Goto(a, "moving")
    /\ UNCHANGED <<lockVars, inbox, provVars>>

\* The transport installs the bytes and says so, or fails with the bytes
\* installed or not (a timeout after the remote rename).
Transport(a) ==
    /\ pc[a] = "moving"
    /\ \E v \in {"verified", "unverified"}, installed \in BOOLEAN :
         /\ v = "verified" => installed
         /\ verdict' = [verdict EXCEPT ![a] = v]
         /\ moved' = IF installed THEN moved \cup {a} ELSE moved
    /\ Goto(a, "moved")
    /\ UNCHANGED <<lockVars, inbox, deadline, outcome, audit>>

\* Mutant of Record: a move whose record was not written is still a success.
RecordLax(a) ==
    /\ pc[a] = "moved"
    /\ \E p \in BOOLEAN :
         /\ Emit(a, IF verdict[a] = "verified" THEN "succeeded" ELSE "failed", p)
         /\ outcome' = [outcome EXCEPT ![a] = IF verdict[a] = "verified" THEN "ok" ELSE "failed"]
    /\ Goto(a, "ended")
    /\ UNCHANGED <<lockVars, inbox, deadline, moved, verdict>>

\* A verified move that could not be recorded is reported as failed.
Record(a) ==
    /\ pc[a] = "moved"
    /\ \E p \in BOOLEAN :
         /\ Emit(a, IF verdict[a] = "verified" THEN "succeeded" ELSE "failed", p)
         /\ outcome' = [outcome EXCEPT ![a] =
                          IF verdict[a] = "verified" /\ p THEN "ok" ELSE "failed"]
    /\ Goto(a, "ended")
    /\ UNCHANGED <<lockVars, inbox, deadline, moved, verdict>>

\* The process of an attempt is killed.
Killed(a) ==
    /\ pc[a] \in {"told", "polling", "granted", "moving", "moved"}
    /\ Goto(a, "killed")
    /\ UNCHANGED <<lockVars, inbox, provVars>>

-----------------------------------------------------------------------------
Client(c) ==
    \/ AskFails(c) \/ HearsAsked(c) \/ HearsPolled(c) \/ PollFails(c)
    \/ \E t \in Threads : Polls(t, c)
Capability(a) ==
    \/ Refuse(a) \/ PolicyDenies(a) \/ PolicyAllows(a) \/ GateDenied(a)
    \/ SecretMissing(a) \/ SecretRead(a) \/ Transport(a) \/ Record(a)

ProvNext ==
    \/ \E t \in Threads : (Commit(t) \/ Arrival(t)) /\ UNCHANGED provVars
    \/ (Tick \/ BuzzDies) /\ UNCHANGED provVars
    \/ \E t \in Threads, c \in Clients : \E s \in {"present", "telegram"} : AsksToMove(t, c, s)
    \/ \E c \in Clients : Client(c)
    \/ \E a \in Clients : Capability(a) \/ Killed(a)

\* The pool's threads run, the clock and the client's loop go on; nothing is
\* assumed of Leo, of the sweep or of a route's arrival.
ProvFairness ==
    /\ WF_provisioningVars(Tick /\ UNCHANGED provVars)
    /\ \A t \in Threads : WF_provisioningVars(Commit(t) /\ UNCHANGED provVars)
    /\ \A c \in Clients :
         /\ WF_provisioningVars(AskFails(c) \/ \E t \in Threads : AsksToMove(t, c, "telegram"))
         /\ WF_provisioningVars(HearsAsked(c) \/ HearsPolled(c) \/ PollFails(c))
         /\ WF_provisioningVars(Capability(c))

ProvSpec == ProvInit /\ [][ProvNext]_provisioningVars /\ ProvFairness

-----------------------------------------------------------------------------
(* Properties                                                               *)

\* Bytes move only after a tap on this very request that allows one action and
\* was applied before the request ran out: no session, no stale or foreign
\* answer, no second thread of the store moves a secret.
MoveHasTap == \A a \in moved : \E x \in taps : x.rid = a /\ x.action = "once" /\ x.intime

\* The audit file does not contradict what happened: a success the caller was told
\* of is on record and the bytes are there; what is recorded as denied or errored
\* moved nothing; nothing moved by an attempt that says it did not run.
LedgerTellsTruth == \A a \in Clients :
    /\ outcome[a] = "ok" => a \in moved /\ <<a, "succeeded">> \in audit
    /\ a \in moved => \A r \in audit : r[1] = a => r[2] \in {"succeeded", "failed"}
    /\ a \in moved => outcome[a] \in {"none", "ok", "failed"}

\* Every attempt that is let through comes to an end, whatever the worker, the
\* network and Leo do, unless its process is killed.
AttemptEnds == \A a \in Clients : pc[a] = "new" ~> pc[a] \in {"ended", "killed"}

-----------------------------------------------------------------------------
(* What the documentation says and the code does not do                     *)

Decided == {"approved_once", "denied", "expired", "consumed"}

\* mode_lock.py calls its flock session the canonical pattern for concurrency: then
\* a decision, once stored, is not undone by a later write of another route.
DecisionSticks == [][\A c \in Clients :
    store.requests[c].status \in Decided => store'.requests[c].status # "pending"]_provisioningVars

\* scheduler.py says that a request still unanswered after some minutes is escalated
\* to a card Leo can tap: then he has been shown every request the sweep found old.
EscalationReachesLeo == [][\A t \in Threads, c \in Clients :
    (/\ op[t].kind = "sweep" /\ op'[t] = Idle
     /\ Swept(op[t].snap).requests[c].status = "pending"
     /\ now >= op[t].snap.requests[c].expires - RequestTTL + EscalateAfter)
       => c \in known']_provisioningVars
=============================================================================
