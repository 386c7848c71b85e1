---------------------------- MODULE TelegramLoop ----------------------------
(***************************************************************************)
(* The scheduler's long poll of Telegram (kai-scheduler/scheduler.py,      *)
(* telegram_poll_loop): one thread takes a batch of updates and serves     *)
(* them one by one, a tap on a gate card, a tap on an unlock card, a       *)
(* message for the council, a command.  Its offset is in memory only;      *)
(* Telegram forgets an update when it is asked for a later one.            *)
(***************************************************************************)
EXTENDS Naturals, Sequences, FiniteSets

CONSTANTS
    MaxUpdate,  \* updates 1..MaxUpdate arrive in this order
    Kind,       \* Kind[u]: what the update is
    MaxLoopDeaths

Updates == 1..MaxUpdate
Kinds == {"approve", "reject", "worker", "chat", "stranger", "malformed"}

ASSUME LoopAssumption == MaxUpdate \in Nat /\ Kind \in [Updates -> Kinds] /\ MaxLoopDeaths \in Nat

VARIABLES
    arrived,    \* updates that have arrived
    acked,      \* updates before this one are gone from the server
    offset,     \* the loop's offset
    batch,      \* updates of the batch still to serve
    remote,     \* is the council (or the worker) answering?
    gate,       \* the council's gate behind the cards
    loopDeaths,
    served,     \* served[u]: how often u was served
    failed,     \* updates whose handler raised
    replies     \* replies[u]: the last answer Leo got for u

loopVars == <<arrived, acked, offset, batch, remote, gate, loopDeaths, served, failed, replies>>

LoopTypeOK ==
    /\ arrived \in 0..MaxUpdate /\ acked \in 1..MaxUpdate + 1 /\ offset \in 0..MaxUpdate + 1
    /\ batch \in Seq(Updates) /\ remote \in BOOLEAN
    /\ gate \in {"pending", "approve", "reject"} /\ loopDeaths \in 0..MaxLoopDeaths
    /\ served \in [Updates -> 0..MaxLoopDeaths + 1] /\ failed \subseteq Updates
    /\ replies \in [Updates -> {"none", "done", "already", "unreachable", "status"}]

LoopInit ==
    /\ arrived = 0 /\ acked = 1 /\ offset = 0 /\ batch = <<>> /\ remote = TRUE
    /\ gate = "pending" /\ loopDeaths = 0 /\ served = [u \in Updates |-> 0] /\ failed = {}
    /\ replies = [u \in Updates |-> "none"]

-----------------------------------------------------------------------------
Arrive ==
    /\ arrived < MaxUpdate /\ arrived' = arrived + 1
    /\ UNCHANGED <<acked, offset, batch, remote, gate, loopDeaths, served, failed, replies>>

RemoteFlips ==
    /\ remote' = ~remote
    /\ UNCHANGED <<arrived, acked, offset, batch, gate, loopDeaths, served, failed, replies>>

\* Leo decides on another surface.
DecidedOnBuzz ==
    /\ gate = "pending" /\ gate' \in {"approve", "reject"}
    /\ UNCHANGED <<arrived, acked, offset, batch, remote, loopDeaths, served, failed, replies>>

\* getUpdates: the server forgets what is before the offset and returns the rest.
Highest(a, b) == IF a > b THEN a ELSE b
GetUpdates ==
    /\ batch = <<>>
    /\ acked' = Highest(acked, offset)
    /\ batch' = [i \in 1..(arrived + 1 - acked') |-> acked' + i - 1]
    /\ UNCHANGED <<arrived, offset, remote, gate, loopDeaths, served, failed, replies>>

\* A tap on a gate card (_handle_gate_callback): the council resolves once and answers 409
\* from then on.
GateTap(u) ==
    IF ~remote THEN replies' = [replies EXCEPT ![u] = "unreachable"] /\ UNCHANGED gate
    ELSE /\ gate' = IF gate = "pending" THEN Kind[u] ELSE gate
         /\ replies' = [replies EXCEPT ![u] = IF gate = "pending" THEN "done" ELSE "already"]

\* A tap on an unlock card (_handle_modelock_callback) and the commands /recover, /status,
\* /health, /pending ask the worker and say what it answered or that it did not.
WorkerCall(u) ==
    /\ replies' = [replies EXCEPT ![u] = IF remote THEN "done" ELSE "unreachable"]
    /\ UNCHANGED gate

\* A message: every failure of the council is answered with a status that does not need it
\* (deliver_council_reply).
Chat(u) ==
    /\ replies' = [replies EXCEPT ![u] = IF remote THEN "done" ELSE "status"]
    /\ UNCHANGED gate

\* A sender that is not on the allowlist gets no answer.
Ignored == UNCHANGED <<gate, replies>>

Handle(u) ==
    \/ Kind[u] \in {"approve", "reject"} /\ GateTap(u)
    \/ Kind[u] = "worker" /\ WorkerCall(u)
    \/ Kind[u] = "chat" /\ Chat(u)
    \/ Kind[u] = "stranger" /\ Ignored

\* The offset moves before the update is served.
Serve ==
    /\ batch # <<>> /\ Kind[Head(batch)] # "malformed"
    /\ LET u == Head(batch) IN
       /\ offset' = u + 1 /\ batch' = Tail(batch)
       /\ Handle(u)
       /\ served' = [served EXCEPT ![u] = @ + 1]
    /\ UNCHANGED <<arrived, acked, remote, loopDeaths, failed>>

\* Mutant of HandlerRaises: the offset moves when the handler has returned.
HandlerSticks ==
    /\ batch # <<>> /\ Kind[Head(batch)] = "malformed"
    /\ batch' = <<>>
    /\ UNCHANGED <<arrived, acked, offset, remote, gate, loopDeaths, served, failed, replies>>

\* An update the handler chokes on: the exception ends the batch.
HandlerRaises ==
    /\ batch # <<>> /\ Kind[Head(batch)] = "malformed"
    /\ offset' = Head(batch) + 1 /\ batch' = <<>>
    /\ failed' = failed \cup {Head(batch)}
    /\ UNCHANGED <<arrived, acked, remote, gate, loopDeaths, served, replies>>

LoopDies ==
    /\ loopDeaths < MaxLoopDeaths /\ loopDeaths' = loopDeaths + 1
    /\ offset' = 0 /\ batch' = <<>>
    /\ UNCHANGED <<arrived, acked, remote, gate, served, failed, replies>>

LoopStep == GetUpdates \/ Serve \/ HandlerRaises
LoopNext == LoopStep \/ Arrive \/ RemoteFlips \/ DecidedOnBuzz \/ LoopDies
LoopSpec == LoopInit /\ [][LoopNext]_loopVars /\ WF_loopVars(LoopStep)

-----------------------------------------------------------------------------
\* Updates are served in their order, none is skipped except one whose handler raised, and
\* one is served again only after a restart (the offset is not persisted).
ServedInOrder ==
    \A u \in Updates :
        /\ served[u] > 0 => \A v \in 1..u - 1 : served[v] > 0 \/ v \in failed
        /\ served[u] <= 1 + loopDeaths

\* Every update that arrives is served or has raised: one that raises every time does not
\* hold up those behind it.
EveryUpdateServed ==
    \A u \in Updates : (arrived >= u) ~> (served[u] > 0 \/ u \in failed)
=============================================================================
