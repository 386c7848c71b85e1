---------------------------- MODULE NotifyQueue ----------------------------
(***************************************************************************)
(* The notification gateway (shared/notify_gateway.py) and one of the      *)
(* queues it fills for the Buzz desk, with the drain of that queue         *)
(* (kai-buzz/buzz_approve.py).  The three queues (devops, approvals,       *)
(* briefs) are written and drained alike; the model keeps the one for      *)
(* #devops.                                                                *)
(*                                                                         *)
(* A writer is a process that calls notify().  A file is the sequence of   *)
(* its lines; a writer that has opened the queue holds the file itself,    *)
(* which the drain renames and removes under it.                           *)
(***************************************************************************)
EXTENDS Naturals, Sequences, FiniteSets, SequencesExt

CONSTANTS
    Writers,     \* processes that call notify(), each with one event at a time
    Keys,        \* dedup keys
    MaxEvents,   \* bound on the events offered
    MaxFaults    \* bound on crashes and failures of the drain

ASSUME QueueAssumption == MaxEvents \in Nat /\ MaxFaults \in Nat

VARIABLES
    ev,        \* ev[w]: the event in hand and where notify() stands
    handle,    \* handle[w]: what the file opened by w is now
    queue,     \* the file under the queue's name, or NoFile
    work,      \* the file under the .draining name, or NoFile
    drain,     \* the drain: where it stands and the records in memory
    posted,    \* events posted to the channel
    telegram,  \* events delivered to Leo's Telegram
    marks,     \* dedup keys on disk
    excused,   \* records lost to a fault, or written after the drain had read
    offered, faults

queueVars == <<ev, handle, queue, work, drain, posted, telegram, marks, excused, offered, faults>>

Audience == {"dashboard", "approval", "devops"}
Event == [id : 1..MaxEvents, real : BOOLEAN, audience : Audience, decision : BOOLEAN, key : Keys]
NoFile == <<0>>
Idle == [at |-> "idle"]

QueueTypeOK ==
    /\ \A w \in Writers : ev[w] = Idle \/
          (/\ ev[w].at \in {"route", "send", "mark", "marking", "open", "write"}
           /\ ev[w].e \in Event /\ ev[w].seen \subseteq Keys)
    /\ handle \in [Writers -> {"none", "queue", "work", "gone"}]
    /\ queue = NoFile \/ queue \in Seq(1..MaxEvents)
    /\ work = NoFile \/ work \in Seq(1..MaxEvents)
    /\ drain.at \in {"idle", "read", "remove", "post"} /\ drain.recs \in Seq(1..MaxEvents)
    /\ posted \subseteq 1..MaxEvents /\ excused \subseteq 1..MaxEvents
    /\ telegram \subseteq Event
    /\ marks \subseteq Keys
    /\ offered \subseteq Event /\ faults \in 0..MaxFaults

QueueInit ==
    /\ ev = [w \in Writers |-> Idle]
    /\ handle = [w \in Writers |-> "none"]
    /\ queue = NoFile /\ work = NoFile
    /\ drain = [at |-> "idle", recs |-> <<>>]
    /\ posted = {} /\ telegram = {} /\ marks = {} /\ excused = {}
    /\ offered = {} /\ faults = 0

drainVars == <<queue, work, drain, posted, excused, faults>>

-----------------------------------------------------------------------------
(* notify()                                                                 *)

Step(w, at) == ev' = [ev EXCEPT ![w].at = at]
Ends(w) == ev' = [ev EXCEPT ![w] = Idle]

Offer(w) ==
    /\ ev[w] = Idle /\ Cardinality(offered) < MaxEvents
    /\ \E e \in Event :
         /\ e.id = Cardinality(offered) + 1
         /\ ev' = [ev EXCEPT ![w] = [at |-> "route", e |-> e, seen |-> {}]]
         /\ offered' = offered \cup {e}
    /\ UNCHANGED <<handle, telegram, marks, drainVars>>

\* Where _route sends an event: only what the triage calls a decision enters #devops.
Destination(e) ==
    CASE e.audience = "devops" /\ e.decision -> "devops"
      [] e.audience = "approval" -> "telegram"
      [] OTHER -> "dashboard"

\* The reality gate, the route and the duplicate check.
Route(w) ==
    /\ ev[w].at = "route"
    /\ LET e == ev[w].e
           dest == Destination(e) IN
       IF ~e.real \/ dest = "dashboard" \/ (dest = "telegram" /\ e.key \in marks)
       THEN Ends(w)
       ELSE Step(w, IF dest = "telegram" THEN "send" ELSE "open")
    /\ UNCHANGED <<handle, telegram, marks, offered, drainVars>>

\* Telegram took the message, or did not: only what it took is marked.
Send(w) ==
    /\ ev[w].at = "send"
    /\ \/ telegram' = telegram \cup {ev[w].e} /\ Step(w, "mark")
       \/ UNCHANGED telegram /\ Ends(w)
    /\ UNCHANGED <<handle, marks, offered, drainVars>>

\* _dedup_mark reads the file and later replaces it.
MarkRead(w) ==
    /\ ev[w].at = "mark"
    /\ ev' = [ev EXCEPT ![w].at = "marking", ![w].seen = marks]
    /\ UNCHANGED <<handle, telegram, marks, offered, drainVars>>
MarkWrite(w) ==
    /\ ev[w].at = "marking"
    /\ marks' \in {ev[w].seen \cup {ev[w].e.key}, marks}   \* the write may fail
    /\ Ends(w)
    /\ UNCHANGED <<handle, telegram, offered, drainVars>>

\* _devops_enqueue: open for append, then write one line.
EnqueueOpen(w) ==
    /\ ev[w].at = "open"
    /\ queue' = IF queue = NoFile THEN <<>> ELSE queue
    /\ handle' = [handle EXCEPT ![w] = "queue"]
    /\ Step(w, "write")
    /\ UNCHANGED <<telegram, marks, offered, work, drain, posted, excused, faults>>

EnqueueWrite(w) ==
    /\ ev[w].at = "write"
    /\ LET r == ev[w].e.id IN
         /\ queue' = IF handle[w] = "queue" THEN Append(queue, r) ELSE queue
         /\ work' = IF handle[w] = "work" THEN Append(work, r) ELSE work
         /\ excused' = IF handle[w] = "gone" \/ (handle[w] = "work" /\ drain.at = "remove")
                       THEN excused \cup {r} ELSE excused
    /\ handle' = [handle EXCEPT ![w] = "none"]
    /\ Ends(w)
    /\ UNCHANGED <<telegram, marks, offered, drain, posted, faults>>

\* The window of a key has passed.
WindowPasses ==
    /\ marks # {} /\ \E k \in marks : marks' = marks \ {k}
    /\ UNCHANGED <<ev, handle, telegram, offered, drainVars>>

-----------------------------------------------------------------------------
(* _drain_queue and the loop that posts                                     *)

Move(from, to) == handle' = [w \in Writers |-> IF handle[w] = from THEN to ELSE handle[w]]
writerVars == <<ev, telegram, marks, offered>>

\* Mutant of DrainClaims: the rename replaces a file left over.
DrainClaimsOver ==
    /\ drain.at = "idle"
    /\ IF queue = NoFile
       THEN work # NoFile /\ UNCHANGED <<queue, work, handle>>
       ELSE work' = queue /\ queue' = NoFile /\ Move("queue", "work")
    /\ drain' = [at |-> "read", recs |-> <<>>]
    /\ UNCHANGED <<posted, excused, faults, writerVars>>

\* A file left over from an interrupted drain comes first.
DrainClaims ==
    /\ drain.at = "idle"
    /\ IF work # NoFile
       THEN UNCHANGED <<queue, work, handle>>
       ELSE queue # NoFile /\ work' = queue /\ queue' = NoFile /\ Move("queue", "work")
    /\ drain' = [at |-> "read", recs |-> <<>>]
    /\ UNCHANGED <<posted, excused, faults, writerVars>>

DrainReads ==
    /\ drain.at = "read"
    /\ drain' = [at |-> "remove", recs |-> work]
    /\ UNCHANGED <<handle, queue, work, posted, excused, faults, writerVars>>

DrainRemoves ==
    /\ drain.at = "remove"
    /\ work' = NoFile /\ Move("work", "gone")
    /\ drain' = [drain EXCEPT !.at = "post"]
    /\ UNCHANGED <<queue, posted, excused, faults, writerVars>>

Posts ==
    /\ drain.at = "post"
    /\ IF drain.recs = <<>>
       THEN drain' = [drain EXCEPT !.at = "idle"] /\ UNCHANGED posted
       ELSE /\ posted' = posted \cup {Head(drain.recs)}
            /\ drain' = [drain EXCEPT !.recs = Tail(@)]
    /\ UNCHANGED <<handle, queue, work, excused, faults, writerVars>>

\* A post fails and the rest is given up, or the process dies at any point.
DrainFails ==
    /\ drain.at # "idle" /\ faults < MaxFaults
    /\ faults' = faults + 1
    /\ excused' = IF drain.at = "post" THEN excused \cup ToSet(drain.recs) ELSE excused
    /\ drain' = [at |-> "idle", recs |-> <<>>]
    /\ UNCHANGED <<handle, queue, work, posted, writerVars>>

-----------------------------------------------------------------------------
WriterStep(w) ==
    \/ Route(w) \/ Send(w) \/ MarkRead(w) \/ MarkWrite(w) \/ EnqueueOpen(w) \/ EnqueueWrite(w)
Drainer == DrainClaims \/ DrainReads \/ DrainRemoves \/ Posts

QueueNext ==
    \/ \E w \in Writers : Offer(w) \/ WriterStep(w)
    \/ WindowPasses \/ Drainer \/ DrainFails

QueueSpec == QueueInit /\ [][QueueNext]_queueVars

-----------------------------------------------------------------------------
InFile(f) == IF f = NoFile THEN {} ELSE ToSet(f)
\* Events whose notify() has come to an end.
Ended == {e \in offered : \A w \in Writers : ev[w] = Idle \/ ev[w].e # e}

\* What the gateway reported as delivered to #devops is in a file, in the drain's
\* hands or in the channel; it is lost only to a crash or a failed post after the
\* removal, or when its writer was slower than the whole drain.
QueuedIsSomewhere == \A e \in Ended :
    e.real /\ e.audience = "devops" /\ e.decision =>
        e.id \in InFile(queue) \cup InFile(work) \cup ToSet(drain.recs) \cup posted \cup excused

\* Leo sees nothing synthetic and, in #devops, nothing the triage did not call a
\* decision, whichever processes write.
OnlyTriagedReachLeo ==
    /\ \A e \in telegram : e.real
    /\ \A e \in offered : e.id \in posted \cup InFile(queue) => e.real /\ e.decision

\* A key is on record only if Telegram has taken an event with it: an event that
\* failed to go out is not taken for a duplicate when it is offered again.
MarkedWasSent == \A k \in marks : \E e \in telegram : e.key = k
=============================================================================
