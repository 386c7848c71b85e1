------------------------------ MODULE MCCapture ------------------------------
(* Small instances of the worker's captures for TLC.  The inbox, the         *)
(* questions about an intent and the parking lot share no state: a behaviour *)
(* exercises one of them, chosen at the start.                               *)
EXTENDS InboxScan, Clarification, ParkingLot

CONSTANT FirstRequest

VARIABLE part

vars == <<part, inboxVars, clarifyVars, lotVars>>

Inbox(A) == part = "inbox" /\ A /\ UNCHANGED <<part, clarifyVars, lotVars>>
Questions(A) == part = "questions" /\ A /\ UNCHANGED <<part, inboxVars, lotVars>>
Lot(A) == part \in {"one card", "two cards"} /\ A /\ UNCHANGED <<part, inboxVars, clarifyVars>>

Init ==
    /\ part \in {"inbox", "questions", "one card", "two cards"}
    /\ InboxInit /\ ClarifyInit /\ LotInit

\* On the card of one capture, named by the second, two requests overlap with its first job, and
\* one with a job that starts again and a restart: a card under a title is one whose first job is
\* done.  Of two captures, under one name or two, one request overlaps with the jobs; these start
\* again, and the worker restarts, where no name is a second.
LotBound ==
    /\ part = "one card" => taken' \subseteq {1} /\ \A t \in taken' : slug'[t] \in Seconds
    /\ part = "two cards" \/ jobs' > 0 => \A r \in Requests : route'[r] # NoWork => r = FirstRequest
    /\ part = "two cards" /\ (\E t \in taken' : slug'[t] \in Seconds) => jobs' = 0

Next == Inbox(InboxNext) \/ Questions(ClarifyNext) \/ Lot(LotNext /\ LotBound)

\* The worker's threads and its event loop make progress, the scheduler asks for scans
\* (scheduler.py:1200) and for the expiry (scheduler.py:1202), and time passes.
Fairness ==
    /\ WF_vars(Inbox(InboxStep) \/ Questions(Serves))
    /\ SF_vars(Questions(Expire))
    /\ \A i \in Items : WF_vars(Questions(Ages(i)))

Spec == Init /\ [][Next]_vars /\ Fairness
=============================================================================
