------------------------------ MODULE BugWorkflow ------------------------------
(***************************************************************************)
(* The council's investigation of the bugs on Plane (kai-council-api/      *)
(* routes_bug_workflow.py, graphs/bug_graph.py, graphs/bug_nodes.py): a    *)
(* poller and a webhook find bugs, mark them in a file and start a thread  *)
(* for each, which takes the bug through diagnosis, two reviews and KAI's  *)
(* validation, and marks it again.                                         *)
(***************************************************************************)
EXTENDS Naturals, FiniteSets

CONSTANTS Issues,
          Finders,      \* the poller, and requests of the webhook
          Poller,
          Threads,      \* investigations that may be alive at once
          MaxReports    \* bound: issues reported, or raised to a bug

ASSUME BugAssumption == Poller \in Finders

VARIABLES issue,                   \* what Plane says: absent, minor, bug
          processed_file,          \* the marks; "torn" while the file is being written
          processed, found,        \* a finder's reading of the file; the issues it goes through
          writing,                 \* [mark, old]: the marks a writer is putting back
          thread,                  \* the investigations
          started, reports

bugVars == <<issue, processed_file, processed, found, writing, thread, started, reports>>
finderVars == <<processed, found>>

NoIssue == "none"
Torn == {NoIssue}
Free == [issue |-> NoIssue, node |-> "free", iteration |-> 0, lse_approved |-> FALSE,
         architect_approved |-> FALSE, kai_approved |-> FALSE]
Nothing == [mark |-> NoIssue, old |-> {}]
Writers == Finders \cup Threads

BWInit ==
    /\ issue = [i \in Issues |-> "absent"]
    /\ processed_file = {} /\ processed = [f \in Finders |-> {}] /\ found = [f \in Finders |-> {}]
    /\ writing = [w \in Writers |-> Nothing]
    /\ thread = [t \in Threads |-> Free]
    /\ started = {} /\ reports = 0

\* The world.
Reported(i) ==
    /\ issue[i] # "bug" /\ reports < MaxReports /\ reports' = reports + 1
    /\ issue' = [issue EXCEPT ![i] = IF @ = "absent" THEN "minor" ELSE "bug"]
    /\ UNCHANGED <<processed_file, finderVars, writing, thread, started>>

\* A file that cannot be read is written anew, empty.
LoadsProcessed == IF processed_file = Torn THEN {} ELSE processed_file

\* The poller reads the marks once, before it goes through the issues of all projects; the
\* webhook is told of one issue.
Looks(f) ==
    /\ found[f] = {} /\ writing[f] = Nothing
    /\ processed' = [processed EXCEPT ![f] = LoadsProcessed] /\ processed_file' = LoadsProcessed
    /\ \E some \in {s \in SUBSET {i \in Issues : issue[i] # "absent"} : f = Poller \/ Cardinality(s) = 1} :
          found' = [found EXCEPT ![f] = some]
    /\ UNCHANGED <<issue, writing, thread, started, reports>>

IsBug(f, i) == issue[i] = "bug" /\ i \notin processed[f]
GoesOn(f, i) == found' = [found EXCEPT ![f] = @ \ {i}]
\* Mutant of Skips: an issue is marked when it is looked at.
SkipsMarking(f, i) ==
    /\ i \in found[f] /\ writing[f] = Nothing /\ ~IsBug(f, i) /\ GoesOn(f, i)
    /\ processed_file' = LoadsProcessed \cup {i}
    /\ UNCHANGED <<issue, processed, writing, thread, started, reports>>
Skips(f, i) ==
    /\ i \in found[f] /\ writing[f] = Nothing /\ ~IsBug(f, i) /\ GoesOn(f, i)
    /\ UNCHANGED <<issue, processed_file, processed, writing, thread, started, reports>>

\* _mark_processed: the file is read, then truncated and written again.
Opens(w, i) ==
    /\ writing' = [writing EXCEPT ![w] = [mark |-> i, old |-> LoadsProcessed]]
    /\ processed_file' = Torn
Closes(w) ==
    /\ processed_file' = writing[w].old \cup {writing[w].mark}
    /\ writing' = [writing EXCEPT ![w] = Nothing]
Finds(f, i) ==
    /\ i \in found[f] /\ writing[f] = Nothing /\ IsBug(f, i) /\ Opens(f, i)
    /\ UNCHANGED <<issue, finderVars, thread, started, reports>>
StartsThread(f) ==
    LET i == writing[f].mark IN
    /\ writing[f] # Nothing /\ Closes(f) /\ GoesOn(f, i)
    /\ \E t \in Threads :
          /\ thread[t] = Free
          /\ thread' = [thread EXCEPT ![t] = [Free EXCEPT !.issue = i, !.node = "support_diagnosis"]]
    /\ started' = started \cup {i}
    /\ UNCHANGED <<issue, processed, reports>>

-----------------------------------------------------------------------------
\* The graph.  A node is a turn of a model, which may fail and end the thread.
Node(t, n) == thread[t].node = n
Becomes(t, r) ==
    /\ thread' = [thread EXCEPT ![t] = r]
    /\ UNCHANGED <<issue, processed_file, finderVars, writing, started, reports>>
support_diagnosis(t) ==
    /\ Node(t, "support_diagnosis")
    /\ Becomes(t, [thread[t] EXCEPT !.iteration = @ + 1, !.node = "lse_review"])
lse_review(t) ==
    /\ Node(t, "lse_review")
    /\ \E ok \in BOOLEAN : Becomes(t, [thread[t] EXCEPT !.lse_approved = ok, !.node = "architect_review"])
BothApproved(r) == r.lse_approved /\ r.architect_approved
MAX_ITERATIONS == 3
peer_review_decision(r) ==
    IF BothApproved(r) \/ r.iteration >= MAX_ITERATIONS THEN "kai_validation" ELSE "support_diagnosis"
architect_review(t) ==
    /\ Node(t, "architect_review")
    /\ \E ok \in BOOLEAN :
          LET r == [thread[t] EXCEPT !.architect_approved = ok]
          IN Becomes(t, [r EXCEPT !.node = peer_review_decision(r)])
kai_decision(r) ==
    IF r.kai_approved \/ r.iteration >= MAX_ITERATIONS THEN "leo_notify" ELSE "support_diagnosis"
kai_validation(t) ==
    /\ Node(t, "kai_validation")
    /\ \E ok \in BOOLEAN :
          LET r == [thread[t] EXCEPT !.kai_approved = ok]
          IN Becomes(t, [r EXCEPT !.node = kai_decision(r)])
leo_notify(t) == Node(t, "leo_notify") /\ Becomes(t, [thread[t] EXCEPT !.node = "awaiting_leo"])
\* The graph has ended: the bug is marked, and the thread is gone.
MarksAgain(t) ==
    /\ Node(t, "awaiting_leo") /\ writing[t] = Nothing /\ Opens(t, thread[t].issue)
    /\ UNCHANGED <<issue, finderVars, thread, started, reports>>
Ends(t) ==
    /\ writing[t] # Nothing /\ Closes(t) /\ thread' = [thread EXCEPT ![t] = Free]
    /\ UNCHANGED <<issue, finderVars, started, reports>>
NodeRaises(t) == thread[t].node \notin {"free", "awaiting_leo"} /\ Becomes(t, Free)

Investigates(t) ==
    \/ support_diagnosis(t) \/ lse_review(t) \/ architect_review(t) \/ kai_validation(t)
    \/ leo_notify(t) \/ MarksAgain(t) \/ Ends(t)
FinderStep(f) == (\E i \in Issues : Skips(f, i) \/ Finds(f, i)) \/ StartsThread(f)

\* A poll that Plane answers in full.
PollsAll == Looks(Poller) /\ found'[Poller] = {i \in Issues : issue[i] # "absent"}
BWNext ==
    \/ \E i \in Issues : Reported(i)
    \/ \E f \in Finders : Looks(f) \/ FinderStep(f)
    \/ \E t \in Threads : Investigates(t) \/ NodeRaises(t)

BWSpec == BWInit /\ [][BWNext]_bugVars

-----------------------------------------------------------------------------
\* What reaches the end of the graph was approved by both reviewers and by KAI in its last
\* round, or went three rounds ("max iterations hit, escalating anyway", bug_nodes.py:286).
AwaitingIsEarned ==
    \A t \in Threads : thread[t].node = "awaiting_leo" =>
        \/ thread[t].lse_approved /\ thread[t].architect_approved /\ thread[t].kai_approved
        \/ thread[t].iteration = MAX_ITERATIONS

\* A bug on Plane gets an investigation, also one that was no bug when it was first looked
\* at, whatever marks overlapping writers lose.
BugIsTaken == \A i \in Issues : (issue[i] = "bug") ~> (i \in started)

\* "mark before starting to avoid double-trigger" (routes_bug_workflow.py:129): does not
\* hold, the poller goes by the marks it read before the webhook made its own.
NoDoubleTrigger ==
    \A t, u \in Threads : t # u /\ thread[t].issue = thread[u].issue => thread[t].issue = NoIssue
=============================================================================
