----------------------------- MODULE MCWorkflows -----------------------------
(* Small instances of the workflows beside the hosts', for TLC: jobs that     *)
(* write a site's pages, rotations of its password, its daily security scan,  *)
(* the council's investigation of bugs, KAI's changes to its own source; and  *)
(* the council's review of one of the gates that workflows open.              *)
(* They share no state of the models: a behaviour exercises one of them,      *)
(* chosen at the start.                                                       *)
EXTENDS PageWorkflows, SiteSecurity, BugWorkflow, SelfModify, GateReviews

VARIABLE part

sitesVars == <<wpVars, crVars, scVars>>
vars == <<part, sitesVars, bugVars, smVars, grVars>>

\* One job publishes a homepage; the others publish, under the same name of the site or another,
\* build or edit beside it.
CONSTANTS Publisher, FirstName

Init ==
    /\ part \in {"pages", "password", "security", "bugs", "source", "review"}
    /\ WPInit /\ CRInit /\ SCInit /\ BWInit /\ SMInit /\ GRInit
    /\ kind[Publisher] = "publish" /\ expected[Publisher] = Live
    /\ \A j \in Jobs : site[j] = FirstName \/ (j # Publisher /\ kind[j] = "publish" /\ expected[j] = NoPage)
    /\ part # "pages" => \A j \in Jobs : kind[j] = "publish" /\ expected[j] = Live /\ site[j] = FirstName
    /\ part # "review" => surface = "buzz" /\ alive

\* Where two names are in use, a job whose step raised stays there.
OneTrouble == (\A j \in Jobs : site[j] = FirstName) \/ (\A j \in Jobs : mode[j] = "parked" => mode'[j] = "parked")
Pages_(A) == part = "pages" /\ A /\ OneTrouble /\ UNCHANGED <<part, crVars, scVars, bugVars, smVars, grVars>>
Security(A) == part = "security" /\ A /\ UNCHANGED <<part, wpVars, crVars, bugVars, smVars, grVars>>
Bugs(A) == part = "bugs" /\ A /\ UNCHANGED <<part, sitesVars, smVars, grVars>>
Review(A) == part = "review" /\ A /\ UNCHANGED <<part, sitesVars, bugVars, smVars>>

Next ==
    \/ Pages_(WPNext)
    \/ part = "password" /\ CRNext /\ UNCHANGED <<part, wpVars, scVars, bugVars, smVars, grVars>>
    \/ Security(SCNext)
    \/ Bugs(BWNext)
    \/ part = "source" /\ SMNext /\ UNCHANGED <<part, sitesVars, bugVars, grVars>>
    \/ Review(GRNext)

\* The scheduler asks for a scan every day (scheduler.py:1207), and not every answer is lost.  The
\* council's threads go on, its poller keeps polling (routes_bug_workflow.py:149) and Plane
\* does not fail it for ever.  Of a review only this is assumed: an alert that is sent again every
\* minute gets through in the end, and time passes.
Spec ==
    /\ Init /\ [][Next]_vars
    /\ WF_vars(Security(security_scan)) /\ SF_vars(Security(ScanTells))
    /\ \A f \in Finders : WF_vars(Bugs(FinderStep(f)))
    /\ \A t \in Threads : WF_vars(Bugs(Investigates(t)))
    /\ SF_vars(Bugs(PollsAll))
    /\ WF_vars(Review(_escalate_stale_gates /\ alerted')) /\ WF_vars(Review(WindowPasses_))
=============================================================================
