------------------------------ MODULE Custodian ------------------------------
(***************************************************************************)
(* The ownership spine of the DevOps custodians: run_custodians assesses   *)
(* every domain and dispatches what it finds (shared/devops_ownership.py), *)
(* a decision through a sprint gate that holds the sweep for up to half an *)
(* hour (shared/sprint_gate.py).  The cron of scripts/devops_custodian.py  *)
(* starts a sweep every 15 minutes and takes no lock: sweeps overlap.  One *)
(* problem stands for one dedup_key, and for a custodian of its own.       *)
(***************************************************************************)
EXTENDS Naturals, Sequences, FiniteSets

CONSTANTS Sweeps,        \* the runs of the cron that may be alive at once
          Automatic, Structural, Decisions,      \* problems, by the disposition of their finding
          Roster,        \* the problems in the order of their custodians
          Throttled,     \* the structural problems a custodian looks for once a day (inventory)
          MaxTroubles,   \* bound: how often something breaks
          MaxDeaths      \* bound: sweeps that are killed

ASSUME CustodianAssumption ==
    /\ IsFiniteSet(Sweeps)
    /\ Throttled \subseteq Structural
    /\ Roster \in Seq(Automatic \cup Structural \cup Decisions)
    /\ Automatic \cap Structural = {} /\ Automatic \cap Decisions = {} /\ Structural \cap Decisions = {}

Problems == Automatic \cup Structural \cup Decisions

VARIABLES trouble,   \* the problems there are
          sweep,     \* [Sweeps -> [at, next]]: what each run does, next custodian first
          gate,      \* [Sweeps -> the sprint gate the run waits for]
          stamped,   \* the throttled problems whose custodian has run within the day
          open, closed,                     \* Plane tickets with the marker of each problem
          troubles, deaths

cuVars == <<trouble, sweep, gate, stamped, open, closed, troubles, deaths>>

Resting == [at |-> "idle", next |-> 1]

CUInit ==
    /\ trouble = {} /\ stamped = {}
    /\ sweep = [s \in Sweeps |-> Resting]
    /\ gate = [s \in Sweeps |-> "none"]
    /\ open = [p \in Problems |-> 0] /\ closed = [p \in Problems |-> 0]
    /\ troubles = 0 /\ deaths = 0

Held(s) == Roster[sweep[s].next]         \* the finding in hand
Goes(s, at) == sweep' = [sweep EXCEPT ![s].at = at]
Done(s) == sweep' = [sweep EXCEPT ![s] = [at |-> "assess", next |-> @.next + 1]]
Known(p) == open[p] + closed[p] > 0      \* get_issues lists the closed ones as well

\* The world: something breaks, Leo mends it or closes a ticket.
Breaks(p) ==
    /\ p \notin trouble /\ troubles < MaxTroubles
    /\ trouble' = trouble \cup {p} /\ troubles' = troubles + 1
    /\ UNCHANGED <<sweep, gate, stamped, open, closed, deaths>>

LeoMends(p) ==
    /\ p \in trouble \ Automatic /\ open[p] > 0
    /\ trouble' = trouble \ {p}
    /\ open' = [open EXCEPT ![p] = @ - 1] /\ closed' = [closed EXCEPT ![p] = @ + 1]
    /\ UNCHANGED <<sweep, gate, stamped, troubles, deaths>>

DayPasses(p) == p \in stamped /\ stamped' = stamped \ {p} /\ UNCHANGED <<trouble, sweep, gate, open, closed, troubles, deaths>>

\* run_custodians: one custodian after the other; one that raises is passed over.
SweepStarts(s) ==
    /\ sweep[s].at = "idle"
    /\ sweep' = [sweep EXCEPT ![s] = [at |-> "assess", next |-> 1]]
    /\ UNCHANGED <<trouble, gate, stamped, open, closed, troubles, deaths>>

Found(p) == p \in trouble /\ p \notin stamped
Disposed(p) == CASE p \in Automatic -> "remedy" [] p \in Structural -> "look" [] OTHER -> "ask"

\* The inventory's run is stamped when its sweep is made, before anything is filed.
Assesses(s) == sweep[s].at = "assess" /\ sweep[s].next <= Len(Roster)
Assess(s) ==
    /\ Assesses(s)
    /\ IF Found(Held(s)) THEN Goes(s, Disposed(Held(s))) ELSE Done(s)
    /\ stamped' = stamped \cup ({Held(s)} \cap Throttled)
    /\ UNCHANGED <<trouble, gate, open, closed, troubles, deaths>>
AssessRaises(s) ==
    /\ Assesses(s) /\ Done(s)
    /\ UNCHANGED <<trouble, gate, stamped, open, closed, troubles, deaths>>
SweepEnds(s) ==
    /\ sweep[s].at = "assess" /\ sweep[s].next > Len(Roster)
    /\ sweep' = [sweep EXCEPT ![s] = Resting] /\ gate' = [gate EXCEPT ![s] = "none"]
    /\ UNCHANGED <<trouble, stamped, open, closed, troubles, deaths>>

\* dispatch.  A remedy that fails is a line of text: the finding is handled all the same.
RemediateSafe(s) ==
    /\ sweep[s].at = "remedy" /\ Done(s)
    /\ \/ trouble' = trouble \ {Held(s)}
       \/ UNCHANGED trouble
    /\ UNCHANGED <<gate, stamped, open, closed, troubles, deaths>>

\* Mutant of LooksForMarker: a marker that is a part of others is taken for it.
MarkerOfAnyProblem(s) ==
    /\ sweep[s].at = "look"
    /\ IF \E p \in Problems : Known(p) THEN Done(s) ELSE Goes(s, "post")
    /\ UNCHANGED <<trouble, gate, stamped, open, closed, troubles, deaths>>

\* _live_file_structural: look for the marker in every ticket there is, and file one when
\* there is none.  What fails here is logged, and the finding handled.
LooksForMarker(s) ==
    /\ sweep[s].at = "look"
    /\ \/ IF Known(Held(s)) THEN Done(s) ELSE Goes(s, "post")
       \/ Done(s)                                            \* Plane does not answer
    /\ UNCHANGED <<trouble, gate, stamped, open, closed, troubles, deaths>>
Files(s) ==
    /\ sweep[s].at = "post" /\ Done(s)
    /\ open' = [open EXCEPT ![Held(s)] = @ + 1]
    /\ UNCHANGED <<trouble, gate, stamped, closed, troubles, deaths>>
FilingFails(s) ==
    /\ sweep[s].at = "post" /\ Done(s)
    /\ UNCHANGED <<trouble, gate, stamped, open, closed, troubles, deaths>>

\* Mutant of GateTimesOut: a timeout counts as approval.
TimeoutCountsAsApproval(s) ==
    /\ sweep[s].at = "wait" /\ Goes(s, "act")
    /\ UNCHANGED <<trouble, gate, stamped, open, closed, troubles, deaths>>

\* request_sprint_gate: raise, then poll; a poll that fails is as good as none.
RaisesGate(s) ==
    /\ sweep[s].at = "ask"
    /\ \/ gate' = [gate EXCEPT ![s] = "open"] /\ Goes(s, "wait")
       \/ UNCHANGED gate /\ Goes(s, "look")                            \* could not be raised
    /\ UNCHANGED <<trouble, stamped, open, closed, troubles, deaths>>
\* A tap on a gate nobody polls any more changes the gate only.
LeoTaps(s, answer) ==
    /\ gate[s] = "open" /\ gate' = [gate EXCEPT ![s] = answer]
    /\ UNCHANGED <<trouble, sweep, stamped, open, closed, troubles, deaths>>
PollSeesAnswer(s) ==
    /\ sweep[s].at = "wait" /\ gate[s] \in {"approved", "rejected"}
    /\ Goes(s, IF gate[s] = "approved" THEN "act" ELSE "look")
    /\ UNCHANGED <<trouble, gate, stamped, open, closed, troubles, deaths>>
GateTimesOut(s) ==
    /\ sweep[s].at = "wait" /\ Goes(s, "look")
    /\ UNCHANGED <<trouble, gate, stamped, open, closed, troubles, deaths>>
ExecuteDecision(s) ==
    /\ sweep[s].at = "act" /\ Done(s)
    /\ \/ trouble' = trouble \ {Held(s)}
       \/ UNCHANGED trouble                                            \* none is implemented: logged only
    /\ UNCHANGED <<gate, stamped, open, closed, troubles, deaths>>

SweepKilled(s) ==
    /\ sweep[s].at # "idle" /\ deaths < MaxDeaths /\ deaths' = deaths + 1
    /\ sweep' = [sweep EXCEPT ![s] = Resting] /\ gate' = [gate EXCEPT ![s] = "none"]
    /\ UNCHANGED <<trouble, stamped, open, closed, troubles>>

SweepStep(s) ==
    \/ SweepStarts(s) \/ SweepEnds(s) \/ Assess(s)
    \/ RemediateSafe(s) \/ LooksForMarker(s) \/ RaisesGate(s) \/ PollSeesAnswer(s) \/ GateTimesOut(s)
    \/ ExecuteDecision(s) \/ Files(s)

CUNext ==
    \/ \E p \in Problems : Breaks(p) \/ LeoMends(p) \/ DayPasses(p)
    \/ \E s \in Sweeps :
          \/ SweepStep(s) \/ AssessRaises(s) \/ FilingFails(s) \/ SweepKilled(s)
          \/ \E answer \in {"approved", "rejected"} : LeoTaps(s, answer)

\* The cron keeps starting sweeps and a sweep goes on; days pass; a look at Plane, a filing
\* and an assessment that are tried for ever succeed in the end.
FindsTrouble(p) == \E s \in Sweeps : Assess(s) /\ Held(s) = p /\ Found(p)
FindsNoTicket(p) == \E s \in Sweeps : LooksForMarker(s) /\ Held(s) = p /\ sweep'[s].at = "post"
FilesTicket(p) == \E s \in Sweeps : Files(s) /\ Held(s) = p
CUFairness ==
    /\ \A s \in Sweeps : WF_cuVars(SweepStep(s))
    /\ \A p \in Structural :
          SF_cuVars(FindsTrouble(p)) /\ SF_cuVars(FindsNoTicket(p)) /\ SF_cuVars(FilesTicket(p))
    /\ \A p \in Throttled : WF_cuVars(DayPasses(p))

CUSpec == CUInit /\ [][CUNext]_cuVars /\ CUFairness

-----------------------------------------------------------------------------
\* "Fail-closed: an unmade decision is never executed" (dispatch): a sweep carries out a
\* decision only on Leo's own answer to the gate this sweep raised for it, neither on a
\* timeout, nor on a gate that could not be raised, nor on an answer to another sweep.
ActsOnlyWhereApproved == \A s \in Sweeps : sweep[s].at = "act" => gate[s] = "approved"

\* "refresh the open marker instead of spamming duplicates" (_live_file_structural): a
\* problem that comes back for years has at most one ticket per sweep that can be alive
\* at once, for only they can look before either files.
TicketsAreBounded == \A p \in Problems : open[p] + closed[p] <= Cardinality(Sweeps)

\* A problem somebody must act on does not stay without a ticket: not for a failed filing,
\* a killed sweep, or a run stamped before its findings were filed.
TroubleIsOwned == \A p \in Structural : (p \in trouble) ~> (p \notin trouble \/ Known(p))

\* "Every failing check in the system becomes OWNED through ONE path" (devops_ownership.py:4):
\* does not hold, a problem that comes back after its ticket was closed is taken for known.
TroubleIsQueued == \A p \in Structural : (p \in trouble) ~> (p \notin trouble \/ open[p] > 0)
=============================================================================
