----------------------------- MODULE GateReviews -----------------------------
(***************************************************************************)
(* The council reviews one gate (kai-council-api/routes_council_gate.py,   *)
(* _process_gate and the reviews of each kind): the chain of model calls,  *)
(* each on the cloud or, when that fails, on the local model, the          *)
(* autonomy policy (shared/autonomy_decisions.py), and how Leo hears that  *)
(* he is asked when the Buzz poller is down.  CouncilGate takes a review   *)
(* for one step and models the races around it; here it is taken apart.    *)
(***************************************************************************)
EXTENDS Naturals, Sequences

VARIABLES review,        \* the request: its type, and what the brief says
          left,          \* calls still to make, Over when no review is under way
          iteration,     \* of the Creative Director's brief
          heard,         \* the last answer: who gave it, by which model, its verdict
          standing,      \* status in state.json, and who resolved it
          surface,       \* GATE_APPROVAL_SURFACE
          alive, stale,  \* the poller's heartbeat; the gate is older than the window
          alerted,       \* Telegram carried the card or the alert to Leo
          tg_escalated

grVars == <<review, left, iteration, heard, standing, surface, alive, stale, alerted, tg_escalated>>

GateTypes == {"plan_gate", "dev_gate", "creative_gate", "devops_gate", "hostops", "synthetic_probe",
              "sprint_gate", "hostops_place_fleet_secret", "other"}
Briefs == [type : GateTypes, owner : {"leo", "client", "unknown"}, high_risk : BOOLEAN, probe : BOOLEAN]
NoGate == [type |-> "none"]
Over == <<"over">>
Silence == [advisor |-> "nobody", by |-> "nobody", verdict |-> "none"]

GRInit ==
    /\ review = NoGate /\ left = Over /\ iteration = 1 /\ heard = Silence /\ standing = "none"
    /\ surface \in {"buzz", "telegram"} /\ alive \in BOOLEAN
    /\ stale = FALSE /\ alerted = FALSE /\ tg_escalated = FALSE

\* Who is asked, one after the other; the gates Leo alone decides ask nobody.
Chain(type) ==
    CASE type = "plan_gate" -> <<"kai">>
      [] type = "dev_gate" -> <<"dev", "kai">>
      [] type = "creative_gate" -> <<"creative", "kai">>
      [] type = "devops_gate" -> <<"devops">>
      [] OTHER -> <<>>

UnderReview == left # Over
Told == UNCHANGED <<surface, alive, stale, alerted, tg_escalated>>

receive_gate ==
    /\ review = NoGate /\ review' \in Briefs /\ left' = Chain(review'.type) /\ standing' = "processing"
    /\ UNCHANGED <<iteration, heard>> /\ Told

\* The draft of the governed-pipeline probe is approved without a review.
Probed(g) == g.probe /\ g.type \in {"dev_gate", "creative_gate"}

\* KAI has read the director's brief and does not approve it: it is written again, thrice at most.
_creative_gate_review(approved) ==
    review.type = "creative_gate" /\ Len(left) = 1 /\ ~approved /\ iteration < 3

\* One call, on the cloud or on the local model, that is answered; the answer's VERDICT line is
\* the positive word its prompt offers, another one, or missing.
_gate_review_llm ==
    /\ UnderReview /\ left # <<>> /\ ~Probed(review)
    /\ \E by \in {"cloud", "local"}, verdict \in {"positive", "negative", "none"} :
          LET approved == verdict = "positive" /\ by = "cloud"
          IN /\ heard' = [advisor |-> Head(left), by |-> by, verdict |-> verdict]
             /\ IF _creative_gate_review(approved)
                THEN left' = Chain("creative_gate") /\ iteration' = iteration + 1
                ELSE left' = Tail(left) /\ UNCHANGED iteration
    /\ UNCHANGED <<review, standing>> /\ Told

\* The persona cannot be read, neither model gives a verdict, an artifact cannot be written:
\* whatever raises denies the gate.
ReviewerUnavailable ==
    /\ UnderReview
    /\ left' = Over /\ standing' = "denied" /\ UNCHANGED <<review, iteration, heard>> /\ Told

\* The policy on a reference to the action.
classify(g) == g.owner = "leo" /\ ~g.high_risk

\* What is approved without Leo: the probe's draft; what the DevOps reviewer on the cloud calls
\* ROUTINE, never the local model (line 748); the policy's own action that is not of high risk.
Autonomous ==
    \/ Probed(review)
    \/ review.type = "devops_gate" /\ left = <<>> /\ heard.verdict = "positive" /\ heard.by = "cloud"
    \/ review.type = "hostops" /\ classify(review)

Approves ==
    /\ UnderReview /\ Autonomous
    /\ left' = Over /\ standing' = "autonomous" /\ UNCHANGED <<review, iteration, heard>> /\ Told

\* The synthetic probe answers its own gate.
LeavesToProbe ==
    /\ UnderReview /\ review.type = "synthetic_probe"
    /\ left' = Over /\ UNCHANGED <<review, iteration, heard, standing>> /\ Told

\* Leo is asked: on Buzz, whose poller finds the gate by itself; by Telegram where that is the
\* surface, with the buttons, or where the poller is down, with an alert.  Either may not arrive.
AsksLeo ==
    /\ UnderReview /\ left = <<>> /\ ~Autonomous /\ review.type # "synthetic_probe"
    /\ left' = Over /\ standing' = "pending_leo"
    /\ IF surface = "buzz" /\ alive THEN UNCHANGED alerted ELSE alerted' \in {alerted, TRUE}
    /\ UNCHANGED <<review, iteration, heard, surface, alive, stale, tg_escalated>>

\* The escalation loop, once a minute: with the poller down Leo is told of a gate that is older
\* than the window.  The alert may reach none of his chats, and the loop may end between it and
\* the mark; a gate that is marked is not told of again.
Stale == surface = "buzz" /\ ~alive /\ standing = "pending_leo" /\ stale /\ ~tg_escalated
\* Mutant of Marks: it is marked before it is sent.
MarksFirst(sent, marked) == marked
Marks(sent, marked) == sent /\ marked
_escalate_stale_gates ==
    /\ Stale
    /\ \E sent, marked \in BOOLEAN :
          /\ alerted' = (alerted \/ sent)
          /\ tg_escalated' = Marks(sent, marked)
    /\ UNCHANGED <<review, left, iteration, heard, standing, surface, alive, stale>>

\* Leo, or the probe, answers; the poller dies and comes back; time passes; the council
\* restarts and the review is gone.
resolve_gate ==
    /\ standing = "pending_leo" \/ (standing = "processing" /\ review.type = "synthetic_probe")
    /\ standing' \in {"approved", "rejected"} /\ UNCHANGED <<review, left, iteration, heard>> /\ Told
PollerTurns ==
    /\ review # NoGate /\ alive' = ~alive
    /\ UNCHANGED <<review, left, iteration, heard, standing, surface, stale, alerted, tg_escalated>>
WindowPasses_ ==
    /\ review # NoGate /\ ~stale /\ stale' = TRUE
    /\ UNCHANGED <<review, left, iteration, heard, standing, surface, alive, alerted, tg_escalated>>
CouncilDies == UnderReview /\ left' = Over /\ UNCHANGED <<review, iteration, heard, standing>> /\ Told

GRNext ==
    \/ receive_gate \/ _gate_review_llm \/ ReviewerUnavailable \/ Approves \/ LeavesToProbe \/ AsksLeo
    \/ _escalate_stale_gates \/ resolve_gate \/ PollerTurns \/ WindowPasses_ \/ CouncilDies

GRSpec == GRInit /\ [][GRNext]_grVars

-----------------------------------------------------------------------------
\* A gate that waits for Leo does not wait behind a dead poller without his knowing, whether
\* the poller was down when he was asked or died after the card was left to it, and whatever
\* alerts are lost on the way: unless the poller comes back or the gate is answered, an alert
\* gets to his phone (lines 160-162 and 175-207: "the one message that must always land").
DeadPollerIsTold ==
    (standing = "pending_leo" /\ surface = "buzz" /\ ~alive) ~> (alive \/ alerted \/ standing # "pending_leo")
=============================================================================
