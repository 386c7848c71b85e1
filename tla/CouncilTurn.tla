----------------------------- MODULE CouncilTurn -----------------------------
(***************************************************************************)
(* Leo talks to an advisor: POST /council/message (kai-council-api/        *)
(* router.py), with its rate limit (council_config.py), its account of     *)
(* what was used (usage_tracker.py) and the conversation it keeps in the   *)
(* Memory Service (ContextMemory).  Several messages of one conversation   *)
(* may be handled at once.  A message that resolves a gate or is saved to  *)
(* the parking lot never gets to a model; what happens then is modelled    *)
(* in GateResolution and ParkingLot.  An advisor has a conversation of its *)
(* own (router.py:491); of all of them the model has two, of a private     *)
(* advisor and of another one.                                             *)
(***************************************************************************)
EXTENDS ContextMemory

CONSTANTS Requests,                 \* messages handled at once
          Providers,                \* of the advisors: anthropic, ollama, litellm, hermes
          MAX_AGENTIC_ITERATIONS,   \* 12
          HOURLY_CALL_CAP,          \* 50
          INTERACTIVE_BUDGET        \* in steps of the day's cost; the last step before it warns

VARIABLES req,                      \* a message on its way
          confided,                 \* by conversation: the reasons why what was said there is private
          usage, data,              \* token_usage.json; what a writer of it has loaded
          hermes                    \* messages an advisor on the mini is working on

ctVars == <<cmVars, req, confided, usage, data, hermes>>

\* ember and doc are private advisors; a message to any other may carry the flag.
Reasons == {"advisor", "flag"}
ReasonsOf(private, flag) == (IF private THEN {"advisor"} ELSE {}) \cup (IF flag THEN {"flag"} ELSE {})
NoRequest == [at |-> "idle", private |-> FALSE, privacy |-> FALSE, holds |-> {}, provider |-> "none",
              cloud |-> FALSE, iteration |-> 0]
NoUsage == [calls |-> 0, cost |-> 0]

CTInit ==
    /\ CMInit
    /\ req = [r \in Requests |-> NoRequest] /\ confided = [private \in BOOLEAN |-> {}]
    /\ usage = NoUsage /\ data = [r \in Requests |-> NoUsage] /\ hermes = {}

At_(r, step_) == req[r].at = step_
Replies(r) == req' = [req EXCEPT ![r] = NoRequest]
Goes_(r, step_) == req' = [req EXCEPT ![r].at = step_]

\* What the file says decides.  An interactive message at or past the warning is let through
\* before the calls of the hour are looked at; past the budget it gets a lighter model.
Warned(u) == u.cost + 1 >= INTERACTIVE_BUDGET
Blocked(u, interactive) == ~(interactive /\ Warned(u)) /\ u.calls >= HOURLY_CALL_CAP

\* ember, doc and whoever asks for it get the local model.
ProviderOf(configured, privacy) == IF privacy THEN "ollama" ELSE configured

MessageTo(configured, private, flag) ==
    LET privacy == private \/ flag
    IN  [NoRequest EXCEPT !.at = "checked", !.private = private, !.privacy = privacy,
                          !.holds = ReasonsOf(private, flag), !.provider = ProviderOf(configured, privacy)]

council_message(r) ==
    /\ At_(r, "idle")
    /\ \E interactive, private, flag \in BOOLEAN, configured \in Providers :
          ~Blocked(usage, interactive) /\ req' = [req EXCEPT ![r] = MessageTo(configured, private, flag)]
    /\ UNCHANGED <<cmVars, confided, usage, data, hermes>>

\* What is recognised as something to keep is only counted.
_handle_auto_capture(r) ==
    /\ At_(r, "idle") /\ Goes_(r, "counting") /\ UNCHANGED <<cmVars, confided, usage, data, hermes>>

\* The package of the conversation: what was said there, or its summary, goes to the model with
\* the message.  No package, no answer (502, 404).
Assembles(r) ==
    /\ At_(r, "checked")
    /\ \/ req' = [req EXCEPT ![r].at = "assembled", ![r].holds = @ \cup confided[req[r].private]]
       \/ Replies(r)
    /\ UNCHANGED <<cmVars, confided, usage, data, hermes>>

\* A turn that is not recorded is only logged.
Keeps(r) ==
    \/ record_turn /\ confided' = [confided EXCEPT ![req[r].private] = @ \cup req[r].holds]
    \/ UNCHANGED <<cmVars, confided>>
RecordsQuestion(r) ==
    /\ At_(r, "assembled") /\ Keeps(r) /\ Goes_(r, "model") /\ UNCHANGED <<usage, data, hermes>>

Counted_(n, most) == IF n < most THEN n + 1 ELSE n
IsCloud(provider) == provider \in {"anthropic", "litellm", "fallback"}
Asks(r, provider) ==
    req' = [req EXCEPT ![r].at = "asked", ![r].provider = provider, ![r].iteration = Counted_(@, MAX_AGENTIC_ITERATIONS),
                       ![r].cloud = @ \/ IsCloud(provider)]

CallsModel(r) ==
    /\ At_(r, "model") /\ req[r].provider # "hermes" /\ Asks(r, req[r].provider)
    /\ UNCHANGED <<cmVars, confided, usage, data, hermes>>

\* An advisor on the mini works in the background, Leo is told so; the answer, or that there
\* is none, is appended to the advisor's log, or lost with a restart.
CallsHermes(r) ==
    /\ At_(r, "model") /\ req[r].provider = "hermes"
    /\ hermes' = hermes \cup {r} /\ Goes_(r, "answered") /\ UNCHANGED <<cmVars, confided, usage, data>>
_run_hermes_async(r) ==
    r \in hermes /\ hermes' = hermes \ {r} /\ UNCHANGED <<cmVars, req, confided, usage, data>>
CouncilRestarts ==
    /\ req' = [r \in Requests |-> NoRequest] /\ data' = [r \in Requests |-> NoUsage] /\ hermes' = {}
    /\ UNCHANGED <<cmVars, confided, usage>>

\* The local model or the proxy fails: the cloud is asked, unless the message is private.
\* Mutant of FallsBack: for a private message too.
FallsBackAnyway(r) ==
    /\ At_(r, "asked") /\ req[r].provider \in {"ollama", "litellm"}
    /\ Asks(r, "fallback") /\ UNCHANGED <<cmVars, confided, usage, data, hermes>>
FallsBack(r) ==
    /\ At_(r, "asked") /\ req[r].provider \in {"ollama", "litellm"}
    /\ IF req[r].privacy THEN Replies(r) ELSE Asks(r, "fallback")
    /\ UNCHANGED <<cmVars, confided, usage, data, hermes>>

MoreTools(r) == req[r].iteration < MAX_AGENTIC_ITERATIONS

\* The answer: text, which ends the loop, as do a full budget and telemetry that is not taken;
\* or tools to use, which are run, and the model is asked again.  What the provider refuses is
\* told to Leo and not counted.
Answers(r) == At_(r, "asked") /\ Goes_(r, "answered") /\ UNCHANGED <<cmVars, confided, usage, data, hermes>>
UsesTools(r) ==
    /\ At_(r, "asked") /\ req[r].provider = "anthropic" /\ Goes_(r, "tools")
    /\ UNCHANGED <<cmVars, confided, usage, data, hermes>>
ToolsDone(r) ==
    /\ At_(r, "tools") /\ IF MoreTools(r) THEN Asks(r, "anthropic") ELSE Goes_(r, "answered")
    /\ UNCHANGED <<cmVars, confided, usage, data, hermes>>
ProviderFails(r) ==
    /\ At_(r, "asked") /\ IsCloud(req[r].provider) /\ Replies(r) /\ UNCHANGED <<cmVars, confided, usage, data, hermes>>

RecordsAnswer(r) ==
    /\ At_(r, "answered") /\ Keeps(r) /\ Goes_(r, "counting") /\ UNCHANGED <<usage, data, hermes>>

\* The file is read, and written with one call more: three services do so, without a lock.
TrackLoads(r) ==
    /\ At_(r, "counting") /\ data' = [data EXCEPT ![r] = usage]
    /\ Goes_(r, "saving") /\ UNCHANGED <<cmVars, confided, usage, hermes>>
TrackSaves(r) ==
    /\ At_(r, "saving") /\ Replies(r) /\ data' = [data EXCEPT ![r] = NoUsage]
    /\ usage' = [calls |-> Counted_(data[r].calls, HOURLY_CALL_CAP),
                 cost |-> IF req[r].cloud THEN Counted_(data[r].cost, INTERACTIVE_BUDGET) ELSE data[r].cost]
    /\ UNCHANGED <<cmVars, confided, hermes>>

TurnStep_(r) ==
    \/ Assembles(r) \/ RecordsQuestion(r) \/ CallsModel(r) \/ CallsHermes(r) \/ FallsBack(r)
    \/ Answers(r) \/ UsesTools(r) \/ ToolsDone(r) \/ ProviderFails(r) \/ RecordsAnswer(r) \/ TrackLoads(r) \/ TrackSaves(r)

\* Another hour, another day.
HourPasses == usage' = [usage EXCEPT !.calls = 0] /\ UNCHANGED <<cmVars, req, confided, data, hermes>>
DayPasses_ == usage' = NoUsage /\ UNCHANGED <<cmVars, req, confided, data, hermes>>

CTNext ==
    \/ HourPasses \/ DayPasses_ \/ CouncilRestarts
    \/ \E r \in Requests : council_message(r) \/ _handle_auto_capture(r) \/ TurnStep_(r) \/ _run_hermes_async(r)
    \/ MemoryStep_ /\ UNCHANGED <<req, confided, usage, data, hermes>>
CTSpec == CTInit /\ [][CTNext]_ctVars

-----------------------------------------------------------------------------
\* "Private advisors whose turns must never leave the local privacy boundary"
\* (privacy_tiers.py:3): a model in the cloud is given no message to a private advisor, and
\* no package with what was said to one, whatever fails.
PrivateIsLocal == \A r \in Requests : req[r].cloud => "advisor" \notin req[r].holds

\* "ember/doc always local, or explicit flag" (router.py:606): does not hold of the flag, the
\* message is recorded like any other and is in the package of the next one without it.
FlaggedIsLocal == \A r \in Requests : req[r].cloud => "flag" \notin req[r].holds

\* A message gets its reply: no tools, fallbacks and failures go on for ever.
TurnEnds == \A r \in Requests : (req[r].at # "idle") ~> (req[r].at = "idle")

\* "hard block for all traffic types (loop/runaway protection)" (council_config.py:144): does
\* not hold, past the warning of the day's budget the calls of the hour are not looked at.
RunawayIsStopped ==
    [][\A r \in Requests : (req[r].at = "idle" /\ req'[r].at = "checked") => usage.calls < HOURLY_CALL_CAP]_ctVars
=============================================================================
