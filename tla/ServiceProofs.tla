---------------------------- MODULE ServiceProofs ----------------------------
(***************************************************************************)
(* What holds of the services around the engine, for every number of       *)
(* writers, cards, sessions, messages and sweeps: the Fact Registry, the   *)
(* turn gate, a private message, the memory of a conversation, the         *)
(* decisions and tickets of the custodians, the moves of secrets, and the  *)
(* green baseline's witnesses.                                             *)
(***************************************************************************)
EXTENDS FactRegistry, TurnGate, CouncilTurn, Custodian, Provisioning,
        GreenBaseline, FiniteSetTheorems, TLAPS

-----------------------------------------------------------------------------
(* The Fact Registry.  The lock makes what a writer read stay true until it *)
(* writes: its new root is the registry and a batch that does not conflict. *)

IngestState == [at : {"idle", "waiting", "locked", "writing"}, batch : SUBSET Facts, root : SUBSET Facts]

RegistryInv ==
    /\ registry \subseteq Facts
    /\ lock \in Ingests \cup {NoIngest}
    /\ ingest \in [Ingests -> IngestState]
    /\ OneEach(registry)
    /\ \A w \in Ingests : ingest[w].at \in {"locked", "writing"} => lock = w
    /\ \A w \in Ingests : ingest[w].at # "idle" => OneEach(ingest[w].batch)
    /\ \A w \in Ingests : ingest[w].at = "writing" =>
          /\ ingest[w].root = registry \cup ingest[w].batch
          /\ ~Conflicts(ingest[w].batch)

\* Two sets of facts without a conflict make one set of facts with one content per id
\* (registry.py:209-223).
LEMMA MergedIsOne ==
    ASSUME NEW batch \in SUBSET Facts, OneEach(batch), OneEach(registry), ~Conflicts(batch)
    PROVE  OneEach(registry \cup batch)
BY DEF OneEach, Conflicts, _same_fact

LEMMA RegistryInit == FRInit => RegistryInv
BY NoIngestAssumption DEF FRInit, RegistryInv, IngestState, Rest, OneEach, Facts

LEMMA RegistryStep == RegistryInv /\ [FRNext]_frVars => RegistryInv'
<1> SUFFICES ASSUME RegistryInv, [FRNext]_frVars PROVE RegistryInv'
    OBVIOUS
<1> USE NoIngestAssumption DEF IngestState, Rest
<1>1. ASSUME NEW w \in Ingests, append_verified_facts(w) PROVE RegistryInv'
    <2>1. PICK batch \in SUBSET Facts :
              /\ _normalize_fact(batch)
              /\ ingest' = [ingest EXCEPT ![w] = [Rest EXCEPT !.at = "waiting", !.batch = batch]]
        BY <1>1 DEF append_verified_facts
    <2>2. ingest'[w] = [at |-> "waiting", batch |-> batch, root |-> {}]
        BY <2>1 DEF RegistryInv
    <2>3. ingest' \in [Ingests -> IngestState]
        BY <2>1, <2>2 DEF RegistryInv
    <2>. QED BY <1>1, <2>1, <2>2, <2>3 DEF RegistryInv, append_verified_facts, _normalize_fact, OneEach, Conflicts
<1>2. ASSUME NEW w \in Ingests, Locks(w) PROVE RegistryInv'
    BY <1>2 DEF RegistryInv, Locks, OneEach, Conflicts
<1>3. ASSUME NEW w \in Ingests, Reads(w) PROVE RegistryInv'
    <2> DEFINE mine == ingest[w].batch
    <2>1. CASE Conflicts(mine) \/ mine \subseteq registry
        BY <1>3, <2>1 DEF RegistryInv, Reads, Release, OneEach, Conflicts
    <2>2. CASE ~(Conflicts(mine) \/ mine \subseteq registry)
        <3>1. /\ ingest' = [ingest EXCEPT ![w].at = "writing", ![w].root = registry \cup mine]
              /\ UNCHANGED <<registry, lock>>
            BY <1>3, <2>2 DEF Reads
        <3>2. lock = w /\ ~Conflicts(mine) /\ mine \in SUBSET Facts
            BY <1>3, <2>2 DEF RegistryInv, Reads
        <3>3. ingest'[w] = [at |-> "writing", batch |-> mine, root |-> registry \cup mine]
            BY <3>1 DEF RegistryInv
        <3>4. ingest' \in [Ingests -> IngestState]
            BY <3>1, <3>2, <3>3 DEF RegistryInv
        <3>. QED BY <1>3, <3>1, <3>2, <3>3, <3>4 DEF RegistryInv, Reads, OneEach, Conflicts
    <2>. QED BY <2>1, <2>2
<1>4. ASSUME NEW w \in Ingests, Replaces(w) PROVE RegistryInv'
    <2>1. registry' = registry \cup ingest[w].batch /\ lock = w
        BY <1>4 DEF RegistryInv, Replaces
    <2>2. OneEach(registry')
        BY <1>4, <2>1, MergedIsOne DEF RegistryInv, Replaces
    <2>3. \A v \in Ingests : ingest'[v].at # "writing"
        BY <1>4, <2>1 DEF RegistryInv, Replaces, Release
    <2>. QED BY <1>4, <2>1, <2>2, <2>3 DEF RegistryInv, Replaces, Release, OneEach
<1>5. ASSUME NEW w \in Ingests, Fails(w) PROVE RegistryInv'
    BY <1>5 DEF RegistryInv, Fails, OneEach, Conflicts
<1>6. CASE UNCHANGED frVars
    BY <1>6 DEF RegistryInv, frVars, OneEach, Conflicts
<1>. QED BY <1>1, <1>2, <1>3, <1>4, <1>5, <1>6 DEF FRNext

\* No id ever stands for two facts, whoever ingests at the same time and dies on the way.
THEOREM OneFactPerId == FRSpec => []IdsAreOne
<1>1. RegistryInv => IdsAreOne
    BY DEF RegistryInv, IdsAreOne
<1>. QED BY <1>1, RegistryInit, RegistryStep, PTL DEF FRSpec

\* What was taken is never lost, and a batch is taken as a whole.
THEOREM FactsKept == FRSpec => FactsAreKept
<1>1. RegistryInv /\ [FRNext]_frVars =>
          [registry' # registry => \E w \in Ingests : registry' = registry \cup ingest[w].batch]_frVars
    BY DEF RegistryInv, FRNext, frVars, append_verified_facts, Locks, Reads, Replaces, Fails
<1>. QED BY <1>1, RegistryInit, RegistryStep, PTL DEF FRSpec, FactsAreKept

-----------------------------------------------------------------------------
(* The turn gate.  The count on disk is raised before a claim is answered, so *)
(* it is never behind the claims that were honored; the claim file is made    *)
(* before the count is raised, so a card in hand was never honored before.    *)

InHand(s) == IF claim.at = "answer" /\ Owner[claim.card] = s THEN 1 ELSE 0
HonoredOf(s) == {c \in honored : Owner[c] = s}

CountInv ==
    /\ TurnTypeOK
    /\ \A s \in Sessions : granted[s] + InHand(s) <= yields[s]
    /\ \A s \in Sessions : granted[s] <= YieldBound
    /\ claim.at = "answer" => claim.n = yields[Owner[claim.card]]

CardInv ==
    /\ TurnTypeOK
    /\ IsFiniteSet(honored) /\ honored \subseteq claims /\ honored \subseteq ledger \cap Suppressing
    /\ ledger \cap Fabricated = {}
    /\ claim.at \in {"once", "bump", "answer"} => claim.card \in ledger \cap Suppressing
    /\ claim.at \in {"bump", "answer"} => claim.card \in claims \ honored
    /\ \A s \in Sessions : granted[s] = Cardinality(HonoredOf(s))

LEMMA CountInit == TurnInit => CountInv
BY YieldAssumption DEF TurnInit, CountInv, TurnTypeOK, InHand, NoClaim, ClaimState

LEMMA CountStep == CountInv /\ [TurnNext]_turnVars => CountInv'
<1> SUFFICES ASSUME CountInv, [TurnNext]_turnVars PROVE CountInv'
    OBVIOUS
<1> USE YieldAssumption DEF CountInv, TurnTypeOK, InHand, ClaimState, NoClaim
<1>1. ASSUME NEW c \in Cards, Register(c) PROVE CountInv'
    BY <1>1 DEF Register
<1>2. ASSUME NEW c \in Cards, ClaimBegins(c) PROVE CountInv'
    BY <1>2 DEF ClaimBegins
<1>3. CASE CheckLedger
    BY <1>3 DEF CheckLedger
<1>4. CASE ClaimOnce
    BY <1>4 DEF ClaimOnce
<1>5. CASE BumpYield
    <2> DEFINE s == Owner[claim.card]
               n == yields[s] + 1
    <2>1. claim.card \in Cards /\ s \in Sessions
        BY <1>5 DEF BumpYield
    <2>2. CASE claim' = NoClaim /\ UNCHANGED yields
        BY <1>5, <2>2 DEF BumpYield
    <2>3. CASE n <= MaxYield /\ yields' = [yields EXCEPT ![s] = n]
               /\ claim' = [claim EXCEPT !.at = "answer", !.n = n]
        <3>a. claim \in [at : {"check", "once", "bump", "answer"}, card : Cards, n : 0..MaxYield]
            BY <1>5 DEF BumpYield
        <3>b. n \in 0..MaxYield
            BY <2>1, <2>3
        <3>1. claim' = [at |-> "answer", card |-> claim.card, n |-> n] /\ n \in 0..MaxYield
            BY <2>3, <3>a, <3>b
        <3>2. yields' \in [Sessions -> 0..MaxYield] /\ yields'[s] = n
            BY <2>1, <2>3, <3>1
        <3>3. TurnTypeOK'
            BY <1>5, <2>1, <3>1, <3>2 DEF BumpYield
        <3>4. claim'.at = "answer" /\ claim'.card = claim.card /\ claim'.n = yields'[s]
            BY <3>1, <3>2
        <3>5. \A x \in Sessions : granted'[x] + InHand(x)' <= yields'[x]
            BY <1>5, <2>1, <2>3, <3>2, <3>4 DEF BumpYield
        <3>. QED BY <1>5, <3>3, <3>4, <3>5 DEF BumpYield
    <2>. QED BY <1>5, <2>2, <2>3 DEF BumpYield
<1>6. CASE Answer
    BY <1>6 DEF Answer
<1>7. CASE WorkerDies
    BY <1>7 DEF WorkerDies
<1>8. CASE UNCHANGED turnVars
    BY <1>8 DEF turnVars
<1>. QED BY <1>1, <1>2, <1>3, <1>4, <1>5, <1>6, <1>7, <1>8 DEF TurnNext

\* A session is let go at most YieldBound times, whatever claims, failed writes and deaths
\* of the worker come in between (turn_gate.py: claim_blocker).
THEOREM Bounded == TurnSpec => []YieldsBounded
<1>1. CountInv => YieldsBounded
    BY DEF CountInv, YieldsBounded
<1>. QED BY <1>1, CountInit, CountStep, PTL DEF TurnSpec

LEMMA CardInit == TurnInit => CardInv
<1>1. IsFiniteSet({}) /\ Cardinality({}) = 0
    BY FS_EmptySet
<1>2. TurnInit => \A s \in Sessions : HonoredOf(s) = {}
    BY DEF TurnInit, HonoredOf
<1>3. TurnInit => TurnTypeOK
    BY CountInit DEF CountInv
<1>4. TurnInit => claim.at = "none" /\ honored = {} /\ ledger = {} /\ granted = [s \in Sessions |-> 0]
    BY DEF TurnInit, NoClaim
<1>. QED BY <1>1, <1>2, <1>3, <1>4 DEF CardInv

LEMMA CardStep == CardInv /\ CountInv /\ [TurnNext]_turnVars => CardInv'
<1> SUFFICES ASSUME CardInv, CountInv, [TurnNext]_turnVars PROVE CardInv'
    OBVIOUS
<1>0. TurnTypeOK'
    BY CountStep DEF CountInv
<1> USE YieldAssumption DEF TurnTypeOK, ClaimState, NoClaim
<1>a. ASSUME UNCHANGED <<honored, granted>>
      PROVE  \A s \in Sessions : granted'[s] = Cardinality(HonoredOf(s)')
    BY <1>a DEF CardInv, HonoredOf
<1>1. ASSUME NEW c \in Cards, Register(c) PROVE CardInv'
    BY <1>0, <1>a, <1>1 DEF CardInv, Register
<1>2. ASSUME NEW c \in Cards, ClaimBegins(c) PROVE CardInv'
    BY <1>0, <1>a, <1>2 DEF CardInv, ClaimBegins
<1>3. CASE CheckLedger
    BY <1>0, <1>a, <1>3 DEF CardInv, CheckLedger
<1>4. CASE ClaimOnce
    BY <1>0, <1>a, <1>4 DEF CardInv, ClaimOnce
<1>5. CASE BumpYield
    <2>1. claim \in [at : {"check", "once", "bump", "answer"}, card : Cards, n : 0..MaxYield]
        BY <1>5 DEF CardInv, BumpYield
    <2>2. claim'.at \in {"answer", "none"} /\ (claim'.at = "answer" => claim'.card = claim.card)
        <3>1. \/ claim' = NoClaim
              \/ claim' = [claim EXCEPT !.at = "answer", !.n = yields[Owner[claim.card]] + 1]
            BY <1>5 DEF BumpYield
        <3>2. claim = [at |-> claim.at, card |-> claim.card, n |-> claim.n]
            BY <2>1
        <3> DEFINE n == yields[Owner[claim.card]] + 1
        <3> HIDE DEF n
        <3>a. n \in Nat
            BY <2>1 DEF CardInv, n
        <3>3. ASSUME claim' = [claim EXCEPT !.at = "answer", !.n = n]
              PROVE  claim' = [at |-> "answer", card |-> claim.card, n |-> n]
            BY <2>1, <3>a, <3>3
        <3>4. \/ claim' = NoClaim
              \/ claim' = [at |-> "answer", card |-> claim.card, n |-> n]
            BY <3>1, <3>3 DEF n
        <3>. QED BY <3>4
    <2>3. UNCHANGED <<ledger, claims, honored, granted>> /\ claim.at = "bump"
        BY <1>5 DEF BumpYield
    <2>. QED BY <1>0, <1>a, <2>2, <2>3 DEF CardInv
<1>6. CASE Answer
    <2>1. CASE UNCHANGED <<honored, granted>>
        BY <1>0, <1>a, <1>6, <2>1 DEF CardInv, Answer
    <2>2. CASE honored' = honored \cup {claim.card}
               /\ granted' = [granted EXCEPT ![Owner[claim.card]] = @ + 1]
        <3>1. claim.card \in Cards /\ claim.card \in claims \ honored /\ claim.card \in ledger \cap Suppressing
            BY <1>6 DEF CardInv, Answer
        <3>2. IsFiniteSet(honored')
            BY <2>2, FS_AddElement DEF CardInv
        <3>3. ASSUME NEW s \in Sessions PROVE granted'[s] = Cardinality(HonoredOf(s)')
            <4>1. IsFiniteSet(HonoredOf(s))
                BY FS_Subset DEF CardInv, HonoredOf
            <4>2. CASE s = Owner[claim.card]
                <5>1. HonoredOf(s)' = HonoredOf(s) \cup {claim.card} /\ claim.card \notin HonoredOf(s)
                    BY <2>2, <3>1, <4>2 DEF HonoredOf
                <5>2. Cardinality(HonoredOf(s)') = Cardinality(HonoredOf(s)) + 1
                    BY <4>1, <5>1, FS_AddElement
                <5>. QED BY <2>2, <4>2, <5>2 DEF CardInv
            <4>3. CASE s # Owner[claim.card]
                <5>1. HonoredOf(s)' = HonoredOf(s)
                    BY <2>2, <4>3 DEF HonoredOf
                <5>. QED BY <2>2, <3>1, <4>3, <5>1 DEF CardInv
            <4>. QED BY <4>2, <4>3
        <3>. QED BY <1>0, <1>6, <2>2, <3>1, <3>2, <3>3 DEF CardInv, Answer
    <2>. QED BY <1>6, <2>1, <2>2 DEF Answer
<1>7. CASE WorkerDies
    BY <1>0, <1>a, <1>7 DEF CardInv, WorkerDies
<1>8. CASE UNCHANGED turnVars
    BY <1>0, <1>a, <1>8 DEF CardInv, turnVars
<1>. QED BY <1>1, <1>2, <1>3, <1>4, <1>5, <1>6, <1>7, <1>8 DEF TurnNext

\* One card lets a session go once: as many claims were honored as cards, each of them
\* registered, not made up, and of a class that holds back the stop.
THEOREM HonoredOnce == TurnSpec => []CardHonoredOnce
<1>1. CardInv => CardHonoredOnce
    BY DEF CardInv, CardHonoredOnce, HonoredOf
<1>2. CardInv /\ CountInv /\ [TurnNext]_turnVars => (CardInv /\ CountInv)'
    BY CardStep, CountStep
<1>. QED BY <1>1, <1>2, CardInit, CountInit, PTL DEF TurnSpec

-----------------------------------------------------------------------------
(* A message to an advisor.  A private one is given to the local model, and  *)
(* what fails there is not asked again elsewhere.                            *)

Advisors == Providers \cup {"none", "ollama", "anthropic", "fallback"}
Request == [at : {"idle", "checked", "assembled", "model", "asked", "tools", "answered", "counting", "saving"},
            private : BOOLEAN, privacy : BOOLEAN, holds : SUBSET Reasons, provider : Advisors,
            cloud : BOOLEAN, iteration : Nat]

RequestInv ==
    /\ req \in [Requests -> Request]
    /\ \A r \in Requests : req[r].privacy => req[r].provider = "ollama" /\ ~req[r].cloud
    /\ \A r \in Requests : req[r].at = "tools" => req[r].provider = "anthropic"

\* What was said to a private advisor is in that advisor's conversation, which is privately answered.
HeldInv ==
    /\ confided \in [BOOLEAN -> SUBSET Reasons] /\ "advisor" \notin confided[FALSE]
    /\ \A r \in Requests : req[r].private => req[r].privacy
    /\ \A r \in Requests : "advisor" \in req[r].holds => req[r].private

LEMMA RequestInit == CTInit => RequestInv /\ HeldInv
BY DEF CTInit, RequestInv, HeldInv, NoRequest, Request, Advisors, Reasons

\* Asking the local model, or any model about a message that is not private, keeps it so.
LEMMA AskingKeeps ==
    ASSUME RequestInv, NEW r \in Requests, NEW p \in Advisors, Asks(r, p),
           req[r].privacy => p = "ollama"
    PROVE  RequestInv'
<1> DEFINE q == req[r]
<1>1. q \in Request
    BY DEF RequestInv
<1>2. Counted_(q.iteration, MAX_AGENTIC_ITERATIONS) \in Nat
    BY <1>1 DEF Counted_, Request
<1>3. (q.cloud \/ IsCloud(p)) \in BOOLEAN /\ (q.privacy => ~(q.cloud \/ IsCloud(p)))
    BY DEF RequestInv, IsCloud
<1>4. PICK c \in BOOLEAN, n \in Nat :
        /\ req' = [req EXCEPT ![r] = [q EXCEPT !.at = "asked", !.provider = p, !.iteration = n, !.cloud = c]]
        /\ q.privacy => ~c
    BY <1>2, <1>3 DEF RequestInv, Asks
<1>5. PICK z : z = [q EXCEPT !.at = "asked", !.provider = p, !.iteration = n, !.cloud = c]
    OBVIOUS
<1>6. /\ z \in Request /\ z.at = "asked" /\ z.privacy = q.privacy /\ z.provider = p /\ z.cloud = c
      /\ z.private = q.private /\ z.holds = q.holds
    <2> HIDE DEF q
    <2>. QED BY <1>1, <1>5 DEF Request
<1>7. req' = [req EXCEPT ![r] = z]
    BY <1>4, <1>5
<1>. QED BY <1>4, <1>6, <1>7 DEF RequestInv

\* A new message: what it holds, and who is to answer it.
LEMMA MessageIsHeld ==
    ASSUME RequestInv, NEW r \in Requests, council_message(r)
    PROVE  \E z \in Request :
              /\ req' = [req EXCEPT ![r] = z] /\ z.at = "checked" /\ ~z.cloud
              /\ z.privacy => z.provider = "ollama"
              /\ z.private => z.privacy
              /\ "advisor" \in z.holds => z.private
<1>1. PICK private \in BOOLEAN, flag \in BOOLEAN, configured \in Providers :
        req' = [req EXCEPT ![r] = MessageTo(configured, private, flag)]
    BY DEF council_message
<1>2. PICK privacy \in BOOLEAN, provider \in Advisors :
        /\ privacy = (private \/ flag) /\ provider = ProviderOf(configured, private \/ flag)
        /\ privacy => provider = "ollama"
    BY DEF ProviderOf, Advisors
<1>3. PICK holds \in SUBSET Reasons : holds = ReasonsOf(private, flag) /\ ("advisor" \in holds <=> private)
    <2>1. ReasonsOf(private, flag) \in SUBSET Reasons /\ ("advisor" \in ReasonsOf(private, flag) <=> private)
        BY DEF ReasonsOf, Reasons
    <2>. QED BY <2>1
<1>4. PICK z : z = [NoRequest EXCEPT !.at = "checked", !.private = private, !.privacy = privacy,
                                     !.holds = holds, !.provider = provider]
    OBVIOUS
<1>5. z \in Request /\ z.at = "checked" /\ ~z.cloud /\ z.privacy = privacy /\ z.provider = provider
      /\ z.private = private /\ z.holds = holds
    BY <1>4 DEF NoRequest, Request
<1>6. MessageTo(configured, private, flag) = z
    BY <1>2, <1>3, <1>4 DEF MessageTo
<1>. QED BY <1>1, <1>2, <1>3, <1>5, <1>6

LEMMA RequestStep == RequestInv /\ HeldInv /\ [CTNext]_ctVars => RequestInv'
<1> SUFFICES ASSUME RequestInv, HeldInv, [CTNext]_ctVars PROVE RequestInv'
    OBVIOUS
<1>1. CASE UNCHANGED req
    BY <1>1 DEF RequestInv
<1>2. CASE CouncilRestarts
    BY <1>2 DEF CouncilRestarts, RequestInv, NoRequest, Request, Advisors
<1>3. ASSUME NEW r \in Requests, council_message(r) PROVE RequestInv'
    BY <1>3, MessageIsHeld DEF RequestInv
<1>4. ASSUME NEW r \in Requests, NEW p \in {"checked", "assembled", "model", "asked", "answered", "counting", "saving"},
             Goes_(r, p) PROVE RequestInv'
    BY <1>4 DEF RequestInv, Goes_, Request
<1>5. ASSUME NEW r \in Requests, Replies(r) PROVE RequestInv'
    BY <1>5 DEF RequestInv, Replies, NoRequest, Request, Advisors
<1>6. ASSUME NEW r \in Requests, CallsModel(r) PROVE RequestInv'
    BY <1>6, AskingKeeps DEF CallsModel, RequestInv, Request
<1>7. ASSUME NEW r \in Requests, FallsBack(r) PROVE RequestInv'
    BY <1>5, <1>7, AskingKeeps DEF FallsBack, Advisors
<1>8. ASSUME NEW r \in Requests, ToolsDone(r) PROVE RequestInv'
    <2>1. CASE Goes_(r, "answered")
        BY <1>4, <2>1
    <2>2. CASE Asks(r, "anthropic")
        BY <1>8, <2>2, AskingKeeps DEF ToolsDone, At_, Advisors, RequestInv
    <2>. QED BY <1>8, <2>1, <2>2 DEF ToolsDone
<1>9. ASSUME NEW r \in Requests, UsesTools(r) PROVE RequestInv'
    BY <1>9 DEF UsesTools, At_, Goes_, RequestInv, Request
<1>10. ASSUME NEW r \in Requests, Assembles(r), ~Replies(r) PROVE RequestInv'
    <2>1. PICK h \in SUBSET Reasons : req' = [req EXCEPT ![r].at = "assembled", ![r].holds = h]
        BY <1>10 DEF Assembles, HeldInv, RequestInv, Request
    <2>2. req' = [req EXCEPT ![r] = [req[r] EXCEPT !.at = "assembled", !.holds = h]]
        BY <2>1 DEF RequestInv
    <2>. QED BY <2>2 DEF RequestInv, Request
<1>. QED BY <1>1, <1>2, <1>3, <1>4, <1>5, <1>6, <1>7, <1>8, <1>9, <1>10
         DEF CTNext, ctVars, HourPasses, DayPasses_, TurnStep_, _handle_auto_capture, RecordsQuestion,
             CallsHermes, _run_hermes_async, Answers, ProviderFails, RecordsAnswer, TrackLoads, TrackSaves

\* What a message on its way holds is what it held, and what a conversation holds is what it
\* held and what its messages hold.
LEMMA HeldStep == RequestInv /\ HeldInv /\ [CTNext]_ctVars => HeldInv'
<1> SUFFICES ASSUME RequestInv, HeldInv, [CTNext]_ctVars PROVE HeldInv'
    OBVIOUS
<1>1. CASE UNCHANGED <<req, confided>>
    BY <1>1 DEF HeldInv
<1>2. CASE CouncilRestarts
    BY <1>2 DEF CouncilRestarts, HeldInv, NoRequest
<1>3. ASSUME NEW r \in Requests, council_message(r) PROVE HeldInv'
    <2>1. confided' = confided
        BY <1>3 DEF council_message
    <2>. QED BY <1>3, <2>1, MessageIsHeld DEF HeldInv, RequestInv
<1>4. ASSUME NEW r \in Requests, NEW z, confided' = confided, req' = [req EXCEPT ![r] = z],
             \/ z = NoRequest
             \/ z.private = req[r].private /\ z.privacy = req[r].privacy /\ z.holds = req[r].holds
      PROVE  HeldInv'
    <2>1. (z.private => z.privacy) /\ ("advisor" \in z.holds => z.private)
        BY <1>4 DEF HeldInv, NoRequest
    <2>2. \A q \in Requests : req'[q] = IF q = r THEN z ELSE req[q]
        BY <1>4 DEF RequestInv
    <2>. QED BY <1>4, <2>1, <2>2 DEF HeldInv
<1>5. ASSUME NEW r \in Requests, confided' = confided, Replies(r) PROVE HeldInv'
    BY <1>4, <1>5 DEF Replies
<1>6. ASSUME NEW r \in Requests, NEW s, confided' = confided, Goes_(r, s) PROVE HeldInv'
    <2>1. req' = [req EXCEPT ![r] = [req[r] EXCEPT !.at = s]]
        BY <1>6 DEF Goes_, RequestInv
    <2>. QED BY <1>6, <2>1, <1>4 DEF RequestInv, Request
<1>7. ASSUME NEW r \in Requests, NEW p, confided' = confided, Asks(r, p) PROVE HeldInv'
    <2>1. PICK c, n : req' = [req EXCEPT ![r] = [req[r] EXCEPT !.at = "asked", !.provider = p, !.iteration = n, !.cloud = c]]
        BY <1>7 DEF Asks, RequestInv
    <2>. QED BY <1>7, <2>1, <1>4 DEF RequestInv, Request
<1>8. ASSUME NEW r \in Requests, Assembles(r), ~Replies(r) PROVE HeldInv'
    <2>1. /\ req' = [req EXCEPT ![r] = [req[r] EXCEPT !.at = "assembled", !.holds = req[r].holds \cup confided[req[r].private]]]
          /\ confided' = confided
        BY <1>8 DEF Assembles, RequestInv
    <2>2. req[r] \in Request /\ req[r].private \in BOOLEAN
        BY DEF RequestInv, Request
    <2>3. "advisor" \in req[r].holds \cup confided[req[r].private] => req[r].private
        BY <2>2 DEF HeldInv
    <2>. QED BY <2>1, <2>2, <2>3 DEF HeldInv, RequestInv, Request
<1>9. ASSUME NEW r \in Requests, NEW s, Keeps(r), Goes_(r, s) PROVE HeldInv'
    <2>1. CASE confided' = confided
        BY <1>6, <1>9, <2>1
    <2>2. CASE confided' = [confided EXCEPT ![req[r].private] = confided[req[r].private] \cup req[r].holds]
        <3>1. req[r].private \in BOOLEAN /\ req[r].holds \in SUBSET Reasons
            BY DEF RequestInv, Request
        <3>2. confided' \in [BOOLEAN -> SUBSET Reasons] /\ "advisor" \notin confided'[FALSE]
            BY <2>2, <3>1 DEF HeldInv
        <3>3. req' = [req EXCEPT ![r] = [req[r] EXCEPT !.at = s]]
            BY <1>9 DEF Goes_, RequestInv
        <3>4. \A q \in Requests : req'[q].private = req[q].private /\ req'[q].privacy = req[q].privacy
                                  /\ req'[q].holds = req[q].holds
            BY <3>3 DEF RequestInv, Request
        <3>. QED BY <3>2, <3>4 DEF HeldInv
    <2>. QED BY <1>9, <2>1, <2>2 DEF Keeps
<1>10. ASSUME NEW r \in Requests, TurnStep_(r) PROVE HeldInv'
    <2>1. CASE RecordsQuestion(r) \/ RecordsAnswer(r)
        BY <1>9, <2>1 DEF RecordsQuestion, RecordsAnswer
    <2>2. CASE Assembles(r)
        BY <1>5, <1>8, <2>2 DEF Assembles
    <2>3. CASE CallsModel(r) \/ FallsBack(r) \/ ToolsDone(r)
        BY <1>5, <1>6, <1>7, <2>3 DEF CallsModel, FallsBack, ToolsDone
    <2>4. CASE CallsHermes(r) \/ Answers(r) \/ UsesTools(r) \/ TrackLoads(r)
        BY <1>6, <2>4 DEF CallsHermes, Answers, UsesTools, TrackLoads
    <2>5. CASE ProviderFails(r) \/ TrackSaves(r)
        BY <1>5, <2>5 DEF ProviderFails, TrackSaves
    <2>. QED BY <1>10, <2>1, <2>2, <2>3, <2>4, <2>5 DEF TurnStep_
<1>11. ASSUME NEW r \in Requests, _handle_auto_capture(r) PROVE HeldInv'
    BY <1>6, <1>11 DEF _handle_auto_capture
<1>. QED BY <1>1, <1>2, <1>3, <1>10, <1>11 DEF CTNext, ctVars, HourPasses, DayPasses_, _run_hermes_async

\* A model in the cloud is given no message to a private advisor, and no package with what was
\* said to one, whatever fails (router.py:491, 511, 606-698).
THEOREM PrivateStays == CTSpec => []PrivateIsLocal
<1>1. RequestInv /\ HeldInv => PrivateIsLocal
    BY DEF RequestInv, HeldInv, PrivateIsLocal
<1>2. (RequestInv /\ HeldInv) /\ [CTNext]_ctVars => (RequestInv /\ HeldInv)'
    BY RequestStep, HeldStep
<1>. QED BY <1>1, <1>2, RequestInit, PTL DEF CTSpec

-----------------------------------------------------------------------------
(* The memory of a conversation.  Its beginning is folded, or was passed    *)
(* over, up to where a compaction read; how far that lies behind is what    *)
(* has been counted since, or what was counted until a compaction under way *)
(* began and what was said since, and what was lost.                        *)

FoldState == [at : {"idle", "started", "summarising"}, since : Nat, to_fold : Nat, old_summary : SUBSET Nat]

\* A compaction is under way for no more turns than it takes, and folds all that lay
\* behind the window when it began.
Timely(z) ==
    /\ z = Idle_ \/ z.at \in {"started", "summarising"}
    /\ z # Idle_ => z.since <= turns /\ turns <= z.since + Pace
    /\ z.at = "summarising" => z.since <= z.to_fold + TIER1_MAX_TURNS /\ z.to_fold + TIER1_MAX_TURNS <= turns

MemoryTyped ==
    /\ turns \in Nat /\ turns_since_compaction \in Nat /\ lost \in Nat /\ summary \in SUBSET Nat
    /\ committed \in Nat /\ due \in Nat /\ committed + due <= MaxCalls
    /\ fold \in [Folders -> FoldState]
    /\ \A f \in Folders : Timely(fold[f])

Full == COMPACTION_TRIGGER_TURNS + MaxCalls - 1
Owed(n) == n * Round

\* The first k turns are folded, or were passed over; x turns were lost to failures, and y
\* were counted while no call looked.
Reaches(k, x, y) ==
    /\ 1..k \subseteq summary \cup cut
    /\ x + y <= Owed(lost)
    /\ turns_since_compaction <= COMPACTION_TRIGGER_TURNS - 1 + committed + due + y
    /\ \/ turns <= TIER1_MAX_TURNS + k + Pace + turns_since_compaction + x
       \/ \E f \in Folders : fold[f] # Idle_ /\ fold[f].since <= TIER1_MAX_TURNS + k + Pace + Full + x

MemoryInv == MemoryTyped /\ \E k, x, y \in Nat : Reaches(k, x, y)

LEMMA Rounds ==
    /\ Full \in Nat \ {0} /\ Round \in Nat \ {0} /\ Round = Full + Pace /\ MaxCalls <= Full
    /\ \A n \in Nat : Owed(n) \in Nat /\ Owed(n + 1) = Owed(n) + Round /\ Owed(n + 2) = Owed(n) + 2 * Round
<1>1. Round \in Nat \ {0}
    BY MemoryAssumption DEF Round
<1>2. ASSUME NEW n \in Nat
      PROVE  n * Round \in Nat /\ (n + 1) * Round = n * Round + Round /\ (n + 2) * Round = n * Round + 2 * Round
    BY <1>1
<1>. QED BY <1>1, <1>2, MemoryAssumption DEF Full, Round, Owed

LEMMA MemoryInit == CMInit => MemoryInv
<1> SUFFICES ASSUME CMInit PROVE MemoryInv
    OBVIOUS
<1>1. Idle_ \in FoldState /\ Timely(Idle_)
    BY DEF Idle_, FoldState, Timely
<1>2. MemoryTyped
    BY <1>1, MemoryAssumption DEF CMInit, MemoryTyped
<1>3. Owed(0) \in Nat
    BY Rounds
<1>4. Reaches(0, 0, 0)
    BY <1>3, MemoryAssumption DEF CMInit, Reaches
<1>. QED BY <1>2, <1>4 DEF MemoryInv

\* A compaction that goes on, or ends, while nothing else changes.
LEMMA FoldTyped ==
    ASSUME MemoryTyped, NEW f \in Folders, NEW z \in FoldState, fold' = [fold EXCEPT ![f] = z],
           UNCHANGED <<turns, committed, due>>, turns_since_compaction' \in Nat, lost' \in Nat,
           summary' \in SUBSET Nat, Timely(z)
    PROVE  MemoryTyped'
BY DEF MemoryTyped, Timely

LEMMA TypedStep == MemoryTyped /\ [CMNext]_cmVars => MemoryTyped'
<1> SUFFICES ASSUME MemoryTyped, [CMNext]_cmVars PROVE MemoryTyped'
    OBVIOUS
<1>0. Idle_ \in FoldState /\ Timely(Idle_) /\ Idle_.at = "idle"
    BY DEF Idle_, FoldState, Timely
<1>1. CASE UNCHANGED cmVars
    BY <1>1 DEF cmVars, callVars, MemoryTyped, Timely
<1>2. CASE record_turn
    <2>1. ASSUME NEW f \in Folders PROVE Timely(fold[f])'
        <3>1. PICK z \in FoldState : z = fold[f]
            BY DEF MemoryTyped
        <3>2. Timely(z) /\ (z # Idle_ => turns < z.since + Pace) /\ turns \in Nat /\ turns' = turns + 1 /\ fold'[f] = z
            BY <1>2, <3>1 DEF record_turn, MemoryTyped
        <3>3. z.since \in Nat /\ z.to_fold \in Nat
            BY DEF FoldState
        <3>. QED BY <3>2, <3>3, MemoryAssumption DEF Timely
    <2>. QED BY <1>2, <2>1, MemoryAssumption DEF record_turn, MemoryTyped
<1>3. CASE CallLooks \/ CallRaises
    <2>1. /\ committed' \in Nat /\ due' \in Nat /\ committed' + due' <= MaxCalls /\ lost' \in Nat
        BY <1>3, MemoryAssumption DEF CallLooks, CallRaises, Misses_, MemoryTyped
    <2>. QED BY <1>3, <2>1 DEF CallLooks, CallRaises, MemoryTyped, Timely
<1>4. CASE CallResets
    <2>1. PICK f \in Folders : fold' = [fold EXCEPT ![f] = [Idle_ EXCEPT !.at = "started", !.since = turns]]
        BY <1>4 DEF CallResets
    <2>2. PICK z : z = [Idle_ EXCEPT !.at = "started", !.since = turns]
        OBVIOUS
    <2>3. z \in FoldState /\ Timely(z)
        <3>1. z.at = "started" /\ z.since = turns /\ z.to_fold = 0 /\ z.old_summary = {}
              /\ z = [at |-> "started", since |-> turns, to_fold |-> 0, old_summary |-> {}]
            BY <2>2 DEF Idle_
        <3>2. turns \in Nat /\ turns <= turns + Pace
            BY MemoryAssumption DEF MemoryTyped
        <3>. QED BY <3>1, <3>2 DEF FoldState, Timely
    <2>4. fold' = [fold EXCEPT ![f] = z] /\ turns' = turns
        BY <1>4, <2>1, <2>2 DEF CallResets
    <2>5. fold' \in [Folders -> FoldState] /\ \A g \in Folders : Timely(fold[g])'
        BY <2>3, <2>4 DEF MemoryTyped, Timely
    <2>. QED BY <1>4, <2>5, MemoryAssumption DEF CallResets, MemoryTyped
<1>5. CASE MemoryRestarts
    <2>1. lost' \in Nat
        BY <1>5 DEF MemoryRestarts, Misses_, MemoryTyped
    <2>2. fold' \in [Folders -> FoldState] /\ \A g \in Folders : Timely(fold[g])'
        BY <1>0, <1>5 DEF MemoryRestarts, Timely
    <2>. QED BY <1>5, <2>1, <2>2, MemoryAssumption DEF MemoryRestarts, MemoryTyped
<1>6. ASSUME NEW f \in Folders, _compact(f) PROVE MemoryTyped'
    <2>1. CASE CompactReads(f) /\ ~(turns <= TIER1_MAX_TURNS)
        <3>1. PICK z : z = [at |-> "summarising", since |-> fold[f].since, old_summary |-> summary,
                            to_fold |-> turns - TIER1_MAX_TURNS]
            OBVIOUS
        <3>2. fold[f] \in FoldState /\ Timely(fold[f]) /\ fold[f] # Idle_ /\ fold[f].since \in Nat
            BY <1>0, <2>1 DEF CompactReads, MemoryTyped, FoldState
        <3>3. turns - TIER1_MAX_TURNS \in Nat /\ turns - TIER1_MAX_TURNS + TIER1_MAX_TURNS = turns
            BY <2>1, MemoryAssumption DEF MemoryTyped
        <3>4. z \in FoldState /\ z.at = "summarising" /\ z.since = fold[f].since /\ z.to_fold = turns - TIER1_MAX_TURNS
            BY <3>1, <3>2, <3>3 DEF FoldState, MemoryTyped
        <3>5. Timely(z)
            <4>1. PICK o \in Nat, n \in Nat : o = fold[f].since /\ n = turns - TIER1_MAX_TURNS
                BY <3>2, <3>3
            <4>2. o <= turns /\ turns <= o + Pace /\ n + TIER1_MAX_TURNS = turns
                BY <3>2, <3>3, <4>1 DEF Timely
            <4>. QED BY <3>4, <4>1, <4>2, MemoryAssumption DEF Timely, MemoryTyped
        <3>6. fold' = [fold EXCEPT ![f] = z] /\ UNCHANGED <<turns, committed, due, turns_since_compaction, summary, lost>>
            BY <2>1, <3>1 DEF CompactReads, callVars
        <3>7. turns_since_compaction' \in Nat /\ lost' \in Nat /\ summary' \in SUBSET Nat
            BY <3>6 DEF MemoryTyped
        <3>. QED BY <3>4, <3>5, <3>6, <3>7, FoldTyped
    <2>2. CASE CompactReads(f) /\ turns <= TIER1_MAX_TURNS
        <3>1. /\ fold' = [fold EXCEPT ![f] = Idle_] /\ UNCHANGED <<turns, committed, due>>
              /\ turns_since_compaction' \in Nat /\ lost' \in Nat /\ summary' \in SUBSET Nat
            BY <2>2 DEF CompactReads, callVars, MemoryTyped
        <3>. QED BY <1>0, <3>1, FoldTyped
    <2>3. CASE CompactRaises(f)
        <3>1. /\ fold' = [fold EXCEPT ![f] = Idle_] /\ UNCHANGED <<turns, committed, due>>
              /\ turns_since_compaction' \in Nat /\ lost' \in Nat /\ summary' \in SUBSET Nat
            BY <2>3 DEF CompactRaises, Misses_, callVars, MemoryTyped
        <3>. QED BY <1>0, <3>1, FoldTyped
    <2>4. CASE summarize_with_ollama(f) \/ summarize_fallback(f)
        <3>1. fold[f].old_summary \in SUBSET Nat /\ fold[f].to_fold \in Nat
            BY DEF MemoryTyped, FoldState
        <3>2. summary' \subseteq fold[f].old_summary \cup 1..fold[f].to_fold
            BY <2>4 DEF summarize_with_ollama, summarize_fallback, Writes_
        <3>3. summary' \in SUBSET Nat
            BY <3>1, <3>2
        <3>. QED BY <1>0, <2>4, <3>3, FoldTyped
                 DEF summarize_with_ollama, summarize_fallback, Writes_, callVars, MemoryTyped
    <2>. QED BY <1>6, <2>1, <2>2, <2>3, <2>4 DEF _compact
<1>. QED BY <1>1, <1>2, <1>3, <1>4, <1>5, <1>6 DEF CMNext, MemoryStep_

\* A compaction that writes leaves no more behind than was said while it ran; one that does
\* not, and a call that does not look, leave it owed.
LEMMA LagStep == MemoryInv /\ [CMNext]_cmVars => MemoryInv'
<1> SUFFICES ASSUME MemoryTyped, NEW k \in Nat, NEW x \in Nat, NEW y \in Nat, Reaches(k, x, y), [CMNext]_cmVars
             PROVE  \E k1, x1, y1 \in Nat : Reaches(k1, x1, y1)'
    BY TypedStep DEF MemoryInv
<1>0. /\ turns \in Nat /\ turns_since_compaction \in Nat /\ lost \in Nat /\ committed \in Nat /\ due \in Nat
      /\ committed + due <= MaxCalls
      /\ Owed(lost) \in Nat /\ Owed(lost + 1) = Owed(lost) + Round /\ Owed(lost + 2) = Owed(lost) + 2 * Round
      /\ Full \in Nat \ {0} /\ Round \in Nat \ {0} /\ Round = Full + Pace /\ MaxCalls <= Full
      /\ Full = COMPACTION_TRIGGER_TURNS + MaxCalls - 1
    BY Rounds DEF MemoryTyped, Full
<1>1. \A f \in Folders : fold[f].since \in Nat /\ (fold[f] # Idle_ => fold[f].since <= turns /\ turns <= fold[f].since + Pace)
    BY DEF MemoryTyped, FoldState, Timely
<1>2. 1..k \subseteq summary \cup cut /\ x + y <= Owed(lost)
      /\ turns_since_compaction <= COMPACTION_TRIGGER_TURNS - 1 + committed + due + y
    BY DEF Reaches
<1>3. turns <= TIER1_MAX_TURNS + k + Pace + Full + x + Pace + y
    BY <1>0, <1>1, <1>2, MemoryAssumption DEF Reaches
<1>4. CASE UNCHANGED cmVars
    BY <1>4 DEF cmVars, callVars, Reaches, Owed
<1>5. CASE record_turn
    <2>1. Reaches(k, x, y)'
        BY <1>0, <1>1, <1>2, <1>5, MemoryAssumption DEF record_turn, Reaches, Owed
    <2>. QED BY <2>1
<1>6. CASE CallLooks
    <2>1. /\ turns' = turns /\ turns_since_compaction' = turns_since_compaction /\ lost' = lost
          /\ fold' = fold /\ summary' = summary /\ cut' = cut
          /\ turns_since_compaction <= COMPACTION_TRIGGER_TURNS - 1 + committed' + due' + y
        BY <1>0, <1>2, <1>6, MemoryAssumption DEF CallLooks, Triggered
    <2>2. Reaches(k, x, y)'
        BY <1>2, <2>1 DEF Reaches, Owed
    <2>. QED BY <2>2
<1>7. CASE CallResets
    <2>1. PICK f \in Folders : fold[f] = Idle_
              /\ fold' = [fold EXCEPT ![f] = [Idle_ EXCEPT !.at = "started", !.since = turns]]
        BY <1>7 DEF CallResets
    <2>2. PICK z : z = [Idle_ EXCEPT !.at = "started", !.since = turns]
        OBVIOUS
    <2>3. z # Idle_ /\ z.since = turns
        BY <2>2 DEF Idle_
    <2>4. fold'[f] = z /\ \A g \in Folders : fold[g] # Idle_ => fold'[g] = fold[g]
        BY <2>1, <2>2 DEF MemoryTyped
    <2>5. /\ turns' = turns /\ turns_since_compaction' = 0 /\ lost' = lost /\ committed' = committed
          /\ due' = due - 1 /\ due > 0 /\ summary' = summary /\ cut' = cut
        BY <1>7 DEF CallResets
    <2>6. CASE turns <= TIER1_MAX_TURNS + k + Pace + turns_since_compaction + x
        <3>1. turns <= TIER1_MAX_TURNS + k + Pace + Full + (x + y)
            BY <1>0, <1>2, <2>6, MemoryAssumption
        <3>2. 0 <= COMPACTION_TRIGGER_TURNS - 1 + committed + (due - 1) + 0
            BY <1>0, <2>5, MemoryAssumption
        <3>3. Reaches(k, x + y, 0)'
            BY <1>0, <1>2, <2>3, <2>4, <2>5, <3>1, <3>2 DEF Reaches, Owed, Full
        <3>. QED BY <3>3
    <2>7. CASE \E g \in Folders : fold[g] # Idle_ /\ fold[g].since <= TIER1_MAX_TURNS + k + Pace + Full + x
        <3>1. 0 <= COMPACTION_TRIGGER_TURNS - 1 + committed + (due - 1) + y
            BY <1>0, <2>5, MemoryAssumption
        <3>2. Reaches(k, x, y)'
            BY <1>2, <2>4, <2>5, <2>7, <3>1 DEF Reaches, Owed, Full
        <3>. QED BY <3>2
    <2>. QED BY <2>6, <2>7 DEF Reaches
<1>8. CASE CallRaises
    <2>1. /\ turns' = turns /\ turns_since_compaction' = turns_since_compaction /\ lost' = lost + 1
          /\ fold' = fold /\ summary' = summary /\ cut' = cut /\ committed' + due' = committed + due - 1
          /\ committed' \in Nat /\ due' \in Nat
        BY <1>0, <1>8 DEF CallRaises, Misses_
    <2>2. x + (y + 1) <= Owed(lost + 1)
        BY <1>0, <1>2
    <2>3. turns_since_compaction <= COMPACTION_TRIGGER_TURNS - 1 + committed' + due' + (y + 1)
        <3>1. PICK c \in Nat, d \in Nat : c = committed' /\ d = due'
            BY <2>1
        <3>2. c + d = committed + due - 1
            BY <2>1, <3>1
        <3>3. turns_since_compaction <= COMPACTION_TRIGGER_TURNS - 1 + c + d + (y + 1)
            BY <1>0, <1>2, <3>2, MemoryAssumption
        <3>. QED BY <3>1, <3>3
    <2>4. Reaches(k, x, y + 1)'
        BY <1>2, <2>1, <2>2, <2>3 DEF Reaches, Full
    <2>. QED BY <2>4
<1>9. CASE MemoryRestarts
    <2>1. /\ turns' = turns /\ turns_since_compaction' = turns_since_compaction /\ lost' = lost + 2
          /\ summary' = summary /\ cut' = cut /\ committed' = 0 /\ due' = 0
        BY <1>9 DEF MemoryRestarts, Misses_
    <2>2. (x + Round) + (y + MaxCalls) <= Owed(lost + 2)
        BY <1>0, <1>2, MemoryAssumption
    <2>3. turns_since_compaction <= COMPACTION_TRIGGER_TURNS - 1 + 0 + 0 + (y + MaxCalls)
        BY <1>0, <1>2, MemoryAssumption
    <2>4. turns <= TIER1_MAX_TURNS + k + Pace + turns_since_compaction + (x + Round)
        BY <1>0, <1>1, MemoryAssumption DEF Reaches
    <2>5. Reaches(k, x + Round, y + MaxCalls)'
        BY <1>2, <2>1, <2>2, <2>3, <2>4 DEF Reaches
    <2>6. x + Round \in Nat /\ y + MaxCalls \in Nat
        BY <1>0, MemoryAssumption
    <2>. QED BY <2>5, <2>6
<1>10. ASSUME NEW f \in Folders, _compact(f) PROVE \E k1, x1, y1 \in Nat : Reaches(k1, x1, y1)'
    <2>0. 0 <= COMPACTION_TRIGGER_TURNS - 1 + committed + due + 0
        BY <1>0, MemoryAssumption
    <2>1. CASE CompactReads(f) /\ turns <= TIER1_MAX_TURNS
        <3>1. /\ turns' = turns /\ turns_since_compaction' = 0 /\ lost' = lost /\ committed' = committed /\ due' = due
            BY <2>1 DEF CompactReads, callVars
        <3>2. Reaches(0, 0, 0)'
            BY <1>0, <2>0, <2>1, <3>1, MemoryAssumption DEF Reaches, Owed
        <3>. QED BY <3>2
    <2>2. CASE CompactReads(f) /\ ~(turns <= TIER1_MAX_TURNS)
        <3>1. PICK z : z = [at |-> "summarising", since |-> fold[f].since, old_summary |-> summary,
                            to_fold |-> turns - TIER1_MAX_TURNS]
            OBVIOUS
        <3>2. z # Idle_ /\ z.since = fold[f].since
            BY <3>1 DEF Idle_
        <3>3. UNCHANGED <<turns, turns_since_compaction, lost, committed, due, summary, cut>>
              /\ fold' = [fold EXCEPT ![f] = z]
            BY <2>2, <3>1 DEF CompactReads, callVars
        <3>4. \A g \in Folders : fold[g] # Idle_ => fold'[g] # Idle_ /\ fold'[g].since = fold[g].since
            BY <3>2, <3>3 DEF MemoryTyped
        <3>5. Reaches(k, x, y)'
            BY <3>3, <3>4 DEF Reaches, Owed
        <3>. QED BY <3>5
    <2>3. CASE summarize_with_ollama(f) \/ summarize_fallback(f)
        <3>1. /\ turns' = turns /\ turns_since_compaction' = 0 /\ lost' = lost /\ committed' = committed /\ due' = due
              /\ fold[f].at = "summarising"
            BY <2>3 DEF summarize_with_ollama, summarize_fallback, Writes_, callVars
        <3>2. PICK n \in Nat : n = fold[f].to_fold
            BY DEF MemoryTyped, FoldState
        <3>3. fold[f] # Idle_ /\ fold[f].since <= n + TIER1_MAX_TURNS
            BY <3>1, <3>2 DEF MemoryTyped, Timely, Idle_
        <3>4. turns <= TIER1_MAX_TURNS + n + Pace
            BY <1>0, <1>1, <3>3, MemoryAssumption
        <3>5. 1..n \subseteq summary' \cup cut'
            BY <2>3, <3>2 DEF summarize_with_ollama, summarize_fallback, Writes_
        <3>6. Reaches(n, 0, 0)'
            BY <1>0, <2>0, <3>1, <3>4, <3>5, MemoryAssumption DEF Reaches, Owed
        <3>. QED BY <3>6
    <2>4. CASE CompactRaises(f)
        <3>1. UNCHANGED <<turns, turns_since_compaction, committed, due, summary, cut>> /\ lost' = lost + 1
            BY <2>4 DEF CompactRaises, Misses_, callVars
        <3>2. turns <= TIER1_MAX_TURNS + k + Pace + turns_since_compaction + (x + Round)
            BY <1>0, <1>1, MemoryAssumption DEF Reaches
        <3>3. (x + Round) + y <= Owed(lost + 1) /\ x + Round \in Nat
            BY <1>0, <1>2
        <3>4. Reaches(k, x + Round, y)'
            BY <1>2, <3>1, <3>2, <3>3 DEF Reaches
        <3>. QED BY <3>3, <3>4
    <2>. QED BY <1>10, <2>1, <2>2, <2>3, <2>4 DEF _compact
<1>. QED BY <1>4, <1>5, <1>6, <1>7, <1>8, <1>9, <1>10 DEF CMNext, MemoryStep_

\* So few turns lie between what the summary was given and the window.
LEMMA LagOfInv == MemoryInv => LagIsBounded
<1> SUFFICES ASSUME MemoryTyped, NEW k \in Nat, NEW x \in Nat, NEW y \in Nat, Reaches(k, x, y)
             PROVE  LagIsBounded
    BY DEF MemoryInv
<1>0. /\ turns \in Nat /\ turns_since_compaction \in Nat /\ lost \in Nat /\ committed \in Nat /\ due \in Nat
      /\ committed + due <= MaxCalls /\ Owed(lost) \in Nat /\ Owed(lost + 1) = Owed(lost) + Round
      /\ Full \in Nat \ {0} /\ Round \in Nat \ {0} /\ Round = Full + Pace
      /\ Full = COMPACTION_TRIGGER_TURNS + MaxCalls - 1
    BY Rounds DEF MemoryTyped, Full
<1>1. \A f \in Folders : fold[f].since \in Nat /\ (fold[f] # Idle_ => turns <= fold[f].since + Pace)
    BY DEF MemoryTyped, FoldState, Timely
<1>2. turns - TIER1_MAX_TURNS - k <= Owed(lost) + Round + Pace
    BY <1>0, <1>1, MemoryAssumption DEF Reaches
<1>3. DEFINE Between == (k + 1)..(turns - TIER1_MAX_TURNS)
<1>4. Forgotten \subseteq Between
    <2>1. Forgotten \subseteq (1..turns) \ (Included \cup 1..k)
        BY DEF Forgotten, Reaches
    <2>. QED BY <1>0, <2>1, MemoryAssumption DEF Included
<1>5. IsFiniteSet(Between) /\ Cardinality(Between) <= Owed(lost) + Round + Pace
    <2>1. PICK m \in Int : m = turns - TIER1_MAX_TURNS
        BY <1>0, MemoryAssumption
    <2>2. IsFiniteSet((k + 1)..m) /\ Cardinality((k + 1)..m) = IF k + 1 > m THEN 0 ELSE m - (k + 1) + 1
        BY FS_Interval
    <2>3. (IF k + 1 > m THEN 0 ELSE m - (k + 1) + 1) <= Owed(lost) + Round + Pace
        BY <1>0, <1>2, <2>1, MemoryAssumption
    <2>. QED BY <2>1, <2>2, <2>3
<1>6. Cardinality(Forgotten) \in Nat /\ Cardinality(Between) \in Nat
      /\ Cardinality(Forgotten) <= Cardinality(Between)
    BY <1>4, <1>5, FS_Subset, FS_CardinalityType
<1>7. Owed(lost) + Round = (1 + lost) * Round
    BY <1>0 DEF Owed
<1>. QED BY <1>0, <1>5, <1>6, <1>7, MemoryAssumption DEF LagIsBounded

\* A message and the Memory Service do nothing else to the conversation.
LEMMA MemorySteps == [CTNext]_ctVars => [CMNext]_cmVars
BY DEF CTNext, ctVars, CMNext, HourPasses, DayPasses_, CouncilRestarts, council_message, TurnStep_, Keeps,
       _handle_auto_capture, Assembles, RecordsQuestion, CallsModel, FallsBack, ToolsDone, UsesTools,
       CallsHermes, _run_hermes_async, Answers, ProviderFails, RecordsAnswer, TrackLoads, TrackSaves

\* For any number of compactions at once the summary is at most a round behind, and what is
\* said while a compaction runs, and a round for each failure (context_service.py:986-1077).
THEOREM NotLongForgotten == CTSpec => []LagIsBounded
<1>1. CTInit => MemoryInv
    BY MemoryInit DEF CTInit
<1>2. MemoryInv /\ [CTNext]_ctVars => MemoryInv'
    BY MemorySteps, LagStep
<1>. QED BY <1>1, <1>2, LagOfInv, PTL DEF CTSpec

\* A folding that is not overtaken by another writes back all that the summary told
\* (context_service.py:1022-1048): what it has read is the summary still.
THEOREM NothingUnlearned ==
    ASSUME NEW f, Folders = {f}
    PROVE  CTSpec => SummaryKeeps
<1> DEFINE Kept == fold \in [Folders -> FoldState] /\ (fold[f].at = "summarising" => fold[f].old_summary = summary)
<1>1. CTInit => MemoryInv /\ Kept
    BY MemoryInit DEF CTInit, CMInit, Idle_, MemoryInv, MemoryTyped
<1>2. MemoryInv /\ Kept /\ [CTNext]_ctVars => (MemoryInv /\ Kept)' /\ [summary \subseteq summary']_cmVars
    <2> SUFFICES ASSUME MemoryInv, Kept, [CMNext]_cmVars, MemoryInv'
                 PROVE  Kept' /\ summary \subseteq summary'
        BY MemorySteps, LagStep
    <2>0. fold' \in [Folders -> FoldState]
        BY DEF MemoryInv, MemoryTyped
    <2>1. CASE UNCHANGED <<fold, summary>>
        BY <2>1
    <2>2. CASE CallResets \/ MemoryRestarts
        <3>1. fold'[f].at # "summarising" /\ summary' = summary
            <4>1. CASE MemoryRestarts
                BY <4>1 DEF MemoryRestarts, Idle_
            <4>2. CASE CallResets
                <5>1. fold' = [fold EXCEPT ![f] = [Idle_ EXCEPT !.at = "started", !.since = turns]]
                    BY <4>2 DEF CallResets
                <5>2. fold'[f] = [Idle_ EXCEPT !.at = "started", !.since = turns]
                    BY <5>1
                <5>. QED BY <4>2, <5>2 DEF CallResets, Idle_
            <4>. QED BY <2>2, <4>1, <4>2
        <3>. QED BY <2>0, <3>1
    <2>3. CASE CompactReads(f) \/ CompactRaises(f)
        <3>1. (fold'[f].at = "summarising" => fold'[f].old_summary = summary) /\ summary' = summary
            BY <2>3 DEF CompactReads, CompactRaises, Idle_
        <3>. QED BY <2>0, <3>1
    <2>4. CASE summarize_with_ollama(f) \/ summarize_fallback(f)
        <3>1. fold[f].at = "summarising" /\ fold[f].old_summary \subseteq summary' /\ fold'[f].at = "idle"
            BY <2>4 DEF summarize_with_ollama, summarize_fallback, Writes_, Idle_
        <3>. QED BY <2>0, <3>1
    <2>5. CASE UNCHANGED cmVars \/ record_turn \/ CallLooks \/ CallRaises
        BY <2>1, <2>5 DEF cmVars, record_turn, CallLooks, CallRaises
    <2>. QED BY <2>2, <2>3, <2>4, <2>5 DEF CMNext, MemoryStep_, _compact
<1>. QED BY <1>1, <1>2, PTL DEF CTSpec, SummaryKeeps

\* What a folding has read or is to fold was behind the window when it read it, and the
\* window only moves on.
Behind == {i \in Nat : i + TIER1_MAX_TURNS <= turns}

SummaryInv ==
    /\ turns \in Nat /\ summary \subseteq Behind
    /\ fold \in [Folders -> FoldState]
    /\ \A f \in Folders : fold[f].at = "summarising" =>
          fold[f].to_fold + TIER1_MAX_TURNS <= turns /\ fold[f].old_summary \subseteq Behind

LEMMA FoldingOfOld ==
    ASSUME SummaryInv, NEW f \in Folders, _compact(f)
    PROVE  SummaryInv'
<1>1. turns' = turns /\ turns \in Nat /\ Behind' = Behind
    BY DEF SummaryInv, _compact, CompactReads, summarize_with_ollama, summarize_fallback, CompactRaises, Behind
<1>2. ASSUME NEW z \in FoldState, fold' = [fold EXCEPT ![f] = z], summary' \subseteq Behind,
             z.at = "summarising" => z.to_fold + TIER1_MAX_TURNS <= turns /\ z.old_summary \subseteq Behind
      PROVE  SummaryInv'
    BY <1>1, <1>2 DEF SummaryInv
<1>3. Idle_ \in FoldState /\ Idle_.at # "summarising"
    BY DEF Idle_, FoldState
<1>4. CASE CompactReads(f) /\ ~(turns <= TIER1_MAX_TURNS)
    <2>1. turns - TIER1_MAX_TURNS \in Nat
        BY <1>1, <1>4, MemoryAssumption
    <2>2. PICK z : z = [at |-> "summarising", since |-> fold[f].since, old_summary |-> summary,
                        to_fold |-> turns - TIER1_MAX_TURNS]
        OBVIOUS
    <2>3. z \in FoldState /\ z.to_fold + TIER1_MAX_TURNS <= turns /\ z.old_summary \subseteq Behind
        BY <1>1, <2>1, <2>2, MemoryAssumption DEF SummaryInv, FoldState, Behind
    <2>. QED BY <1>2, <1>4, <2>2, <2>3 DEF CompactReads, SummaryInv
<1>5. CASE (CompactReads(f) /\ turns <= TIER1_MAX_TURNS) \/ CompactRaises(f)
    BY <1>2, <1>3, <1>5 DEF CompactReads, CompactRaises, SummaryInv
<1>6. CASE summarize_with_ollama(f) \/ summarize_fallback(f)
    <2>1. fold[f].at = "summarising" /\ fold' = [fold EXCEPT ![f] = Idle_]
        BY <1>6 DEF summarize_with_ollama, summarize_fallback, Writes_
    <2>2. fold[f].old_summary \subseteq Behind /\ fold[f].to_fold \in Nat
          /\ fold[f].to_fold + TIER1_MAX_TURNS <= turns
        BY <2>1 DEF SummaryInv, FoldState
    <2>3. 1..fold[f].to_fold \subseteq Behind
        BY <1>1, <2>2, MemoryAssumption DEF Behind
    <2>4. summary' \subseteq fold[f].old_summary \cup 1..fold[f].to_fold
        BY <1>6 DEF summarize_with_ollama, summarize_fallback, Writes_
    <2>. QED BY <1>2, <1>3, <2>1, <2>2, <2>3, <2>4
<1>. QED BY <1>4, <1>5, <1>6 DEF _compact

\* What the model is told word by word the summary does not tell it again, however many
\* compactions overlap, fail or fall back (context_service.py:989-1077).
THEOREM NothingTwice == CTSpec => []SummaryIsOld
<1>1. CTInit => SummaryInv
    BY DEF CTInit, CMInit, SummaryInv, Idle_, FoldState
<1>2. SummaryInv => SummaryIsOld
    BY MemoryAssumption DEF SummaryInv, SummaryIsOld, Behind, Included
<1>3. SummaryInv /\ [CTNext]_ctVars => SummaryInv'
    <2> SUFFICES ASSUME SummaryInv, [CMNext]_cmVars PROVE SummaryInv'
        BY MemorySteps
    <2>1. CASE UNCHANGED cmVars
        BY <2>1 DEF SummaryInv, Behind, cmVars
    <2>2. CASE record_turn
        <3>1. turns' = turns + 1 /\ summary' = summary
            BY <2>2 DEF record_turn
        <3>2. Behind \subseteq Behind'
            BY <3>1, MemoryAssumption DEF SummaryInv, Behind
        <3>. QED BY <2>2, <3>1, <3>2, MemoryAssumption DEF record_turn, SummaryInv, FoldState
    <2>4. CASE CallLooks \/ CallRaises
        BY <2>4 DEF CallLooks, CallRaises, SummaryInv, Behind
    <2>5. CASE CallResets \/ MemoryRestarts
        <3>1. turns' = turns /\ summary' = summary
            BY <2>5 DEF CallResets, MemoryRestarts
        <3>2. fold' \in [Folders -> FoldState] /\ \A f \in Folders : fold'[f] = fold[f] \/ fold'[f].at # "summarising"
            <4>1. CASE MemoryRestarts
                BY <4>1 DEF MemoryRestarts, Idle_, FoldState
            <4>2. ASSUME NEW f \in Folders, NEW z, fold' = [fold EXCEPT ![f] = z],
                         z = [Idle_ EXCEPT !.at = "started", !.since = turns]
                  PROVE  fold' \in [Folders -> FoldState] /\ \A g \in Folders : fold'[g] = fold[g] \/ fold'[g].at # "summarising"
                <5>1. z \in FoldState /\ z.at # "summarising"
                    BY <4>2 DEF Idle_, FoldState, SummaryInv
                <5>. QED BY <4>2, <5>1 DEF SummaryInv
            <4>. QED BY <2>5, <4>1, <4>2 DEF CallResets
        <3>. QED BY <3>1, <3>2 DEF SummaryInv, Behind
    <2>3. ASSUME NEW f \in Folders, _compact(f) PROVE SummaryInv'
        BY <2>3, FoldingOfOld
    <2>. QED BY <2>1, <2>2, <2>3, <2>4, <2>5 DEF CMNext, MemoryStep_
<1>. QED BY <1>1, <1>2, <1>3, PTL DEF CTSpec
-----------------------------------------------------------------------------
(* The custodians.  A sweep waits on the gate it raised itself, and a gate *)
(* that was answered is not answered again: what let the sweep go on stays. *)

Stages == {"idle", "assess", "remedy", "look", "post", "ask", "wait", "act"}
SweepState == [at : Stages, next : Nat]
Answers_ == {"approved", "rejected"}

SweepInv ==
    /\ sweep \in [Sweeps -> SweepState]
    /\ gate \in [Sweeps -> Answers_ \cup {"none", "open"}]
    /\ ActsOnlyWhereApproved

\* What a sweep that moves on looks like; the others stay where they are.
LEMMA SweepMoves ==
    ASSUME sweep \in [Sweeps -> SweepState], NEW s \in Sweeps, NEW to \in SweepState,
           \/ sweep' = [sweep EXCEPT ![s] = to]
           \/ sweep' = [sweep EXCEPT ![s].at = to.at]
    PROVE  /\ sweep' \in [Sweeps -> SweepState]
           /\ sweep'[s].at = to.at
           /\ \A q \in Sweeps \ {s} : sweep'[q] = sweep[q]
<1>1. CASE sweep' = [sweep EXCEPT ![s] = to]
    BY <1>1
<1>2. CASE sweep' = [sweep EXCEPT ![s].at = to.at]
    <2>1. PICK z : z = [sweep[s] EXCEPT !.at = to.at]
        OBVIOUS
    <2>2. z \in SweepState /\ z.at = to.at
        BY <2>1 DEF SweepState
    <2>3. sweep' = [sweep EXCEPT ![s] = z]
        BY <1>2, <2>1
    <2>. QED BY <2>2, <2>3
<1>. QED BY <1>1, <1>2
LEMMA SweepInit == CUInit => SweepInv
BY DEF CUInit, SweepInv, SweepState, Stages, Resting, ActsOnlyWhereApproved

\* A sweep that goes anywhere but to act, while no gate changes or its own is given up.
LEMMA NotToAct ==
    ASSUME SweepInv, NEW s \in Sweeps, NEW to \in SweepState, to.at # "act",
           \/ sweep' = [sweep EXCEPT ![s] = to]
           \/ sweep' = [sweep EXCEPT ![s].at = to.at],
           gate' = gate \/ \E g \in {"none", "open"} : gate' = [gate EXCEPT ![s] = g]
    PROVE  SweepInv'
<1>1. /\ sweep' \in [Sweeps -> SweepState] /\ sweep'[s].at # "act"
      /\ \A q \in Sweeps \ {s} : sweep'[q] = sweep[q]
    BY SweepMoves DEF SweepInv
<1>2. gate' \in [Sweeps -> Answers_ \cup {"none", "open"}] /\ \A q \in Sweeps \ {s} : gate'[q] = gate[q]
    BY DEF SweepInv
<1>3. ActsOnlyWhereApproved'
    BY <1>1, <1>2 DEF SweepInv, ActsOnlyWhereApproved
<1>. QED BY <1>1, <1>2, <1>3 DEF SweepInv

\* Any move by name of the stage, and any to the next custodian.
LEMMA GoesNotToAct ==
    ASSUME SweepInv, NEW s \in Sweeps, NEW at \in Stages \ {"act"}, Goes(s, at),
           gate' = gate \/ \E g \in {"none", "open"} : gate' = [gate EXCEPT ![s] = g]
    PROVE  SweepInv'
<1> DEFINE to == [at |-> at, next |-> 1]
<1>1. to \in SweepState /\ to.at = at
    BY DEF SweepState
<1>2. sweep' = [sweep EXCEPT ![s].at = to.at]
    BY DEF Goes
<1>. QED BY <1>1, <1>2, NotToAct

LEMMA DoneNotToAct ==
    ASSUME SweepInv, NEW s \in Sweeps, Done(s), gate' = gate
    PROVE  SweepInv'
<1> DEFINE to == [at |-> "assess", next |-> sweep[s].next + 1]
<1>1. to \in SweepState /\ to.at # "act"
    BY DEF SweepInv, SweepState, Stages
<1>2. sweep' = [sweep EXCEPT ![s] = to]
    BY DEF Done
<1>. QED BY <1>1, <1>2, NotToAct

LEMMA SweepStepKeeps == SweepInv /\ [CUNext]_cuVars => SweepInv'
<1> SUFFICES ASSUME SweepInv, [CUNext]_cuVars PROVE SweepInv'
    OBVIOUS
<1>1. ASSUME UNCHANGED <<sweep, gate>> PROVE SweepInv'
    BY <1>1 DEF SweepInv, ActsOnlyWhereApproved
<1>2. ASSUME NEW p \in Problems, Breaks(p) \/ LeoMends(p) \/ DayPasses(p) PROVE SweepInv'
    BY <1>1, <1>2 DEF Breaks, LeoMends, DayPasses
<1>3. ASSUME NEW s \in Sweeps, SweepStarts(s) PROVE SweepInv'
    BY <1>3, NotToAct DEF SweepStarts, SweepState, Stages
<1>4. ASSUME NEW s \in Sweeps, SweepEnds(s) \/ SweepKilled(s) PROVE SweepInv'
    <2>1. Resting \in SweepState /\ Resting.at # "act"
        BY DEF Resting, SweepState, Stages
    <2>. QED BY <1>4, <2>1, NotToAct DEF SweepEnds, SweepKilled
<1>5. ASSUME NEW s \in Sweeps, Assess(s) PROVE SweepInv'
    <2>1. Disposed(Held(s)) \in Stages \ {"act"}
        BY DEF Disposed, Stages
    <2>. QED BY <1>5, <2>1, GoesNotToAct, DoneNotToAct DEF Assess
<1>6. ASSUME NEW s \in Sweeps, RemediateSafe(s) \/ AssessRaises(s) \/ Files(s) \/ FilingFails(s) \/ ExecuteDecision(s)
      PROVE  SweepInv'
    BY <1>6, DoneNotToAct DEF RemediateSafe, AssessRaises, Files, FilingFails, ExecuteDecision
<1>7. ASSUME NEW s \in Sweeps, LooksForMarker(s) PROVE SweepInv'
    BY <1>7, DoneNotToAct, GoesNotToAct DEF LooksForMarker, Stages
<1>8. ASSUME NEW s \in Sweeps, GateTimesOut(s) \/ RaisesGate(s) PROVE SweepInv'
    BY <1>8, GoesNotToAct DEF GateTimesOut, RaisesGate, Stages
<1>9. ASSUME NEW s \in Sweeps, PollSeesAnswer(s) PROVE SweepInv'
    <2>1. CASE gate[s] = "approved"
        <3> DEFINE to == [at |-> "act", next |-> 1]
        <3>1. to \in SweepState /\ to.at = "act"
            BY DEF SweepState, Stages
        <3>2. sweep' = [sweep EXCEPT ![s].at = to.at] /\ gate' = gate
            BY <1>9, <2>1 DEF PollSeesAnswer, Goes
        <3> HIDE DEF to
        <3>3. sweep' \in [Sweeps -> SweepState] /\ \A q \in Sweeps \ {s} : sweep'[q] = sweep[q]
            BY <3>1, <3>2, SweepMoves DEF SweepInv
        <3>. QED BY <2>1, <3>2, <3>3 DEF SweepInv, ActsOnlyWhereApproved
    <2>2. CASE gate[s] # "approved"
        BY <1>9, <2>2, GoesNotToAct DEF PollSeesAnswer, Stages
    <2>. QED BY <2>1, <2>2
<1>10. ASSUME NEW s \in Sweeps, NEW answer \in Answers_, LeoTaps(s, answer) PROVE SweepInv'
    BY <1>10 DEF LeoTaps, SweepInv, ActsOnlyWhereApproved, Answers_
<1>. QED
    BY <1>1, <1>2, <1>3, <1>4, <1>5, <1>6, <1>7, <1>8, <1>9, <1>10
    DEF CUNext, SweepStep, cuVars, Answers_

\* A decision is carried out on Leo's answer to the gate of the very sweep: not on a timeout, not
\* where no gate could be raised, however many sweeps overlap and are killed.
THEOREM ActsByRight == CUSpec => []ActsOnlyWhereApproved
<1>1. SweepInv => ActsOnlyWhereApproved
    BY DEF SweepInv
<1>. QED BY <1>1, SweepInit, SweepStepKeeps, PTL DEF CUSpec

-----------------------------------------------------------------------------
(* The tickets of the custodians.  A sweep that is about to file has seen no *)
(* ticket of its problem; those that have and the tickets there are do not   *)
(* outnumber the sweeps.                                                     *)

Filers(p) == {s \in Sweeps : sweep[s].at = "post" /\ Held(s) = p}

TicketInv ==
    /\ sweep \in [Sweeps -> SweepState]
    /\ open \in [Problems -> Nat] /\ closed \in [Problems -> Nat]
    /\ \A p \in Problems : open[p] + closed[p] + Cardinality(Filers(p)) <= Cardinality(Sweeps)

LEMMA FilersCount ==
    ASSUME NEW p
    PROVE  /\ IsFiniteSet(Filers(p)) /\ Cardinality(Filers(p)) \in Nat
           /\ Cardinality(Sweeps) \in Nat /\ Cardinality(Filers(p)) <= Cardinality(Sweeps)
<1>1. Filers(p) \subseteq Sweeps
    BY DEF Filers
<1>. QED BY <1>1, CustodianAssumption, FS_Subset, FS_CardinalityType

\* A sweep moves, and is not about to file then: nobody becomes a filer.
LEMMA NoNewFiler ==
    ASSUME sweep \in [Sweeps -> SweepState], NEW s \in Sweeps, NEW to \in SweepState, to.at # "post",
           \/ sweep' = [sweep EXCEPT ![s] = to]
           \/ sweep' = [sweep EXCEPT ![s].at = to.at]
    PROVE  sweep' \in [Sweeps -> SweepState] /\ \A p : Filers(p)' = Filers(p) \ {s}
<1>1. /\ sweep' \in [Sweeps -> SweepState] /\ sweep'[s].at # "post"
      /\ \A q \in Sweeps \ {s} : sweep'[q] = sweep[q]
    BY SweepMoves
<1>. QED BY <1>1 DEF Filers, Held

LEMMA GoesOff ==
    ASSUME sweep \in [Sweeps -> SweepState], NEW s \in Sweeps, NEW at \in Stages \ {"post"}, Goes(s, at)
    PROVE  sweep' \in [Sweeps -> SweepState] /\ \A p : Filers(p)' = Filers(p) \ {s}
<1> DEFINE to == [at |-> at, next |-> 1]
<1>1. to \in SweepState /\ to.at = at
    BY DEF SweepState
<1>2. sweep' = [sweep EXCEPT ![s].at = to.at]
    BY DEF Goes
<1>. QED BY <1>1, <1>2, NoNewFiler

LEMMA DoneOff ==
    ASSUME sweep \in [Sweeps -> SweepState], NEW s \in Sweeps, Done(s)
    PROVE  sweep' \in [Sweeps -> SweepState] /\ \A p : Filers(p)' = Filers(p) \ {s}
<1> DEFINE to == [at |-> "assess", next |-> sweep[s].next + 1]
<1>1. to \in SweepState /\ to.at # "post"
    BY DEF SweepState, Stages
<1>2. sweep' = [sweep EXCEPT ![s] = to]
    BY DEF Done
<1>. QED BY <1>1, <1>2, NoNewFiler

\* Fewer filers and no new ticket, or a ticket less open and one more closed.
LEMMA FewerFilers ==
    ASSUME TicketInv, sweep' \in [Sweeps -> SweepState], \A p : Filers(p)' \subseteq Filers(p),
           open' \in [Problems -> Nat], closed' \in [Problems -> Nat],
           \A p \in Problems : open'[p] + closed'[p] = open[p] + closed[p]
    PROVE  TicketInv'
<1>1. ASSUME NEW p \in Problems
      PROVE  open'[p] + closed'[p] + Cardinality(Filers(p)') <= Cardinality(Sweeps)
    <2>1. Cardinality(Filers(p)') \in Nat /\ Cardinality(Filers(p)') <= Cardinality(Filers(p))
        BY FilersCount, FS_Subset, FS_CardinalityType
    <2>2. open[p] + closed[p] + Cardinality(Filers(p)) <= Cardinality(Sweeps)
        BY DEF TicketInv
    <2>3. open[p] \in Nat /\ closed[p] \in Nat /\ Cardinality(Filers(p)) \in Nat /\ Cardinality(Sweeps) \in Nat
        BY FilersCount DEF TicketInv
    <2>. QED BY <2>1, <2>2, <2>3
<1>. QED BY <1>1 DEF TicketInv

LEMMA TicketStarts == CUInit => TicketInv
<1>. SUFFICES ASSUME CUInit PROVE TicketInv
    OBVIOUS
<1>1. sweep \in [Sweeps -> SweepState]
    BY DEF CUInit, SweepState, Stages, Resting
<1>. QED BY <1>1, FilersCount DEF CUInit, TicketInv

LEMMA TicketKeeps == TicketInv /\ [CUNext]_cuVars => TicketInv'
<1> SUFFICES ASSUME TicketInv, [CUNext]_cuVars PROVE TicketInv'
    OBVIOUS
<1>1. ASSUME UNCHANGED <<sweep, open, closed>> PROVE TicketInv'
    BY <1>1 DEF TicketInv, Filers, Held
<1>2. ASSUME NEW p \in Problems, Breaks(p) \/ DayPasses(p) PROVE TicketInv'
    BY <1>1, <1>2 DEF Breaks, DayPasses
<1>3. ASSUME NEW p \in Problems, LeoMends(p) PROVE TicketInv'
    <2>1. /\ open[p] \in Nat /\ closed[p] \in Nat /\ open[p] > 0 /\ sweep' = sweep
          /\ open' = [open EXCEPT ![p] = @ - 1] /\ closed' = [closed EXCEPT ![p] = @ + 1]
        BY <1>3 DEF LeoMends, TicketInv
    <2>2. open' \in [Problems -> Nat] /\ closed' \in [Problems -> Nat]
        BY <2>1 DEF TicketInv
    <2>3. ASSUME NEW q \in Problems PROVE open'[q] + closed'[q] = open[q] + closed[q]
        BY <2>1 DEF TicketInv
    <2>4. \A q : Filers(q)' = Filers(q)
        BY <2>1 DEF Filers, Held
    <2>. QED BY <2>1, <2>2, <2>3, <2>4, FewerFilers DEF TicketInv
<1>4. ASSUME NEW s \in Sweeps, sweep' \in [Sweeps -> SweepState], \A p : Filers(p)' = Filers(p) \ {s},
             UNCHANGED <<open, closed>>
      PROVE  TicketInv'
    BY <1>4, FewerFilers DEF TicketInv
<1>5. ASSUME NEW s \in Sweeps, SweepStarts(s) \/ SweepEnds(s) \/ SweepKilled(s) PROVE TicketInv'
    <2>1. \E to \in SweepState : to.at # "post" /\ sweep' = [sweep EXCEPT ![s] = to]
        BY <1>5 DEF SweepStarts, SweepEnds, SweepKilled, SweepState, Stages, Resting
    <2>2. sweep' \in [Sweeps -> SweepState] /\ \A p : Filers(p)' = Filers(p) \ {s}
        BY <2>1, NoNewFiler DEF TicketInv
    <2>. QED BY <1>4, <1>5, <2>2 DEF SweepStarts, SweepEnds, SweepKilled
<1>6. ASSUME NEW s \in Sweeps, Done(s), UNCHANGED <<open, closed>> PROVE TicketInv'
    BY <1>4, <1>6, DoneOff DEF TicketInv
<1>7. ASSUME NEW s \in Sweeps, NEW at \in Stages \ {"post"}, Goes(s, at), UNCHANGED <<open, closed>>
      PROVE  TicketInv'
    BY <1>4, <1>7, GoesOff DEF TicketInv
<1>8. ASSUME NEW s \in Sweeps, Assess(s) PROVE TicketInv'
    <2>1. Disposed(Held(s)) \in Stages \ {"post"}
        BY DEF Disposed, Stages
    <2>. QED BY <1>6, <1>7, <1>8, <2>1 DEF Assess
<1>9. ASSUME NEW s \in Sweeps, AssessRaises(s) \/ RemediateSafe(s) \/ FilingFails(s) \/ ExecuteDecision(s)
      PROVE  TicketInv'
    BY <1>6, <1>9 DEF AssessRaises, RemediateSafe, FilingFails, ExecuteDecision
<1>10. ASSUME NEW s \in Sweeps, RaisesGate(s) \/ PollSeesAnswer(s) \/ GateTimesOut(s) PROVE TicketInv'
    <2>1. {"wait", "look", "act"} \subseteq Stages \ {"post"}
        BY DEF Stages
    <2>. QED BY <1>7, <1>10, <2>1 DEF RaisesGate, PollSeesAnswer, GateTimesOut
<1>11. ASSUME NEW s \in Sweeps, LooksForMarker(s) PROVE TicketInv'
    <2>1. CASE Done(s)
        BY <1>6, <1>11, <2>1 DEF LooksForMarker
    <2>2. CASE ~Known(Held(s)) /\ Goes(s, "post")
        <3>1. PICK p : p = Held(s)
            OBVIOUS
        <3>2. PICK z : z = [sweep[s] EXCEPT !.at = "post"]
            OBVIOUS
        <3>3. sweep' = [sweep EXCEPT ![s] = z] /\ z \in SweepState /\ z.next = sweep[s].next
            BY <2>2, <3>2 DEF Goes, TicketInv, SweepState, Stages
        <3>4. /\ sweep' \in [Sweeps -> SweepState] /\ sweep'[s].next = sweep[s].next
              /\ \A q \in Sweeps \ {s} : sweep'[q] = sweep[q]
            BY <3>3 DEF TicketInv
        <3>5. \A q \in Problems \ {p} : Filers(q)' \subseteq Filers(q)
            BY <3>1, <3>4 DEF Filers, Held
        <3>6. ASSUME NEW q \in Problems
              PROVE  open[q] + closed[q] + Cardinality(Filers(q)') <= Cardinality(Sweeps)
            <4>0. open[q] \in Nat /\ closed[q] \in Nat /\ Cardinality(Sweeps) \in Nat /\ Cardinality(Filers(q)) \in Nat
                BY FilersCount DEF TicketInv
            <4>1. CASE q = p
                <5>1. open[q] + closed[q] = 0
                    BY <2>2, <3>1, <4>0, <4>1 DEF Known
                <5>2. Filers(q)' \subseteq Sweeps
                    BY DEF Filers
                <5>3. Cardinality(Filers(q)') \in Nat /\ Cardinality(Filers(q)') <= Cardinality(Sweeps)
                    BY <5>2, CustodianAssumption, FS_Subset, FS_CardinalityType
                <5>. QED BY <4>0, <5>1, <5>3
            <4>2. CASE q # p
                <5>1. Cardinality(Filers(q)') \in Nat /\ Cardinality(Filers(q)') <= Cardinality(Filers(q))
                    BY <3>5, <4>2, FilersCount, FS_Subset, FS_CardinalityType
                <5>2. open[q] + closed[q] + Cardinality(Filers(q)) <= Cardinality(Sweeps)
                    BY DEF TicketInv
                <5>. QED BY <4>0, <5>1, <5>2
            <4>. QED BY <4>1, <4>2
        <3>. QED BY <1>11, <3>4, <3>6 DEF LooksForMarker, TicketInv
    <2>. QED BY <1>11, <2>1, <2>2 DEF LooksForMarker
<1>12. ASSUME NEW s \in Sweeps, Files(s) PROVE TicketInv'
    <2>1. PICK p : p = Held(s)
        OBVIOUS
    <2>2. s \in Filers(p) /\ Done(s) /\ open' = [open EXCEPT ![p] = @ + 1] /\ closed' = closed
        BY <1>12, <2>1 DEF Files, Filers
    <2>3. sweep' \in [Sweeps -> SweepState] /\ \A q : Filers(q)' = Filers(q) \ {s}
        BY <2>2, DoneOff DEF TicketInv
    <2>4. ASSUME NEW q \in Problems
          PROVE  open'[q] \in Nat /\ open'[q] + closed'[q] + Cardinality(Filers(q)') <= Cardinality(Sweeps)
        <3>0. /\ open[q] \in Nat /\ closed[q] \in Nat /\ Cardinality(Sweeps) \in Nat
              /\ IsFiniteSet(Filers(q)) /\ Cardinality(Filers(q)) \in Nat
              /\ open[q] + closed[q] + Cardinality(Filers(q)) <= Cardinality(Sweeps)
            BY FilersCount DEF TicketInv
        <3>1. CASE q = p
            <4>1. open'[q] = open[q] + 1 /\ Cardinality(Filers(q)') = Cardinality(Filers(q)) - 1
                BY <2>2, <2>3, <3>0, <3>1, FS_RemoveElement DEF TicketInv
            <4>. QED BY <2>2, <3>0, <4>1
        <3>2. CASE q # p
            <4>1. Cardinality(Filers(q)') \in Nat /\ Cardinality(Filers(q)') <= Cardinality(Filers(q))
                BY <2>3, <3>0, FS_Subset, FS_CardinalityType
            <4>2. open'[q] = open[q]
                BY <2>2, <3>2 DEF TicketInv
            <4>. QED BY <2>2, <3>0, <4>1, <4>2
        <3>. QED BY <3>1, <3>2
    <2>5. open' \in [Problems -> Nat]
        BY <2>2, <2>4 DEF TicketInv
    <2>. QED BY <2>2, <2>3, <2>4, <2>5 DEF TicketInv
<1>13. ASSUME NEW s \in Sweeps, NEW answer \in Answers_, LeoTaps(s, answer) PROVE TicketInv'
    BY <1>1, <1>13 DEF LeoTaps
<1>. QED BY <1>1, <1>2, <1>3, <1>5, <1>8, <1>9, <1>10, <1>11, <1>12, <1>13
     DEF CUNext, SweepStep, cuVars, Answers_

\* "refresh the open marker instead of spamming duplicates" (_live_file_structural,
\* devops_ownership.py): a problem that keeps coming back has, over all time, at most one
\* ticket for each sweep that may be alive at once.
THEOREM TicketsBounded == CUSpec => []TicketsAreBounded
<1>1. TicketInv => TicketsAreBounded
    <2>. SUFFICES ASSUME TicketInv, NEW p \in Problems PROVE open[p] + closed[p] <= Cardinality(Sweeps)
        BY DEF TicketsAreBounded
    <2>1. open[p] \in Nat /\ closed[p] \in Nat /\ Cardinality(Filers(p)) \in Nat /\ Cardinality(Sweeps) \in Nat
        BY FilersCount DEF TicketInv
    <2>2. open[p] + closed[p] + Cardinality(Filers(p)) <= Cardinality(Sweeps)
        BY DEF TicketInv
    <2>. QED BY <2>1, <2>2
<1>. QED BY <1>1, TicketStarts, TicketKeeps, PTL DEF CUSpec

-----------------------------------------------------------------------------
(* The move of a secret.  Wherever an approval of one action is found, in   *)
(* the store, in what a thread has read of it, in an answer or in what a    *)
(* client has come to, a tap stands behind it.  Snapshots that are written  *)
(* back late may undo a decision, but they cannot make one.                 *)

StoreState == [requests : [Clients -> [status : Status, expires : Nat]], sessions : SUBSET Nat]
Argument == {"present", "telegram", "consume", "pending", "requester", "once", "deny", "session"}
Route == [kind : Kind \ {"idle"}, rid : SUBSET Clients, arg : Argument, live : BOOLEAN,
          snap : StoreState, at : Nat]

HasTap(c) == \E x \in taps : x.rid = c /\ x.action = "once" /\ x.intime
Tapped(s) == \A c \in Clients : s.requests[c].status = "approved_once" => HasTap(c)

LockTyped ==
    /\ now \in Nat /\ store \in StoreState
    /\ op \in [Threads -> Route \cup {Idle}]
    /\ pc \in [Clients -> ClientPC]
    /\ inbox \in [Clients -> Status \cup {"error"}]

TapInv ==
    /\ LockTyped
    /\ Tapped(store)
    /\ \A t \in Threads : op[t] # Idle =>
          /\ Tapped(op[t].snap)
          /\ op[t].kind = "poll" => \E c \in Clients : op[t].rid = {c}
          /\ op[t].kind = "tap" => op[t].arg \in DOMAIN ActionMap
    /\ \A c \in Clients : inbox[c] = "approved_once" => HasTap(c)
    /\ \A c \in Clients : pc[c] \in {"granted", "moving", "moved"} => HasTap(c)
    /\ MoveHasTap

\* Expiry makes no approval, and leaves pending only what is still in time.
LEMMA SweptKeeps ==
    ASSUME now \in Nat, NEW s \in StoreState
    PROVE  /\ Swept(s) \in StoreState
           /\ \A c \in Clients : Swept(s).requests[c].status \in {s.requests[c].status, "expired"}
           /\ \A c \in Clients : Swept(s).requests[c].status = "pending" => now < Swept(s).requests[c].expires
BY DEF Swept, Expired, StoreState, Status

\* A route is opened: what it has read is the store.
LEMMA RouteOpens ==
    ASSUME TapInv, NEW t \in Threads, NEW k \in Kind \ {"idle"}, NEW rid \in SUBSET Clients,
           NEW arg \in Argument, NEW live \in BOOLEAN, Open(t, k, rid, arg, live),
           k = "poll" => \E c \in Clients : rid = {c},
           k = "tap" => arg \in DOMAIN ActionMap
    PROVE  /\ op' \in [Threads -> Route \cup {Idle}]
           /\ \A u \in Threads : op'[u] # Idle =>
                /\ Tapped(op'[u].snap)
                /\ op'[u].kind = "poll" => \E c \in Clients : op'[u].rid = {c}
                /\ op'[u].kind = "tap" => op'[u].arg \in DOMAIN ActionMap
<1> DEFINE new == [kind |-> k, rid |-> rid, arg |-> arg, live |-> live, snap |-> store,
                   at |-> IF k \in {"ask", "tap"} THEN now ELSE 0]
<1>1. new \in Route
    BY DEF TapInv, LockTyped, Route
<1>2. op' = [op EXCEPT ![t] = new]
    BY DEF Open
<1> HIDE DEF new
<1>3. new.snap = store /\ new.kind = k /\ new.rid = rid /\ new.arg = arg
    BY DEF new
<1> QED BY <1>1, <1>2, <1>3 DEF TapInv, LockTyped

\* A route that writes `s` back and answers, without a tap: what it writes holds only
\* approvals that were given, and what it answers is one only if it was.
LEMMA RouteWrites ==
    ASSUME TapInv, NEW t \in Threads, op[t] # Idle, NEW s \in StoreState, Tapped(s), Saved(t, s),
           NEW told \in Status \cup {"error"},
           Reply(t, told) \/ UNCHANGED inbox,
           told = "approved_once" => \E c \in Clients : op[t].rid = {c} /\ HasTap(c),
           UNCHANGED <<now, taps, pc, provVars>>
    PROVE  TapInv'
<1>1. store' = s /\ op' = [op EXCEPT ![t] = Idle]
    BY DEF Saved
<1>2. \A c \in Clients : HasTap(c)' <=> HasTap(c)
    BY DEF HasTap
<1>3. /\ inbox' \in [Clients -> Status \cup {"error"}]
      /\ \A c \in Clients : inbox'[c] = "approved_once" => HasTap(c)
    BY DEF Reply, TapInv, LockTyped
<1>4. LockTyped'
    BY <1>1, <1>3 DEF TapInv, LockTyped
<1>5. Tapped(store)'
    BY <1>1, <1>2 DEF Tapped
<1>6. \A u \in Threads : op'[u] # Idle => op'[u] = op[u]
    BY <1>1 DEF TapInv, LockTyped
<1> QED BY <1>2, <1>3, <1>4, <1>5, <1>6 DEF TapInv, Tapped, MoveHasTap, provVars

LEMMA TapStarts == ProvInit => TapInv
BY TTLAssumption DEF ProvInit, LockInit, TapInv, LockTyped, StoreState, NoEntry, Status, Tapped, HasTap, MoveHasTap, ClientPC

LEMMA RequestKeeps ==
    ASSUME TapInv, NEW t \in Threads, SessionAnswers(t) \/ RequestStored(t) \/ StoreCoordinates(t),
           UNCHANGED provVars
    PROVE  TapInv'
<1>1. CASE SessionAnswers(t)
  <2>1. op[t] # Idle /\ op[t] \in Route
      BY <1>1 DEF SessionAnswers, TapInv, LockTyped, Idle
  <2> DEFINE s == Swept(op[t].snap)
  <2>2. PICK c \in op[t].rid : Saved(t, [s EXCEPT !.requests[c] =
                        [status |-> "approved_session", expires |-> op[t].at + RequestTTL]])
      BY <1>1 DEF SessionAnswers
  <2>3. op[t].snap \in StoreState /\ op[t].at + RequestTTL \in Nat
      BY <2>1, TTLAssumption DEF Route
  <2>4. s \in StoreState /\ Tapped(s)
      BY <2>1, <2>3, SweptKeeps DEF TapInv, LockTyped, Tapped
  <2> HIDE DEF s
  <2>5. PICK z : z = [s EXCEPT !.requests[c] = [status |-> "approved_session", expires |-> op[t].at + RequestTTL]]
      OBVIOUS
  <2>6. z \in StoreState /\ Tapped(z)
      BY <2>3, <2>4, <2>5 DEF StoreState, Tapped, Status
  <2> QED BY <1>1, <2>1, <2>2, <2>5, <2>6, RouteWrites DEF SessionAnswers, Status
<1>2. CASE RequestStored(t)
  <2>1. op[t] # Idle /\ op[t] \in Route /\ op[t].kind = "ask"
      BY <1>2 DEF RequestStored, TapInv, LockTyped, Idle
  <2> DEFINE s == Swept(op[t].snap)
             away == op[t].arg # "present" /\ ~buzz
  <2>2. PICK c \in op[t].rid :
           /\ store' = [s EXCEPT !.requests[c] = [status |-> "pending", expires |-> op[t].at + RequestTTL]]
           /\ op' = [op EXCEPT ![t] = IF away THEN [@ EXCEPT !.kind = "card"] ELSE Idle]
           /\ IF away THEN UNCHANGED inbox ELSE Reply(t, "pending")
      BY <1>2 DEF RequestStored
  <2>3. op[t].snap \in StoreState /\ op[t].at + RequestTTL \in Nat
      BY <2>1, TTLAssumption DEF Route
  <2>4. s \in StoreState /\ Tapped(s)
      BY <2>1, <2>3, SweptKeeps DEF TapInv, LockTyped, Tapped
  <2> HIDE DEF s
  <2>5. PICK z : z = [s EXCEPT !.requests[c] = [status |-> "pending", expires |-> op[t].at + RequestTTL]]
      OBVIOUS
  <2>6. z \in StoreState /\ Tapped(z)
      BY <2>3, <2>4, <2>5 DEF StoreState, Tapped, Status
  <2>7. CASE ~away
      BY <1>2, <2>1, <2>2, <2>5, <2>6, <2>7, RouteWrites DEF RequestStored, Saved, Status
  <2>8. CASE away
    <3>1. PICK y : y = [op[t] EXCEPT !.kind = "card"]
        OBVIOUS
    <3>2. y \in Route /\ y.kind = "card" /\ y.snap = op[t].snap
        BY <2>1, <3>1 DEF Route, Kind
    <3>3. op' = [op EXCEPT ![t] = y] /\ inbox' = inbox /\ store' = z
        BY <2>2, <2>5, <2>8, <3>1
    <3>4. UNCHANGED <<now, taps, pc, provVars>>
        BY <1>2 DEF RequestStored
    <3> QED BY <2>1, <2>6, <3>2, <3>3, <3>4 DEF TapInv, LockTyped, Tapped, HasTap, MoveHasTap, provVars
  <2> QED BY <2>7, <2>8
<1>3. CASE StoreCoordinates(t)
  <2>1. op[t] # Idle /\ op[t] \in Route
      BY <1>3 DEF StoreCoordinates, TapInv, LockTyped, Idle
  <2>2. op[t].snap \in StoreState /\ Tapped(op[t].snap)
      BY <2>1 DEF Route, TapInv
  <2>3. PICK s \in {store, op[t].snap} : Saved(t, s)
      BY <1>3 DEF StoreCoordinates, Saved
  <2>4. s \in StoreState /\ Tapped(s)
      BY <2>2 DEF TapInv, LockTyped
  <2> QED BY <1>3, <2>1, <2>3, <2>4, RouteWrites DEF StoreCoordinates, Status
<1> QED BY <1>1, <1>2, <1>3

LEMMA CardKeeps ==
    ASSUME TapInv, NEW t \in Threads, CardSent(t) \/ CardFails(t) \/ StatusUnknown(t), UNCHANGED provVars
    PROVE  TapInv'
<1>1. op[t] # Idle /\ op[t] \in Route
    BY DEF CardSent, CardFails, StatusUnknown, TapInv, LockTyped, Idle
<1>2. CASE CardSent(t)
  <2>1. PICK y : y = [op[t] EXCEPT !.kind = "coords", !.snap = store]
      OBVIOUS
  <2>2. y \in Route /\ y.kind = "coords" /\ y.snap = store
      BY <1>1, <2>1 DEF Route, Kind, TapInv, LockTyped
  <2>3. op' = [op EXCEPT ![t] = y]
      BY <1>2, <2>1 DEF CardSent
  <2>4. UNCHANGED <<now, store, taps, pc, inbox, provVars>>
      BY <1>2 DEF CardSent, clientVars
  <2> QED BY <1>1, <2>2, <2>3, <2>4 DEF TapInv, LockTyped, Tapped, HasTap, MoveHasTap, provVars
<1>3. CASE CardFails(t) \/ StatusUnknown(t)
  <2>1. PICK told \in {"pending", "error"} : Reply(t, told)
      BY <1>3 DEF CardFails, StatusUnknown
  <2>2. Saved(t, store) /\ UNCHANGED <<now, taps, pc, provVars>>
      BY <1>3 DEF CardFails, StatusUnknown, Saved
  <2> QED BY <1>1, <2>1, <2>2, RouteWrites DEF TapInv, LockTyped, Status
<1> QED BY <1>2, <1>3

\* The caller is told an approval only if the snapshot holds it; it is then spent.
LEMMA AnswerKeeps ==
    ASSUME TapInv, NEW t \in Threads, StatusAnswered(t), UNCHANGED provVars
    PROVE  TapInv'
<1>1. op[t] # Idle /\ op[t] \in Route /\ op[t].kind = "poll"
    BY DEF StatusAnswered, TapInv, LockTyped, Idle
<1>2. op[t].snap \in StoreState
    BY <1>1 DEF Route
<1> DEFINE s == Swept(op[t].snap)
<1>3. PICK c \in op[t].rid :
         /\ Saved(t, [s EXCEPT !.requests[c].status = IF s.requests[c].status = "approved_once" THEN "consumed" ELSE @])
         /\ Reply(t, s.requests[c].status)
    BY DEF StatusAnswered
<1>4. s \in StoreState /\ Tapped(s)
    BY <1>1, <1>2, SweptKeeps DEF TapInv, LockTyped, Tapped
<1> HIDE DEF s
<1>5. c \in Clients /\ op[t].rid = {c}
    BY <1>1, <1>3 DEF TapInv
<1>6. PICK z : z = [s EXCEPT !.requests[c].status = IF s.requests[c].status = "approved_once" THEN "consumed" ELSE @]
    OBVIOUS
<1>7. z \in StoreState /\ Tapped(z)
    BY <1>4, <1>5, <1>6 DEF StoreState, Tapped, Status
<1>8. s.requests[c].status \in Status /\ (s.requests[c].status = "approved_once" => HasTap(c))
    BY <1>4, <1>5 DEF StoreState, Tapped
<1> QED BY <1>1, <1>3, <1>5, <1>6, <1>7, <1>8, RouteWrites DEF StatusAnswered

\* A decision is applied to a request that is pending in the snapshot, so it is in time.
LEMMA DecisionKeeps ==
    ASSUME TapInv, NEW t \in Threads, ApplyDecision(t), UNCHANGED provVars
    PROVE  TapInv'
<1>1. op[t] # Idle /\ op[t] \in Route /\ op[t].kind = "tap"
    BY DEF ApplyDecision, TapInv, LockTyped, Idle
<1>2. op[t].snap \in StoreState /\ op[t].at + SessionTTL \in Nat /\ op[t].arg \in DOMAIN ActionMap
    BY <1>1, TTLAssumption DEF Route, TapInv
<1> DEFINE s == Swept(op[t].snap)
           a == op[t].arg
<1>3. PICK c \in op[t].rid :
         IF s.requests[c].status # "pending"
         THEN Saved(t, s) /\ UNCHANGED taps
         ELSE /\ Saved(t, [requests |-> [s.requests EXCEPT ![c].status = ActionMap[a]],
                           sessions |-> IF a = "session" THEN s.sessions \cup {op[t].at + SessionTTL}
                                        ELSE s.sessions])
              /\ taps' = taps \cup {[rid |-> c, action |-> a, intime |-> now < s.requests[c].expires]}
    BY DEF ApplyDecision
<1>4. /\ s \in StoreState /\ Tapped(s) /\ c \in Clients
      /\ s.requests[c].status = "pending" => now < s.requests[c].expires
    BY <1>1, <1>2, SweptKeeps DEF TapInv, LockTyped, Tapped, Route
<1>5. UNCHANGED <<now, pc, inbox, provVars>>
    BY DEF ApplyDecision, clientVars
<1> HIDE DEF s
<1>6. CASE s.requests[c].status # "pending"
    BY <1>1, <1>3, <1>4, <1>5, <1>6, RouteWrites DEF Status
<1>7. CASE s.requests[c].status = "pending"
  <2> DEFINE tap == [rid |-> c, action |-> a, intime |-> TRUE]
  <2>1. taps' = taps \cup {tap}
      BY <1>3, <1>4, <1>7
  <2>2. \A d \in Clients : HasTap(d) => HasTap(d)'
      BY <2>1 DEF HasTap
  <2>3. ASSUME a = "once" PROVE HasTap(c)'
    <3>1. tap \in taps' /\ tap.rid = c /\ tap.action = "once" /\ tap.intime
        BY <2>1, <2>3
    <3> QED BY <3>1 DEF HasTap
  <2>4. ActionMap[a] \in Status /\ (ActionMap[a] = "approved_once" => a = "once")
      BY <1>2 DEF ActionMap, Status
  <2>5. PICK q : q = [s.requests EXCEPT ![c].status = ActionMap[a]]
      OBVIOUS
  <2>6. /\ q \in [Clients -> [status : Status, expires : Nat]]
        /\ \A d \in Clients : q[d].status = "approved_once" => HasTap(d)'
      BY <1>4, <2>2, <2>3, <2>4, <2>5 DEF StoreState, Tapped
  <2>7. PICK z : z = [requests |-> q, sessions |-> IF a = "session" THEN s.sessions \cup {op[t].at + SessionTTL}
                                                   ELSE s.sessions]
      OBVIOUS
  <2>8. z \in StoreState /\ z.requests = q
      BY <1>2, <1>4, <2>6, <2>7 DEF StoreState
  <2>9. store' = z /\ op' = [op EXCEPT ![t] = Idle]
      BY <1>3, <1>7, <2>5, <2>7 DEF Saved
  <2>10. \A u \in Threads : op'[u] # Idle => op'[u] = op[u]
      BY <2>9 DEF TapInv, LockTyped
  <2>11. LockTyped'
      BY <1>5, <2>8, <2>9 DEF TapInv, LockTyped
  <2>12. Tapped(store)'
      BY <2>6, <2>8, <2>9 DEF Tapped
  <2>13. \A u \in Threads : op'[u] # Idle =>
            \A d \in Clients : op'[u].snap.requests[d].status = "approved_once" => HasTap(d)'
      BY <2>2, <2>10 DEF TapInv, Tapped
  <2>14. \A u \in Threads : op'[u] # Idle =>
            /\ op'[u].kind = "poll" => \E d \in Clients : op'[u].rid = {d}
            /\ op'[u].kind = "tap" => op'[u].arg \in DOMAIN ActionMap
      BY <2>10 DEF TapInv
  <2>15. \A d \in Clients : inbox'[d] = "approved_once" \/ pc'[d] \in {"granted", "moving", "moved"} => HasTap(d)'
      BY <1>5, <2>2 DEF TapInv
  <2>16. MoveHasTap'
      BY <1>5, <2>1 DEF TapInv, MoveHasTap, provVars
  <2> QED BY <2>11, <2>12, <2>13, <2>14, <2>15, <2>16 DEF TapInv, Tapped
<1> QED BY <1>6, <1>7

LEMMA ListingKeeps ==
    ASSUME TapInv, NEW t \in Threads, ListPending(t) \/ SweepEscalates(t) \/ RevokeSession(t), UNCHANGED provVars
    PROVE  TapInv'
<1>1. op[t] # Idle /\ op[t] \in Route
    BY DEF ListPending, SweepEscalates, RevokeSession, TapInv, LockTyped, Idle
<1>2. op[t].snap \in StoreState /\ Tapped(op[t].snap)
    BY <1>1 DEF Route, TapInv
<1>3. Swept(op[t].snap) \in StoreState /\ Tapped(Swept(op[t].snap))
    BY <1>2, SweptKeeps DEF TapInv, LockTyped, Tapped
<1>4. CASE ListPending(t) \/ SweepEscalates(t)
  <2>1. Saved(t, Swept(op[t].snap)) /\ UNCHANGED <<now, taps, pc, inbox>>
      BY <1>4 DEF ListPending, SweepEscalates, clientVars
  <2> QED BY <1>1, <1>3, <2>1, RouteWrites DEF Status
<1>5. CASE RevokeSession(t)
  <2>1. PICK z : z = [op[t].snap EXCEPT !.sessions = {}]
      OBVIOUS
  <2>2. z \in StoreState /\ Tapped(z)
      BY <1>2, <2>1 DEF StoreState, Tapped
  <2> QED BY <1>1, <1>5, <2>1, <2>2, RouteWrites DEF RevokeSession, clientVars, Status
<1> QED BY <1>4, <1>5

LEMMA ArrivalKeeps ==
    ASSUME TapInv, NEW t \in Threads, Arrival(t), UNCHANGED provVars
    PROVE  TapInv'
<1>1. PICK k \in {"tap", "list", "sweep", "revoke"}, rid \in SUBSET Clients,
           arg \in DOMAIN ActionMap \cup {"pending", "requester"} :
         Open(t, k, rid, arg, FALSE) /\ (k = "tap" => arg \in DOMAIN ActionMap)
    BY DEF Arrival, TapArrives, PollerLists, SweepLists, RevokeArrives
<1>2. UNCHANGED <<now, store, taps, pc, inbox, provVars>>
    BY DEF Arrival, TapArrives, PollerLists, SweepLists, RevokeArrives, clientVars
<1>3. arg \in Argument
    BY DEF ActionMap, Argument
<1>4. /\ op' \in [Threads -> Route \cup {Idle}]
      /\ \A u \in Threads : op'[u] # Idle =>
            /\ Tapped(op'[u].snap)
            /\ op'[u].kind = "poll" => \E c \in Clients : op'[u].rid = {c}
            /\ op'[u].kind = "tap" => op'[u].arg \in DOMAIN ActionMap
    BY <1>1, <1>3, RouteOpens DEF Kind
<1> QED BY <1>2, <1>4 DEF TapInv, LockTyped, Tapped, HasTap, MoveHasTap, provVars


\* A step of a client or of the capability that touches neither the store nor the taps:
\* what it has come to rests on a tap, and the threads read no more than they had.
LEMMA ClientKeeps ==
    ASSUME TapInv, pc' \in [Clients -> ClientPC], inbox' \in [Clients -> Status \cup {"error"}],
           UNCHANGED <<now, store, taps>>,
           \A c \in Clients : inbox'[c] = "approved_once" => inbox[c] = "approved_once",
           \A c \in Clients : pc'[c] \in {"granted", "moving", "moved"} => HasTap(c),
           \A c \in moved' \ moved : HasTap(c),
           op' \in [Threads -> Route \cup {Idle}],
           \A t \in Threads : op'[t] # Idle =>
              /\ op[t] # Idle /\ op'[t].snap = op[t].snap /\ op'[t].rid = op[t].rid
              /\ op'[t].kind = op[t].kind /\ op'[t].arg = op[t].arg
    PROVE  TapInv'
<1>1. \A c : HasTap(c)' <=> HasTap(c)
    BY DEF HasTap
<1>2. LockTyped'
    BY DEF TapInv, LockTyped
<1>3. Tapped(store)'
    BY <1>1 DEF TapInv, Tapped
<1>4. \A t \in Threads : op'[t] # Idle =>
          /\ \A c \in Clients : op'[t].snap.requests[c].status = "approved_once" => HasTap(c)'
          /\ op'[t].kind = "poll" => \E c \in Clients : op'[t].rid = {c}
          /\ op'[t].kind = "tap" => op'[t].arg \in DOMAIN ActionMap
    BY <1>1 DEF TapInv, Tapped
<1>5. \A c \in Clients : inbox'[c] = "approved_once" \/ pc'[c] \in {"granted", "moving", "moved"} => HasTap(c)'
    BY <1>1 DEF TapInv
<1>6. MoveHasTap'
    BY <1>1 DEF TapInv, MoveHasTap, HasTap
<1> QED BY <1>2, <1>3, <1>4, <1>5, <1>6 DEF TapInv, Tapped

\* A request or a poll that failed is no longer listened for.
LEMMA GivesUp ==
    ASSUME TapInv, NEW c \in Clients, AskFails(c) \/ PollFails(c)
    PROVE  TapInv'
<1>1. PICK deaf \in SUBSET Threads :
         op' = [t \in Threads |-> IF op[t] # Idle /\ t \in deaf THEN [op[t] EXCEPT !.live = FALSE] ELSE op[t]]
  <2>1. CASE AskFails(c)
    <3>1. WITNESS {t \in Threads : op[t].rid = {c} /\ op[t].kind # "tap"} \in SUBSET Threads
    <3> QED BY <2>1 DEF AskFails
  <2>2. CASE PollFails(c)
    <3>1. WITNESS {t \in Threads : op[t].rid = {c} /\ op[t].kind = "poll"} \in SUBSET Threads
    <3> QED BY <2>2 DEF PollFails
  <2> QED BY <2>1, <2>2
<1>2. ASSUME NEW t \in Threads
      PROVE  /\ op'[t] \in Route \cup {Idle}
             /\ op'[t] # Idle =>
                   /\ op[t] # Idle /\ op'[t].snap = op[t].snap /\ op'[t].rid = op[t].rid
                   /\ op'[t].kind = op[t].kind /\ op'[t].arg = op[t].arg
  <2>1. CASE op'[t] = op[t]
      BY <2>1 DEF TapInv, LockTyped
  <2>2. CASE op[t] # Idle /\ op'[t] = [op[t] EXCEPT !.live = FALSE]
    <3>1. op[t] \in Route
        BY <2>2 DEF TapInv, LockTyped
    <3>2. PICK y : y = [op[t] EXCEPT !.live = FALSE]
        OBVIOUS
    <3>3. /\ y \in Route /\ y.snap = op[t].snap /\ y.rid = op[t].rid
          /\ y.kind = op[t].kind /\ y.arg = op[t].arg
        BY <3>1, <3>2 DEF Route
    <3> QED BY <2>2, <3>2, <3>3
  <2> QED BY <1>1, <2>1, <2>2
<1>3. PollVerdict(c, "error") \in {"refused", "told"}
    BY DEF PollVerdict
<1>4. PICK p \in {"refused", "told"} : Goto(c, p)
    BY <1>3 DEF AskFails, PollFails
<1>5. /\ UNCHANGED <<now, store, taps, inbox, moved>>
      /\ op' \in [Threads -> Route \cup {Idle}]
    BY <1>1, <1>2 DEF AskFails, PollFails, provVars
<1>6. /\ pc' \in [Clients -> ClientPC]
      /\ \A d \in Clients : pc'[d] \in {"granted", "moving", "moved"} => HasTap(d)
    BY <1>4 DEF Goto, TapInv, LockTyped, ClientPC
<1> QED BY <1>2, <1>5, <1>6, ClientKeeps DEF TapInv, LockTyped

\* Only an answer that is an approval of one action grants the move.
LEMMA Hears ==
    ASSUME TapInv, NEW c \in Clients, HearsAsked(c) \/ HearsPolled(c)
    PROVE  TapInv'
<1>1. PICK p \in {"refused", "told", "granted"} :
         Goto(c, p) /\ (p = "granted" => inbox[c] = "approved_once")
    BY DEF HearsAsked, HearsPolled, PollVerdict
<1>2. inbox' = [inbox EXCEPT ![c] = "none"] /\ UNCHANGED <<now, store, op, taps, moved>>
    BY DEF HearsAsked, HearsPolled, lockVars, provVars
<1>3. /\ pc' \in [Clients -> ClientPC]
      /\ \A d \in Clients : pc'[d] \in {"granted", "moving", "moved"} => HasTap(d)
    BY <1>1 DEF Goto, TapInv, LockTyped, ClientPC
<1>4. /\ inbox' \in [Clients -> Status \cup {"error"}]
      /\ \A d \in Clients : inbox'[d] = "approved_once" => inbox[d] = "approved_once"
    BY <1>2 DEF TapInv, LockTyped, Status
<1> QED BY <1>2, <1>3, <1>4, ClientKeeps DEF TapInv, LockTyped

LEMMA CapabilityKeeps ==
    ASSUME TapInv, NEW a \in Clients, Capability(a) \/ Killed(a)
    PROVE  TapInv'
<1>1. UNCHANGED <<now, store, op, taps, inbox>>
    BY DEF Capability, Refuse, PolicyDenies, PolicyAllows, GateDenied, SecretMissing, SecretRead, Transport,
           Record, Killed, lockVars
<1>2. PICK p \in {"ended", "new", "moving", "moved", "killed"} :
         Goto(a, p) /\ (p \in {"moving", "moved"} => pc[a] \in {"granted", "moving"})
    BY DEF Capability, Refuse, PolicyDenies, PolicyAllows, GateDenied, SecretMissing, SecretRead, Transport,
           Record, Killed
<1>3. /\ pc' \in [Clients -> ClientPC]
      /\ \A d \in Clients : pc'[d] \in {"granted", "moving", "moved"} => HasTap(d)
    BY <1>2 DEF Goto, TapInv, LockTyped, ClientPC
<1>4. \A c \in moved' \ moved : HasTap(c)
    BY DEF Capability, Refuse, PolicyDenies, PolicyAllows, GateDenied, SecretMissing, SecretRead, Transport,
           Record, Killed, provVars, TapInv
<1> QED BY <1>1, <1>3, <1>4, ClientKeeps DEF TapInv, LockTyped

\* The client opens a route of the store.
LEMMA Calls ==
    ASSUME TapInv, NEW t \in Threads, NEW c \in Clients,
           Polls(t, c) \/ \E s \in {"present", "telegram"} : AsksToMove(t, c, s)
    PROVE  TapInv'
<1>1. PICK k \in {"ask", "poll"}, arg \in {"present", "telegram", "consume"}, p \in {"asking", "polling"} :
         Open(t, k, {c}, arg, TRUE) /\ Goto(c, p)
    BY DEF Polls, AsksToMove, RequestApproval, ApprovalStatus
<1>2. UNCHANGED <<now, store, taps, inbox, moved>>
    BY DEF Polls, AsksToMove, RequestApproval, ApprovalStatus, provVars
<1>3. arg \in Argument
    BY DEF Argument
<1>4. /\ op' \in [Threads -> Route \cup {Idle}]
      /\ \A u \in Threads : op'[u] # Idle =>
            /\ Tapped(op'[u].snap)
            /\ op'[u].kind = "poll" => \E d \in Clients : op'[u].rid = {d}
            /\ op'[u].kind = "tap" => op'[u].arg \in DOMAIN ActionMap
    BY <1>1, <1>3, RouteOpens DEF Kind
<1>5. /\ pc' \in [Clients -> ClientPC]
      /\ \A d \in Clients : pc'[d] \in {"granted", "moving", "moved"} => HasTap(d)
    BY <1>1 DEF Goto, TapInv, LockTyped, ClientPC
<1> QED BY <1>2, <1>4, <1>5 DEF TapInv, LockTyped, Tapped, HasTap, MoveHasTap

LEMMA TapKeeps == TapInv /\ [ProvNext]_provisioningVars => TapInv'
<1> SUFFICES ASSUME TapInv, [ProvNext]_provisioningVars PROVE TapInv'
    OBVIOUS
<1>1. CASE UNCHANGED provisioningVars
    BY <1>1 DEF provisioningVars, lockVars, clientVars, provVars, TapInv, LockTyped, Tapped, HasTap, MoveHasTap
<1>2. ASSUME NEW t \in Threads, Commit(t), UNCHANGED provVars PROVE TapInv'
    BY <1>2, RequestKeeps, CardKeeps, AnswerKeeps, DecisionKeeps, ListingKeeps DEF Commit
<1>3. ASSUME NEW t \in Threads, Arrival(t), UNCHANGED provVars PROVE TapInv'
    BY <1>3, ArrivalKeeps
<1>4. CASE (Tick \/ BuzzDies) /\ UNCHANGED provVars
    BY <1>4 DEF Tick, BuzzDies, clientVars, provVars, TapInv, LockTyped, Tapped, HasTap, MoveHasTap
<1>5. ASSUME NEW c \in Clients, Client(c) PROVE TapInv'
    BY <1>5, Calls, GivesUp, Hears DEF Client
<1> QED BY <1>1, <1>2, <1>3, <1>4, <1>5, Calls, CapabilityKeeps DEF ProvNext

\* A secret moves only after a tap on this very request, for one action and in time,
\* although the lock of the store is broken: for any number of moves, threads, taps,
\* sessions and late writes of old snapshots.
THEOREM TapBehindMove == ProvSpec => []MoveHasTap
<1>1. TapInv => MoveHasTap
    BY DEF TapInv
<1> QED BY <1>1, TapStarts, TapKeeps, PTL DEF ProvSpec

(* The ledger.  Until an attempt has moved its bytes there is neither a     *)
(* record nor an outcome of it, and once it is recorded it does nothing more. *)

Waiting == {"idle", "new", "asking", "told", "polling", "granted", "refused", "moving"}
NoRecord(a) == outcome[a] = "none" /\ \A r \in audit : r[1] # a

LedgerInv ==
    /\ pc \in [Clients -> ClientPC]
    /\ verdict \in [Clients -> {"none", "verified", "unverified"}]
    /\ outcome \in [Clients -> {"none", "ok"} \cup Outcome \cup Refusal]
    /\ audit \subseteq Clients \X Outcome
    /\ \A a \in Clients :
          /\ pc[a] \in Waiting => NoRecord(a) /\ a \notin moved
          /\ pc[a] = "moved" => NoRecord(a) /\ (verdict[a] = "verified" => a \in moved)
    /\ LedgerTellsTruth

LEMMA LedgerStarts == ProvInit => LedgerInv
BY DEF ProvInit, LedgerInv, ClientPC, Outcome, Refusal, NoRecord, LedgerTellsTruth

\* What happens to the store, and what a client hears before it moves anything, leaves the
\* ledger alone.
LEMMA Listening ==
    ASSUME LedgerInv, NEW a \in Clients, pc[a] \in Waiting, NEW p \in Waiting \cup {"killed"}, Goto(a, p),
           UNCHANGED <<moved, verdict, outcome, audit>>
    PROVE  LedgerInv'
BY DEF LedgerInv, Goto, Waiting, NoRecord, LedgerTellsTruth, ClientPC

LEMMA LedgerKeeps == LedgerInv /\ [ProvNext]_provisioningVars => LedgerInv'
<1> SUFFICES ASSUME LedgerInv, [ProvNext]_provisioningVars PROVE LedgerInv'
    OBVIOUS
<1>1. CASE UNCHANGED <<pc, provVars>>
    BY <1>1 DEF provVars, LedgerInv, NoRecord, LedgerTellsTruth
<1>2. ASSUME NEW t \in Threads, Commit(t) \/ Arrival(t) PROVE UNCHANGED pc
    BY <1>2 DEF Commit, SessionAnswers, RequestStored, CardSent, CardFails, StoreCoordinates, StatusAnswered,
                StatusUnknown, ApplyDecision, ListPending, SweepEscalates, RevokeSession, Arrival, TapArrives,
                PollerLists, SweepLists, RevokeArrives, clientVars
<1>3. ASSUME NEW t \in Threads, NEW a \in Clients, Polls(t, a) \/ \E s \in {"present", "telegram"} : AsksToMove(t, a, s)
      PROVE  LedgerInv'
    BY <1>3, Listening DEF Polls, AsksToMove, Waiting, provVars
<1>4. ASSUME NEW a \in Clients, AskFails(a) \/ HearsAsked(a) \/ HearsPolled(a) \/ PollFails(a) PROVE LedgerInv'
  <2>1. \A told : PollVerdict(a, told) \in {"granted", "refused", "told"}
      BY DEF PollVerdict
  <2> QED BY <1>4, <2>1, Listening DEF AskFails, HearsAsked, HearsPolled, PollFails, Waiting, provVars
<1>5. ASSUME NEW a \in Clients, PolicyAllows(a) \/ SecretRead(a) PROVE LedgerInv'
    BY <1>5, Listening DEF PolicyAllows, SecretRead, Waiting, provVars
<1>6. ASSUME NEW a \in Clients, Refuse(a) \/ PolicyDenies(a) \/ GateDenied(a) \/ SecretMissing(a) PROVE LedgerInv'
  <2>1. /\ pc[a] \in Waiting /\ Goto(a, "ended") /\ UNCHANGED <<moved, verdict>>
        /\ \E what \in (Outcome \ {"succeeded"}) \cup Refusal : outcome' = [outcome EXCEPT ![a] = what]
        /\ \E what \in Outcome : audit' \in {audit, audit \cup {<<a, what>>}}
      BY <1>6 DEF Refuse, PolicyDenies, GateDenied, SecretMissing, Emit, Waiting, Outcome
  <2> QED BY <2>1 DEF LedgerInv, Goto, Waiting, NoRecord, LedgerTellsTruth, ClientPC, Outcome, Refusal
<1>7. ASSUME NEW a \in Clients, Transport(a) PROVE LedgerInv'
    BY <1>7 DEF Transport, LedgerInv, Goto, Waiting, NoRecord, LedgerTellsTruth, ClientPC
<1>8. ASSUME NEW a \in Clients, Record(a) PROVE LedgerInv'
    BY <1>8 DEF Record, Emit, LedgerInv, Goto, Waiting, NoRecord, LedgerTellsTruth, ClientPC, Outcome
<1>9. ASSUME NEW a \in Clients, Killed(a) PROVE LedgerInv'
    BY <1>9 DEF Killed, Goto, provVars, LedgerInv, Waiting, NoRecord, LedgerTellsTruth, ClientPC
<1> QED BY <1>1, <1>2, <1>3, <1>4, <1>5, <1>6, <1>7, <1>8, <1>9
        DEF ProvNext, Client, Capability, provisioningVars, clientVars, Tick, BuzzDies

\* The audit file does not contradict what happened, for any number of attempts, whether a
\* record could be written or not and wherever a process is killed.
THEOREM LedgerIsTrue == ProvSpec => []LedgerTellsTruth
<1>1. LedgerInv => LedgerTellsTruth
    BY DEF LedgerInv
<1> QED BY <1>1, LedgerStarts, LedgerKeeps, PTL DEF ProvSpec

-----------------------------------------------------------------------------
(* The green baseline.  Each stamp that is still good bounds the time since  *)
(* what it stands for was seen: the sensor's its own age, the worker's copy  *)
(* that of the original besides, the knowledge journey's its own age.        *)

WitnessInv ==
    /\ sensor \in {NoStamp} \cup [verdict : {"GREEN", "RED"}, age : Nat]
    /\ stamp \in {NoStamp} \cup [verdict : {"GREEN", "RED"}, age : Nat]
    /\ witnessedAt \in Nat /\ delivery \in Nat /\ recall \in Nat
    /\ sensor.verdict = "GREEN" /\ sensor.age <= CollectMax => delivery <= sensor.age
    /\ stamp.verdict = "GREEN" /\ stamp.age <= AlertMax => delivery <= stamp.age + CollectMax
    /\ witnessedAt <= KnowledgeMax => recall <= witnessedAt
    /\ LiveGreenIsRecent

LEMMA WitnessStarts == BaselineInit => WitnessInv
BY BaselineAssumption DEF BaselineInit, WitnessInv, LiveGreenIsRecent, NoStamp, Nothing, Unstamped

\* What grows older does so by one, up to its limit.
LEMMA Ages ==
    ASSUME NEW limit \in Nat, NEW age \in Nat
    PROVE  Elapsed(age, limit) \in Nat /\ (Elapsed(age, limit) = age + 1 \/ (age = limit /\ Elapsed(age, limit) = limit))
BY DEF Elapsed

LEMMA StampAges ==
    ASSUME NEW limit \in Nat, NEW r \in {NoStamp} \cup [verdict : {"GREEN", "RED"}, age : Nat]
    PROVE  /\ Aged(r, limit) \in {NoStamp} \cup [verdict : {"GREEN", "RED"}, age : Nat]
           /\ Aged(r, limit).verdict = r.verdict
           /\ r.verdict = "GREEN" => Aged(r, limit).age = Elapsed(r.age, limit)
<1>1. CASE r = NoStamp
    BY <1>1 DEF Aged, NoStamp
<1>2. CASE r # NoStamp
    <2>1. r.age \in Nat /\ Elapsed(r.age, limit) \in Nat
        BY <1>2, Ages
    <2>2. Aged(r, limit) = [r EXCEPT !.age = Elapsed(r.age, limit)]
        BY <1>2 DEF Aged
    <2>. QED BY <1>2, <2>1, <2>2
<1>. QED BY <1>1, <1>2

\* A live run that is GREEN has both stamps good.
LEMMA GreenHasStamps ==
    ASSUME WitnessInv, NEW diagnostics \in BOOLEAN, Verdict(diagnostics) = "GREEN"
    PROVE  delivery <= AlertMax + CollectMax /\ recall <= KnowledgeMax
<1>1. AlertVerdict = "GREEN" /\ KnowledgeVerdict = "GREEN"
    BY DEF Verdict
<1>2. stamp.verdict = "GREEN" /\ stamp.age \in Nat /\ stamp.age <= AlertMax
    BY <1>1, BaselineAssumption DEF AlertVerdict, WitnessInv, NoStamp
<1>3. witnessedAt <= KnowledgeMax
    BY <1>1, BaselineAssumption DEF KnowledgeVerdict, WitnessInv
<1>. QED BY <1>2, <1>3, BaselineAssumption DEF WitnessInv

LEMMA WitnessKeeps == WitnessInv /\ [BaselineNext]_baselineVars => WitnessInv'
<1>. SUFFICES ASSUME WitnessInv, [BaselineNext]_baselineVars PROVE WitnessInv'
    OBVIOUS
<1>. USE BaselineAssumption
<1>1. CASE UNCHANGED baselineVars
    BY <1>1 DEF baselineVars, WitnessInv, LiveGreenIsRecent
<1>2. CASE WorldChanges
    BY <1>2 DEF WorldChanges, WitnessInv, LiveGreenIsRecent, Nothing
<1>3. CASE TimePasses
    <2>1. LiveGreenIsRecent'
        BY <1>3 DEF TimePasses, LiveGreenIsRecent, Nothing
    <2>2. /\ sensor' \in {NoStamp} \cup [verdict : {"GREEN", "RED"}, age : Nat] /\ sensor'.verdict = sensor.verdict
          /\ sensor.verdict = "GREEN" => sensor'.age = Elapsed(sensor.age, CollectMax + 1) /\ sensor.age \in Nat
        <3>1. sensor' = Aged(sensor, CollectMax + 1)
            BY <1>3 DEF TimePasses
        <3>. QED BY <3>1, StampAges DEF WitnessInv, NoStamp
    <2>3. /\ stamp' \in {NoStamp} \cup [verdict : {"GREEN", "RED"}, age : Nat] /\ stamp'.verdict = stamp.verdict
          /\ stamp.verdict = "GREEN" => stamp'.age = Elapsed(stamp.age, AlertMax + 1) /\ stamp.age \in Nat
        <3>1. stamp' = Aged(stamp, AlertMax + 1)
            BY <1>3 DEF TimePasses
        <3>. QED BY <3>1, StampAges DEF WitnessInv, NoStamp
    <2>4. /\ delivery' \in Nat /\ delivery' <= delivery + 1
          /\ recall' \in Nat /\ recall' <= recall + 1
        BY <1>3 DEF TimePasses, Elapsed, WitnessInv
    <2>5. witnessedAt' \in Nat /\ (witnessedAt' <= KnowledgeMax => witnessedAt' = witnessedAt + 1)
        BY <1>3 DEF TimePasses, Elapsed, WitnessInv, Unstamped
    <2>6. sensor'.verdict = "GREEN" /\ sensor'.age <= CollectMax => delivery' <= sensor'.age
        BY <2>2, <2>4 DEF Elapsed, WitnessInv
    <2>7. stamp'.verdict = "GREEN" /\ stamp'.age <= AlertMax => delivery' <= stamp'.age + CollectMax
        BY <2>3, <2>4 DEF Elapsed, WitnessInv
    <2>8. witnessedAt' <= KnowledgeMax => recall' <= witnessedAt'
        BY <2>4, <2>5 DEF WitnessInv
    <2>. QED BY <2>1, <2>2, <2>3, <2>4, <2>5, <2>6, <2>7, <2>8 DEF WitnessInv
<1>4. CASE SensorRuns
    <2>1. /\ sensor' = [verdict |-> IF delivers THEN "GREEN" ELSE "RED", age |-> 0]
          /\ delivery' \in Nat /\ delivery' <= delivery /\ (delivers => delivery' = 0)
          /\ shown' = Nothing /\ UNCHANGED <<stamp, witnessedAt, recall>>
        BY <1>4 DEF SensorRuns, WitnessInv
    <2>2. /\ sensor' \in {NoStamp} \cup [verdict : {"GREEN", "RED"}, age : Nat] /\ sensor'.age = 0
          /\ sensor'.verdict = "GREEN" => delivers
        BY <2>1
    <2>3. stamp.verdict = "GREEN" => stamp.age \in Nat
        BY DEF WitnessInv, NoStamp
    <2>. QED BY <2>1, <2>2, <2>3 DEF WitnessInv, LiveGreenIsRecent, Nothing
<1>5. CASE Collects
    <2>1. /\ sensor # NoStamp /\ sensor.age <= CollectMax /\ stamp' = [sensor EXCEPT !.age = 0]
          /\ shown' = Nothing /\ UNCHANGED <<sensor, witnessedAt, delivery, recall>>
        BY <1>5 DEF Collects
    <2>2. sensor.age \in Nat /\ stamp' \in [verdict : {"GREEN", "RED"}, age : Nat] /\ stamp'.age = 0 /\ stamp'.verdict = sensor.verdict
        BY <2>1 DEF WitnessInv
    <2>. QED BY <2>1, <2>2 DEF WitnessInv, LiveGreenIsRecent, Nothing
<1>6. CASE KnowledgeRuns
    BY <1>6 DEF KnowledgeRuns, WitnessInv, LiveGreenIsRecent, Nothing
<1>7. ASSUME NEW diagnostics \in BOOLEAN, shown' = Live(diagnostics) \/ shown'.by = "cached",
             UNCHANGED <<sensor, stamp, witnessedAt, delivery, recall>>
      PROVE  WitnessInv'
    <2>1. LiveGreenIsRecent'
        BY <1>7, GreenHasStamps DEF LiveGreenIsRecent, Live
    <2>. QED BY <1>7, <2>1 DEF WitnessInv
<1>8. CASE RunGate
    BY <1>7, <1>8 DEF RunGate
<1>9. CASE RunCached
    <2>1. CASE shown' = [by |-> "cached", verdict |-> "GREEN", code |-> 0]
        BY <1>7, <1>9, <2>1, TRUE \in BOOLEAN DEF RunCached
    <2>2. CASE \E diagnostics \in BOOLEAN : shown' = Live(diagnostics)
        BY <1>7, <1>9, <2>2 DEF RunCached
    <2>. QED BY <1>9, <2>1, <2>2 DEF RunCached
<1>. QED BY <1>1, <1>2, <1>3, <1>4, <1>5, <1>6, <1>8, <1>9 DEF BaselineNext, BaselineJob

\* A live GREEN is witnessed from outside and recently, though each stage knows the age of
\* its own file only: an alert was delivered within the limits of the copy and of the
\* original together, the advisor recalled within its own (alert_delivery_verdict,
\* knowledge_use_verdict and run_suite of green_baseline.py, witness_collector.sh).
THEOREM GreenIsWitnessed == BaselineSpec => []LiveGreenIsRecent
<1>1. WitnessInv => LiveGreenIsRecent
    BY DEF WitnessInv
<1>. QED BY <1>1, WitnessStarts, WitnessKeeps, PTL DEF BaselineSpec
=============================================================================
