------------------------------ MODULE TurnGate ------------------------------
(***************************************************************************)
(* The blocker ledger of the turn gate (kai-worker-api/routes/turn_gate.py)*)
(* A session that is held at the end of a turn may be let go when it       *)
(* registers a blocker card and claims it.  The ledger, one file per claim *)
(* and the count of yields per session are on disk; a claim runs under a   *)
(* process lock, and the service may die at any point of it.               *)
(***************************************************************************)
EXTENDS Naturals, FiniteSets

CONSTANTS
    Cards,       \* identities of cards: action, class, target, session, time
    Sessions,
    Owner,       \* Owner[c]: the session of card c
    Suppressing, \* cards whose class holds back the stop
    Fabricated,  \* cards whose target the lexical policy refuses
    YieldBound,  \* _YIELD_BOUND
    MaxYield     \* bound on the counter

ASSUME YieldAssumption ==
    /\ Owner \in [Cards -> Sessions] /\ Suppressing \subseteq Cards /\ Fabricated \subseteq Cards
    /\ YieldBound \in Nat /\ MaxYield \in Nat /\ MaxYield > YieldBound

VARIABLES
    ledger,   \* registered cards
    claims,   \* cards with a claim file
    yields,   \* yields[s]: the count on disk
    claim,    \* the claim that holds the lock
    honored,  \* cards whose claim was honored
    granted   \* granted[s]: claims of session s that were honored

turnVars == <<ledger, claims, yields, claim, honored, granted>>

NoClaim == [at |-> "none"]
ClaimState == {NoClaim} \cup [at : {"check", "once", "bump", "answer"}, card : Cards, n : 0..MaxYield]

TurnTypeOK ==
    /\ ledger \subseteq Cards /\ claims \subseteq Cards /\ honored \subseteq Cards
    /\ yields \in [Sessions -> 0..MaxYield]
    /\ claim \in ClaimState
    /\ granted \in [Sessions -> 0..MaxYield]

TurnInit ==
    /\ ledger = {} /\ claims = {} /\ honored = {}
    /\ yields = [s \in Sessions |-> 0] /\ granted = [s \in Sessions |-> 0]
    /\ claim = NoClaim

-----------------------------------------------------------------------------
\* register_blocker: a row is appended unless the target was made up for the purpose;
\* the lock is the claims' lock.
Register(c) ==
    /\ claim = NoClaim
    /\ c \notin Fabricated
    /\ ledger' = ledger \cup {c}
    /\ UNCHANGED <<claims, yields, claim, honored, granted>>

\* claim_blocker takes the lock.
ClaimBegins(c) ==
    /\ claim = NoClaim
    /\ claim' = [at |-> "check", card |-> c, n |-> 0]
    /\ UNCHANGED <<ledger, claims, yields, honored, granted>>

\* Issuance and class; a refusal ends the claim.
CheckLedger ==
    /\ claim.at = "check"
    /\ claim' = IF claim.card \in ledger /\ claim.card \in Suppressing
                THEN [claim EXCEPT !.at = "once"] ELSE NoClaim
    /\ UNCHANGED <<ledger, claims, yields, honored, granted>>

\* Mutant of ClaimOnce: the file is created whether or not it is there.
ClaimAgain ==
    /\ claim.at = "once"
    /\ \/ claims' = claims \cup {claim.card} /\ claim' = [claim EXCEPT !.at = "bump"]
       \/ claim' = NoClaim /\ UNCHANGED claims
    /\ UNCHANGED <<ledger, yields, honored, granted>>

\* _claim_once: created exclusively, or refused as a replay.
ClaimOnce ==
    /\ claim.at = "once"
    /\ IF claim.card \in claims
       THEN claim' = NoClaim /\ UNCHANGED claims
       ELSE \/ claims' = claims \cup {claim.card} /\ claim' = [claim EXCEPT !.at = "bump"]
            \/ claim' = NoClaim /\ UNCHANGED claims       \* it could not be created
    /\ UNCHANGED <<ledger, yields, honored, granted>>

\* _bump_yield: a count that cannot be read or written refuses the claim.
BumpYield ==
    /\ claim.at = "bump"
    /\ LET n == yields[Owner[claim.card]] + 1 IN
       \/ /\ n <= MaxYield
          /\ yields' = [yields EXCEPT ![Owner[claim.card]] = n]
          /\ claim' = [claim EXCEPT !.at = "answer", !.n = n]
       \/ claim' = NoClaim /\ UNCHANGED yields
    /\ UNCHANGED <<ledger, claims, honored, granted>>

\* The claim is honored up to the bound.
Answer ==
    /\ claim.at = "answer"
    /\ IF claim.n <= YieldBound
       THEN /\ honored' = honored \cup {claim.card}
            /\ granted' = [granted EXCEPT ![Owner[claim.card]] = @ + 1]
       ELSE UNCHANGED <<honored, granted>>
    /\ claim' = NoClaim
    /\ UNCHANGED <<ledger, claims, yields>>

\* The worker dies: the lock and the claim in hand are gone, the files stay.
WorkerDies ==
    /\ claim # NoClaim
    /\ claim' = NoClaim
    /\ UNCHANGED <<ledger, claims, yields, honored, granted>>

TurnNext ==
    \/ \E c \in Cards : Register(c) \/ ClaimBegins(c)
    \/ CheckLedger \/ ClaimOnce \/ BumpYield \/ Answer \/ WorkerDies

TurnSpec == TurnInit /\ [][TurnNext]_turnVars

-----------------------------------------------------------------------------
\* A session is let go at most YieldBound times, whatever claims, failed writes and
\* deaths of the worker come in between.
YieldsBounded == \A s \in Sessions : granted[s] <= YieldBound

\* One card lets a session go once: as many claims were honored as there are cards
\* honored, and each of them is registered, not made up, and holds back the stop.
CardHonoredOnce == \A s \in Sessions :
    /\ granted[s] = Cardinality({c \in honored : Owner[c] = s})
    /\ {c \in honored : Owner[c] = s} \subseteq (ledger \cap Suppressing) \ Fabricated
=============================================================================
