--------------------------- MODULE InvariantRunner ---------------------------
(***************************************************************************)
(* The half-hourly invariant runner (kai-scheduler/invariants.py,          *)
(* run_invariants).  Each failing invariant is tied to one open ticket on  *)
(* the Plane board; the tie is kept in memory and written with the results *)
(* of the run.  After a restart it is restored from the results, from the  *)
(* standing tickets and from the board.                                    *)
(***************************************************************************)
EXTENDS Naturals, FiniteSets, Sequences

CONSTANTS
    Invariants,   \* INVARIANTS, a sequence of keys
    Standing,     \* keys of _STANDING_INVARIANT_ISSUES
    MaxTickets,   \* tickets of a key that are told apart: one that is closed and that nothing
                  \* refers to is taken for a new one
    MaxSlips      \* bound on lost answers, failed writes, deaths and tickets leaving the page

InvKeys == {Invariants[i] : i \in 1..Len(Invariants)}

ASSUME RunnerAssumption ==
    /\ Invariants \in Seq(InvKeys) /\ Standing \subseteq InvKeys
    /\ MaxTickets \in Nat \ (0..2) /\ MaxSlips \in Nat

VARIABLES
    holding,    \* keys whose probe passes now
    plane,      \* does Plane answer?
    tickets,    \* tickets[k][n]: the n-th ticket of k, closed, or open and listed on the page
                \* of issues that a search reads, or open and beyond it
    refs,       \* _violation_issue_refs: the ticket tied to k, 0 for none
    previous,   \* _prev_state
    restored,   \* _issue_refs_restored
    place,      \* 0 idle, then the next invariant, then the write of the results
    results,    \* open_issue_refs of the results file
    slips,
    corrected,  \* keys whose recovery this run announces
    ailing      \* keys that failed a check since their last announced recovery

runnerVars == <<holding, plane, tickets, refs, previous, restored, place, results, slips, corrected, ailing>>

Slots == 1..MaxTickets
StandingTicket == 1                \* its description has no marker: a search does not find it
NoRefs == [k \in InvKeys |-> 0]
WriteTime == Len(Invariants) + 1

RunnerTypeOK ==
    /\ holding \subseteq InvKeys /\ plane \in BOOLEAN /\ restored \in BOOLEAN
    /\ tickets \in [InvKeys -> [Slots -> {"listed", "beyond", "closed"}]]
    /\ refs \in [InvKeys -> 0..MaxTickets] /\ results \in [InvKeys -> 0..MaxTickets]
    /\ previous \in [InvKeys -> {"none", "pass", "fail"}]
    /\ place \in 0..WriteTime /\ slips \in 0..MaxSlips /\ corrected \subseteq InvKeys /\ ailing \subseteq InvKeys

RunnerInit ==
    /\ holding = InvKeys /\ plane = TRUE
    /\ tickets = [k \in InvKeys |-> [n \in Slots |->
                    IF k \in Standing /\ n = StandingTicket THEN "listed" ELSE "closed"]]
    /\ refs = NoRefs /\ previous = [k \in InvKeys |-> "none"] /\ restored = FALSE
    /\ place = 0 /\ results = NoRefs /\ slips = 0 /\ corrected = {} /\ ailing = Standing

Slip == slips < MaxSlips /\ slips' = slips + 1
Open(k, n) == tickets[k][n] # "closed"

-----------------------------------------------------------------------------
InvariantFlips(k) ==
    /\ holding' = IF k \in holding THEN holding \ {k} ELSE holding \cup {k}
    /\ UNCHANGED <<plane, tickets, refs, previous, restored, place, results, slips, corrected, ailing>>

PlaneFlips ==
    /\ plane' = ~plane
    /\ UNCHANGED <<holding, tickets, refs, previous, restored, place, results, slips, corrected, ailing>>

\* Leo closes or cancels a ticket by hand.
ClosedByHand(k, n) ==
    /\ Open(k, n) /\ Slip
    /\ tickets' = [tickets EXCEPT ![k][n] = "closed"]
    /\ UNCHANGED <<holding, plane, refs, previous, restored, place, results, corrected, ailing>>

\* Other issues push an open ticket off the first hundred that Plane returns.
LeavesPage(k, n) ==
    /\ tickets[k][n] = "listed" /\ Slip
    /\ tickets' = [tickets EXCEPT ![k][n] = "beyond"]
    /\ UNCHANGED <<holding, plane, refs, previous, restored, place, results, corrected, ailing>>

-----------------------------------------------------------------------------
\* Mutant of Found: the board is not searched.
FoundNothing(k) == {}

\* _find_open_invariant_issue: the open tickets of k that carry its marker, the oldest first,
\* on one page of a hundred issues of the project.
Found(k) == {n \in Slots : tickets[k][n] = "listed" /\ ~(k \in Standing /\ n = StandingTicket)}
Adopted(k) == CHOOSE n \in Found(k) : \A m \in Found(k) : n <= m

\* _restore_invariant_issue_refs: once in a process, from the results, the standing tickets
\* whatever their state, and the board if it answers.
Restored(k) ==
    CASE results[k] # 0 -> results[k]
      [] results[k] = 0 /\ k \in Standing -> StandingTicket
      [] results[k] = 0 /\ k \notin Standing /\ plane /\ Found(k) # {} -> Adopted(k)
      [] OTHER -> 0

RunStarts ==
    /\ place = 0 /\ place' = 1 /\ corrected' = {}
    /\ refs' = IF restored THEN refs ELSE [k \in InvKeys |-> Restored(k)]
    /\ restored' = TRUE
    /\ UNCHANGED <<holding, plane, tickets, previous, results, slips, ailing>>

\* _close_invariant_issue, and the tie is cut when Plane confirmed it.
Passes(k) ==
    /\ k \in holding
    /\ corrected' = IF refs[k] # 0 THEN corrected \cup {k} ELSE corrected
    /\ ailing' = ailing \ corrected'
    /\ IF refs[k] # 0 /\ plane
       THEN /\ tickets' = [tickets EXCEPT ![k][refs[k]] = "closed"]
            /\ refs' = [refs EXCEPT ![k] = 0]
       ELSE UNCHANGED <<tickets, refs>>
    /\ UNCHANGED slips

NewTickets(k) == {n \in Slots : tickets[k][n] = "closed" /\ n # results[k] /\ n # StandingTicket}
NewTicket(k) == CHOOSE n \in NewTickets(k) : \A m \in NewTickets(k) : n <= m

\* _file_invariant_issue: the ticket is posted and read back; when the answer is lost the
\* ticket exists and the tie does not.
FilesTicket(k) ==
    /\ NewTickets(k) # {}
    /\ tickets' = [tickets EXCEPT ![k][NewTicket(k)] = "listed"]
    /\ \/ refs' = [refs EXCEPT ![k] = NewTicket(k)] /\ UNCHANGED slips
       \/ Slip /\ refs' = [refs EXCEPT ![k] = 0]

\* _mapped_issue_is_open.
Tied(k) == refs[k] # 0 /\ Open(k, refs[k])

\* _ensure_invariant_issue: verify the tie, else adopt from the board, else file.  Without
\* Plane nothing is changed.
NonPass(k) ==
    /\ k \notin holding
    /\ ailing' = ailing \cup {k} /\ UNCHANGED corrected
    /\ \/ (~plane \/ Tied(k)) /\ UNCHANGED <<tickets, refs, slips>>
       \/ /\ plane /\ ~Tied(k) /\ Found(k) # {}
          /\ refs' = [refs EXCEPT ![k] = Adopted(k)] /\ UNCHANGED <<tickets, slips>>
       \/ plane /\ ~Tied(k) /\ Found(k) = {} /\ FilesTicket(k)
       \/ /\ plane /\ ~Tied(k) /\ Slip                        \* Plane fails after the verification
          /\ refs' = [refs EXCEPT ![k] = 0] /\ UNCHANGED tickets

\* One turn of the loop over INVARIANTS.
CheckInvariant ==
    /\ place \in 1..Len(Invariants) /\ place' = place + 1
    /\ LET k == Invariants[place] IN
       /\ Passes(k) \/ NonPass(k)
       /\ previous' = [previous EXCEPT ![k] = IF k \in holding THEN "pass" ELSE "fail"]
    /\ UNCHANGED <<holding, plane, restored, results>>

\* The results replace the file; a write that fails leaves it torn, and a torn file restores
\* nothing.
WriteResults ==
    /\ place = WriteTime /\ place' = 0
    /\ \/ results' = refs /\ UNCHANGED slips
       \/ Slip /\ results' = NoRefs
    /\ UNCHANGED <<holding, plane, tickets, refs, previous, restored, corrected, ailing>>

RunnerDies ==
    /\ Slip
    /\ refs' = NoRefs /\ previous' = [k \in InvKeys |-> "none"] /\ restored' = FALSE
    /\ place' = 0 /\ corrected' = {}
    /\ UNCHANGED <<holding, plane, tickets, results, ailing>>

RunnerJob == RunStarts \/ CheckInvariant \/ WriteResults
RunnerNext ==
    \/ RunnerJob \/ RunnerDies \/ PlaneFlips
    \/ \E k \in InvKeys : InvariantFlips(k) \/ \E n \in Slots : ClosedByHand(k, n) \/ LeavesPage(k, n)
RunnerSpec == RunnerInit /\ [][RunnerNext]_runnerVars /\ WF_runnerVars(RunnerJob)

-----------------------------------------------------------------------------
OpenTickets(k) == {n \in Slots : Open(k, n)}

\* An open ticket that the runner can still come by: on the page, in its memory or in the
\* results.
InReach(k, n) == tickets[k][n] = "listed" \/ (tickets[k][n] = "beyond" /\ n \in {refs[k], results[k]})

\* Lost answers, restarts, torn results and tickets closed by hand never lead to a second
\* ticket of an invariant while the first is within the runner's reach; a ticket beyond the
\* page stays in reach for as long as the tie to it is remembered.
NoTicketInReachTwice == \A k \in InvKeys : Cardinality({n \in Slots : InReach(k, n)}) <= 1

\* "No duplicate will be filed while this issue is open" (invariants.py:339).  Not so where the
\* answer to its creation was lost and it has since left the page.
OneOpenTicket == \A k \in InvKeys : Cardinality(OpenTickets(k)) <= 1

\* An invariant that keeps failing has an open ticket again and again, whoever closes it,
\* once Plane answers (_ensure_invariant_issue, "every current non-pass maps to a
\* verified-open Plane issue").
FailureHasTicket ==
    \A k \in InvKeys :
        <>[](k \notin holding /\ plane) => []<>(OpenTickets(k) # {})

\* "tickets from an earlier process still become visible to a first-run recovery and can be
\* closed on an actual pass" (invariants.py:193-194).
RecoveryClosesTicket ==
    \A k \in InvKeys : <>[](k \in holding /\ plane) => <>[](OpenTickets(k) = {})

\* The standing tickets are adopted "until a real recovery closes them"
\* (invariants.py:89): a recovery is announced of an invariant that had failed.
RecoveryHadFailure ==
    [][corrected' \ corrected \subseteq ailing]_runnerVars
=============================================================================
