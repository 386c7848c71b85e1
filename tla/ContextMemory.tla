---------------------------- MODULE ContextMemory ----------------------------
(***************************************************************************)
(* The Memory Service's account of one conversation (kai-orchestrator/     *)
(* context_service.py): the turns, of which the last ones go to the model  *)
(* word by word, and a summary into which a background thread folds the    *)
(* older ones.  A turn is known by its place in the conversation.          *)
(***************************************************************************)
EXTENDS Naturals, FiniteSets

CONSTANTS TIER1_MAX_TURNS,           \* turns given word by word: 40
          COMPACTION_TRIGGER_TURNS,  \* turns between two compactions: 10
          Folders,                   \* compactions that may be under way at once
          MaxCalls,                  \* turns of one conversation that are being recorded at once
          Pace,                      \* and that are recorded while a compaction runs (30 s at most)
          MaxTurns,                  \* bound: turns of the conversation
          MaxMisses                  \* bound: compactions and calls that fail or are lost, and fallbacks

ASSUME MemoryAssumption ==
    /\ TIER1_MAX_TURNS \in Nat /\ COMPACTION_TRIGGER_TURNS \in Nat \ {0}
    /\ MaxCalls \in Nat \ {0} /\ Pace \in Nat

VARIABLES turns,                     \* how many there are
          turns_since_compaction,
          committed, due,            \* calls that have yet to look at the count; that found it full
          summary,                   \* the turns the stored summary tells of
          fold,                      \* a compaction: idle, started, or what it has read
          cut,                       \* turns a fallback summary passed over
          misses, lost               \* failures so far, and what they lost, in rounds

callVars == <<committed, due>>
cmVars == <<turns, turns_since_compaction, callVars, summary, fold, cut, misses, lost>>

Idle_ == [at |-> "idle", since |-> 0, to_fold |-> 0, old_summary |-> {}]

CMInit ==
    /\ turns = 0 /\ turns_since_compaction = 0 /\ committed = 0 /\ due = 0 /\ summary = {}
    /\ fold = [f \in Folders |-> Idle_] /\ cut = {} /\ misses = 0 /\ lost = 0

\* What assemble gives the model: the turns of the window, and the summary.
Included == {i \in 1..turns : i > turns - TIER1_MAX_TURNS}

\* Mutant of Triggered: one turn late.
TriggeredLate(n) == n > COMPACTION_TRIGGER_TURNS
Triggered(n) == n >= COMPACTION_TRIGGER_TURNS

\* The turn and the count are committed together.
record_turn ==
    /\ turns < MaxTurns /\ committed + due < MaxCalls
    /\ \A f \in Folders : fold[f] # Idle_ => turns < fold[f].since + Pace
    /\ turns' = turns + 1 /\ turns_since_compaction' = turns_since_compaction + 1
    /\ committed' = committed + 1 /\ UNCHANGED <<due, summary, fold, cut, misses, lost>>

\* Only then the count is read again, which other calls and compactions change meanwhile.
CallLooks ==
    /\ committed > 0 /\ committed' = committed - 1
    /\ due' = IF Triggered(turns_since_compaction) THEN due + 1 ELSE due
    /\ UNCHANGED <<turns, turns_since_compaction, summary, fold, cut, misses, lost>>

\* Where it was full it starts again, and a thread folds.
CallResets ==
    /\ due > 0 /\ due' = due - 1 /\ turns_since_compaction' = 0
    /\ \E f \in Folders :
          /\ fold[f] = Idle_
          /\ fold' = [fold EXCEPT ![f] = [Idle_ EXCEPT !.at = "started", !.since = turns]]
    /\ UNCHANGED <<turns, committed, summary, cut, misses, lost>>

\* After its first transaction a call may raise: the turn is there, and no thread was started.
Misses_(rounds) == misses < MaxMisses /\ misses' = misses + 1 /\ lost' = lost + rounds
CallRaises ==
    /\ Misses_(1)
    /\ \/ committed > 0 /\ committed' = committed - 1 /\ UNCHANGED due
       \/ due > 0 /\ due' = due - 1 /\ UNCHANGED committed
    /\ UNCHANGED <<turns, turns_since_compaction, summary, fold, cut>>

\* The orchestrator restarts: its calls and its threads are gone.
MemoryRestarts ==
    /\ Misses_(2) /\ committed' = 0 /\ due' = 0 /\ fold' = [f \in Folders |-> Idle_]
    /\ UNCHANGED <<turns, turns_since_compaction, summary, cut>>

\* The thread reads the conversation: all that is older than the window is folded anew.
CompactReads(f) ==
    /\ fold[f].at = "started"
    /\ IF turns <= TIER1_MAX_TURNS
       THEN turns_since_compaction' = 0 /\ fold' = [fold EXCEPT ![f] = Idle_]
       ELSE /\ fold' = [fold EXCEPT ![f] = [at |-> "summarising", since |-> fold[f].since, old_summary |-> summary,
                                            to_fold |-> turns - TIER1_MAX_TURNS]]
            /\ UNCHANGED turns_since_compaction
    /\ UNCHANGED <<turns, callVars, summary, cut, misses, lost>>

Writes_(f, new_summary) ==
    /\ fold[f].at = "summarising" /\ fold' = [fold EXCEPT ![f] = Idle_]
    /\ summary' = new_summary /\ turns_since_compaction' = 0

\* The local model folds them, or, when it cannot, the last three are put at the end of the
\* old summary, as far as there is room.
summarize_with_ollama(f) ==
    /\ Writes_(f, fold[f].old_summary \cup 1..fold[f].to_fold) /\ cut' = {}
    /\ UNCHANGED <<turns, callVars, misses, lost>>
summarize_fallback(f) ==
    LET k == fold[f].to_fold IN
    /\ misses < MaxMisses /\ misses' = misses + 1
    /\ \E snippet \in {{}, {i \in 1..k : i > k - 3}} : Writes_(f, fold[f].old_summary \cup snippet)
    /\ cut' = (cut \cup 1..k) \ summary'
    /\ UNCHANGED <<turns, callVars, lost>>

\* A thread that raises is logged.
CompactRaises(f) ==
    /\ fold[f] # Idle_ /\ Misses_(1) /\ fold' = [fold EXCEPT ![f] = Idle_]
    /\ UNCHANGED <<turns, turns_since_compaction, callVars, summary, cut>>

_compact(f) == CompactReads(f) \/ summarize_with_ollama(f) \/ summarize_fallback(f) \/ CompactRaises(f)

\* What goes on in the Memory Service by itself, and with a turn that some client records.
MemoryStep_ == CallLooks \/ CallResets \/ CallRaises \/ MemoryRestarts \/ \E f \in Folders : _compact(f)
CMNext == record_turn \/ MemoryStep_
CMSpec == CMInit /\ [][CMNext]_cmVars

-----------------------------------------------------------------------------
\* Nothing said is forgotten for long: a turn that the model no longer gets word by word is
\* in the summary, or is one of the last few, or was passed over by a fallback.  The count
\* can be full of turns that are all still being recorded, two compactions may overlap and
\* the older one write last, and each failure costs another round.
Forgotten == (1..turns) \ (Included \cup summary \cup cut)
Round == COMPACTION_TRIGGER_TURNS + MaxCalls - 1 + Pace
LagIsBounded == Cardinality(Forgotten) <= (1 + lost) * Round + Pace

\* What the verbatim turns say the summary does not say again.
SummaryIsOld == summary \cap Included = {}

\* "make concurrent writes safe" (context_service.py:999): does not hold where two
\* compactions overlap, the older one puts its own summary over the newer one's.
SummaryKeeps == [][summary \subseteq summary']_cmVars
=============================================================================
