------------------------------ MODULE ParkingLot ------------------------------
(***************************************************************************)
(* Leo's captures (kai-worker-api/parking_lot.py and the routes of         *)
(* routes/parking_lot.py): a capture is a file, the card, named by the     *)
(* second it came in or by its day and title.  Background jobs and routes  *)
(* read a card and write it back in threads of their own until triage      *)
(* hands it on and archives it, over an archived card of the same name.    *)
(***************************************************************************)
EXTENDS Naturals, Sequences, FiniteSets

CONSTANTS
    MaxCards,    \* captures 1..MaxCards
    Seconds,     \* file names that are a time in seconds
    Titles,      \* file names that are a day and a title
    Requests,    \* requests for a card that may be at work at the same time
    MaxJobs      \* bound on restarts and on background rewrites after the first of each capture

ASSUME LotAssumption == MaxCards \in Nat /\ MaxJobs \in Nat

Cards == 1..MaxCards
Slugs == Seconds \cup Titles

VARIABLES
    taken,     \* captures that were given a name
    slug,      \* slug[t]: the name of capture t
    unwritten, \* captures with a name whose card is not written yet
    saved,     \* captures Leo was told are saved
    lot,       \* lot[s]: the card in 50_ParkingLot
    archive,   \* archive[s]: the card in 50_ParkingLot/archived
    job,       \* job[t]: a background rewrite of the card under the name of t
    jobs,
    route,     \* route[r]: what request r has still to do with its card
    exits,     \* cards whose exit exists: a task, an inbox file, a dispatch
    deleted    \* captures Leo deleted

captureVars == <<taken, slug, unwritten, saved>>
lotVars == <<captureVars, lot, archive, job, jobs, route, exits, deleted>>

Gone == [text |-> 0]
Statuses == {"new", "waiting", "archived", "routed", "handed"}
\* The capture a card is of, whether Leo's words are all in it, and its status.
Card == [text : Cards, words : BOOLEAN, status : Statuses]
NoWork == [at |-> "idle"]

\* Mutant of Program: a routed card is dropped before it is copied.
ProgramDropFirst(op) ==
    CASE op = "edit" -> <<"read", "write">>
      [] op = "archive" -> <<"read", "write", "move">>
      [] op = "routed" -> <<"read", "write", "drop", "copy">>
      [] op = "handed" -> <<"exit", "read", "write", "move">>
      [] op = "dispatch" -> <<"exit", "move">>
      [] op = "delete" -> <<"drop">>

\* What each route does to the card, in order.  "edit" is every read-and-write: PATCH,
\* annotate, defer; "handed" is triage to a task, a project or an advisor's knowledge.
Ops == {"edit", "archive", "routed", "handed", "dispatch", "delete"}
Program(op) ==
    CASE op = "edit" -> <<"read", "write">>
      [] op = "archive" -> <<"read", "write", "move">>
      [] op = "routed" -> <<"read", "write", "copy", "drop">>
      [] op = "handed" -> <<"exit", "read", "write", "move">>
      [] op = "dispatch" -> <<"exit", "move">>
      [] op = "delete" -> <<"drop">>
StatusOf == [edit |-> "waiting", archive |-> "archived", routed |-> "routed", handed |-> "handed"]

LotTypeOK ==
    /\ saved \subseteq taken /\ unwritten \subseteq taken /\ taken \subseteq Cards
    /\ exits \subseteq Cards /\ deleted \subseteq Cards /\ DOMAIN slug = taken
    /\ \A t \in taken : slug[t] \in Slugs
    /\ lot \in [Slugs -> Card \cup {Gone}] /\ archive \in [Slugs -> Card \cup {Gone}]
    /\ job \in [Cards -> {NoWork, [at |-> "model"]} \cup [at : {"write"}, held : Card]]
    /\ jobs \in 0..MaxJobs
    /\ \A r \in Requests :
          route[r] = NoWork \/ (/\ route[r].slug \in Slugs /\ route[r].op \in Ops
                                /\ route[r].text \in Cards /\ Len(route[r].todo) <= 4)

LotInit ==
    /\ taken = {} /\ slug = <<>> /\ unwritten = {} /\ saved = {} /\ exits = {} /\ deleted = {}
    /\ lot = [s \in Slugs |-> Gone] /\ archive = [s \in Slugs |-> Gone]
    /\ job = [t \in Cards |-> NoWork] /\ jobs = 0 /\ route = [r \in Requests |-> NoWork]

-----------------------------------------------------------------------------
\* POST /parking-lot/quick: the name is the second, which may be that of the capture before.
SecondName(t, s) == s \in Seconds /\ \A u \in taken : slug[u] = s => u = t - 1

\* write_capture_card: the first name of the day and title that no card in the lot has; one in
\* the archive may have it.
TitleName(t, s) == s \in Titles /\ lot[s] = Gone

CaptureNamed(t) ==
    /\ taken = 1..t - 1 /\ taken' = taken \cup {t} /\ unwritten' = unwritten \cup {t}
    /\ \E s \in Slugs :
         /\ SecondName(t, s) \/ TitleName(t, s)
         /\ slug' = [u \in taken' |-> IF u = t THEN s ELSE slug[u]]
    /\ UNCHANGED <<saved, lot, archive, job, jobs, route, exits, deleted>>

\* The card replaces one of that name; the enrichment of a quick capture is queued.
CaptureWritten(t) ==
    /\ t \in unwritten /\ unwritten' = unwritten \ {t} /\ saved' = saved \cup {t}
    /\ lot' = [lot EXCEPT ![slug[t]] = [text |-> t, words |-> TRUE, status |-> "new"]]
    /\ job' = [job EXCEPT ![t] = IF slug[t] \in Seconds THEN [at |-> "model"] ELSE NoWork]
    /\ UNCHANGED <<taken, slug, archive, jobs, route, exits, deleted>>

-----------------------------------------------------------------------------
CardAt(t) == lot[slug[t]]

\* enrich-all and reenrich-bad queue the job for a card again; resolve-urls reads the card and
\* then follows the link.
JobAgain(t) ==
    /\ t \in saved /\ job[t] = NoWork /\ CardAt(t) # Gone /\ jobs < MaxJobs
    /\ jobs' = jobs + 1
    /\ \E again \in {[at |-> "model"], [at |-> "write", held |-> CardAt(t)]} : job' = [job EXCEPT ![t] = again]
    /\ UNCHANGED <<taken, slug, unwritten, saved, lot, archive, route, exits, deleted>>

\* The first line of the body, which may be all of Leo's words, gives way to a summary.
Summarized(c, words) == [c EXCEPT !.words = words]

\* _enrich_item: the model has answered; a card that is not in the lot any more ends the job.
JobReads(t) ==
    /\ job[t].at = "model"
    /\ \/ CardAt(t) = Gone /\ job' = [job EXCEPT ![t] = NoWork]
       \/ /\ CardAt(t) # Gone
          /\ \E words \in {CardAt(t).words, FALSE} :
               job' = [job EXCEPT ![t] = [at |-> "write", held |-> Summarized(CardAt(t), words)]]
    /\ UNCHANGED <<taken, slug, unwritten, saved, lot, archive, jobs, route, exits, deleted>>

JobWrites(t) ==
    /\ job[t].at = "write"
    /\ lot' = [lot EXCEPT ![slug[t]] = job[t].held]
    /\ job' = [job EXCEPT ![t] = NoWork]
    /\ UNCHANGED <<taken, slug, unwritten, saved, archive, jobs, route, exits, deleted>>

-----------------------------------------------------------------------------
\* A request arrives and finds its card.
Request(r, s, op) ==
    /\ route[r] = NoWork /\ lot[s] # Gone
    /\ route' = [route EXCEPT ![r] = [op |-> op, slug |-> s, text |-> lot[s].text,
                                      words |-> lot[s].words, todo |-> Program(op)]]
    /\ UNCHANGED <<captureVars, lot, archive, job, jobs, exits, deleted>>

Does(r, step) == route[r] # NoWork /\ Head(route[r].todo) = step
Onward(r) == IF Len(route[r].todo) = 1 THEN NoWork ELSE [route[r] EXCEPT !.todo = Tail(@)]
Then(r, w) == route' = [route EXCEPT ![r] = w]
Slug(r) == route[r].slug
Present(r) == lot[Slug(r)] # Gone

\* The card's way out is made first, from what was read: a Todoist task, an inbox file, a
\* dispatch.  A call that fails ends the request.
MakesExit(r) ==
    /\ Does(r, "exit")
    /\ \/ Then(r, Onward(r)) /\ exits' = exits \cup {route[r].text}
       \/ Then(r, NoWork) /\ UNCHANGED exits
    /\ UNCHANGED <<captureVars, lot, archive, job, jobs, deleted>>

Reread(r) == [Onward(r) EXCEPT !.text = lot[Slug(r)].text, !.words = lot[Slug(r)].words]

\* _update_field, parking_lot_edit, annotate: read ...
RouteReads(r) ==
    /\ Does(r, "read")
    /\ Then(r, IF Present(r) THEN Reread(r) ELSE NoWork)
    /\ UNCHANGED <<captureVars, lot, archive, job, jobs, exits, deleted>>

\* ... and write, whatever happened in between.
RouteWrites(r) ==
    /\ Does(r, "write")
    /\ lot' = [lot EXCEPT ![Slug(r)] = [text |-> route[r].text, words |-> route[r].words,
                                        status |-> StatusOf[route[r].op]]]
    /\ Then(r, Onward(r))
    /\ UNCHANGED <<captureVars, archive, job, jobs, exits, deleted>>

\* path.rename(ARCH_DIR / name).
Moves(r) ==
    /\ Does(r, "move") /\ Present(r)
    /\ archive' = [archive EXCEPT ![Slug(r)] = lot[Slug(r)]]
    /\ lot' = [lot EXCEPT ![Slug(r)] = Gone] /\ Then(r, Onward(r))
    /\ UNCHANGED <<captureVars, job, jobs, exits, deleted>>

Copies(r) ==
    /\ Does(r, "copy") /\ Present(r)
    /\ archive' = [archive EXCEPT ![Slug(r)] = lot[Slug(r)]]
    /\ Then(r, Onward(r))
    /\ UNCHANGED <<captureVars, lot, job, jobs, exits, deleted>>

Drops(r) ==
    /\ Does(r, "drop")
    /\ deleted' = IF route[r].op = "delete" /\ Present(r) THEN deleted \cup {lot[Slug(r)].text} ELSE deleted
    /\ lot' = [lot EXCEPT ![Slug(r)] = Gone] /\ Then(r, Onward(r))
    /\ UNCHANGED <<captureVars, archive, job, jobs, exits>>

\* A step that needs the card and does not find it is an error 500.
RouteFails(r) ==
    /\ Does(r, "move") \/ Does(r, "copy")
    /\ ~Present(r) /\ Then(r, NoWork)
    /\ UNCHANGED <<captureVars, lot, archive, job, jobs, exits, deleted>>

RouteStep(r) ==
    MakesExit(r) \/ RouteReads(r) \/ RouteWrites(r) \/ Moves(r) \/ Copies(r) \/ Drops(r) \/ RouteFails(r)
JobStep == \E t \in Cards : JobReads(t) \/ JobWrites(t)

\* The worker restarts: jobs, requests and captures that were not written are gone.
WorkerRestarts ==
    /\ jobs < MaxJobs /\ jobs' = jobs + 1 /\ unwritten' = {}
    /\ job' = [t \in Cards |-> NoWork] /\ route' = [r \in Requests |-> NoWork]
    /\ UNCHANGED <<taken, slug, saved, lot, archive, exits, deleted>>

LotNext ==
    \/ JobStep \/ WorkerRestarts
    \/ \E t \in Cards : CaptureNamed(t) \/ CaptureWritten(t) \/ JobAgain(t)
    \/ \E r \in Requests : RouteStep(r) \/ \E s \in Slugs, op \in Ops : Request(r, s, op)

LotSpec == LotInit /\ [][LotNext]_lotVars

-----------------------------------------------------------------------------
Under(s) == {t \in saved : slug[t] = s}
IsUnder(c, s) == c # Gone /\ c.text \in Under(s)

\* "Saved to vault": of the captures under a name one stays in the lot or the archive until Leo
\* deletes one of them, whatever rewrites, moves, copies and restarts overlap; so a capture that
\* shares its name with no other is never lost.
SavedIsKept ==
    \A s \in Slugs : Under(s) # {} /\ Under(s) \cap deleted = {} =>
        IsUnder(lot[s], s) \/ IsUnder(archive[s], s)

\* Where a card is archived as handed on, a capture under its name was handed on first: a
\* failure, restart, late rewrite or second request leaves it in the archive alone never
\* (parking_lot_triage).
HandedOnFirst ==
    \A s \in Slugs :
        archive[s] # Gone /\ archive[s].status = "handed" => \E t \in exits : t \in Under(s)

\* Every capture is kept until Leo deletes it ("so nothing is lost", routes/parking_lot.py:299).
\* Not so where a name is used again: the card that is archived last replaces the other.
EveryCaptureIsKept ==
    \A t \in saved \ deleted : \E s \in Slugs : lot[s].text = t \/ archive[s].text = t

\* A card that is kept still says what Leo wrote.  Not so once it was enriched.
WordsAreKept == \A s \in Slugs : lot[s] # Gone => lot[s].words

\* A card that a route archived and nobody restored is not open again in the lot.
ArchivedStays ==
    [][\A s \in Slugs : archive[s] # Gone /\ lot[s] = Gone => lot'[s] = Gone]_lotVars
=============================================================================
