---------------------------- MODULE Clarification ----------------------------
(***************************************************************************)
(* Captures with an intent (kai-worker-api: routing_engine.py, dispatch.py,*)
(* clarification_store.py, sprint_a_handlers.py): a plan that lacks the    *)
(* blog is kept in one file until Leo taps a button or writes a reply.     *)
(* Requests run in threads, Leo's answers and the hourly expiry on the     *)
(* worker's event loop; each loads the whole file and writes it back.      *)
(***************************************************************************)
EXTENDS Naturals, FiniteSets

CONSTANTS
    Threads,      \* threads that serve captures
    MaxItems,     \* captures that need a question, 1..MaxItems
    ShortSites,   \* registered blogs whose button data fits into 64 bytes
    LongSites     \* registered blogs whose button data is cut

ASSUME ClarifyAssumption == MaxItems \in Nat /\ ShortSites \cap LongSites = {}

Items == 1..MaxItems
Sites == ShortSites \cup LongSites
Actors == Threads \cup {"loop"}
MaxRetries == 1
Fresh == 0   \* the 10 minutes in which free text is an answer
Stale == 2   \* more than 24 hours

VARIABLES
    store,       \* the entries of sprint_a_pending.json
    age,         \* age[i]: how long ago entry i was created
    asked,       \* entries whose question reached Leo
    work,        \* what each actor is doing, with the copy of the file it holds
    resolved,    \* answers written for an entry
    dispatched   \* dispatches of an entry

clarifyVars == <<store, age, asked, work, resolved, dispatched>>

NoEntry == [status |-> "none", retries |-> 0, posted |-> FALSE, channel |-> "web"]
Entry == [status : {"none", "pending", "resolved", "expired", "failed"}, retries : 0..2 + 2 * MaxItems,
          posted : BOOLEAN, channel : {"web", "telegram"}]
Free == [at |-> "free", copy |-> <<>>]
Bogus == "cut"

ClarifyTypeOK ==
    /\ store \in [Items -> Entry] /\ age \in [Items -> Fresh..Stale]
    /\ asked \subseteq Items
    /\ resolved \in [Items -> 0..1 + 2 * MaxItems] /\ dispatched \in [Items -> 0..1 + 2 * MaxItems]
    /\ \A a \in Actors :
          work[a] = Free \/ (work[a].item \in Items /\ work[a].copy \in [Items -> Entry] \cup {<<>>})

ClarifyInit ==
    /\ store = [i \in Items |-> NoEntry] /\ age = [i \in Items |-> Fresh]
    /\ asked = {}
    /\ work = [a \in Actors |-> Free]
    /\ resolved = [i \in Items |-> 0] /\ dispatched = [i \in Items |-> 0]

-----------------------------------------------------------------------------
\* _telegram_keyboard and parse_callback: what a tap on a site's button says.
Button(site) == IF site \in ShortSites THEN site ELSE Bogus

Do(a, w) == work' = [work EXCEPT ![a] = w]
Step(op, i) == [at |-> op, item |-> i, copy |-> <<>>, site |-> Bogus]

\* POST /parking-lot/capture: the plan of a post whose blog was not named waits for Leo; any
\* other plan (build_dispatch_plan) is dispatched at once or refused and leaves nothing here.
ClarifiedCapture(t, i, channel) ==
    /\ work[t] = Free /\ store[i] = NoEntry /\ i \notin asked
    /\ \A a \in Actors : work[a] # Free => work[a].item # i
    /\ \A j \in 1..i - 1 : store[j] # NoEntry \/ j \in asked \/ \E a \in Actors : (work[a] # Free /\ work[a].item = j)
    /\ Do(t, [Step("create", i) EXCEPT !.site = channel])
    /\ UNCHANGED <<store, age, asked, resolved, dispatched>>

\* _load: every writer of the file starts from a copy of its own.  resolve_pending and the
\* others raise an error when their entry is not there, resolve_pending when it is answered.
Load(a) ==
    /\ work[a].at \in {"create", "mark", "resolve", "bump", "fail", "expire"} /\ work[a].copy = <<>>
    /\ LET entry == store[work[a].item]
           usable == CASE work[a].at = "resolve" -> entry.status = "pending"
                       [] work[a].at \in {"mark", "bump", "fail"} -> entry.status # "none"
                       [] OTHER -> TRUE
       IN Do(a, IF usable THEN [work[a] EXCEPT !.copy = store] ELSE Free)
    /\ UNCHANGED <<store, age, asked, resolved, dispatched>>

\* Mutant of Changed: only entries whose question was posted expire.
ChangedIfPosted(w) ==
    LET i == w.item
    IN CASE w.at = "create" -> [w.copy EXCEPT ![i] = [NoEntry EXCEPT !.status = "pending", !.channel = w.site]]
         [] w.at = "mark" -> [w.copy EXCEPT ![i].posted = TRUE]
         [] w.at = "resolve" -> [w.copy EXCEPT ![i].status = "resolved"]
         [] w.at = "bump" -> [w.copy EXCEPT ![i].retries = @ + 1]
         [] w.at = "fail" -> [w.copy EXCEPT ![i].status = "failed"]
         [] w.at = "expire" -> [j \in Items |-> IF w.copy[j].posted /\ age[j] = Stale
                                               THEN [w.copy[j] EXCEPT !.status = "expired"]
                                               ELSE w.copy[j]]

\* The entries after a writer's change: create_pending, _mark_surface_posted,
\* resolve_pending, bump_retry, mark_failed, expire_stale.
Changed(w) ==
    LET i == w.item
    IN CASE w.at = "create" -> [w.copy EXCEPT ![i] = [NoEntry EXCEPT !.status = "pending", !.channel = w.site]]
         [] w.at = "mark" -> [w.copy EXCEPT ![i].posted = TRUE]
         [] w.at = "resolve" -> [w.copy EXCEPT ![i].status = "resolved"]
         [] w.at = "bump" -> [w.copy EXCEPT ![i].retries = @ + 1]
         [] w.at = "fail" -> [w.copy EXCEPT ![i].status = "failed"]
         [] w.at = "expire" -> [j \in Items |-> IF w.copy[j].status = "pending" /\ age[j] = Stale
                                               THEN [w.copy[j] EXCEPT !.status = "expired"]
                                               ELSE w.copy[j]]

\* What the same request does when its change is written.
After(w) ==
    CASE w.at = "create" /\ w.site = "telegram" -> Step("ask", w.item)
      [] w.at = "resolve" -> [Step("council", w.item) EXCEPT !.site = w.site]
      [] w.at = "bump" /\ Changed(w)[w.item].retries > MaxRetries -> Step("fail", w.item)
      [] OTHER -> Free

\* _save: the whole file is replaced by the changed copy.
Save(a) ==
    /\ work[a] # Free /\ work[a].copy # <<>>
    /\ store' = Changed(work[a])
    /\ resolved' = IF work[a].at = "resolve" THEN [resolved EXCEPT ![work[a].item] = @ + 1] ELSE resolved
    /\ Do(a, After(work[a]))
    /\ UNCHANGED <<age, asked, dispatched>>

\* ask: the question goes to Telegram, unless it was posted or the entry is gone.
Ask(t) ==
    /\ work[t].at = "ask"
    /\ LET i == work[t].item
           due == store[i].status = "pending" /\ ~store[i].posted
       IN \/ due /\ asked' = asked \cup {i} /\ Do(t, Step("mark", i))
          \/ Do(t, Free) /\ UNCHANGED asked                    \* or it was not delivered
    /\ UNCHANGED <<store, age, resolved, dispatched>>

\* handle_clarification_choice, from a tap: whatever the button says is merged into the plan.
Tap(i, site) ==
    /\ work["loop"] = Free /\ i \in asked /\ store[i].status = "pending"
    /\ Do("loop", [Step("resolve", i) EXCEPT !.site = Button(site)])
    /\ UNCHANGED <<store, age, asked, resolved, dispatched>>

\* find_latest_pending_for_chat, handle_freetext_reply: free text answers the latest question
\* if it is fresh and names a site (validate_choice); anything else is a failed try.
FreeText(i, site) ==
    /\ work["loop"] = Free
    /\ store[i].status = "pending" /\ store[i].channel = "telegram" /\ age[i] = Fresh
    /\ \A j \in Items : store[j].status = "pending" /\ store[j].channel = "telegram" => j <= i
    /\ Do("loop", IF site \in Sites THEN [Step("resolve", i) EXCEPT !.site = site] ELSE Step("bump", i))
    /\ UNCHANGED <<store, age, asked, resolved, dispatched>>

\* POST /sprint-a/expire-stale, every hour.
Expire ==
    /\ work["loop"] = Free
    /\ \E i \in Items : store[i].status = "pending" /\ age[i] = Stale
    /\ Do("loop", Step("expire", 1))
    /\ UNCHANGED <<store, age, asked, resolved, dispatched>>

\* _dispatch_blog_post: the council drafts, or fails; the draft goes to the worker's own
\* WordPress route, which the loop that waits for it cannot serve.
Dispatch(a) ==
    /\ work[a].at = "council"
    /\ dispatched' = [dispatched EXCEPT ![work[a].item] = @ + 1]
    /\ Do(a, Free) \/ Do(a, [work[a] EXCEPT !.at = "post"])
    /\ UNCHANGED <<store, age, asked, resolved>>

PostEnds(a) == work[a].at = "post" /\ Do(a, Free) /\ UNCHANGED <<store, age, asked, resolved, dispatched>>

\* Time passes: entries grow old together, the first created first.
Ages(i) ==
    /\ age[i] < Stale /\ store[i].status # "none"
    /\ age' = [age EXCEPT ![i] = @ + 1]
    /\ \A j \in 1..i - 1 : age[j] >= age'[i]
    /\ UNCHANGED <<store, asked, work, resolved, dispatched>>

Serves == \E a \in Actors : Load(a) \/ Save(a) \/ Dispatch(a) \/ PostEnds(a)

ClarifyNext ==
    \/ Serves
    \/ Expire
    \/ \E i \in Items : \/ Ages(i)
                        \/ \E t \in Threads, channel \in {"web", "telegram"} : ClarifiedCapture(t, i, channel)
                        \/ \E site \in Sites : Tap(i, site)
                        \/ \E site \in Sites \cup {Bogus} : FreeText(i, site)
    \/ \E t \in Threads : Ask(t)

ClarifySpec == ClarifyInit /\ [][ClarifyNext]_clarifyVars

-----------------------------------------------------------------------------
\* An entry is dispatched once for each answer that was written into it, and never before:
\* handle_clarification_choice resolves first, so a worker that dies in between has spent the
\* answer and not the post.
ResolvedFirst == \A i \in Items : dispatched[i] <= resolved[i]

\* No entry waits for ever: it is answered, given up or expired, though writers of the one
\* file may undo one another's changes (expire_stale, hourly).
PendingSettles == \A i \in Items : (store[i].status = "pending") ~> (store[i].status # "pending")

\* One question is dispatched once ("Single-writer is the worker; no locking",
\* clarification_store.py:8).
DispatchedOnce == \A i \in Items : dispatched[i] <= 1

\* A post goes to a registered blog: the button that is tapped names its option.
SiteIsAnOption == \A a \in Actors : work[a].at = "council" => work[a].site \in Sites

\* The event loop never waits for a request that only it can serve.
LoopServesItself == work["loop"].at # "post"
=============================================================================
