------------------------------ MODULE ModeLock ------------------------------
(***************************************************************************)
(* The mode-lock approval store and its routes                             *)
(* (kai-worker-api/routes/mode_lock.py): requests for a write, Leo's       *)
(* answers from Telegram, Buzz or the keyboard, session unlocks, and the   *)
(* scheduler's sweep for requests nobody has answered                      *)
(* (kai-scheduler/scheduler.py).                                           *)
(*                                                                         *)
(* Every route opens the JSON file, takes flock on the open file, reads    *)
(* it, changes it and renames a new file over it.  The lock lives on the   *)
(* inode and the rename gives the path a new one, so a route that opened   *)
(* the file before another's rename gets its lock on the old inode and     *)
(* reads the old content, which nobody changes any more: what it reads is  *)
(* the content at the time it opened.  A route is therefore two steps, the *)
(* open, which takes a snapshot, and the commit, which writes the snapshot *)
(* back changed.                                                           *)
(*                                                                         *)
(* A client makes one request and its name is the request id; all present  *)
(* themselves under the requester name kept for provisioning, so a session *)
(* is known by the time it ends.                                           *)
(***************************************************************************)
EXTENDS Naturals, FiniteSets

CONSTANTS
    Clients,     \* runs of the provisioning entry point
    Threads,     \* threads of the worker's pool that serve these routes
    RequestTTL,  \* seconds a request stays open, in ticks
    SessionTTL,  \* seconds a session unlock lasts
    EscalateAfter, \* age at which the sweep escalates
    MaxTime,     \* bound on the clock
    MaxTaps      \* bound on Leo's answers

ASSUME TTLAssumption == RequestTTL \in Nat \ {0} /\ SessionTTL \in Nat \ {0}
ASSUME LimitAssumption == MaxTime \in Nat /\ MaxTaps \in Nat /\ EscalateAfter \in Nat

VARIABLES
    now,
    store,   \* content of the file the path names
    op,      \* op[t]: the route thread t is in, with what it read
    buzz,    \* the heartbeat of the Buzz approval poller is fresh
    known,   \* requests Leo has been shown, on any surface
    taps,    \* his answers as far as a route has applied them
    pc,      \* pc[c]: where client c stands
    inbox    \* inbox[c]: the response that has reached it

lockVars == <<now, store, op, buzz, known, taps>>
clientVars == <<pc, inbox>>

Status == {"none", "pending", "approved_once", "approved_session",
           "denied", "expired", "consumed"}
ActionMap == [once |-> "approved_once", deny |-> "denied", session |-> "approved_session"]

NoEntry == [status |-> "none", expires |-> 0]
Entry == [status : Status, expires : 0..(MaxTime + RequestTTL)]
Session == 1..(MaxTime + SessionTTL)

Kind == {"idle", "ask", "card", "coords", "poll", "tap", "list", "sweep", "revoke"}
Idle == [kind |-> "idle"]
Tap == [rid : Clients, action : DOMAIN ActionMap, intime : BOOLEAN]

LockTypeOK ==
    /\ now \in 0..MaxTime
    /\ store.requests \in [Clients -> Entry] /\ store.sessions \subseteq Session
    /\ \A t \in Threads : op[t] = Idle \/
           /\ op[t].kind \in Kind \ {"idle"} /\ op[t].rid \subseteq Clients
           /\ op[t].snap.requests \in [Clients -> Entry]
           /\ op[t].snap.sessions \subseteq Session
           /\ op[t].at \in 0..MaxTime /\ op[t].live \in BOOLEAN
    /\ buzz \in BOOLEAN
    /\ known \subseteq Clients
    /\ taps \subseteq Tap
    /\ inbox \in [Clients -> Status \cup {"error"}]

LockInit ==
    /\ now = 0
    /\ store \in [requests : {[c \in Clients |-> NoEntry]}, sessions : {{}, {1}}]
    /\ op = [t \in Threads |-> Idle]
    /\ buzz \in BOOLEAN
    /\ known = {} /\ taps = {}
    /\ inbox = [c \in Clients |-> "none"]

-----------------------------------------------------------------------------
(* The storage layer                                                        *)

\* _load_locked: the file is opened and read; `rid` holds the request at stake.
Open(t, k, rid, arg, live) ==
    /\ op[t] = Idle
    /\ op' = [op EXCEPT ![t] =
                 [kind |-> k, rid |-> rid, arg |-> arg, live |-> live, snap |-> store,
                  at |-> IF k \in {"ask", "tap"} THEN now ELSE 0]]

Expired(e) == e.status = "pending" /\ now >= e.expires

\* _expire_in_place, on the content a route has read.
Swept(s) ==
    [requests |-> [c \in Clients |->
                      IF Expired(s.requests[c]) THEN [s.requests[c] EXCEPT !.status = "expired"]
                                                ELSE s.requests[c]],
     sessions |-> {x \in s.sessions : now < x}]

\* _active_session_for the requester.
ActiveSession(s) == \E x \in s.sessions : now < x

\* _write_locked: the rename makes `s` the content of the path.
Saved(t, s) == store' = s /\ op' = [op EXCEPT ![t] = Idle]

\* The response reaches the client if it still waits for it.
Reply(t, status) ==
    IF op[t].live THEN inbox' = [c \in Clients |-> IF c \in op[t].rid THEN status ELSE inbox[c]]
                  ELSE UNCHANGED inbox

-----------------------------------------------------------------------------
(* POST /mode_lock/request_approval                                         *)

RequestApproval(t, c, surface) ==
    /\ Open(t, "ask", {c}, surface, TRUE)
    /\ UNCHANGED <<now, store, buzz, known, taps>>

\* An active session answers for Leo.
SessionAnswers(t) ==
    /\ op[t].kind = "ask"
    /\ \E c \in op[t].rid :
         LET s == Swept(op[t].snap) IN
         /\ ActiveSession(s)
         /\ Saved(t, [s EXCEPT !.requests[c] =
                        [status |-> "approved_session", expires |-> op[t].at + RequestTTL]])
    /\ Reply(t, "approved_session")
    /\ UNCHANGED <<now, buzz, known, taps, pc>>

\* The request is stored; who is told depends on the surface and on Buzz.
RequestStored(t) ==
    /\ op[t].kind = "ask"
    /\ \E c \in op[t].rid :
         LET s == Swept(op[t].snap)
             away == op[t].arg # "present" /\ ~buzz IN
         /\ ~ActiveSession(s)
         /\ store' = [s EXCEPT !.requests[c] =
                        [status |-> "pending", expires |-> op[t].at + RequestTTL]]
         /\ op' = [op EXCEPT ![t] = IF away THEN [@ EXCEPT !.kind = "card"] ELSE Idle]
         /\ known' = IF op[t].arg = "present" THEN known \cup {c} ELSE known
         /\ IF away THEN UNCHANGED inbox ELSE Reply(t, "pending")
    /\ UNCHANGED <<now, buzz, taps, pc>>

\* _post_telegram_request: the card arrives, and its coordinates are to be stored.
CardSent(t) ==
    /\ op[t].kind = "card"
    /\ known' = known \cup op[t].rid
    /\ op' = [op EXCEPT ![t] = [@ EXCEPT !.kind = "coords", !.snap = store]]
    /\ UNCHANGED <<now, store, buzz, taps, clientVars>>

\* It does not: an alert without buttons is all Leo gets.
CardFails(t) ==
    /\ op[t].kind = "card"
    /\ op' = [op EXCEPT ![t] = Idle]
    /\ Reply(t, "pending")
    /\ UNCHANGED <<now, store, buzz, known, taps, pc>>

\* The second session of the route; it does not expire anything.
StoreCoordinates(t) ==
    /\ op[t].kind = "coords"
    /\ IF \E c \in op[t].rid : op[t].snap.requests[c] # NoEntry
       THEN Saved(t, op[t].snap)
       ELSE op' = [op EXCEPT ![t] = Idle] /\ UNCHANGED store
    /\ Reply(t, "pending")
    /\ UNCHANGED <<now, buzz, known, taps, pc>>

-----------------------------------------------------------------------------
(* GET /mode_lock/approval_status/{id}?consume=1                            *)

ApprovalStatus(t, c) ==
    /\ Open(t, "poll", {c}, "consume", TRUE)
    /\ UNCHANGED <<now, store, buzz, known, taps>>

\* The caller is told the status as it was; approved_once is spent on this read.
StatusAnswered(t) ==
    /\ op[t].kind = "poll"
    /\ \E c \in op[t].rid :
         LET s == Swept(op[t].snap)
             e == s.requests[c] IN
         /\ e # NoEntry
         /\ Saved(t, [s EXCEPT !.requests[c].status =
                        IF e.status = "approved_once" THEN "consumed" ELSE @])
         /\ Reply(t, e.status)
    /\ UNCHANGED <<now, buzz, known, taps, pc>>

\* HTTP 404 leaves the session by an exception: nothing is written.
StatusUnknown(t) ==
    /\ op[t].kind = "poll"
    /\ \E c \in op[t].rid : op[t].snap.requests[c] = NoEntry
    /\ op' = [op EXCEPT ![t] = Idle]
    /\ Reply(t, "error")
    /\ UNCHANGED <<now, store, buzz, known, taps, pc>>

-----------------------------------------------------------------------------
(* Leo's answer: telegram_action_internal (a tap, or a Buzz reply) and      *)
(* present_action share _apply_decision                                     *)

TapArrives(t, c, a) ==
    /\ c \in known
    /\ Cardinality(taps) < MaxTaps
    /\ Open(t, "tap", {c}, a, FALSE)
    /\ UNCHANGED <<now, store, buzz, known, taps, clientVars>>

\* Only a pending request takes a decision; a session grant opens a session.
ApplyDecision(t) ==
    /\ op[t].kind = "tap"
    /\ \E c \in op[t].rid :
         LET s == Swept(op[t].snap)
             a == op[t].arg IN
         IF s.requests[c].status # "pending"
         THEN Saved(t, s) /\ UNCHANGED taps
         ELSE /\ Saved(t, [requests |-> [s.requests EXCEPT ![c].status = ActionMap[a]],
                           sessions |-> IF a = "session"
                                        THEN s.sessions \cup {op[t].at + SessionTTL}
                                        ELSE s.sessions])
              /\ taps' = taps \cup {[rid |-> c, action |-> a, intime |-> now < s.requests[c].expires]}
    /\ UNCHANGED <<now, buzz, known, clientVars>>

-----------------------------------------------------------------------------
(* GET /mode_lock/pending and /sessions also write what they have read      *)

\* The Buzz poller lists the open requests every few seconds.
PollerLists(t) ==
    /\ buzz
    /\ Open(t, "list", {}, "pending", FALSE)
    /\ UNCHANGED <<now, store, buzz, known, taps, clientVars>>

\* It posts a prompt for each of them.
ListPending(t) ==
    /\ op[t].kind = "list"
    /\ LET s == Swept(op[t].snap) IN
         /\ Saved(t, s)
         /\ known' = known \cup {c \in Clients : s.requests[c].status = "pending"}
    /\ UNCHANGED <<now, buzz, taps, clientVars>>

\* The scheduler's loop lists them to find the old ones.
SweepLists(t) ==
    /\ Open(t, "sweep", {}, "pending", FALSE)
    /\ UNCHANGED <<now, store, buzz, known, taps, clientVars>>

\* An item of the listing as list_pending builds it.
Item(s, c) == [request_id |-> {c}, created_at |-> s.requests[c].expires - RequestTTL]
\* What e.get("id") makes of it: no such key.
IdOf(item) == IF "id" \in DOMAIN item THEN item.id ELSE {}

\* escalate_internal is posted for each old item; a body whose request_id is
\* null is refused with 422 before the route runs.
SweepEscalates(t) ==
    /\ op[t].kind = "sweep"
    /\ LET s == Swept(op[t].snap)
           old == {Item(s, c) : c \in {x \in Clients :
                      /\ s.requests[x].status = "pending"
                      /\ now - (s.requests[x].expires - RequestTTL) >= EscalateAfter}} IN
         /\ Saved(t, s)
         /\ known' = known \cup UNION {IdOf(item) : item \in old}
    /\ UNCHANGED <<now, buzz, taps, clientVars>>

\* POST /mode_lock/sessions/revoke for one requester; nothing is expired.
RevokeArrives(t) ==
    /\ store.sessions # {}
    /\ Open(t, "revoke", {}, "requester", FALSE)
    /\ UNCHANGED <<now, store, buzz, known, taps, clientVars>>
RevokeSession(t) ==
    /\ op[t].kind = "revoke"
    /\ Saved(t, [op[t].snap EXCEPT !.sessions = {}])
    /\ UNCHANGED <<now, buzz, known, taps, clientVars>>

-----------------------------------------------------------------------------
Tick ==
    /\ now < MaxTime
    /\ now' = now + 1
    /\ UNCHANGED <<store, op, buzz, known, taps, clientVars>>

\* The poller of kai-buzz dies.
BuzzDies ==
    /\ buzz /\ buzz' = FALSE
    /\ UNCHANGED <<now, store, op, known, taps, clientVars>>

\* What a thread does once it has opened the file.
Commit(t) ==
    \/ SessionAnswers(t) \/ RequestStored(t) \/ CardSent(t) \/ CardFails(t)
    \/ StoreCoordinates(t) \/ StatusAnswered(t) \/ StatusUnknown(t)
    \/ ApplyDecision(t) \/ ListPending(t) \/ SweepEscalates(t) \/ RevokeSession(t)

\* Bound: the store is used while some client waits for a decision.
AtWork == \E c \in Clients : pc[c] \in {"asking", "told", "polling"}

Arrival(t) ==
    /\ AtWork
    /\ \/ \E c \in Clients, a \in DOMAIN ActionMap : TapArrives(t, c, a)
       \/ PollerLists(t) \/ SweepLists(t) \/ RevokeArrives(t)
=============================================================================
