---------------------------- MODULE BuzzApprove ----------------------------
(***************************************************************************)
(* The Buzz approval desk (kai-buzz/buzz_approve.py): one process with a   *)
(* poller that shows Leo what waits for him, gates of the council and      *)
(* unlocks of the worker, and a listener that binds each of his replies to *)
(* an item and posts the decision.  Both run on one event loop and give it *)
(* up at every request, so each works with lists that may be old by then.  *)
(*                                                                         *)
(* A card is the sequence of the items it shows; time is left out: a       *)
(* re-nudge may be due or not.  Replies are Leo's: the signature check and *)
(* the age check throw away everything else.                               *)
(***************************************************************************)
EXTENDS Naturals, Sequences, FiniteSets, SequencesExt

CONSTANTS
    MaxGates,     \* bound on the gates of the council, numbered as they arrive
    Unlocks,      \* unlock requests of the worker
    MaxStir       \* bound on Leo's messages, decisions elsewhere, failed listings and posts, restarts

Gates == 1..MaxGates
Items == Gates \cup Unlocks

ASSUME DeskAssumption == MaxGates \in Nat /\ MaxStir \in Nat

VARIABLES
    stat,     \* stat[i]: what the council or the worker says of i
    shown,    \* cards in the channel
    desk,     \* memory of the process
    poll,     \* the poller: the stage it is in and the listing in hand
    reply,    \* the message the listener handles
    heard,    \* the listing it has fetched for it, or NoList
    applied,  \* decisions that were accepted: item, reply, listing
    stirs     \* number of the bounded events so far

promptVars == <<stat, shown, desk, poll, reply, heard, applied, stirs>>

Form == {"id", "ordinal", "tag", "bare", "list"}
NoReply == [form |-> "none"]
NoList == <<0>>
Message == [form : Form, item : Items, n : 0..MaxGates, known : BOOLEAN]
EmptyDesk == [prompts |-> {}, told |-> {}, open |-> {}, sig |-> {}, batch |-> <<>>]

PromptTypeOK ==
    /\ stat \in [Items -> {"new", "pending", "closed"}]
    /\ \A c \in shown : c \in Seq(Items) /\ Len(c) > 0
    /\ desk \in [prompts : SUBSET Items, told : SUBSET Items, open : SUBSET Items,
                 sig : SUBSET Gates, batch : Seq(Gates)]
    /\ poll.at \in {"gates", "promptGates", "unlocks", "promptUnlocks"}
    /\ poll.list \in Seq(Items)
    /\ reply = NoReply \/ reply \in Message
    /\ heard = NoList \/ heard \in Seq(Items)
    /\ \A x \in applied : x.item \in Items /\ x.reply \in Message /\ x.live \subseteq Items
    /\ stirs \in 0..MaxStir

PromptInit ==
    /\ stat = [i \in Items |-> "new"]
    /\ shown = {} /\ desk = EmptyDesk
    /\ poll = [at |-> "gates", list |-> <<>>]
    /\ reply = NoReply /\ heard = NoList /\ applied = {}
    /\ stirs = 0

-----------------------------------------------------------------------------
(* The two services, as far as the desk sees them                           *)

ItemOpens(i) ==
    /\ stat[i] = "new"
    /\ stat' = [stat EXCEPT ![i] = "pending"]
    /\ i \in Gates => \A g \in 1..(i - 1) : stat[g] # "new"
    /\ UNCHANGED <<shown, desk, poll, reply, heard, applied, stirs>>

\* Decided on another surface, run out, reaped.
DecidedElsewhere(i) ==
    /\ stat[i] = "pending" /\ stirs < MaxStir
    /\ stat' = [stat EXCEPT ![i] = "closed"]
    /\ stirs' = stirs + 1
    /\ UNCHANGED <<shown, desk, poll, reply, heard, applied>>

PendingGates == SelectSeq([g \in Gates |-> g], LAMBDA g : stat[g] = "pending")
PendingUnlocks == SetToSeq({u \in Unlocks : stat[u] = "pending"})

-----------------------------------------------------------------------------
(* The poller                                                               *)

PollGates ==
    /\ poll.at = "gates"
    /\ poll' = [at |-> "promptGates", list |-> PendingGates]
    /\ UNCHANGED <<stat, shown, desk, reply, heard, applied, stirs>>

\* Mutant of PromptBatch: the card is repeated when the number of gates changes.
PromptBatchByCount ==
    /\ poll.at = "promptGates" /\ Len(poll.list) >= 2
    /\ LET live == ToSet(poll.list)
           quiet == [desk EXCEPT !.told = @ \cap Unlocks] IN
       \/ /\ shown' = shown \cup {poll.list}
          /\ desk' = [quiet EXCEPT !.batch = poll.list, !.sig = live, !.open = @ \cup live]
       \/ /\ Cardinality(live) = Cardinality(desk.sig)
          /\ desk' = quiet /\ UNCHANGED shown
    /\ poll' = [at |-> "unlocks", list |-> <<>>]
    /\ UNCHANGED <<stat, reply, heard, applied, stirs>>

\* Two or more gates share one card, sent when the set changes or a nudge is due.
PromptBatch ==
    /\ poll.at = "promptGates" /\ Len(poll.list) >= 2
    /\ LET live == ToSet(poll.list)
           quiet == [desk EXCEPT !.told = @ \cap Unlocks] IN
       \/ /\ shown' = shown \cup {poll.list}
          /\ desk' = [quiet EXCEPT !.batch = poll.list, !.sig = live, !.open = @ \cup live]
       \/ /\ live = desk.sig
          /\ desk' = quiet /\ UNCHANGED shown
    /\ poll' = [at |-> "unlocks", list |-> <<>>]
    /\ UNCHANGED <<stat, reply, heard, applied, stirs>>

\* One gate has a card of its own, sent once and again when a nudge is due.
PromptGate ==
    /\ poll.at = "promptGates" /\ Len(poll.list) < 2
    /\ LET live == ToSet(poll.list)
           kept == [desk EXCEPT !.sig = {}, !.batch = <<>>, !.told = @ \cap (live \cup Unlocks)] IN
       \/ /\ shown' = shown \cup {<<g>> : g \in live}
          /\ desk' = [kept EXCEPT !.prompts = @ \cup live, !.open = @ \cup live, !.told = @ \cup live]
       \/ /\ live \subseteq desk.told
          /\ desk' = kept /\ UNCHANGED shown
    /\ poll' = [at |-> "unlocks", list |-> <<>>]
    /\ UNCHANGED <<stat, reply, heard, applied, stirs>>

PollUnlocks ==
    /\ poll.at = "unlocks"
    /\ poll' = [at |-> "promptUnlocks", list |-> PendingUnlocks]
    /\ UNCHANGED <<stat, shown, desk, reply, heard, applied, stirs>>

\* A listing fails: its half of the cycle is skipped.
PollFails ==
    /\ poll.at \in {"gates", "unlocks"}
    /\ poll' = [poll EXCEPT !.at = IF @ = "gates" THEN "unlocks" ELSE "gates"]
    /\ UNCHANGED <<stat, shown, desk, reply, heard, applied, stirs>>

\* An unlock is prompted once and never nudged about.
PromptUnlocks ==
    /\ poll.at = "promptUnlocks"
    /\ LET live == ToSet(poll.list)
           fresh == live \ desk.told IN
       /\ shown' = shown \cup {<<u>> : u \in fresh}
       /\ desk' = [desk EXCEPT !.prompts = @ \cup fresh, !.open = @ \cup fresh,
                               !.told = (@ \cap Gates) \cup live]
    /\ poll' = [at |-> "gates", list |-> <<>>]
    /\ UNCHANGED <<stat, reply, heard, applied, stirs>>

\* A card that cannot be posted ends its half of the look: what is done after it in the code
\* is not done, but the number on the card of a batch is forgotten before a single gate is posted.
Stirs == stirs < MaxStir /\ stirs' = stirs + 1

PromptGatesFail ==
    /\ poll.at = "promptGates" /\ poll.list # <<>> /\ Stirs
    /\ desk' = IF Len(poll.list) >= 2 THEN desk ELSE [desk EXCEPT !.sig = {}, !.batch = <<>>]
    /\ poll' = [at |-> "unlocks", list |-> <<>>]
    /\ UNCHANGED <<stat, shown, reply, heard, applied>>

\* Unlocks are posted one after the other; those before it are told.
PromptUnlocksFail ==
    /\ poll.at = "promptUnlocks" /\ Stirs
    /\ \E n \in 1..Len(poll.list) :
          LET sent == ToSet(SubSeq(poll.list, 1, n - 1)) \ desk.told IN
          /\ poll.list[n] \notin desk.told
          /\ shown' = shown \cup {<<u>> : u \in sent}
          /\ desk' = [desk EXCEPT !.prompts = @ \cup sent, !.open = @ \cup sent, !.told = @ \cup sent]
    /\ poll' = [at |-> "gates", list |-> <<>>]
    /\ UNCHANGED <<stat, reply, heard, applied>>

-----------------------------------------------------------------------------
(* The listener                                                             *)

Sends(m) ==
    /\ reply = NoReply /\ stirs < MaxStir
    /\ reply' = m
    /\ stirs' = stirs + 1
    /\ UNCHANGED <<stat, shown, desk, poll, heard, applied>>

\* Leo answers something he has been shown: by its id, by its number on a card,
\* by a reply to its prompt (which this process may not know), or by a bare verb.
LeoReplies ==
    \E c \in shown, n \in 1..MaxGates :
        /\ n <= Len(c)
        /\ \E f \in Form \ {"list"}, k \in BOOLEAN :
             /\ f = "ordinal" => Len(c) >= 2
             /\ f = "tag" => Len(c) = 1
             /\ k => f = "tag" /\ c[n] \in desk.prompts
             /\ Sends([form |-> f, item |-> c[n], n |-> n, known |-> k])
\* Or asks what is pending.
LeoAsks ==
    Sends([form |-> "list", item |-> CHOOSE i \in Items : TRUE, n |-> 0, known |-> FALSE])

\* The listings are fetched.
ListenerLists ==
    /\ reply # NoReply /\ heard = NoList
    /\ heard' = PendingGates \o PendingUnlocks
    /\ UNCHANGED <<stat, shown, desk, poll, reply, applied, stirs>>

\* One of them fails, or both: the items the process has prompted for stand in; when
\* Leo has asked for the list, the council's failure ends it and the worker's is
\* taken for nothing pending.
ListenerListsPart ==
    /\ reply # NoReply /\ heard = NoList /\ stirs < MaxStir
    /\ stirs' = stirs + 1
    /\ LET gates == SetToSeq(desk.open \cap Gates)
           unlocks == SetToSeq(desk.open \cap Unlocks) IN
       IF reply.form = "list"
       THEN \/ reply' = NoReply /\ UNCHANGED heard
            \/ heard' = PendingGates /\ UNCHANGED reply
       ELSE /\ heard' \in {gates \o unlocks, gates \o PendingUnlocks, PendingGates \o unlocks}
            /\ UNCHANGED reply
    /\ UNCHANGED <<stat, shown, desk, poll, applied>>

Done == reply' = NoReply /\ heard' = NoList

\* Everything pending is posted again; what the poller has told is not touched.
ReSurface ==
    /\ reply # NoReply /\ reply.form = "list" /\ heard # NoList
    /\ LET gs == SelectSeq(heard, LAMBDA i : i \in Gates)
           us == ToSet(heard) \cap Unlocks
           batch == Len(gs) >= 2
           single == us \cup (IF batch THEN {} ELSE ToSet(gs)) IN
       /\ shown' = shown \cup {<<i>> : i \in single} \cup (IF batch THEN {gs} ELSE {})
       /\ desk' = [desk EXCEPT !.prompts = @ \cup single, !.open = @ \cup ToSet(heard),
                               !.batch = IF batch THEN gs ELSE @,
                               !.sig = IF batch THEN ToSet(gs) ELSE @]
    /\ Done
    /\ UNCHANGED <<stat, poll, applied, stirs>>

\* A card of them cannot be posted: that ends the process, which starts again with no memory.
Afresh == desk' = EmptyDesk /\ poll' = [at |-> "gates", list |-> <<>>] /\ Done
ReSurfaceFails ==
    /\ reply # NoReply /\ reply.form = "list" /\ heard # NoList /\ Stirs
    /\ LET gs == SelectSeq(heard, LAMBDA i : i \in Gates)
           first == IF Len(gs) >= 2 THEN {gs} ELSE {<<g>> : g \in ToSet(gs)}
           unlocks == {<<u>> : u \in ToSet(heard) \cap Unlocks} IN
       \E sent \in SUBSET (first \cup unlocks) :
          (sent \cap unlocks # {} => first \subseteq sent) /\ shown' = shown \cup sent
    /\ Afresh
    /\ UNCHANGED <<stat, applied>>

\* The item a reply is bound to, if any: the id if it is live, else the number on
\* the newest batch card, else the tag, else the only pending item.
Bound ==
    LET live == ToSet(heard)
        named == {i \in live : reply.form = "id" /\ i = reply.item}
        numbered == {g \in live \cap Gates : /\ reply.form = "ordinal" /\ reply.n <= Len(desk.batch)
                                            /\ desk.batch[reply.n] = g}
        tagged == {i \in live : reply.known /\ i = reply.item}
        clear == named \cup numbered \cup tagged IN
    IF clear = {} /\ Cardinality(live) = 1 THEN live ELSE clear

\* "Which one?", or "Nothing pending".
AsksBack ==
    /\ reply # NoReply /\ reply.form # "list" /\ heard # NoList
    /\ Bound = {}
    /\ Done
    /\ UNCHANGED <<stat, shown, desk, poll, applied, stirs>>

\* The decision is posted; the service refuses it when the item is not pending.
Resolves ==
    /\ reply # NoReply /\ reply.form # "list" /\ heard # NoList
    /\ \E i \in Bound :
         \/ /\ stat[i] = "pending"
            /\ stat' = [stat EXCEPT ![i] = "closed"]
            /\ applied' = applied \cup {[item |-> i, reply |-> reply, live |-> ToSet(heard)]}
            /\ desk' = [desk EXCEPT !.open = @ \ {i}]
         \/ /\ stat[i] # "pending"
            /\ desk' = [desk EXCEPT !.open = IF i \in Unlocks THEN @ \ {i} ELSE @]
            /\ UNCHANGED <<stat, applied>>
    /\ Done
    /\ UNCHANGED <<shown, poll, stirs>>

\* The post itself fails: the reply is used up.
ResolveFails ==
    /\ reply # NoReply /\ reply.form # "list" /\ heard # NoList /\ Bound # {}
    /\ Done
    /\ UNCHANGED <<stat, shown, desk, poll, applied, stirs>>

\* The process dies and starts again: its memory is gone, and so is the message in
\* hand, for the new subscription asks for events from now on.
DeskRestarts ==
    /\ Stirs /\ Afresh
    /\ UNCHANGED <<stat, shown, applied>>

-----------------------------------------------------------------------------
Poller ==
    \/ PollGates \/ PromptBatch \/ PromptGate \/ PromptGatesFail
    \/ PollUnlocks \/ PromptUnlocks \/ PromptUnlocksFail
Listener == ListenerLists \/ ListenerListsPart \/ ReSurface \/ ReSurfaceFails \/ AsksBack \/ Resolves \/ ResolveFails

PromptNext ==
    \/ \E i \in Items : ItemOpens(i) \/ DecidedElsewhere(i)
    \/ Poller \/ Listener \/ LeoReplies \/ LeoAsks \/ PollFails \/ DeskRestarts

PromptSpec == PromptInit /\ [][PromptNext]_promptVars

-----------------------------------------------------------------------------
\* A decision lands on the item Leo meant, or on the only one that was pending when
\* the desk looked; by number it lands on an item of the newest batch card.
GuessOnlyWhenSingle == \A x \in applied :
    x.item = x.reply.item \/ x.live = {x.item} \/ x.reply.form = "ordinal"

\* A look of the poller leaves nothing it saw unshown, however gates come and go between two
\* looks, whatever Leo asks for meanwhile, and after a restart; but where a card could not be
\* posted, and then the item is not taken for told, alone or in a batch, and the next look
\* posts it.
LookShowsAll == [][
    poll.at \in {"promptGates", "promptUnlocks"} /\ poll'.list = <<>> /\ desk' # EmptyDesk
        => \A i \in ToSet(poll.list) :
              \/ \E c \in shown' : i \in ToSet(c)
              \/ stirs' # stirs /\ i \notin desk'.told \cup desk'.sig]_promptVars

\* The head of buzz_approve.py says that an explicit id binds the reply, else the
\* prompt it replies to, else the single open prompt: then a reply that names an
\* item decides that item or nothing.
NamedItemOrNothing == \A x \in applied :
    x.reply.form \in {"id", "tag"} => x.item = x.reply.item
=============================================================================
