--------------------------- MODULE CouncilProofs ---------------------------
(***************************************************************************)
(* What the council keeps for Leo, for any kinds of gate, any number of    *)
(* surfaces racing each other, any number of events, answers and restarts: *)
(* approvals reach the orchestrator by right only, only gates of ended     *)
(* jobs are reaped, one surface alone never decides a gate twice           *)
(* (CouncilGate); an event queued for #devops stays somewhere until it is  *)
(* posted, and only what triage let through reaches Leo (NotifyQueue); a   *)
(* look of the approval desk leaves nothing unshown (BuzzApprove).  And    *)
(* the watchdog pages Leo only for an outage that earned it (Watchdog).    *)
(***************************************************************************)
EXTENDS CouncilGate, NotifyQueue, BuzzApprove, Watchdog, FiniteSetTheorems, SequenceTheorems, TLAPS

\* Whoever may approve this gate has approved it.
Right ==
    \/ "approved" \in leo
    \/ (verdict = "autonomous" /\ kind \in {"devops", "hostops", "wp_probe"})

\* An approval that anything in flight or in the store could still bring to the
\* orchestrator was given by right.
Carried ==
    /\ task.says = "approved" => Right
    /\ \A s \in Surfaces : tap[s].says = "approved" => "approved" \in leo
    /\ resolution = "approved" => Right
    /\ engine = "approved" => Right

\* The verdict is given once, and not before the gate is received.
Fresh ==
    /\ task.pc = "review" => verdict = "none" /\ status # "none"
    /\ status = "none" => verdict = "none"

ApprovalInv == TypeOK /\ Fresh /\ Carried

\* A reaper that is about to write saw the job ended, and a job ends for good.
JobOver == job \in {"succeeded", "failed_permanent"}
ReapInv ==
    /\ reap => JobOver /\ status # "none"
    /\ status = "orphaned" => JobOver

LEMMA TypeInit == Init => TypeOK
<1> SUFFICES ASSUME Init PROVE TypeOK
  OBVIOUS
<1>1. tap \in [Surfaces -> Request]
  BY DEF Init, Request
<1>2. task \in [pc : TaskPC, says : Decisions \cup {"none"}]
  BY DEF Init, NoTask, TaskPC
<1>3. crashes \in 0..MaxCrashes
  BY MaxCrashesAssumption DEF Init
<1> QED
  BY <1>1, <1>2, <1>3 DEF Init, TypeOK

LEMMA TypeStep == TypeOK /\ [Next]_vars => TypeOK'
<1> SUFFICES ASSUME TypeOK, [Next]_vars PROVE TypeOK'
  OBVIOUS
<1> USE KindsAssumption, MaxCrashesAssumption, MaxTapsAssumption
        DEF TypeOK, Request, TaskPC, Decisions, NoTask, EngineTakes
<1>1. ASSUME NEW k \in Kinds, Receive(k) PROVE TypeOK'
  BY <1>1 DEF Receive
<1>2. CASE Review
  BY <1>2 DEF Review, ReviewApproves, ReviewFails, ReviewAsks, ReviewLeaves, TaskResolves
<1>3. CASE PostCard
  BY <1>3 DEF PostCard
<1>4. CASE TaskCallback
  BY <1>4 DEF TaskCallback
<1>5. ASSUME NEW s \in Surfaces, NEW d \in Decisions, TapCheck(s, d) PROVE TypeOK'
  BY <1>5 DEF TapCheck
<1>6. ASSUME NEW s \in Surfaces, TapUpdate(s) PROVE TypeOK'
  BY <1>6 DEF TapUpdate
<1>7. ASSUME NEW s \in Surfaces, TapCallback(s) PROVE TypeOK'
  BY <1>7 DEF TapCallback
<1>8. ASSUME NEW d \in Decisions, AnswerCard(d) PROVE TypeOK'
  BY <1>8 DEF AnswerCard, council
<1>9. CASE ReapCheck
  BY <1>9 DEF ReapCheck
<1>10. CASE ReapUpdate
  <2>1. reap' \in BOOLEAN
    BY <1>10, Zenon DEF ReapUpdate
  <2> QED
    BY <1>10, <2>1 DEF ReapUpdate
<1>11. CASE JobEnds
  BY <1>11 DEF JobEnds, council
<1>12. CASE StepOverridden \/ Retire
  <2>1. engine' = "orphaned" /\ UNCHANGED <<council, card, job, leo, crashes>>
    BY <1>12 DEF StepOverridden, Retire
  <2> QED
    BY <2>1 DEF council
<1>13. CASE Poll
  BY <1>13 DEF Poll, council
<1>14. CASE Crash
  <2>1. tap' \in [Surfaces -> Request]
    BY <1>14 DEF Crash
  <2>2. crashes' \in 0..MaxCrashes
    BY <1>14 DEF Crash
  <2>3. reap' \in BOOLEAN
    BY <1>14, Zenon DEF Crash
  <2>4. task' \in [pc : TaskPC, says : Decisions \cup {"none"}]
    BY <1>14 DEF Crash
  <2> QED
    BY <1>14, <2>1, <2>2, <2>3, <2>4 DEF Crash
<1>15. CASE UNCHANGED vars
  BY <1>15 DEF vars, council
<1> QED
  BY <1>1, <1>2, <1>3, <1>4, <1>5, <1>6, <1>7, <1>8, <1>9, <1>10, <1>11,
     <1>12, <1>13, <1>14, <1>15 DEF Next

LEMMA CarriedStep == ApprovalInv /\ [Next]_vars => Fresh' /\ Carried'
<1> SUFFICES ASSUME ApprovalInv, [Next]_vars PROVE Fresh' /\ Carried'
  OBVIOUS
<1> USE DEF ApprovalInv, Fresh, Carried, Right, TypeOK, Request, TaskPC, Decisions,
            NoTask, EngineTakes
<1>1. ASSUME NEW k \in Kinds, Receive(k) PROVE Fresh' /\ Carried'
  BY <1>1 DEF Receive
<1>2. CASE Review
  <2>1. CASE ReviewApproves
    BY <2>1 DEF ReviewApproves, TaskResolves
  <2>2. CASE ReviewFails
    BY <2>2 DEF ReviewFails, TaskResolves
  <2>3. CASE ReviewAsks
    BY <2>3 DEF ReviewAsks
  <2>4. CASE ReviewLeaves
    BY <2>4 DEF ReviewLeaves
  <2> QED
    BY <1>2, <2>1, <2>2, <2>3, <2>4 DEF Review
<1>3. CASE PostCard \/ TaskCallback
  BY <1>3 DEF PostCard, TaskCallback
<1>4. ASSUME NEW s \in Surfaces, NEW d \in Decisions, TapCheck(s, d)
      PROVE Fresh' /\ Carried'
  BY <1>4 DEF TapCheck
<1>5. ASSUME NEW s \in Surfaces, TapUpdate(s) PROVE Fresh' /\ Carried'
  BY <1>5 DEF TapUpdate
<1>6. ASSUME NEW s \in Surfaces, TapCallback(s) PROVE Fresh' /\ Carried'
  BY <1>6 DEF TapCallback
<1>7. ASSUME NEW d \in Decisions, AnswerCard(d) PROVE Fresh' /\ Carried'
  BY <1>7 DEF AnswerCard, council
<1>8. CASE ReapCheck \/ ReapUpdate
  BY <1>8 DEF ReapCheck, ReapUpdate
<1>9. CASE JobEnds \/ StepOverridden \/ Poll \/ Retire
  BY <1>9 DEF JobEnds, StepOverridden, Poll, Retire, council
<1>10. CASE Crash
  BY <1>10 DEF Crash
<1>11. CASE UNCHANGED vars
  BY <1>11 DEF vars, council
<1> QED
  BY <1>1, <1>2, <1>3, <1>4, <1>5, <1>6, <1>7, <1>8, <1>9, <1>10, <1>11 DEF Next

\* Every approval in the orchestrator's row was Leo's, or that of a review of a
\* kind of gate that may be approved without him (_process_gate, resolve_gate,
\* respond_t2_action, _poll_gate_cycle): however surfaces, callbacks, the poller,
\* the card, the reaper and restarts of the council interleave.
THEOREM ByRight == Spec => []ApprovedByRight
<1>1. Init => ApprovalInv
  BY TypeInit DEF Init, ApprovalInv, Fresh, Carried, NoTask
<1>2. ApprovalInv /\ [Next]_vars => ApprovalInv'
  BY TypeStep, CarriedStep DEF ApprovalInv
<1>3. ApprovalInv => ApprovedByRight
  BY DEF ApprovalInv, Carried, Right, ApprovedByRight
<1> QED
  BY <1>1, <1>2, <1>3, PTL DEF Spec

LEMMA ReapStep == ReapInv /\ [Next]_vars => ReapInv'
<1> SUFFICES ASSUME ReapInv, [Next]_vars PROVE ReapInv'
  OBVIOUS
<1> USE DEF ReapInv, JobOver
<1>1. ASSUME NEW k \in Kinds, Receive(k) PROVE ReapInv'
  BY <1>1 DEF Receive
<1>2. CASE Review
  BY <1>2 DEF Review, ReviewApproves, ReviewFails, ReviewAsks, ReviewLeaves, TaskResolves
<1>3. CASE PostCard \/ TaskCallback
  BY <1>3 DEF PostCard, TaskCallback
<1>4. ASSUME NEW s \in Surfaces, NEW d \in Decisions, TapCheck(s, d) PROVE ReapInv'
  BY <1>4 DEF TapCheck
<1>5. ASSUME NEW s \in Surfaces, TapUpdate(s) \/ TapCallback(s) PROVE ReapInv'
  BY <1>5 DEF TapUpdate, TapCallback
<1>6. ASSUME NEW d \in Decisions, AnswerCard(d) PROVE ReapInv'
  BY <1>6 DEF AnswerCard, council
<1>7. CASE ReapCheck \/ ReapUpdate
  BY <1>7 DEF ReapCheck, ReapUpdate, TerminalJobStates
<1>8. CASE JobEnds \/ StepOverridden \/ Poll \/ Retire
  BY <1>8 DEF JobEnds, StepOverridden, Poll, Retire, council
<1>9. CASE Crash
  BY <1>9 DEF Crash
<1>10. CASE UNCHANGED vars
  BY <1>10 DEF vars, council
<1> QED
  BY <1>1, <1>2, <1>3, <1>4, <1>5, <1>6, <1>7, <1>8, <1>9, <1>10 DEF Next

\* The reaper of list_pending_gates never orphans a gate whose job could still
\* wait for it, although Leo, the job and the restarts run between its reading of
\* the gate, its question to the orchestrator and its write.
THEOREM Reaped == Spec => []ReapedJobEnded
<1>1. Init => ReapInv
  BY DEF Init, ReapInv
<1>2. ReapInv => ReapedJobEnded
  BY DEF ReapInv, JobOver, ReapedJobEnded
<1> QED
  BY <1>1, <1>2, ReapStep, PTL DEF Spec
-----------------------------------------------------------------------------
(* One decision.  With one listener a gate is written at most once by an   *)
(* answer of Leo's and never after the task resolved it: what is on its way *)
(* to the orchestrator is what the store says, or the store says orphaned. *)

Tells(d) == status = "orphaned" \/ (status = "resolved" /\ resolution = d)

StoreInv ==
    /\ status = "none" => kind = "none"
    /\ status = "pending_leo" => verdict = "ask"
    /\ status = "processing" => verdict = "none"
    /\ verdict = "none" => card = "none"
    /\ task.pc = "review" => status = "processing" \/ kind = "synthetic"
    /\ task.pc = "card" => verdict = "ask" /\ card = "none"
    /\ task.pc = "callback" => verdict # "ask" /\ kind # "synthetic" /\ status = "resolved" /\ resolution = task.says
    /\ reap => verdict = "ask" /\ kind # "synthetic"
    /\ verdict = "ask" => kind # "synthetic"
    /\ kind \in Jobless \cup {"none"} => engine = "none"
    /\ card = "none" /\ engine \in Decisions => Tells(engine)

TapInv ==
    /\ \A s \in Surfaces : tap[s].pc # "idle" => verdict = "ask" \/ kind = "synthetic"
    /\ \A s \in Surfaces : tap[s].pc = "update" /\ kind # "synthetic" =>
           status \in {"pending_leo", "orphaned"} /\ (card = "none" => engine \notin Decisions)
    /\ \A s \in Surfaces : tap[s].pc = "callback" => kind \notin Jobless /\ Tells(tap[s].says)

DecisionInv == TypeOK /\ Fresh /\ StoreInv /\ TapInv

LEMMA DecisionStep ==
    ASSUME \A s, t \in Surfaces : s = t, ApprovalInv, DecisionInv, [Next]_vars
    PROVE  StoreInv' /\ TapInv'
<1> USE KindsAssumption DEF DecisionInv, Fresh, StoreInv, TapInv, Tells, TypeOK, Request, TaskPC, Decisions,
            Jobless, NoTask, EngineTakes, AllKinds
<1>1. ASSUME NEW k \in Kinds, Receive(k) PROVE StoreInv' /\ TapInv'
  BY <1>1 DEF Receive
<1>2. CASE Review
  <2>1. CASE ReviewApproves
    BY <2>1 DEF ReviewApproves, TaskResolves
  <2>2. CASE ReviewFails
    BY <2>2 DEF ReviewFails, TaskResolves
  <2>3. CASE ReviewAsks
    BY <2>3 DEF ReviewAsks
  <2>4. CASE ReviewLeaves
    BY <2>4 DEF ReviewLeaves
  <2> QED
    BY <1>2, <2>1, <2>2, <2>3, <2>4 DEF Review
<1>3. CASE PostCard
  BY <1>3 DEF PostCard
<1>4. CASE TaskCallback
  BY <1>4 DEF TaskCallback
<1>5. ASSUME NEW s \in Surfaces, NEW d \in Decisions, TapCheck(s, d)
      PROVE StoreInv' /\ TapInv'
  BY <1>5 DEF TapCheck, Shown, Answerable
<1>6. ASSUME NEW s \in Surfaces, TapUpdate(s) PROVE StoreInv' /\ TapInv'
  BY <1>6 DEF TapUpdate
<1>7. ASSUME NEW s \in Surfaces, TapCallback(s) PROVE StoreInv' /\ TapInv'
  BY <1>7 DEF TapCallback
<1>8. ASSUME NEW d \in Decisions, AnswerCard(d) PROVE StoreInv' /\ TapInv'
  BY <1>8 DEF AnswerCard, council
<1>9. CASE ReapCheck \/ ReapUpdate
  BY <1>9 DEF ReapCheck, ReapUpdate
<1>10. CASE JobEnds
  BY <1>10 DEF JobEnds, council
<1>11. CASE StepOverridden \/ Retire
  BY <1>11 DEF StepOverridden, Retire, council
<1>12. CASE Poll
  BY <1>12 DEF Poll, council
<1>13. CASE Crash
  BY <1>13 DEF Crash
<1>14. CASE UNCHANGED vars
  BY <1>14 DEF vars, council
<1> QED
  BY <1>1, <1>2, <1>3, <1>4, <1>5, <1>6, <1>7, <1>8, <1>9, <1>10, <1>11, <1>12, <1>13, <1>14 DEF Next

\* With one listener that takes one answer after another, and no card, the store of the council
\* and the row of the orchestrator tell the same decision, for any number of answers, lost
\* callbacks, reapings and restarts.
THEOREM Agreement == ASSUME \A s, t \in Surfaces : s = t PROVE Spec => []OneDecision
<1>1. Init => DecisionInv /\ ApprovalInv
  BY TypeInit DEF Init, DecisionInv, StoreInv, TapInv, Tells, Decisions, ApprovalInv, Fresh, Carried, NoTask, Jobless
<1>2. DecisionInv /\ ApprovalInv /\ [Next]_vars => (DecisionInv /\ ApprovalInv)'
  BY TypeStep, CarriedStep, DecisionStep DEF ApprovalInv, DecisionInv
<1>3. DecisionInv => OneDecision
  BY DEF DecisionInv, StoreInv, Tells, OneDecision
<1> QED
  BY <1>1, <1>2, <1>3, PTL DEF Spec

-----------------------------------------------------------------------------
(* The queue of #devops.  From its offer to its post an event is in the     *)
(* hands of a writer, in one of two files, in the drain's memory or in the  *)
(* channel; the file a writer has opened is followed through the rename.    *)

Places == 1..MaxEvents

InHand == [at : {"route", "send", "mark", "marking", "open", "write"}, e : Event, seen : SUBSET Keys]

\* Who writes, and what of: an event is where its destination says, and its writer
\* holds a file that is there or has been removed under it.
WriterInv ==
    /\ ev \in [Writers -> InHand \cup {Idle}]
    /\ handle \in [Writers -> {"none", "queue", "work", "gone"}]
    /\ marks \subseteq Keys
    /\ \A w \in Writers :
         /\ ev[w] # Idle => ev[w].e \in offered
         /\ ev[w].at \in {"send", "mark", "marking"} => Destination(ev[w].e) = "telegram" /\ ev[w].e.real
         /\ ev[w].at \in {"open", "write"} => Destination(ev[w].e) = "devops" /\ ev[w].e.real
         /\ ev[w].at = "write" => handle[w] # "none"
         /\ handle[w] = "queue" => queue # NoFile
         /\ handle[w] = "work" => work # NoFile

\* The drain forgets only what is still in the file, and removes only what it holds.
DrainInv ==
    /\ queue = NoFile \/ queue \in Seq(Places)
    /\ work = NoFile \/ work \in Seq(Places)
    /\ drain \in [at : {"idle", "read", "remove", "post"}, recs : Seq(Places)]
    /\ drain.at \in {"idle", "read"} => drain.recs = <<>>
    /\ drain.at \in {"read", "remove"} => work # NoFile
    /\ drain.at = "remove" =>
         ToSet(drain.recs) \subseteq ToSet(work) /\ ToSet(work) \subseteq ToSet(drain.recs) \cup excused

Carried_(e) == \E w \in Writers : ev[w] # Idle /\ ev[w].e = e
Reached == InFile(queue) \cup InFile(work) \cup ToSet(drain.recs) \cup posted \cup excused
ForDevops(e) == e.real /\ Destination(e) = "devops"

\* Nothing is lost on the way, ...
WayInv ==
    /\ offered \subseteq Event
    /\ \A e \in offered : ForDevops(e) => Carried_(e) \/ e.id \in Reached

QueueInv == WriterInv /\ DrainInv /\ WayInv

LEMMA NothingInNothing == ToSet(<<>>) = {}
BY DEF ToSet

LEMMA OneMoreLine ==
    ASSUME NEW s \in Seq(Places), NEW r \in Places
    PROVE  /\ Append(s, r) \in Seq(Places) /\ Append(s, r) # NoFile
           /\ ToSet(Append(s, r)) = ToSet(s) \cup {r}
<1>1. /\ Append(s, r) \in Seq(Places) /\ Len(Append(s, r)) = Len(s) + 1
      /\ \A i \in 1..Len(s) : Append(s, r)[i] = s[i]
      /\ Append(s, r)[Len(s) + 1] = r
    BY AppendProperties
<1>2. Append(s, r) # NoFile
    <2> SUFFICES ASSUME Append(s, r) = NoFile PROVE FALSE
        OBVIOUS
    <2>1. Len(<<0>>) = 1 /\ <<0>>[1] = 0 /\ Append(s, r) = <<0>>
        BY DEF NoFile
    <2>2. Len(s) = 0 /\ Append(s, r)[1] = 0
        BY <1>1, <2>1
    <2>. QED BY <1>1, <2>2 DEF Places
<1>3. ToSet(Append(s, r)) = ToSet(s) \cup {r}
    <2>1. DOMAIN Append(s, r) = 1..(Len(s) + 1) /\ DOMAIN s = 1..Len(s) /\ Len(s) \in Nat
        BY <1>1
    <2>2. ASSUME NEW i \in 1..(Len(s) + 1) PROVE Append(s, r)[i] \in ToSet(s) \cup {r}
        BY <1>1, <2>1 DEF ToSet
    <2>3. ASSUME NEW i \in 1..Len(s) PROVE s[i] \in ToSet(Append(s, r))
        <3>1. i \in DOMAIN Append(s, r) /\ Append(s, r)[i] = s[i]
            BY <1>1, <2>1
        <3>. QED BY <3>1 DEF ToSet
    <2>4. r \in ToSet(Append(s, r))
        <3>1. Len(s) + 1 \in DOMAIN Append(s, r)
            BY <2>1
        <3>. QED BY <1>1, <3>1 DEF ToSet
    <2>5. ToSet(s) \subseteq ToSet(Append(s, r))
        BY <2>1, <2>3 DEF ToSet
    <2>6. ToSet(Append(s, r)) \subseteq ToSet(s) \cup {r}
        BY <2>1, <2>2 DEF ToSet
    <2>. QED BY <2>4, <2>5, <2>6
<1>. QED BY <1>1, <1>2, <1>3

LEMMA OneLineLess ==
    ASSUME NEW s \in Seq(Places), s # <<>>
    PROVE  /\ Tail(s) \in Seq(Places) /\ Head(s) \in Places
           /\ ToSet(s) = ToSet(Tail(s)) \cup {Head(s)}
<1>1. /\ Head(s) \in Places /\ Tail(s) \in Seq(Places) /\ Len(Tail(s)) = Len(s) - 1
      /\ \A i \in 1..Len(Tail(s)) : Tail(s)[i] = s[i + 1]
    BY HeadTailProperties
<1>2. Len(s) \in Nat /\ Len(s) > 0 /\ DOMAIN s = 1..Len(s) /\ DOMAIN Tail(s) = 1..(Len(s) - 1) /\ Head(s) = s[1]
    BY <1>1
<1>3. ASSUME NEW i \in 1..Len(s) PROVE s[i] \in ToSet(Tail(s)) \cup {Head(s)}
    <2>1. CASE i = 1
        BY <1>2, <2>1
    <2>2. CASE i # 1
        <3>1. i - 1 \in DOMAIN Tail(s) /\ Tail(s)[i - 1] = s[i]
            BY <1>1, <1>2, <2>2
        <3>. QED BY <3>1 DEF ToSet
    <2>. QED BY <2>1, <2>2
<1>4. ASSUME NEW i \in 1..(Len(s) - 1) PROVE Tail(s)[i] \in ToSet(s)
    <2>1. Tail(s)[i] = s[i + 1] /\ i + 1 \in DOMAIN s
        BY <1>1, <1>2
    <2>. QED BY <2>1 DEF ToSet
<1>5. ToSet(s) \subseteq ToSet(Tail(s)) \cup {Head(s)}
    BY <1>2, <1>3 DEF ToSet
<1>6. ToSet(Tail(s)) \subseteq ToSet(s)
    BY <1>2, <1>4 DEF ToSet
<1>7. Head(s) \in ToSet(s)
    <2>1. 1 \in DOMAIN s
        BY <1>2
    <2>. QED BY <1>2, <2>1 DEF ToSet
<1>. QED BY <1>1, <1>5, <1>6, <1>7

LEMMA QueueStarts == QueueInit => QueueInv
<1> SUFFICES ASSUME QueueInit PROVE QueueInv
    OBVIOUS
<1>1. WriterInv
    BY DEF QueueInit, WriterInv, Idle
<1>2. DrainInv
    <2>1. <<>> \in Seq(Places)
        OBVIOUS
    <2>. QED BY <2>1 DEF QueueInit, DrainInv
<1>. QED BY <1>1, <1>2 DEF QueueInit, QueueInv, WayInv

LEMMA WaitsOrEnds == ASSUME NEW x \in InHand PROVE x # Idle
<1>1. Idle.at = "idle" /\ x.at # "idle"
    BY DEF Idle, InHand
<1>. QED BY <1>1

\* A writer goes on with the event in hand, short of writing it, ...
LEMMA HandMoves ==
    ASSUME QueueInv, NEW w \in Writers, NEW x \in InHand, ev[w] # Idle, x.e = ev[w].e, x.at # "write",
           x.at \in {"send", "mark", "marking"} => Destination(x.e) = "telegram" /\ x.e.real,
           x.at = "open" => Destination(x.e) = "devops" /\ x.e.real,
           ev' = [ev EXCEPT ![w] = x], UNCHANGED <<handle, offered, drainVars>>, marks' \subseteq Keys
    PROVE  QueueInv'
<1>1. x # Idle
    BY WaitsOrEnds
<1>2. WriterInv'
    BY DEF QueueInv, WriterInv, drainVars, InHand
<1>3. DrainInv'
    BY DEF QueueInv, DrainInv, drainVars
<1>4. \A e \in offered : Carried_(e) => Carried_(e)'
    BY <1>1 DEF Carried_, QueueInv, WriterInv
<1>. QED BY <1>2, <1>3, <1>4 DEF QueueInv, WayInv, Reached, drainVars

\* ... or is done with one that does not go to #devops.
LEMMA HandEnds ==
    ASSUME QueueInv, NEW w \in Writers, ~ForDevops(ev[w].e),
           ev' = [ev EXCEPT ![w] = Idle], UNCHANGED <<handle, offered, drainVars>>, marks' \subseteq Keys
    PROVE  QueueInv'
<1>1. WriterInv'
    BY DEF QueueInv, WriterInv, drainVars, Idle
<1>2. DrainInv'
    BY DEF QueueInv, DrainInv, drainVars
<1>3. \A e \in offered : ForDevops(e) /\ Carried_(e) => Carried_(e)'
    BY DEF Carried_, QueueInv, WriterInv
<1>. QED BY <1>1, <1>2, <1>3 DEF QueueInv, WayInv, Reached, drainVars

LEMMA OfferKeeps ==
    ASSUME QueueInv, NEW w \in Writers, Offer(w)
    PROVE  QueueInv'
<1>1. PICK e \in Event : /\ ev' = [ev EXCEPT ![w] = [at |-> "route", e |-> e, seen |-> {}]]
                         /\ offered' = offered \cup {e}
    BY DEF Offer
<1>2. UNCHANGED <<handle, marks, drainVars>> /\ ev[w] = Idle
    BY DEF Offer
<1>3. PICK x : x = [at |-> "route", e |-> e, seen |-> {}]
    OBVIOUS
<1>4. x \in InHand /\ x.at = "route" /\ x.e = e /\ x # Idle
    BY <1>3, WaitsOrEnds DEF InHand
<1>5. ev' = [ev EXCEPT ![w] = x] /\ ev'[w] = x
    BY <1>1, <1>3 DEF QueueInv, WriterInv
<1>6. WriterInv'
    BY <1>1, <1>2, <1>4, <1>5 DEF QueueInv, WriterInv, drainVars
<1>7. DrainInv'
    BY <1>2 DEF QueueInv, DrainInv, drainVars
<1>8. \A d \in offered : Carried_(d) => Carried_(d)'
    BY <1>2, <1>5 DEF Carried_, QueueInv, WriterInv
<1>9. Carried_(e)'
    BY <1>4, <1>5 DEF Carried_
<1>. QED BY <1>1, <1>2, <1>6, <1>7, <1>8, <1>9 DEF QueueInv, WayInv, Reached, drainVars

LEMMA OpenKeeps ==
    ASSUME QueueInv, NEW w \in Writers, EnqueueOpen(w)
    PROVE  QueueInv'
<1>1. /\ ev[w].at = "open" /\ ev' = [ev EXCEPT ![w].at = "write"] /\ handle' = [handle EXCEPT ![w] = "queue"]
      /\ queue' = (IF queue = NoFile THEN <<>> ELSE queue) /\ UNCHANGED <<work, drain, posted, excused, offered, marks>>
    BY DEF EnqueueOpen, Step
<1>2. PICK x : x = [ev[w] EXCEPT !.at = "write"]
    OBVIOUS
<1>3. ev[w] \in InHand
    BY <1>1 DEF QueueInv, WriterInv, Idle
<1>4. x \in InHand /\ x.at = "write" /\ x.e = ev[w].e /\ x # Idle /\ ev[w] # Idle
    BY <1>2, <1>3, WaitsOrEnds DEF InHand
<1>5. ev' = [ev EXCEPT ![w] = x] /\ ev'[w] = x
    BY <1>1, <1>2 DEF QueueInv, WriterInv
<1>6. queue' \in Seq(Places) /\ queue' # NoFile /\ InFile(queue)' = InFile(queue)
    <2>1. <<>> \in Seq(Places) /\ <<>> # NoFile
        BY DEF NoFile
    <2>2. CASE queue = NoFile
        <3>1. queue' = <<>>
            BY <1>1, <2>2
        <3>. QED BY <2>1, <2>2, <3>1, NothingInNothing DEF InFile
    <2>3. CASE queue # NoFile
        BY <1>1, <2>3 DEF QueueInv, DrainInv, InFile
    <2>. QED BY <2>2, <2>3
<1>7. WriterInv'
    BY <1>1, <1>4, <1>5, <1>6 DEF QueueInv, WriterInv
<1>8. DrainInv'
    BY <1>1, <1>6 DEF QueueInv, DrainInv
<1>9. \A e \in offered : Carried_(e) => Carried_(e)'
    BY <1>4, <1>5 DEF Carried_, QueueInv, WriterInv
<1>. QED BY <1>1, <1>6, <1>7, <1>8, <1>9 DEF QueueInv, WayInv, Reached

\* The line goes where the file is now; if that is nowhere, or a file the drain has
\* read, it is lost, and excused.
LEMMA WriteKeeps ==
    ASSUME QueueInv, NEW w \in Writers, EnqueueWrite(w)
    PROVE  QueueInv'
<1>1. PICK r : r = ev[w].e.id
    OBVIOUS
<1>2. /\ ev[w].at = "write" /\ ev' = [ev EXCEPT ![w] = Idle] /\ handle' = [handle EXCEPT ![w] = "none"]
      /\ queue' = (IF handle[w] = "queue" THEN Append(queue, r) ELSE queue)
      /\ work' = (IF handle[w] = "work" THEN Append(work, r) ELSE work)
      /\ excused' = (IF handle[w] = "gone" \/ (handle[w] = "work" /\ drain.at = "remove")
                     THEN excused \cup {r} ELSE excused)
      /\ UNCHANGED <<offered, drain, posted, marks>>
    BY <1>1 DEF EnqueueWrite, Ends
<1>3. ev[w] \in InHand /\ handle[w] \in {"queue", "work", "gone"}
    BY <1>2 DEF QueueInv, WriterInv, Idle
<1>4. r \in Places
    BY <1>1, <1>3 DEF InHand, Event, Places
<1>5. handle[w] = "queue" => /\ queue \in Seq(Places) /\ queue # NoFile
                             /\ queue' \in Seq(Places) /\ queue' # NoFile /\ ToSet(queue)' = ToSet(queue) \cup {r}
    BY <1>2, <1>4, OneMoreLine DEF QueueInv, WriterInv, DrainInv
<1>6. handle[w] = "work" => /\ work \in Seq(Places) /\ work # NoFile
                            /\ work' \in Seq(Places) /\ work' # NoFile /\ ToSet(work)' = ToSet(work) \cup {r}
    BY <1>2, <1>4, OneMoreLine DEF QueueInv, WriterInv, DrainInv
<1>7. WriterInv'
    BY <1>2, <1>5, <1>6 DEF QueueInv, WriterInv, Idle
<1>8. DrainInv'
    <2>1. drain.at = "remove" =>
            ToSet(drain.recs) \subseteq ToSet(work') /\ ToSet(work') \subseteq ToSet(drain.recs) \cup excused'
        BY <1>2, <1>6 DEF QueueInv, DrainInv
    <2>. QED BY <1>2, <1>5, <1>6, <2>1 DEF QueueInv, DrainInv
<1>9. Reached \cup {r} \subseteq Reached'
    <2>1. CASE handle[w] = "queue"
        BY <1>2, <1>5, <2>1 DEF Reached, InFile
    <2>2. CASE handle[w] = "work"
        BY <1>2, <1>6, <2>2 DEF Reached, InFile
    <2>3. CASE handle[w] = "gone"
        BY <1>2, <2>3 DEF Reached, InFile
    <2>. QED BY <1>3, <2>1, <2>2, <2>3
<1>10. \A e \in offered : Carried_(e) => Carried_(e)' \/ e.id = r
    BY <1>1, <1>2 DEF Carried_, QueueInv, WriterInv
<1>. QED BY <1>2, <1>7, <1>8, <1>9, <1>10 DEF QueueInv, WayInv

LEMMA DrainKeeps ==
    ASSUME QueueInv, Drainer \/ DrainFails
    PROVE  QueueInv'
<1>1. UNCHANGED <<ev, offered, marks>>
    BY DEF Drainer, DrainClaims, DrainReads, DrainRemoves, Posts, DrainFails, writerVars
<1>2. \A e \in offered : Carried_(e) => Carried_(e)'
    BY <1>1 DEF Carried_
<1>3. ASSUME WriterInv', DrainInv', Reached \subseteq Reached' PROVE QueueInv'
    BY <1>1, <1>2, <1>3 DEF QueueInv, WayInv
<1>4. <<>> \in Seq(Places)
    OBVIOUS
<1>5. CASE DrainClaims /\ work # NoFile
    <2>1. UNCHANGED <<queue, work, handle, posted, excused>> /\ drain' = [at |-> "read", recs |-> <<>>]
          /\ drain.at = "idle"
        BY <1>5 DEF DrainClaims
    <2>2. WriterInv'
        BY <1>1, <2>1 DEF QueueInv, WriterInv
    <2>3. DrainInv'
        BY <1>4, <1>5, <2>1 DEF QueueInv, DrainInv
    <2>4. Reached \subseteq Reached'
        BY <2>1 DEF Reached, QueueInv, DrainInv
    <2>. QED BY <1>3, <2>2, <2>3, <2>4
<1>6. CASE DrainClaims /\ work = NoFile
    <2>1. /\ queue # NoFile /\ work' = queue /\ queue' = NoFile /\ UNCHANGED <<posted, excused>>
          /\ handle' = [w \in Writers |-> IF handle[w] = "queue" THEN "work" ELSE handle[w]]
          /\ drain' = [at |-> "read", recs |-> <<>>] /\ drain.at = "idle"
        BY <1>6 DEF DrainClaims, Move
    <2>2. WriterInv'
        BY <1>1, <1>6, <2>1 DEF QueueInv, WriterInv
    <2>3. DrainInv'
        BY <1>4, <2>1 DEF QueueInv, DrainInv
    <2>4. Reached \subseteq Reached'
        BY <1>6, <2>1 DEF Reached, InFile, QueueInv, DrainInv
    <2>. QED BY <1>3, <2>2, <2>3, <2>4
<1>7. CASE DrainReads
    <2>1. /\ UNCHANGED <<queue, work, handle, posted, excused>> /\ drain' = [at |-> "remove", recs |-> work]
          /\ drain.at = "read"
        BY <1>7 DEF DrainReads
    <2>2. work \in Seq(Places) /\ work # NoFile
        BY <2>1 DEF QueueInv, DrainInv
    <2>3. WriterInv'
        BY <1>1, <2>1 DEF QueueInv, WriterInv
    <2>4. DrainInv'
        BY <2>1, <2>2 DEF QueueInv, DrainInv
    <2>5. Reached \subseteq Reached'
        BY <2>1, NothingInNothing DEF Reached, QueueInv, DrainInv
    <2>. QED BY <1>3, <2>3, <2>4, <2>5
<1>8. CASE DrainRemoves
    <2>1. /\ work' = NoFile /\ UNCHANGED <<queue, posted, excused>>
          /\ handle' = [w \in Writers |-> IF handle[w] = "work" THEN "gone" ELSE handle[w]]
          /\ drain' = [drain EXCEPT !.at = "post"] /\ drain.at = "remove"
        BY <1>8 DEF DrainRemoves, Move
    <2>2. drain' \in [at : {"idle", "read", "remove", "post"}, recs : Seq(Places)] /\ drain'.at = "post"
          /\ drain'.recs = drain.recs
        BY <2>1 DEF QueueInv, DrainInv
    <2>3. WriterInv'
        BY <1>1, <2>1 DEF QueueInv, WriterInv
    <2>4. DrainInv'
        BY <2>1, <2>2 DEF QueueInv, DrainInv
    <2>5. Reached \subseteq Reached'
        BY <2>1, <2>2 DEF Reached, InFile, QueueInv, DrainInv
    <2>. QED BY <1>3, <2>3, <2>4, <2>5
<1>9. CASE Posts
    <2>1. UNCHANGED <<handle, queue, work, excused>> /\ drain.at = "post" /\ drain.recs \in Seq(Places)
        BY <1>9 DEF Posts, QueueInv, DrainInv
    <2>2. CASE drain.recs = <<>>
        <3>1. drain' = [drain EXCEPT !.at = "idle"] /\ posted' = posted
            BY <1>9, <2>2 DEF Posts
        <3>2. drain' \in [at : {"idle", "read", "remove", "post"}, recs : Seq(Places)] /\ drain'.at = "idle"
              /\ drain'.recs = drain.recs
            BY <3>1 DEF QueueInv, DrainInv
        <3>. QED BY <1>1, <1>3, <2>1, <2>2, <3>1, <3>2 DEF QueueInv, WriterInv, DrainInv, Reached
    <2>3. CASE drain.recs # <<>>
        <3>1. posted' = posted \cup {Head(drain.recs)} /\ drain' = [drain EXCEPT !.recs = Tail(drain.recs)]
            BY <1>9, <2>3 DEF Posts
        <3>2. PICK t : t = Tail(drain.recs)
            OBVIOUS
        <3>3. t \in Seq(Places) /\ ToSet(drain.recs) = ToSet(t) \cup {Head(drain.recs)}
            BY <2>1, <2>3, <3>2, OneLineLess
        <3>4. drain' \in [at : {"idle", "read", "remove", "post"}, recs : Seq(Places)] /\ drain'.at = "post"
              /\ drain'.recs = t
            BY <2>1, <3>1, <3>2, <3>3 DEF QueueInv, DrainInv
        <3>5. WriterInv' /\ DrainInv'
            BY <1>1, <2>1, <3>4 DEF QueueInv, WriterInv, DrainInv
        <3>6. Reached \subseteq Reached'
            BY <2>1, <3>1, <3>3, <3>4 DEF Reached
        <3>. QED BY <1>3, <3>5, <3>6
    <2>. QED BY <2>2, <2>3
<1>10. CASE DrainFails
    <2>1. /\ UNCHANGED <<handle, queue, work, posted>> /\ drain' = [at |-> "idle", recs |-> <<>>]
          /\ excused' = (IF drain.at = "post" THEN excused \cup ToSet(drain.recs) ELSE excused)
        BY <1>10 DEF DrainFails
    <2>2. WriterInv'
        BY <1>1, <2>1 DEF QueueInv, WriterInv
    <2>3. DrainInv'
        BY <1>4, <2>1 DEF QueueInv, DrainInv
    <2>4. drain.at \in {"idle", "read"} => ToSet(drain.recs) = {}
        BY NothingInNothing DEF QueueInv, DrainInv
    <2>5. drain.at = "remove" => ToSet(drain.recs) \subseteq InFile(work)
        BY DEF QueueInv, DrainInv, InFile
    <2>6. drain.at \in {"idle", "read", "remove", "post"}
        BY DEF QueueInv, DrainInv
    <2>7. Reached \subseteq Reached'
        BY <2>1, <2>4, <2>5, <2>6 DEF Reached
    <2>. QED BY <1>3, <2>2, <2>3, <2>7
<1>. QED BY <1>5, <1>6, <1>7, <1>8, <1>9, <1>10 DEF Drainer

LEMMA WritingKeeps ==
    ASSUME QueueInv, NEW w \in Writers, WriterStep(w)
    PROVE  QueueInv'
<1>1. CASE EnqueueOpen(w)
    BY <1>1, OpenKeeps
<1>2. CASE EnqueueWrite(w)
    BY <1>2, WriteKeeps
<1>3. CASE Route(w) \/ Send(w) \/ MarkRead(w) \/ MarkWrite(w)
    <2>1. ev[w].at \in {"route", "send", "mark", "marking"} /\ UNCHANGED <<handle, offered, drainVars>>
        BY <1>3 DEF Route, Send, MarkRead, MarkWrite
    <2>2. ev[w] \in InHand /\ ev[w] # Idle
        BY <2>1, WaitsOrEnds DEF QueueInv, WriterInv, Idle
    <2>keys. marks' \subseteq Keys
        BY <1>3, <2>2 DEF Route, Send, MarkRead, MarkWrite, QueueInv, WriterInv, InHand, Event
    <2>3. ev[w].at # "route" => Destination(ev[w].e) = "telegram" /\ ev[w].e.real
        BY <2>1 DEF QueueInv, WriterInv
    <2>4. ASSUME Ends(w), ~ForDevops(ev[w].e) PROVE QueueInv'
        BY <2>1, <2>4, <2>keys, HandEnds DEF Ends
    <2>5. ASSUME NEW a \in {"send", "mark", "open"}, Step(w, a), ev[w].e.real,
                 Destination(ev[w].e) = IF a = "open" THEN "devops" ELSE "telegram"
          PROVE  QueueInv'
        <3>1. PICK x : x = [ev[w] EXCEPT !.at = a]
            OBVIOUS
        <3>2. x \in InHand /\ x.at = a /\ x.e = ev[w].e
            BY <2>2, <3>1 DEF InHand
        <3>3. ev' = [ev EXCEPT ![w] = x]
            BY <2>5, <3>1 DEF Step
        <3>. QED BY <2>1, <2>2, <2>5, <2>keys, <3>2, <3>3, HandMoves
    <2>6. CASE Route(w)
        <3>1. Destination(ev[w].e) \in {"devops", "telegram", "dashboard"}
            BY DEF Destination
        <3>2. CASE Ends(w) /\ (~ev[w].e.real \/ Destination(ev[w].e) \in {"dashboard", "telegram"})
            BY <2>4, <3>2 DEF ForDevops
        <3>3. CASE /\ ev[w].e.real /\ Destination(ev[w].e) # "dashboard"
                   /\ Step(w, IF Destination(ev[w].e) = "telegram" THEN "send" ELSE "open")
            BY <2>5, <3>1, <3>3
        <3>. QED BY <2>6, <3>2, <3>3 DEF Route
    <2>7. CASE Send(w)
        <3>1. ev[w].at = "send" /\ (Step(w, "mark") \/ Ends(w))
            BY <2>7 DEF Send
        <3>. QED BY <2>3, <2>4, <2>5, <3>1 DEF ForDevops
    <2>8. CASE MarkRead(w)
        <3>1. /\ ev[w].at = "mark" /\ ev' = [ev EXCEPT ![w].at = "marking", ![w].seen = marks]
            BY <2>8 DEF MarkRead
        <3>2. PICK x : x = [ev[w] EXCEPT !.at = "marking", !.seen = marks]
            OBVIOUS
        <3>3. marks \subseteq Keys
            BY DEF QueueInv, WriterInv
        <3>4. x \in InHand /\ x.at = "marking" /\ x.e = ev[w].e
            BY <2>2, <3>2, <3>3 DEF InHand
        <3>5. ev' = [ev EXCEPT ![w] = x]
            BY <3>1, <3>2
        <3>. QED BY <2>1, <2>2, <2>3, <2>keys, <3>1, <3>4, <3>5, HandMoves
    <2>9. CASE MarkWrite(w)
        <3>1. ev[w].at = "marking" /\ Ends(w)
            BY <2>9 DEF MarkWrite
        <3>. QED BY <2>3, <2>4, <3>1 DEF ForDevops
    <2>. QED BY <1>3, <2>6, <2>7, <2>8, <2>9
<1>. QED BY <1>1, <1>2, <1>3 DEF WriterStep

LEMMA QueueStep == QueueInv /\ [QueueNext]_queueVars => QueueInv'
<1> SUFFICES ASSUME QueueInv, [QueueNext]_queueVars PROVE QueueInv'
    OBVIOUS
<1>1. CASE UNCHANGED queueVars
    BY <1>1 DEF QueueInv, WriterInv, DrainInv, WayInv, Carried_, Reached, queueVars
<1>2. CASE WindowPasses
    <2>1. UNCHANGED <<ev, handle, offered, queue, work, drain, posted, excused>> /\ marks' \subseteq marks
        BY <1>2 DEF WindowPasses, drainVars
    <2>. QED BY <2>1 DEF QueueInv, WriterInv, DrainInv, WayInv, Carried_, Reached
<1>3. CASE Drainer \/ DrainFails
    BY <1>3, DrainKeeps
<1>4. ASSUME NEW w \in Writers, Offer(w) PROVE QueueInv'
    BY <1>4, OfferKeeps
<1>5. ASSUME NEW w \in Writers, WriterStep(w) PROVE QueueInv'
    BY <1>5, WritingKeeps
<1>. QED BY <1>1, <1>2, <1>3, <1>4, <1>5 DEF QueueNext

\* What the gateway reported as delivered to #devops is in a file, with the drain or in the
\* channel; only a fault after the removal, or a writer slower than the whole drain, loses
\* it (notify_gateway.py:413-432, buzz_approve.py:234-257).
THEOREM QueuedStays == QueueSpec => []QueuedIsSomewhere
<1>1. QueueInv => QueuedIsSomewhere
    <2> SUFFICES ASSUME QueueInv, NEW e \in Ended, e.real, e.audience = "devops", e.decision
                 PROVE  e.id \in Reached
        BY DEF QueuedIsSomewhere, Reached
    <2>1. e \in offered /\ ~Carried_(e)
        BY DEF Ended, Carried_
    <2>2. ForDevops(e)
        BY DEF ForDevops, Destination
    <2>. QED BY <2>1, <2>2 DEF QueueInv, WayInv
<1>. QED BY <1>1, QueueStarts, QueueStep, PTL DEF QueueSpec

\* What is in a file, in the drain's memory or in the channel was offered, is real and was
\* called a decision, and no two events have one id.
Written == InFile(queue) \cup InFile(work) \cup ToSet(drain.recs) \cup posted
Triaged(i) == \E e \in offered : e.id = i /\ e.real /\ e.decision

TriageInv_ ==
    /\ IsFiniteSet(offered)
    /\ \A e \in offered : e.id <= Cardinality(offered)
    /\ \A e, d \in offered : e.id = d.id => e = d
    /\ \A i \in Written : Triaged(i)
    /\ \A e \in telegram : e.real

LEMMA TriageStarts == QueueInit => TriageInv_
BY NothingInNothing, FS_EmptySet DEF QueueInit, TriageInv_, Written, InFile

LEMMA TriageKeeps == QueueInv /\ TriageInv_ /\ [QueueNext]_queueVars => TriageInv_'
<1> SUFFICES ASSUME QueueInv, TriageInv_, [QueueNext]_queueVars PROVE TriageInv_'
    OBVIOUS
<1>1. ASSUME UNCHANGED offered, Written' \subseteq Written, telegram' = telegram PROVE TriageInv_'
    BY <1>1 DEF TriageInv_, Triaged
<1>2. ASSUME UNCHANGED <<queue, work, drain, posted, offered, telegram>> PROVE TriageInv_'
    BY <1>1, <1>2 DEF Written
<1>3. ASSUME NEW w \in Writers, Offer(w) PROVE TriageInv_'
    <2>1. PICK e \in Event : e.id = Cardinality(offered) + 1 /\ offered' = offered \cup {e}
        BY <1>3 DEF Offer
    <2>2. UNCHANGED <<queue, work, drain, posted, telegram>>
        BY <1>3 DEF Offer, drainVars
    <2>3. Cardinality(offered) \in Nat
        BY FS_CardinalityType DEF TriageInv_
    <2>4. \A d \in offered : d.id \in Nat
        BY DEF QueueInv, WayInv, Event
    <2>5. e \notin offered
        BY <2>1, <2>3 DEF TriageInv_
    <2>6. IsFiniteSet(offered') /\ Cardinality(offered') = Cardinality(offered) + 1
        BY <2>1, <2>5, FS_AddElement DEF TriageInv_
    <2>7. \A d \in offered : d.id <= Cardinality(offered) /\ d.id # e.id
        BY <2>1, <2>3, <2>4 DEF TriageInv_
    <2>8. (\A d \in offered : d.id <= Cardinality(offered))'
        BY <2>1, <2>3, <2>4, <2>6, <2>7
    <2>9. (\A i \in Written : Triaged(i))'
        BY <2>1, <2>2 DEF TriageInv_, Triaged, Written
    <2>. QED BY <2>1, <2>2, <2>6, <2>7, <2>8, <2>9 DEF TriageInv_
<1>4. ASSUME NEW w \in Writers, Send(w) PROVE TriageInv_'
    <2>1. UNCHANGED <<queue, work, drain, posted, offered>>
        BY <1>4 DEF Send, drainVars
    <2>2. ev[w].e.real
        BY <1>4 DEF Send, QueueInv, WriterInv
    <2>3. telegram' \subseteq telegram \cup {ev[w].e}
        BY <1>4 DEF Send
    <2>. QED BY <2>1, <2>2, <2>3 DEF TriageInv_, Written, Triaged
<1>5. ASSUME NEW w \in Writers, EnqueueOpen(w) PROVE TriageInv_'
    <2>1. UNCHANGED <<work, drain, posted, offered, telegram>> /\ queue' = IF queue = NoFile THEN <<>> ELSE queue
        BY <1>5 DEF EnqueueOpen
    <2>2. InFile(queue)' = InFile(queue)
        BY <2>1, NothingInNothing DEF InFile, NoFile
    <2>. QED BY <1>1, <2>1, <2>2 DEF Written
<1>6. ASSUME NEW w \in Writers, EnqueueWrite(w) PROVE TriageInv_'
    <2>1. PICK r : r = ev[w].e.id
        OBVIOUS
    <2>2. /\ queue' = (IF handle[w] = "queue" THEN Append(queue, r) ELSE queue)
          /\ work' = (IF handle[w] = "work" THEN Append(work, r) ELSE work)
          /\ UNCHANGED <<drain, posted, offered, telegram>> /\ ev[w].at = "write"
        BY <1>6, <2>1 DEF EnqueueWrite
    <2>3. ev[w] \in InHand /\ ev[w].e \in offered
        BY <2>2 DEF QueueInv, WriterInv, Idle
    <2>4. r \in Places
        BY <2>1, <2>3 DEF InHand, Event, Places
    <2>5. InFile(queue)' \subseteq InFile(queue) \cup {r}
        BY <2>2, <2>4, OneMoreLine DEF QueueInv, WriterInv, DrainInv, InFile
    <2>6. InFile(work)' \subseteq InFile(work) \cup {r}
        BY <2>2, <2>4, OneMoreLine DEF QueueInv, WriterInv, DrainInv, InFile
    <2>7. Destination(ev[w].e) = "devops" /\ ev[w].e.real
        BY <2>2 DEF QueueInv, WriterInv
    <2>8. ev[w].e.decision
        <3>1. CASE ev[w].e.audience = "devops" /\ ev[w].e.decision
            BY <3>1
        <3>2. CASE ~(ev[w].e.audience = "devops" /\ ev[w].e.decision)
            BY <2>7, <3>2 DEF Destination
        <3>. QED BY <3>1, <3>2
    <2>9. Triaged(r)
        BY <2>1, <2>3, <2>7, <2>8 DEF Triaged
    <2>10. Written' \subseteq Written \cup {r}
        BY <2>2, <2>5, <2>6 DEF Written
    <2>. QED BY <2>2, <2>9, <2>10 DEF TriageInv_, Triaged
<1>7. CASE DrainClaims
    <2>1. Written' \subseteq Written
        <3>1. CASE work # NoFile
            BY <1>7, <3>1, NothingInNothing DEF DrainClaims, Written
        <3>2. CASE work = NoFile
            <4>1. queue' = NoFile /\ work' = queue /\ drain'.recs = <<>> /\ posted' = posted
                BY <1>7, <3>2 DEF DrainClaims
            <4>. QED BY <4>1, NothingInNothing DEF Written, InFile
        <3>. QED BY <3>1, <3>2
    <2>. QED BY <1>1, <1>7, <2>1 DEF DrainClaims, writerVars
<1>8. CASE DrainReads
    <2>1. drain.at = "read" /\ drain'.recs = work /\ UNCHANGED <<queue, work, posted>>
        BY <1>8 DEF DrainReads
    <2>2. work # NoFile
        BY <2>1 DEF QueueInv, DrainInv
    <2>3. Written' \subseteq Written
        BY <2>1, <2>2 DEF Written, InFile
    <2>. QED BY <1>1, <1>8, <2>3 DEF DrainReads, writerVars
<1>9. CASE DrainRemoves
    <2>1. drain' = [drain EXCEPT !.at = "post"] /\ work' = NoFile /\ UNCHANGED <<queue, posted>>
        BY <1>9 DEF DrainRemoves
    <2>2. drain'.recs = drain.recs
        BY <2>1 DEF QueueInv, DrainInv
    <2>3. Written' \subseteq Written
        BY <2>1, <2>2 DEF Written, InFile
    <2>. QED BY <1>1, <1>9, <2>3 DEF DrainRemoves, writerVars
<1>10. CASE Posts
    <2>1. UNCHANGED <<queue, work>> /\ drain.recs \in Seq(Places)
        BY <1>10 DEF Posts, QueueInv, DrainInv
    <2>2. Written' \subseteq Written
        <3>1. CASE drain.recs = <<>>
            <4>1. drain' = [drain EXCEPT !.at = "idle"] /\ posted' = posted
                BY <1>10, <3>1 DEF Posts
            <4>2. drain'.recs = drain.recs
                BY <4>1 DEF QueueInv, DrainInv
            <4>. QED BY <2>1, <4>1, <4>2 DEF Written
        <3>2. CASE drain.recs # <<>>
            <4>1. posted' = posted \cup {Head(drain.recs)} /\ drain' = [drain EXCEPT !.recs = Tail(drain.recs)]
                BY <1>10, <3>2 DEF Posts
            <4>2. PICK t : t = Tail(drain.recs)
                OBVIOUS
            <4>3. ToSet(drain.recs) = ToSet(t) \cup {Head(drain.recs)}
                BY <2>1, <3>2, <4>2, OneLineLess
            <4>4. drain'.recs = t
                BY <4>1, <4>2 DEF QueueInv, DrainInv
            <4>. QED BY <2>1, <4>1, <4>3, <4>4 DEF Written
        <3>. QED BY <3>1, <3>2
    <2>. QED BY <1>1, <1>10, <2>2 DEF Posts, writerVars
<1>11. CASE DrainFails
    <2>1. Written' \subseteq Written
        BY <1>11, NothingInNothing DEF DrainFails, Written
    <2>. QED BY <1>1, <1>11, <2>1 DEF DrainFails, writerVars
<1>. QED BY <1>2, <1>3, <1>4, <1>5, <1>6, <1>7, <1>8, <1>9, <1>10, <1>11
         DEF QueueNext, WriterStep, Drainer, Route, MarkRead, MarkWrite, WindowPasses, drainVars, queueVars

\* Leo sees nothing synthetic and, in #devops, only what the triage called a decision,
\* whichever processes write and whatever becomes of the drain (notify_gateway.py:380-432, 504-538).
THEOREM OnlyTriaged == QueueSpec => []OnlyTriagedReachLeo
<1>1. QueueInv /\ TriageInv_ => OnlyTriagedReachLeo
    BY DEF TriageInv_, OnlyTriagedReachLeo, Written, Triaged
<1>. QED BY <1>1, QueueStarts, QueueStep, TriageStarts, TriageKeeps, PTL DEF QueueSpec

\* A key that is on disk, or that a writer is about to put there, is that of an event
\* Telegram took.
Sent(k) == \E e \in telegram : e.key = k
MarkInv ==
    /\ \A k \in marks : Sent(k)
    /\ \A w \in Writers :
          /\ ev[w].at \in {"mark", "marking"} => Sent(ev[w].e.key)
          /\ ev[w].at = "marking" => \A k \in ev[w].seen : Sent(k)

LEMMA MarksStart == QueueInit => MarkInv
BY DEF QueueInit, MarkInv, Idle

LEMMA MarksKeep == QueueInv /\ MarkInv /\ [QueueNext]_queueVars => MarkInv'
<1> SUFFICES ASSUME QueueInv, MarkInv, [QueueNext]_queueVars PROVE MarkInv'
    OBVIOUS
<1>1. ev \in [Writers -> InHand \cup {Idle}]
    BY DEF QueueInv, WriterInv
<1>2. ASSUME UNCHANGED telegram, marks' \subseteq marks, ev' = ev PROVE MarkInv'
    BY <1>2 DEF MarkInv, Sent
<1>3. ASSUME NEW w \in Writers, UNCHANGED <<telegram, marks>>,
             NEW x, ev' = [ev EXCEPT ![w] = x], x.at \notin {"mark", "marking"}
      PROVE  MarkInv'
    BY <1>1, <1>3 DEF MarkInv, Sent
<1>4. ASSUME NEW w \in Writers, Ends(w), UNCHANGED <<telegram, marks>> PROVE MarkInv'
    BY <1>3, <1>4 DEF Ends, Idle
<1>5. ASSUME NEW w \in Writers, ev[w] \in InHand, NEW a, a \notin {"mark", "marking"}, Step(w, a),
             UNCHANGED <<telegram, marks>>
      PROVE  MarkInv'
    <2>1. PICK x : x = [ev[w] EXCEPT !.at = a]
        OBVIOUS
    <2>2. x.at = a /\ ev' = [ev EXCEPT ![w] = x]
        BY <1>5, <2>1 DEF InHand, Step
    <2>. QED BY <1>3, <1>5, <2>2
<1>6. ASSUME NEW w \in Writers, ev[w].at # "idle" PROVE ev[w] \in InHand
    BY <1>1, <1>6 DEF Idle
<1>7. ASSUME NEW w \in Writers, Offer(w) PROVE MarkInv'
    <2>1. PICK e \in Event : ev' = [ev EXCEPT ![w] = [at |-> "route", e |-> e, seen |-> {}]]
        BY <1>7 DEF Offer
    <2>. QED BY <1>3, <1>7, <2>1 DEF Offer
<1>8. ASSUME NEW w \in Writers, Route(w) PROVE MarkInv'
    <2>1. ev[w].at = "route" /\ UNCHANGED <<telegram, marks>>
        BY <1>8 DEF Route
    <2>2. Ends(w) \/ Step(w, "send") \/ Step(w, "open")
        BY <1>8 DEF Route
    <2>. QED BY <1>4, <1>5, <1>6, <2>1, <2>2
<1>9. ASSUME NEW w \in Writers, Send(w) PROVE MarkInv'
    <2>1. CASE telegram' = telegram \cup {ev[w].e} /\ Step(w, "mark")
        <3>1. ev[w] \in InHand /\ UNCHANGED marks
            BY <1>6, <1>9 DEF Send
        <3>2. PICK x : x = [ev[w] EXCEPT !.at = "mark"]
            OBVIOUS
        <3>3. x.at = "mark" /\ x.e = ev[w].e /\ ev' = [ev EXCEPT ![w] = x]
            BY <2>1, <3>1, <3>2 DEF InHand, Step
        <3>. QED BY <1>1, <2>1, <3>1, <3>3 DEF MarkInv, Sent
    <2>2. CASE UNCHANGED telegram /\ Ends(w)
        BY <1>4, <1>9, <2>2 DEF Send
    <2>. QED BY <1>9, <2>1, <2>2 DEF Send
<1>10. ASSUME NEW w \in Writers, MarkRead(w) PROVE MarkInv'
    <2>1. /\ ev[w].at = "mark" /\ UNCHANGED <<telegram, marks>>
          /\ ev' = [ev EXCEPT ![w].at = "marking", ![w].seen = marks]
        BY <1>10 DEF MarkRead
    <2>2. ev[w] \in InHand
        BY <1>6, <2>1
    <2>3. PICK x : x = [ev[w] EXCEPT !.at = "marking", !.seen = marks]
        OBVIOUS
    <2>4. x.at = "marking" /\ x.e = ev[w].e /\ x.seen = marks /\ ev' = [ev EXCEPT ![w] = x]
        BY <2>1, <2>2, <2>3 DEF InHand
    <2>. QED BY <1>1, <2>1, <2>4 DEF MarkInv, Sent
<1>11. ASSUME NEW w \in Writers, MarkWrite(w) PROVE MarkInv'
    <2>1. ev[w].at = "marking" /\ ev' = [ev EXCEPT ![w] = Idle] /\ UNCHANGED telegram
          /\ marks' \in {ev[w].seen \cup {ev[w].e.key}, marks}
        BY <1>11 DEF MarkWrite, Ends
    <2>. QED BY <1>1, <2>1 DEF MarkInv, Sent, Idle
<1>12. ASSUME NEW w \in Writers, EnqueueOpen(w) PROVE MarkInv'
    BY <1>5, <1>6, <1>12 DEF EnqueueOpen
<1>13. ASSUME NEW w \in Writers, EnqueueWrite(w) PROVE MarkInv'
    BY <1>4, <1>13 DEF EnqueueWrite
<1>. QED BY <1>2, <1>7, <1>8, <1>9, <1>10, <1>11, <1>12, <1>13
         DEF QueueNext, WriterStep, WindowPasses, Drainer, DrainClaims, DrainReads, DrainRemoves, Posts, DrainFails,
             writerVars, queueVars

\* An event that failed to go out is not taken for a duplicate when it is offered again: a
\* key is marked only once Telegram has taken an event with it (notify_gateway.py:223-241).
THEOREM MarkedSent == QueueSpec => []MarkedWasSent
<1>1. MarkInv => MarkedWasSent
    BY DEF MarkInv, MarkedWasSent, Sent
<1>. QED BY <1>1, QueueStarts, QueueStep, MarksStart, MarksKeep, PTL DEF QueueSpec

-----------------------------------------------------------------------------
(* The approval desk.  What it takes for told, item by item or as a batch,  *)
(* is on a card in the channel, and a card is never taken back.             *)

OnCard(i) == \E c \in shown : i \in ToSet(c)
DeskShape ==
    desk = [prompts |-> desk.prompts, told |-> desk.told, open |-> desk.open, sig |-> desk.sig, batch |-> desk.batch]
ToldInv == stirs \in Nat /\ DeskShape /\ \A i \in desk.told \cup desk.sig : OnCard(i)

LEMMA CardOfOne == ASSUME NEW i PROVE ToSet(<<i>>) = {i}
BY DEF ToSet

LEMMA ToldStarts == PromptInit => ToldInv
BY DEF PromptInit, EmptyDesk, ToldInv, DeskShape

LEMMA CardsStay == PromptNext => shown \subseteq shown'
<1> SUFFICES ASSUME PromptNext PROVE shown \subseteq shown'
    OBVIOUS
<1>1. ASSUME NEW m, Sends(m) PROVE UNCHANGED shown
    BY <1>1 DEF Sends
<1>2. LeoReplies \/ LeoAsks => UNCHANGED shown
    BY <1>1 DEF LeoReplies, LeoAsks
<1>. QED BY <1>2 DEF PromptNext, Poller, Listener, ItemOpens, DecidedElsewhere, PollFails, DeskRestarts,
         PollGates, PromptBatch, PromptGate, PollUnlocks, PromptUnlocks, ListenerLists, ListenerListsPart, ReSurface,
         PromptGatesFail, PromptUnlocksFail, ReSurfaceFails, AsksBack, Resolves, ResolveFails

LEMMA StirsCount == [PromptNext]_promptVars => stirs' = stirs \/ stirs' = stirs + 1
<1> SUFFICES ASSUME [PromptNext]_promptVars PROVE stirs' = stirs \/ stirs' = stirs + 1
    OBVIOUS
<1>1. ASSUME NEW m, Sends(m) PROVE stirs' = stirs + 1
    BY <1>1 DEF Sends
<1>2. LeoReplies \/ LeoAsks => stirs' = stirs + 1
    BY <1>1 DEF LeoReplies, LeoAsks
<1>3. Poller => stirs' = stirs \/ stirs' = stirs + 1
    <2>1. PromptGatesFail \/ PromptUnlocksFail => stirs' = stirs + 1
        BY Zenon DEF PromptGatesFail, PromptUnlocksFail, Stirs
    <2>2. PollGates \/ PromptBatch \/ PromptGate \/ PollUnlocks \/ PromptUnlocks => stirs' = stirs
        BY DEF PollGates, PromptBatch, PromptGate, PollUnlocks, PromptUnlocks
    <2>. QED BY <2>1, <2>2 DEF Poller
<1>4. Listener => stirs' = stirs \/ stirs' = stirs + 1
    <2>1. ReSurfaceFails \/ ListenerListsPart => stirs' = stirs + 1
        BY Zenon DEF ReSurfaceFails, ListenerListsPart, Stirs
    <2>2. ListenerLists \/ ReSurface \/ AsksBack \/ Resolves \/ ResolveFails => stirs' = stirs
        BY Zenon DEF ListenerLists, ReSurface, AsksBack, Resolves, ResolveFails
    <2>. QED BY <2>1, <2>2 DEF Listener
<1>5. (\E i \in Items : ItemOpens(i) \/ DecidedElsewhere(i)) => stirs' = stirs \/ stirs' = stirs + 1
    BY DEF ItemOpens, DecidedElsewhere
<1>6. PollFails \/ DeskRestarts \/ UNCHANGED promptVars => stirs' = stirs \/ stirs' = stirs + 1
    BY DEF PollFails, DeskRestarts, Stirs, promptVars
<1>. QED BY <1>2, <1>3, <1>4, <1>5, <1>6 DEF PromptNext

\* A look leaves what it saw on cards, and says of nothing else that it was told.
LEMMA LookTells ==
    ASSUME ToldInv, PromptBatch \/ PromptGate \/ PromptUnlocks
    PROVE  ToldInv' /\ \A i \in ToSet(poll.list) : OnCard(i)'
<1> DEFINE live == ToSet(poll.list)
<1>1. \A i : OnCard(i) => OnCard(i)'
    BY CardsStay DEF OnCard, PromptNext, Poller
<1>2. ASSUME \A i \in live : OnCard(i)', DeskShape', desk'.told \subseteq desk.told \cup live,
             desk'.sig \subseteq desk.sig \cup live
      PROVE  ToldInv' /\ \A i \in live : OnCard(i)'
    <2>1. stirs' = stirs
        BY DEF PromptBatch, PromptGate, PromptUnlocks
    <2>. QED BY <1>1, <1>2, <2>1 DEF ToldInv
<1>3. CASE PromptBatch
    <2>1. PICK before : before = [desk EXCEPT !.told = desk.told \cap Unlocks]
        OBVIOUS
    <2>2. before = [prompts |-> desk.prompts, told |-> desk.told \cap Unlocks, open |-> desk.open,
                   sig |-> desk.sig, batch |-> desk.batch]
        BY <2>1 DEF ToldInv, DeskShape
    <2>3. CASE shown' = shown \cup {poll.list}
               /\ desk' = [before EXCEPT !.batch = poll.list, !.sig = live, !.open = before.open \cup live]
        <3>1. desk' = [prompts |-> desk.prompts, told |-> desk.told \cap Unlocks, open |-> desk.open \cup live,
                       sig |-> live, batch |-> poll.list]
            BY <2>2, <2>3
        <3>2. \A i \in live : OnCard(i)'
            BY <2>3 DEF OnCard
        <3>. QED BY <1>2, <3>1, <3>2 DEF DeskShape
    <2>4. CASE live = desk.sig /\ desk' = before
        <3>1. \A i \in live : OnCard(i)'
            BY <1>1, <2>4 DEF ToldInv
        <3>. QED BY <1>2, <2>2, <2>4, <3>1 DEF DeskShape
    <2>. QED BY <1>3, <2>1, <2>3, <2>4 DEF PromptBatch
<1>4. CASE PromptGate
    <2>1. PICK kept : kept = [desk EXCEPT !.sig = {}, !.batch = <<>>, !.told = desk.told \cap (live \cup Unlocks)]
        OBVIOUS
    <2>2. kept = [prompts |-> desk.prompts, told |-> desk.told \cap (live \cup Unlocks), open |-> desk.open,
                  sig |-> {}, batch |-> <<>>]
        BY <2>1 DEF ToldInv, DeskShape
    <2>3. CASE shown' = shown \cup {<<g>> : g \in live}
               /\ desk' = [kept EXCEPT !.prompts = kept.prompts \cup live, !.open = kept.open \cup live,
                                       !.told = kept.told \cup live]
        <3>1. desk' = [prompts |-> desk.prompts \cup live, told |-> (desk.told \cap (live \cup Unlocks)) \cup live,
                       open |-> desk.open \cup live, sig |-> {}, batch |-> <<>>]
            BY <2>2, <2>3
        <3>2. \A i \in live : OnCard(i)'
            BY <2>3, CardOfOne DEF OnCard
        <3>. QED BY <1>2, <3>1, <3>2 DEF DeskShape
    <2>4. CASE live \subseteq desk.told /\ desk' = kept
        <3>1. \A i \in live : OnCard(i)'
            BY <1>1, <2>4 DEF ToldInv
        <3>. QED BY <1>2, <2>2, <2>4, <3>1 DEF DeskShape
    <2>. QED BY <1>4, <2>1, <2>3, <2>4 DEF PromptGate
<1>5. CASE PromptUnlocks
    <2>1. PICK fresh : fresh = live \ desk.told
        OBVIOUS
    <2>2. /\ shown' = shown \cup {<<u>> : u \in fresh}
          /\ desk' = [desk EXCEPT !.prompts = desk.prompts \cup fresh, !.open = desk.open \cup fresh,
                                  !.told = (desk.told \cap Gates) \cup live]
        BY <1>5, <2>1 DEF PromptUnlocks
    <2>3. desk' = [prompts |-> desk.prompts \cup fresh, told |-> (desk.told \cap Gates) \cup live,
                   open |-> desk.open \cup fresh, sig |-> desk.sig, batch |-> desk.batch]
        BY <2>2 DEF ToldInv, DeskShape
    <2>4. \A i \in live : OnCard(i)'
        <3>1. ASSUME NEW i \in fresh PROVE OnCard(i)'
            BY <2>2, CardOfOne DEF OnCard
        <3>2. ASSUME NEW i \in desk.told PROVE OnCard(i)'
            BY <1>1 DEF ToldInv
        <3>. QED BY <2>1, <3>1, <3>2
    <2>. QED BY <1>2, <2>3, <2>4 DEF DeskShape
<1>. QED BY <1>3, <1>4, <1>5

\* A look that could not post a card says of nothing that it was told but of what it posted.
LEMMA FailureTells ==
    ASSUME ToldInv, PromptGatesFail \/ PromptUnlocksFail
    PROVE  ToldInv' /\ stirs' # stirs
<1>1. \A i : OnCard(i) => OnCard(i)'
    BY CardsStay DEF OnCard, PromptNext, Poller
<1>2. stirs' \in Nat /\ stirs' # stirs
    <2>1. stirs' = stirs + 1
        BY Zenon DEF PromptGatesFail, PromptUnlocksFail, Stirs
    <2>. QED BY <2>1 DEF ToldInv
<1>3. CASE PromptGatesFail
    <2>1. desk' = desk \/ desk' = [prompts |-> desk.prompts, told |-> desk.told, open |-> desk.open, sig |-> {}, batch |-> <<>>]
        BY <1>3 DEF PromptGatesFail, ToldInv, DeskShape
    <2>. QED BY <1>1, <1>2, <2>1 DEF ToldInv, DeskShape
<1>4. CASE PromptUnlocksFail
    <2>1. PICK sent : /\ shown' = shown \cup {<<u>> : u \in sent}
                      /\ desk' = [desk EXCEPT !.prompts = desk.prompts \cup sent, !.open = desk.open \cup sent,
                                              !.told = desk.told \cup sent]
        BY <1>4, Zenon DEF PromptUnlocksFail
    <2>2. desk' = [prompts |-> desk.prompts \cup sent, told |-> desk.told \cup sent, open |-> desk.open \cup sent,
                   sig |-> desk.sig, batch |-> desk.batch]
        BY <2>1 DEF ToldInv, DeskShape
    <2>3. \A i \in sent : OnCard(i)'
        BY <2>1, CardOfOne DEF OnCard
    <2>. QED BY <1>1, <1>2, <2>2, <2>3 DEF ToldInv, DeskShape
<1>. QED BY <1>2, <1>3, <1>4

LEMMA ToldKeeps == ToldInv /\ [PromptNext]_promptVars => ToldInv'
<1> SUFFICES ASSUME ToldInv, [PromptNext]_promptVars PROVE ToldInv'
    OBVIOUS
<1>0. stirs' \in Nat
    BY StirsCount DEF ToldInv
<1>1. CASE UNCHANGED <<desk, shown>>
    BY <1>0, <1>1 DEF ToldInv, DeskShape, OnCard
<1>2. ASSUME PromptNext, DeskShape', desk'.told = desk.told, desk'.sig = desk.sig PROVE ToldInv'
    BY <1>0, <1>2, CardsStay DEF ToldInv, OnCard
<1>3. CASE PromptBatch \/ PromptGate \/ PromptUnlocks \/ PromptGatesFail \/ PromptUnlocksFail
    BY <1>3, LookTells, FailureTells
<1>4. CASE DeskRestarts \/ ReSurfaceFails
    <2>1. desk' = [prompts |-> {}, told |-> {}, open |-> {}, sig |-> {}, batch |-> <<>>]
        BY <1>4, Zenon DEF DeskRestarts, ReSurfaceFails, Afresh, EmptyDesk
    <2>. QED BY <1>0, <2>1 DEF ToldInv, DeskShape
<1>5. CASE Resolves
    <2>1. PICK i \in Bound : desk' = [desk EXCEPT !.open = desk.open \ {i}]
                             \/ desk' = [desk EXCEPT !.open = IF i \in Unlocks THEN desk.open \ {i} ELSE desk.open]
        BY <1>5 DEF Resolves
    <2>2. PICK o : desk' = [desk EXCEPT !.open = o]
        BY <2>1
    <2>3. desk' = [prompts |-> desk.prompts, told |-> desk.told, open |-> o, sig |-> desk.sig, batch |-> desk.batch]
        BY <2>2 DEF ToldInv, DeskShape
    <2>. QED BY <1>2, <1>5, <2>3 DEF DeskShape, PromptNext, Listener
<1>6. CASE ReSurface
    <2>1. PICK gs : gs = SelectSeq(heard, LAMBDA i : i \in Gates)
        OBVIOUS
    <2>2. PICK single : single = (ToSet(heard) \cap Unlocks) \cup (IF Len(gs) >= 2 THEN {} ELSE ToSet(gs))
        OBVIOUS
    <2>3. /\ shown' = shown \cup {<<i>> : i \in single} \cup (IF Len(gs) >= 2 THEN {gs} ELSE {})
          /\ desk' = [desk EXCEPT !.prompts = desk.prompts \cup single, !.open = desk.open \cup ToSet(heard),
                                  !.batch = IF Len(gs) >= 2 THEN gs ELSE desk.batch,
                                  !.sig = IF Len(gs) >= 2 THEN ToSet(gs) ELSE desk.sig]
        BY <1>6, <2>1, <2>2, Zenon DEF ReSurface
    <2>4. PICK s, b : /\ desk' = [desk EXCEPT !.prompts = desk.prompts \cup single, !.open = desk.open \cup ToSet(heard),
                                              !.batch = b, !.sig = s]
                      /\ s = desk.sig \/ (s = ToSet(gs) /\ gs \in shown')
        BY <2>3
    <2>5. desk' = [prompts |-> desk.prompts \cup single, told |-> desk.told, open |-> desk.open \cup ToSet(heard),
                   sig |-> s, batch |-> b]
        BY <2>4 DEF ToldInv, DeskShape
    <2>6. shown \subseteq shown'
        BY <1>6, CardsStay DEF PromptNext, Listener
    <2>. QED BY <1>0, <2>4, <2>5, <2>6 DEF ToldInv, DeskShape, OnCard
<1>7. LeoReplies \/ LeoAsks => UNCHANGED <<desk, shown>>
    <2>1. ASSUME NEW m, Sends(m) PROVE UNCHANGED <<desk, shown>>
        BY <2>1 DEF Sends
    <2>. QED BY <2>1 DEF LeoReplies, LeoAsks
<1>. QED BY <1>1, <1>3, <1>4, <1>5, <1>6, <1>7
         DEF PromptNext, Poller, Listener, ItemOpens, DecidedElsewhere, PollFails, PollGates, PollUnlocks,
             ListenerLists, ListenerListsPart, AsksBack, ResolveFails, promptVars

\* A look of the poller leaves nothing it saw unshown, however gates come and go between two
\* looks, whatever Leo asks for meanwhile, and after a restart; but where a card could not be
\* posted, and then the item is not taken for told (buzz_approve.py:387-464).
THEOREM NothingUnshown == PromptSpec => LookShowsAll
<1>1. ASSUME ToldInv, [PromptNext]_promptVars,
             poll.at \in {"promptGates", "promptUnlocks"}, poll'.list = <<>>, desk' # EmptyDesk,
             NEW i \in ToSet(poll.list)
      PROVE  \/ \E c \in shown' : i \in ToSet(c)
             \/ stirs' # stirs /\ i \notin desk'.told \cup desk'.sig
    <2>1. CASE UNCHANGED poll
        <3>1. ToSet(poll.list) = {}
            BY <1>1, <2>1 DEF ToSet
        <3>. QED BY <1>1, <3>1
    <2>2. CASE PromptBatch \/ PromptGate \/ PromptUnlocks
        <3>1. OnCard(i)'
            BY <1>1, <2>2, LookTells
        <3>. QED BY <3>1 DEF OnCard
    <2>3. ~DeskRestarts /\ ~ReSurfaceFails /\ ~PollGates /\ ~PollUnlocks /\ ~PollFails
        BY <1>1 DEF DeskRestarts, ReSurfaceFails, Afresh, PollGates, PollUnlocks, PollFails
    <2>4. LeoReplies \/ LeoAsks => UNCHANGED poll
        <3>1. ASSUME NEW m, Sends(m) PROVE UNCHANGED poll
            BY <3>1 DEF Sends
        <3>. QED BY <3>1 DEF LeoReplies, LeoAsks
    <2>5. CASE PromptGatesFail \/ PromptUnlocksFail
        <3>1. stirs' # stirs /\ \A x \in desk'.told \cup desk'.sig : OnCard(x)'
            BY <1>1, <2>5, FailureTells DEF ToldInv
        <3>. QED BY <3>1 DEF OnCard
    <2>. QED BY <1>1, <2>1, <2>2, <2>3, <2>4, <2>5
             DEF PromptNext, Poller, Listener, ItemOpens, DecidedElsewhere, ListenerLists, ListenerListsPart,
                 ReSurface, AsksBack, Resolves, ResolveFails, promptVars
<1>2. ToldInv /\ [PromptNext]_promptVars =>
          [poll.at \in {"promptGates", "promptUnlocks"} /\ poll'.list = <<>> /\ desk' # EmptyDesk
             => \A i \in ToSet(poll.list) :
                   \/ \E c \in shown' : i \in ToSet(c)
                   \/ stirs' # stirs /\ i \notin desk'.told \cup desk'.sig]_promptVars
    BY <1>1
<1>. QED BY <1>2, ToldStarts, ToldKeeps, PTL DEF PromptSpec, LookShowsAll

-----------------------------------------------------------------------------
(* The pages of the watchdog.  The file counts every failed probe, and the  *)
(* mark of an alert is never older than the page it was made for: a failure *)
(* is collected only behind its own turn of the cycle, and the mark renewed *)
(* at that turn, so that the page it leads to is the last one.              *)

\* The check had its turn in this cycle.
HadTurn(k) == \E i \in 1..Len(Checks) : Checks[i] = k /\ i < round

WatchInv ==
    /\ fails \in [CheckKeys -> 0..Threshold] /\ reds = fails
    /\ alerted \in [CheckKeys -> Age] /\ quiet \in [CheckKeys -> Age]
    /\ \A k \in CheckKeys : alerted[k] <= quiet[k]
    /\ round \in 0..PageTime /\ failures \subseteq CheckKeys
    /\ round = 0 => failures = {}
    /\ \A k \in failures : HadTurn(k) /\ alerted[k] = 0
    /\ PageEarned

LEMMA CheckHasKey == Len(Checks) \in Nat /\ \A i \in 1..Len(Checks) : Checks[i] \in CheckKeys
BY WatchAssumption, LenProperties DEF CheckKeys

LEMMA WatchStarts == WatchInit => WatchInv
BY WatchAssumption, CheckHasKey DEF WatchInit, WatchInv, PageEarned, Age, Never, PageTime

\* What a check does at its turn: it counts as recovered, its failure is counted, or its
\* failure is counted, marked and collected.
LEMMA TurnKeeps ==
    ASSUME WatchInv, round \in 1..Len(Checks), round' = round + 1, NEW k, k = Checks[round],
           \/ UNCHANGED <<fails, alerted, failures, reds, quiet>>
           \/ Recovered(k)
           \/ Fails(k) /\ UNCHANGED <<alerted, failures>>
           \/ /\ Fails(k) /\ fails[k] + 1 >= Threshold /\ MayAlert(k)
              /\ alerted' = [alerted EXCEPT ![k] = 0] /\ failures' = failures \cup {k}
    PROVE  WatchInv'
<1>1. /\ k \in CheckKeys /\ Len(Checks) \in Nat /\ round \in Nat /\ round' \in 0..PageTime /\ round' # 0
      /\ Threshold \in Nat \ {0} /\ Interval \in Nat \ {0}
    BY CheckHasKey, WatchAssumption DEF PageTime
<1>2. ~HadTurn(k) /\ k \notin failures
    BY <1>1, WatchAssumption DEF HadTurn, WatchInv
<1>3. \A q \in failures : HadTurn(q)'
    BY <1>1 DEF WatchInv, HadTurn
<1>4. HadTurn(k)'
    BY <1>1 DEF HadTurn
<1>5. /\ fails[k] \in 0..Threshold /\ alerted[k] \in 0..Never /\ quiet[k] \in 0..Never /\ alerted[k] <= quiet[k]
      /\ Never = Interval + 2 /\ reds = fails
    BY <1>1 DEF WatchInv, Age, Never
<1>6. Cap(fails[k] + 1, Threshold) \in 0..Threshold
    BY <1>1, <1>5 DEF Cap
<1>7. CASE UNCHANGED <<fails, alerted, failures, reds, quiet>>
    BY <1>1, <1>3, <1>7 DEF WatchInv, PageEarned
<1>8. CASE Recovered(k)
    <2>1. /\ fails' \in [CheckKeys -> 0..Threshold] /\ reds' = fails'
          /\ alerted' \in [CheckKeys -> Age] /\ quiet' \in [CheckKeys -> Age] /\ failures' = failures
        BY <1>1, <1>5, <1>8 DEF Recovered, WatchInv, Age
    <2>2. alerted'[k] = Never /\ quiet'[k] = Never /\ Never <= Never
        BY <1>1, <1>5, <1>8 DEF Recovered, WatchInv
    <2>3. \A q \in CheckKeys \ {k} : alerted'[q] = alerted[q] /\ quiet'[q] = quiet[q] /\ reds'[q] = reds[q]
        BY <1>8 DEF Recovered, WatchInv
    <2>. QED BY <1>1, <1>2, <1>3, <2>1, <2>2, <2>3 DEF WatchInv, PageEarned
<1>9. CASE Fails(k) /\ UNCHANGED <<alerted, failures>>
    <2>1. fails' \in [CheckKeys -> 0..Threshold] /\ reds' = fails' /\ quiet' = quiet
        BY <1>1, <1>5, <1>6, <1>9 DEF Fails, WatchInv
    <2>2. \A q \in CheckKeys \ {k} : reds'[q] = reds[q]
        BY <1>9 DEF Fails, WatchInv
    <2>. QED BY <1>1, <1>2, <1>3, <1>9, <2>1, <2>2 DEF WatchInv, PageEarned
<1>10. CASE /\ Fails(k) /\ fails[k] + 1 >= Threshold /\ MayAlert(k)
            /\ alerted' = [alerted EXCEPT ![k] = 0] /\ failures' = failures \cup {k}
    <2>1. fails' \in [CheckKeys -> 0..Threshold] /\ reds' = fails' /\ quiet' = quiet
        BY <1>1, <1>5, <1>6, <1>10 DEF Fails, WatchInv
    <2>2. \A q \in CheckKeys \ {k} : reds'[q] = reds[q] /\ alerted'[q] = alerted[q]
        BY <1>10 DEF Fails, WatchInv
    <2>3. alerted' \in [CheckKeys -> Age] /\ alerted'[k] = 0
        BY <1>1, <1>10 DEF WatchInv, Age, Never
    <2>4. reds'[k] = Threshold /\ quiet[k] >= Interval
        BY <1>1, <1>5, <1>10 DEF Fails, Cap, MayAlert, WatchInv
    <2>5. \A q \in CheckKeys : alerted'[q] <= quiet'[q]
        BY <1>1, <1>5, <2>1, <2>2, <2>3 DEF WatchInv
    <2>6. \A q \in failures' : q \in CheckKeys /\ HadTurn(q)' /\ alerted'[q] = 0 /\ reds'[q] = Threshold /\ quiet'[q] >= Interval
        BY <1>1, <1>2, <1>3, <1>4, <1>10, <2>1, <2>2, <2>3, <2>4 DEF WatchInv, PageEarned
    <2>. QED BY <1>1, <2>1, <2>3, <2>5, <2>6 DEF WatchInv, PageEarned
<1>. QED BY <1>7, <1>8, <1>9, <1>10

LEMMA WatchKeeps == WatchInv /\ [WatchNext]_watchVars => WatchInv'
<1>. SUFFICES ASSUME WatchInv, [WatchNext]_watchVars PROVE WatchInv'
    OBVIOUS
<1>1. /\ Len(Checks) \in Nat /\ Threshold \in Nat \ {0} /\ Interval \in Nat \ {0} /\ PageTime = Len(Checks) + 1
      /\ Never = Interval + 2 /\ Age = 0..Never
    BY CheckHasKey, WatchAssumption DEF PageTime, Never, Age
<1>2. CASE UNCHANGED watchVars \/ \E k \in CheckKeys : HealthChanges(k)
    BY <1>2 DEF watchVars, HealthChanges, WatchInv, PageEarned, HadTurn
<1>3. CASE CycleStarts
    <2>1. failures = {} /\ round' = 1 /\ UNCHANGED <<fails, failures, reds>>
        BY <1>3 DEF CycleStarts, WatchInv
    <2>2. ASSUME NEW k \in CheckKeys
          PROVE  alerted'[k] \in Age /\ quiet'[k] \in Age /\ alerted'[k] <= quiet'[k]
        <3>1. alerted[k] \in 0..Never /\ quiet[k] \in 0..Never /\ alerted[k] <= quiet[k]
            BY <1>1 DEF WatchInv
        <3>2. /\ alerted'[k] = IF alerted[k] = Never THEN Never ELSE Cap(alerted[k] + 1, Interval + 1)
              /\ quiet'[k] = IF quiet[k] = Never THEN Never ELSE Cap(quiet[k] + 1, Interval + 1)
            BY <1>3 DEF CycleStarts
        <3>. QED BY <1>1, <3>1, <3>2 DEF Cap
    <2>3. alerted' \in [CheckKeys -> Age] /\ quiet' \in [CheckKeys -> Age]
        BY <1>3, <2>2 DEF CycleStarts
    <2>. QED BY <1>1, <2>1, <2>2, <2>3 DEF WatchInv, PageEarned
<1>4. CASE RunCheck
    <2>1. PICK k : k = Checks[round]
        OBVIOUS
    <2>2. k \in CheckKeys /\ fails[k] \in 0..Threshold /\ round \in 1..Len(Checks) /\ round' = round + 1
        BY <1>4, <2>1, CheckHasKey DEF RunCheck, WatchInv
    <2>3. \/ UNCHANGED <<fails, alerted, failures, reds, quiet>>
          \/ Recovered(k)
          \/ Fails(k) /\ UNCHANGED <<alerted, failures>>
          \/ ~Tolerated(k) /\ Fails(k) /\ Escalates(k)
        BY <1>4, <2>1 DEF RunCheck, RemedyClaims
    <2>4. ~Tolerated(k) => fails[k] + 1 >= Threshold
        BY <1>1, <2>2 DEF Tolerated
    <2>. QED BY <2>1, <2>2, <2>3, <2>4, TurnKeeps DEF Escalates
<1>5. ASSUME NEW k \in CheckKeys, Page(k) PROVE WatchInv'
    <2>1. /\ k \in failures /\ alerted[k] = 0 /\ failures' = failures \ {k} /\ quiet' = [quiet EXCEPT ![k] = 0]
          /\ UNCHANGED <<fails, reds, alerted, round>> /\ round # 0
        BY <1>1, <1>5 DEF Page, WatchInv
    <2>2. quiet' \in [CheckKeys -> Age] /\ \A q \in CheckKeys : alerted'[q] <= quiet'[q]
        BY <1>1, <2>1 DEF WatchInv
    <2>3. \A q \in failures' : HadTurn(q)' /\ quiet'[q] = quiet[q]
        BY <2>1 DEF WatchInv, HadTurn
    <2>. QED BY <2>1, <2>2, <2>3 DEF WatchInv, PageEarned
<1>6. CASE CycleEnds
    BY <1>1, <1>6 DEF CycleEnds, WatchInv, PageEarned
<1>7. CASE WatchDies
    <2>1. round' = 0 /\ failures' = {}
        BY <1>7 DEF WatchDies
    <2>2. CASE UNCHANGED <<fails, alerted, reds, quiet>>
        BY <1>1, <2>1, <2>2 DEF WatchInv, PageEarned
    <2>3. CASE /\ fails' = [k \in CheckKeys |-> 0] /\ alerted' = [k \in CheckKeys |-> Never]
               /\ reds' = [k \in CheckKeys |-> 0] /\ quiet' = [k \in CheckKeys |-> Never]
        BY <1>1, <2>1, <2>3 DEF WatchInv, PageEarned
    <2>. QED BY <1>7, <2>2, <2>3 DEF WatchDies
<1>. QED BY <1>2, <1>3, <1>4, <1>5, <1>6, <1>7 DEF WatchNext, WatchJob

\* A page is prepared only after Threshold failed probes with no good one and no claimed
\* repair between them, and not within Interval cycles of the last page of the same outage,
\* whatever crashes, torn files and remedies come in between (_should_alert, watchdog.py:108).
THEOREM PagesEarned == WatchSpec => []PageEarned
<1>1. WatchInv => PageEarned
    BY DEF WatchInv
<1>. QED BY <1>1, WatchStarts, WatchKeeps, PTL DEF WatchSpec
====
