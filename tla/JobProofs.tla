------------------------------ MODULE JobProofs ------------------------------
(***************************************************************************)
(* Theorems about Orchestrator for every value of its constants: the types *)
(* and shapes of its rows and threads; every mutation of the host was      *)
(* approved; a job's success was earned (every statement in flight is      *)
(* about a row that exists, and what a roll-up reads is on record); where  *)
(* the poller alone delivers decisions, an approval is a token that is     *)
(* spent once and used once, the reconciler raises no false alarm about    *)
(* what was done with one, and no mutation is missing from the record but  *)
(* by a crash or a second gate of the operation; where nothing gates a     *)
(* job, it has one thread, which keeps to the attempts of a step and to    *)
(* the order of the steps; and whatever gates it, one thread at a time     *)
(* keeps to that order.                                                    *)
(***************************************************************************)
EXTENDS Orchestrator, TLAPS

(***************************************************************************)
(* Lemmas about a thread's moves                                           *)
(***************************************************************************)

\* The idle and the freshly launched thread are well formed.
LEMMA RestingThreads ==
    /\ Idle \in ThreadState /\ ThreadShape(Idle)
    /\ Fresh \in ThreadState /\ ThreadShape(Fresh)
BY DEF Idle, Fresh, ThreadState, PC, StepRow, StepStatus, NoStepRow, ThreadShape

\* Moving one well-formed thread to a well-formed state keeps all well formed.
LEMMA GoKeepsShape ==
    ASSUME NEW t \in Threads, NEW x \in ThreadState, ThreadShape(x), Go(t, x),
           th \in [Threads -> ThreadState], \A u \in Threads : ThreadShape(th[u])
    PROVE  /\ th' \in [Threads -> ThreadState]
           /\ \A u \in Threads : ThreadShape(th'[u])
BY DEF Go

\* What the loop does at a row of the snapshot is well formed.
LEMMA VisitShape ==
    ASSUME NEW x \in ThreadState, NEW s \in Steps
    PROVE  Visit(x, s) \in ThreadState /\ ThreadShape(Visit(x, s))
<1>1. /\ s \in Nat /\ x.snap \in [Steps -> StepRow]
      /\ x.snap[s].retries \in Nat
  BY NStepsAssumption DEF ThreadState, Steps, StepRow
<1>2. CASE x.snap[s].status = "awaiting_gate"
  BY <1>2, RestingThreads DEF Visit
<1>3. CASE x.snap[s].status = "failed_permanent"
  BY <1>1, <1>3 DEF Visit, ThreadState, PC, StepStatus, ThreadShape, Terminal
<1>4. CASE x.snap[s].status \notin {"awaiting_gate", "failed_permanent"}
  BY <1>1, <1>4 DEF Visit, ThreadState, PC, StepStatus, ThreadShape
<1> QED BY <1>2, <1>3, <1>4

\* Going on with the loop keeps all threads well formed.
LEMMA AdvanceKeepsShape ==
    ASSUME NEW t \in Threads, NEW x \in ThreadState, NEW i, Advance(t, x, i),
           th \in [Threads -> ThreadState], \A u \in Threads : ThreadShape(th[u])
    PROVE  /\ th' \in [Threads -> ThreadState]
           /\ \A u \in Threads : ThreadShape(th'[u])
<1>1. CASE Go(t, [x EXCEPT !.pc = "final", !.at = 0])
  <2>1. /\ [x EXCEPT !.pc = "final", !.at = 0] \in ThreadState
        /\ ThreadShape([x EXCEPT !.pc = "final", !.at = 0])
    BY DEF ThreadState, PC, ThreadShape
  <2> QED BY <1>1, <2>1, GoKeepsShape
<1>2. ASSUME NEW s \in NextRow(x.snap, i), Go(t, Visit(x, s))
      PROVE  /\ th' \in [Threads -> ThreadState]
             /\ \A u \in Threads : ThreadShape(th'[u])
  <2>1. s \in Steps
    BY DEF NextRow, Unfinished
  <2> QED BY <1>2, <2>1, VisitShape, GoKeepsShape
<1> QED BY <1>1, <1>2 DEF Advance

\* So does what _run_step does after a transition it made at a row.
LEMMA AfterTransitionShape ==
    ASSUME NEW x \in ThreadState, x.at \in Steps
    PROVE  AfterTransition(x) \in ThreadState /\ ThreadShape(AfterTransition(x))
<1>1. CASE x.to = "running"
  BY <1>1 DEF AfterTransition, ThreadState, PC, ThreadShape
<1>2. CASE x.to = "pending"
  BY <1>2 DEF AfterTransition, ThreadState, PC, ThreadShape, StepStatus
<1>3. CASE x.to \in {"succeeded", "failed_permanent"}
  BY <1>3 DEF AfterTransition, ThreadState, PC, ThreadShape
<1>4. CASE x.to \notin {"running", "pending", "succeeded", "failed_permanent"}
  BY <1>4, RestingThreads DEF AfterTransition
<1> QED BY <1>1, <1>2, <1>3, <1>4

(***************************************************************************)
(* Types and shapes                                                        *)
(***************************************************************************)

Typed == TypeOK /\ ShapeOK

\* Typed rows stay typed under the store's transactions.
LEMMA StoreWrites ==
    ASSUME StoreTypeOK, NEW s \in Steps, NEW status
    PROVE  /\ CreateStepRow(s) => StoreTypeOK'
           /\ status \in StepStatus /\ WriteStep(s, status) => StoreTypeOK'
           /\ status \in JobStatus /\ WriteJob(status) => StoreTypeOK'
           /\ BumpRetries(s) => StoreTypeOK'
           /\ RecordOverride(s) => StoreTypeOK'
<1>1. s \in Nat
  BY NStepsAssumption DEF Steps
<1>2. CreateStepRow(s) => StoreTypeOK'
  BY DEF CreateStepRow, StoreTypeOK, StepRow, StepStatus
<1>3. status \in StepStatus /\ WriteStep(s, status) => StoreTypeOK'
  BY <1>1 DEF WriteStep, StoreTypeOK, StepRow, Event
<1>4. status \in JobStatus /\ WriteJob(status) => StoreTypeOK'
  BY <1>1 DEF WriteJob, StoreTypeOK, Event
<1>5. BumpRetries(s) => StoreTypeOK'
  BY DEF BumpRetries, StoreTypeOK, StepRow
<1>6. RecordOverride(s) => StoreTypeOK'
  BY <1>1 DEF RecordOverride, StoreTypeOK, Event
<1> QED BY <1>2, <1>3, <1>4, <1>5, <1>6

\* The gate rows stay typed and keep naming a step of the workflow.
GatesShaped == \A g \in GateIds : gate[g].status # "absent" => gate[g].step \in Steps

LEMMA GateWrites ==
    ASSUME StoreTypeOK, GatesShaped, NEW g \in GateIds
    PROVE  /\ \A s \in Steps : InsertGate(g, s) => StoreTypeOK' /\ GatesShaped'
           /\ \A yes \in BOOLEAN : gate[g].status # "absent" /\ WriteResolution(g, yes)
                => StoreTypeOK' /\ GatesShaped'
           /\ Consumable(g) /\ ConsumeGate(g) => StoreTypeOK' /\ GatesShaped'
<1>1. g \in Nat /\ \A s \in Steps : s \in Nat /\ s \in 0..NSteps
  BY GateIdsAssumption, NStepsAssumption DEF Steps
<1>2. ASSUME NEW s \in Steps, InsertGate(g, s) PROVE StoreTypeOK' /\ GatesShaped'
  BY <1>1, <1>2 DEF InsertGate, StoreTypeOK, GatesShaped, GateRow, GateStatus
<1>3. ASSUME NEW yes \in BOOLEAN, gate[g].status # "absent", WriteResolution(g, yes)
      PROVE  StoreTypeOK' /\ GatesShaped'
  <2>1. <<"gate", g, IF yes THEN "approved" ELSE "rejected">> \in Event
    BY <1>1, <1>3 DEF Event
  <2>2. events' \subseteq Event /\ gate' \in [GateIds -> GateRow]
    BY <1>1, <1>3, <2>1 DEF WriteResolution, StoreTypeOK, GateRow, GateStatus
  <2> QED BY <1>1, <1>3, <2>2 DEF WriteResolution, StoreTypeOK, GatesShaped, GateRow, GateStatus, Event
<1>4. Consumable(g) /\ ConsumeGate(g) => StoreTypeOK' /\ GatesShaped'
  BY DEF Consumable, ConsumeGate, StoreTypeOK, GatesShaped, GateRow, GateStatus
<1> QED BY <1>2, <1>3, <1>4

LEMMA RetireWrites ==
    ASSUME StoreTypeOK, GatesShaped, RetireOrphans
    PROVE  StoreTypeOK' /\ GatesShaped'
BY DEF RetireOrphans, Orphans, PendingGates, StoreTypeOK, GatesShaped, GateRow, GateStatus

\* The part of Typed that a thread's action can disturb, and how it comes back.
Moved == /\ th' \in [Threads -> ThreadState]
         /\ \A u \in Threads : ThreadShape(th'[u])
Stored == /\ StoreTypeOK' /\ GatesShaped'
          /\ \A g \in GateIds : gate'[g].status = "absent" => gate[g].status = "absent"
Counted == council' \in [GateIds -> CouncilStatus] /\ ran' \in [Steps -> Nat]

LEMMA Reassemble ==
    ASSUME Typed, Moved, Stored, Counted, HostTypeOK', UNCHANGED <<rs, todo, crashes>>
    PROVE  Typed'
<1>1. ThreadTypeOK' /\ HandlerTypeOK' /\ crashes' \in 0..MaxCrashes
  BY DEF Typed, TypeOK, Moved, Counted, ThreadTypeOK, HandlerTypeOK
<1>2. \A r \in Handlers : HandlerShape(rs[r])'
  BY DEF Typed, ShapeOK, Stored, HandlerShape
<1> QED BY <1>1, <1>2 DEF Typed, TypeOK, ShapeOK, Moved, Stored, GatesShaped

\* What every action has in hand.
LEMMA TypedFacts ==
    ASSUME Typed
    PROVE  /\ StoreTypeOK /\ HostTypeOK /\ GatesShaped
           /\ th \in [Threads -> ThreadState] /\ \A u \in Threads : ThreadShape(th[u])
           /\ council \in [GateIds -> CouncilStatus] /\ ran \in [Steps -> Nat]
           /\ rs \in [Handlers -> HandlerState] /\ \A r \in Handlers : HandlerShape(rs[r])
           /\ todo \subseteq GateIds /\ crashes \in 0..MaxCrashes
           /\ \A s \in Steps : s \in Nat
BY NStepsAssumption
   DEF Typed, TypeOK, ShapeOK, GatesShaped, ThreadTypeOK, HandlerTypeOK, Steps

\* The store untouched, or written in the steps, the job or the events only.
LEMMA StoreKept ==
    ASSUME Typed, StoreTypeOK', gate' = gate PROVE Stored
BY TypedFacts DEF Stored, GatesShaped

LEMMA StoreSame ==
    ASSUME Typed, UNCHANGED storeVars PROVE Stored
BY TypedFacts, StoreKept DEF storeVars, StoreTypeOK

\* A transition prepared by _run_step, and the outcome "failed", are well formed.
LEMMA OutcomeShape ==
    ASSUME NEW t \in Threads, th[t] \in ThreadState, th[t].at \in Steps,
           NEW status \in StepStatus
    PROVE  /\ Transition(t, status) \in ThreadState /\ ThreadShape(Transition(t, status))
           /\ [th[t] EXCEPT !.pc = "failed"] \in ThreadState
           /\ ThreadShape([th[t] EXCEPT !.pc = "failed"])
           /\ [th[t] EXCEPT !.pc = "failed", !.g = 0] \in ThreadState
           /\ ThreadShape([th[t] EXCEPT !.pc = "failed", !.g = 0])
BY DEF Transition, ThreadState, PC, ThreadShape

\* A resume thread's own actions keep everything typed.
LEMMA RunTyped ==
    ASSUME Typed, NEW t \in Threads, Run(t), UNCHANGED <<hostVars, gateVars, crashes>>
    PROVE  Typed'
<1> DEFINE x == th[t]
<1>1. x \in ThreadState /\ ThreadShape(x)
  BY TypedFacts
<1>2. SUFFICES Moved /\ Stored /\ Counted
  BY Reassemble, TypedFacts DEF hostVars, gateVars, HostTypeOK
<1>3. ASSUME NEW y \in ThreadState, ThreadShape(y), Go(t, y) PROVE Moved
  BY <1>3, TypedFacts, GoKeepsShape DEF Moved
<1>4. UNCHANGED <<council, ran>> => Counted
  BY TypedFacts DEF Counted
<1>5. CASE StartJob(t)
  <2>1. StoreTypeOK' /\ gate' = gate
    BY <1>5, TypedFacts DEF StartJob, CreateJobRow, StoreTypeOK, JobStatus
  <2>2. /\ [Idle EXCEPT !.pc = "create", !.at = 1] \in ThreadState
        /\ ThreadShape([Idle EXCEPT !.pc = "create", !.at = 1])
    <3>1. 1 \in Steps /\ 1 \in Nat
      BY NStepsAssumption DEF Steps
    <3> QED BY <3>1, RestingThreads DEF Idle, ThreadState, PC, ThreadShape
  <2> QED BY <1>3, <1>4, <1>5, <2>1, <2>2, StoreKept DEF StartJob
<1>6. CASE StartStep(t)
  <2>1. x.at \in Steps
    BY <1>1, <1>6 DEF StartStep, At, ThreadShape
  <2>2. StoreTypeOK' /\ gate' = gate
    BY <1>6, <2>1, TypedFacts, StoreWrites DEF StartStep, CreateStepRow
  <2>3. CASE x.at < NSteps
    <3>1. /\ [x EXCEPT !.at = @ + 1] \in ThreadState
          /\ ThreadShape([x EXCEPT !.at = @ + 1])
      BY <1>1, <1>6, <2>1, <2>3, NStepsAssumption DEF StartStep, At, ThreadState, ThreadShape, Steps
    <3> QED BY <1>3, <1>4, <1>6, <2>2, <2>3, <3>1, StoreKept DEF StartStep
  <2>4. CASE ~(x.at < NSteps)
    <3>1. /\ [Idle EXCEPT !.pc = "start"] \in ThreadState
          /\ ThreadShape([Idle EXCEPT !.pc = "start"])
      BY RestingThreads DEF Idle, ThreadState, PC, ThreadShape
    <3> QED BY <1>3, <1>4, <1>6, <2>2, <2>4, <3>1, StoreKept DEF StartStep
  <2> QED BY <2>3, <2>4
<1>7. CASE StartRunning(t)
  <2>1. StoreTypeOK' /\ gate' = gate
    <3>1. 1 \in Steps /\ "running" \in JobStatus
      BY NStepsAssumption DEF Steps, JobStatus
    <3> QED BY <1>7, <3>1, TypedFacts, StoreWrites DEF StartRunning, WriteJob
  <2> QED BY <1>3, <1>4, <1>7, <2>1, RestingThreads, StoreKept DEF StartRunning
<1>8. CASE ResumeSnapshot(t)
  <2>1. [x EXCEPT !.snap = step] \in ThreadState
    BY <1>1, TypedFacts DEF ThreadState, StoreTypeOK
  <2> QED BY <1>4, <1>8, <2>1, TypedFacts, AdvanceKeepsShape, StoreSame
          DEF ResumeSnapshot, Moved
<1>9. CASE ResumeReread(t)
  <2>1. CASE step[x.at].status = "failed_permanent"
    <3>1. /\ [x EXCEPT !.pc = "jobRead", !.to = "failed_permanent"] \in ThreadState
          /\ ThreadShape([x EXCEPT !.pc = "jobRead", !.to = "failed_permanent"])
      BY <1>1 DEF ThreadState, PC, StepStatus, ThreadShape, Terminal
    <3> QED BY <1>3, <1>4, <1>9, <2>1, <3>1, StoreSame DEF ResumeReread
  <2>2. CASE Advance(t, x, x.at + 1)
    BY <1>1, <1>4, <1>9, <2>2, TypedFacts, AdvanceKeepsShape, StoreSame
       DEF ResumeReread, Moved
  <2> QED BY <1>9, <2>1, <2>2 DEF ResumeReread
<1>10. CASE ResumeFinal(t)
  <2>1. CASE RollUp = "absent"
    BY <1>3, <1>4, <1>10, <2>1, RestingThreads, StoreSame DEF ResumeFinal
  <2>2. CASE RollUp # "absent"
    <3>1. RollUp \in Terminal
      BY <2>2 DEF RollUp, Terminal
    <3>2. /\ [x EXCEPT !.pc = "jobRead", !.to = RollUp] \in ThreadState
          /\ ThreadShape([x EXCEPT !.pc = "jobRead", !.to = RollUp])
      BY <1>1, <3>1 DEF ThreadState, PC, StepStatus, ThreadShape, Terminal
    <3> QED BY <1>3, <1>4, <1>10, <2>2, <3>2, StoreSame DEF ResumeFinal
  <2> QED BY <2>1, <2>2
<1>11. CASE StepTransitionRead(t)
  <2>1. /\ AfterTransition(x) \in ThreadState /\ ThreadShape(AfterTransition(x))
        /\ [x EXCEPT !.pc = "stepWrite"] \in ThreadState
        /\ ThreadShape([x EXCEPT !.pc = "stepWrite"])
    <3>1. x.at \in Steps
      BY <1>1, <1>11 DEF StepTransitionRead, At, ThreadShape
    <3> QED BY <1>1, <3>1, AfterTransitionShape DEF ThreadState, PC, ThreadShape
  <2> QED BY <1>3, <1>4, <1>11, <2>1, StoreSame DEF StepTransitionRead
<1>12. CASE StepTransitionWrite(t)
  <2>1. x.at \in Steps /\ x.to \in StepStatus
    BY <1>1, <1>12 DEF StepTransitionWrite, At, ThreadShape, ThreadState
  <2>2. StoreTypeOK' /\ gate' = gate
    BY <1>12, <2>1, TypedFacts, StoreWrites DEF StepTransitionWrite, WriteStep
  <2> QED BY <1>1, <1>3, <1>4, <1>12, <2>1, <2>2, AfterTransitionShape, StoreKept
          DEF StepTransitionWrite
<1>13. CASE JobTransitionRead(t)
  <2>1. /\ [x EXCEPT !.pc = "jobWrite"] \in ThreadState
        /\ ThreadShape([x EXCEPT !.pc = "jobWrite"])
    BY <1>1, <1>13 DEF JobTransitionRead, At, ThreadState, PC, ThreadShape
  <2> QED BY <1>3, <1>4, <1>13, <2>1, RestingThreads, StoreSame DEF JobTransitionRead
<1>14. CASE JobTransitionWrite(t)
  <2>1. 1 \in Steps /\ x.to \in JobStatus
    BY <1>1, <1>14, NStepsAssumption
       DEF JobTransitionWrite, At, ThreadShape, Terminal, JobStatus, Steps
  <2>2. StoreTypeOK' /\ gate' = gate
    BY <1>14, <2>1, TypedFacts, StoreWrites DEF JobTransitionWrite, WriteJob
  <2> QED BY <1>3, <1>4, <1>14, <2>2, RestingThreads, StoreKept DEF JobTransitionWrite
<1>15. CASE ExecuteAuto(t)
  <2>1. x.at \in Steps
    BY <1>1, <1>15 DEF ExecuteAuto, At, ThreadShape
  <2>2. Counted
    BY <1>15, <2>1, TypedFacts DEF ExecuteAuto, CountRun, Counted
  <2>3. {"succeeded", "failed_recoverable"} \subseteq StepStatus
    BY DEF StepStatus
  <2>4. Moved
    BY <1>1, <1>3, <1>15, <2>1, <2>3, OutcomeShape DEF ExecuteAuto
  <2> QED BY <1>15, <2>2, <2>4, StoreSame DEF ExecuteAuto
<1>16. CASE OpenGate(t)
  <2>1. x.at \in Steps
    BY <1>1, <1>16 DEF OpenGate, At, ThreadShape
  <2>2. Counted
    BY <1>16, <2>1, TypedFacts DEF OpenGate, CountRun, Counted
  <2>3. PICK g \in GateIds : InsertGate(g, x.at) /\ Go(t, [x EXCEPT !.pc = "post", !.g = g])
    BY <1>16 DEF OpenGate
  <2>4. /\ [x EXCEPT !.pc = "post", !.g = g] \in ThreadState
        /\ ThreadShape([x EXCEPT !.pc = "post", !.g = g])
    BY <1>1, <2>1 DEF ThreadState, PC, ThreadShape
  <2>5. Stored
    <3>1. StoreTypeOK' /\ GatesShaped'
      BY <2>1, <2>3, TypedFacts, GateWrites
    <3>2. \A h \in GateIds : gate'[h].status = "absent" => gate[h].status = "absent"
      BY <2>3, TypedFacts DEF InsertGate, StoreTypeOK
    <3> QED BY <3>1, <3>2 DEF Stored
  <2> QED BY <1>3, <2>2, <2>3, <2>4, <2>5
<1>17. CASE PostGate(t)
  <2>1. x.at \in Steps /\ x.g \in GateIds /\ "awaiting_gate" \in StepStatus
    BY <1>1, <1>17 DEF PostGate, At, ThreadShape, StepStatus
  <2>2. Counted
    BY <1>17, <2>1, TypedFacts DEF PostGate, CouncilStatus, Counted
  <2>3. Moved
    BY <1>1, <1>3, <1>17, <2>1, OutcomeShape DEF PostGate
  <2> QED BY <1>17, <2>2, <2>3, StoreSame DEF PostGate
<1>18. CASE RetryOrFail(t)
  <2>1. x.at \in Steps /\ {"pending", "failed_permanent"} \subseteq StepStatus
    BY <1>1, <1>18 DEF RetryOrFail, At, ThreadShape, StepStatus
  <2>2. /\ Transition(t, "failed_permanent") \in ThreadState
        /\ ThreadShape(Transition(t, "failed_permanent"))
        /\ [Transition(t, "pending") EXCEPT !.retry = @ + 1] \in ThreadState
        /\ ThreadShape([Transition(t, "pending") EXCEPT !.retry = @ + 1])
    <3> DEFINE y == Transition(t, "pending")
    <3>1. y \in ThreadState /\ ThreadShape(y) /\ y.pc = "stepRead" /\ y.at \in Steps
      BY <1>1, <2>1, OutcomeShape DEF Transition, ThreadState
    <3>2. /\ [y EXCEPT !.retry = @ + 1] \in ThreadState
          /\ ThreadShape([y EXCEPT !.retry = @ + 1])
      <4> HIDE DEF y
      <4> QED BY <3>1 DEF ThreadState, ThreadShape
    <3> QED BY <1>1, <2>1, <3>2, OutcomeShape
  <2>3. Stored
    <3>1. CASE BumpRetries(x.at)
      BY <2>1, <3>1, TypedFacts, StoreWrites, StoreKept DEF BumpRetries
    <3> QED BY <1>18, <3>1, StoreSame DEF RetryOrFail
  <2> QED BY <1>3, <1>4, <1>18, <2>2, <2>3 DEF RetryOrFail
<1> QED BY <1>5, <1>6, <1>7, <1>8, <1>9, <1>10, <1>11, <1>12, <1>13, <1>14, <1>15,
           <1>16, <1>17, <1>18 DEF Run, ThreadStep

\* The exec branch of a resume thread keeps everything typed.
LEMMA ExecTyped ==
    ASSUME Typed, NEW t \in Threads, ExecStep(t), UNCHANGED <<gateVars, crashes>>
    PROVE  Typed'
<1> DEFINE x == th[t]
<1>1. x \in ThreadState /\ ThreadShape(x)
  BY TypedFacts
<1>2. SUFFICES Moved /\ Stored /\ Counted /\ HostTypeOK'
  BY Reassemble, TypedFacts DEF gateVars
<1>3. ASSUME NEW y \in ThreadState, ThreadShape(y), Go(t, y) PROVE Moved
  BY <1>3, TypedFacts, GoKeepsShape DEF Moved
<1>4. /\ UNCHANGED <<council, ran>> => Counted
      /\ UNCHANGED hostVars => HostTypeOK'
  BY TypedFacts DEF Counted, HostTypeOK, hostVars
<1>5. ASSUME x.at \in Steps, NEW ok \in BOOLEAN
      PROVE  AuditDue(t, ok) \in ThreadState /\ ThreadShape(AuditDue(t, ok))
  BY <1>1, <1>5 DEF AuditDue, ThreadState, PC, StepStatus, ThreadShape
<1>6. CASE FindGate(t)
  <2>1. x.at \in Steps
    BY <1>1, <1>6 DEF FindGate, At, ThreadShape
  <2>2. Counted
    <3>1. CountRun(t) /\ UNCHANGED council
      BY <1>6 DEF FindGate
    <3> QED BY <2>1, <3>1, TypedFacts DEF CountRun, Counted
  <2>3. Moved
    <3>1. CASE Go(t, [x EXCEPT !.pc = "failed"])
      <4>1. "pending" \in StepStatus
        BY DEF StepStatus
      <4> QED BY <1>1, <1>3, <2>1, <3>1, <4>1, OutcomeShape
    <3>2. ASSUME NEW g \in GateIds, Go(t, [x EXCEPT !.pc = "consume", !.g = g])
          PROVE  Moved
      <4>1. /\ [x EXCEPT !.pc = "consume", !.g = g] \in ThreadState
            /\ ThreadShape([x EXCEPT !.pc = "consume", !.g = g])
        BY <1>1, <2>1 DEF ThreadState, PC, ThreadShape
      <4> QED BY <1>3, <3>2, <4>1
    <3>3. CASE Go(t, AuditDue(t, FALSE))
      BY <1>3, <1>5, <2>1, <3>3
    <3>4. \A s : NewestResolved(s) \subseteq GateIds
      BY DEF NewestResolved, ResolvedGates
    <3> QED BY <1>6, <3>1, <3>2, <3>3, <3>4 DEF FindGate
  <2> QED BY <1>4, <1>6, <2>2, <2>3, StoreSame DEF FindGate
<1>7. CASE Consume(t)
  <2>1. x.at \in Steps /\ x.g \in GateIds
    BY <1>1, <1>7 DEF Consume, At, ThreadShape
  <2>2. CASE Consumable(x.g)
    <3>1. /\ [x EXCEPT !.pc = "mutate"] \in ThreadState
          /\ ThreadShape([x EXCEPT !.pc = "mutate"])
      BY <1>1, <2>1 DEF ThreadState, PC, ThreadShape
    <3>2. StoreTypeOK' /\ GatesShaped'
      BY <1>7, <2>1, <2>2, TypedFacts, GateWrites DEF Consume
    <3>3. \A h \in GateIds : gate'[h].status = "absent" => gate[h].status = "absent"
      <4>1. ConsumeGate(x.g)
        BY <1>7, <2>2 DEF Consume
      <4> QED BY <2>1, <4>1, TypedFacts DEF ConsumeGate, StoreTypeOK
    <3> QED BY <1>3, <1>4, <1>7, <2>2, <3>1, <3>2, <3>3 DEF Consume, Stored
  <2>3. CASE ~Consumable(x.g)
    <3>1. "pending" \in StepStatus
      BY DEF StepStatus
    <3> QED BY <1>1, <1>3, <1>4, <1>7, <2>1, <2>3, <3>1, OutcomeShape, StoreSame DEF Consume
  <2> QED BY <2>2, <2>3
<1>8. CASE Mutate(t)
  <2>1. x.at \in Steps /\ x.g \in GateIds /\ "failed_recoverable" \in StepStatus
    BY <1>1, <1>8 DEF Mutate, At, ThreadShape, StepStatus
  <2>2. HostTypeOK'
    <3>1. errorLog' \subseteq Steps /\ audit' = audit
      BY <1>8, <2>1, TypedFacts DEF Mutate, HostTypeOK
    <3>2. mutations' \in [GateIds -> Nat]
      BY <1>8, <2>1, TypedFacts DEF Mutate, HostTypeOK
    <3> QED BY <3>1, <3>2, TypedFacts DEF HostTypeOK
  <2>3. Moved
    BY <1>1, <1>3, <1>5, <1>8, <2>1, OutcomeShape DEF Mutate
  <2> QED BY <1>4, <1>8, <2>2, <2>3, StoreSame DEF Mutate
<1>9. CASE RecordMutation(t)
  <2>1. x.at \in Steps /\ {"succeeded", "pending"} \subseteq StepStatus
    BY <1>1, <1>9 DEF RecordMutation, At, ThreadShape, StepStatus
  <2>2. RecoveredGate(x.at - 1) \subseteq GateIds \cup {0} /\ x.g \in GateIds \cup {0}
    BY <1>1 DEF RecoveredGate, ConsumedGates, ThreadState
  <2>3. HostTypeOK'
    <3> DEFINE ok == x.to = "succeeded"
    <3>1. ASSUME NEW g \in GateIds \cup {0}
          PROVE  [step |-> x.at, gate |-> g, ok |-> ok] \in AuditRow
      BY <2>1 DEF AuditRow
    <3>2. mutations' = mutations /\ errorLog' \subseteq Steps
      BY <1>9, <2>1, TypedFacts DEF RecordMutation, HostTypeOK
    <3>3. audit' \subseteq AuditRow
      <4>1. CASE UNCHANGED audit
        BY <4>1, TypedFacts DEF HostTypeOK
      <4>2. ASSUME NEW g \in IF ok THEN {x.g} ELSE RecoveredGate(x.at - 1),
                   audit' = audit \cup {[step |-> x.at, gate |-> g, ok |-> ok]}
            PROVE  audit' \subseteq AuditRow
        BY <2>2, <3>1, <4>2, TypedFacts DEF HostTypeOK
      <4> QED BY <1>9, <4>1, <4>2 DEF RecordMutation
    <3> QED BY <3>2, <3>3, TypedFacts DEF HostTypeOK
  <2>4. Moved
    BY <1>1, <1>3, <1>9, <2>1, OutcomeShape DEF RecordMutation
  <2> QED BY <1>4, <1>9, <2>3, <2>4, StoreSame DEF RecordMutation
<1> QED BY <1>6, <1>7, <1>8, <1>9 DEF ExecStep

\* What Typed says of the actions that move no thread but a handler.
LEMMA HandlerMoves ==
    ASSUME Typed, Stored, HostTypeOK', UNCHANGED <<th, ran, crashes>>,
           council' \in [GateIds -> CouncilStatus], todo' \subseteq GateIds,
           rs' \in [Handlers -> HandlerState],
           \A r \in Handlers : rs'[r] # rs[r] => HandlerShape(rs[r])'
    PROVE  Typed'
<1>1. \A r \in Handlers : HandlerShape(rs[r])'
  BY TypedFacts DEF Stored, HandlerShape
<1> QED BY <1>1, TypedFacts
        DEF Typed, TypeOK, ShapeOK, Stored, GatesShaped, ThreadTypeOK, HandlerTypeOK

\* A handler's move to a well-formed state, the rest of the delivery unchanged.
LEMMA SetKeepsShape ==
    ASSUME Typed, NEW r \in Handlers, NEW y \in HandlerState, Set(r, y),
           HandlerShape(y), Stored, UNCHANGED <<th, council, ran, hostVars, todo, crashes>>
    PROVE  Typed'
<1>1. HostTypeOK'
  BY TypedFacts DEF HostTypeOK, hostVars
<1>2. rs' \in [Handlers -> HandlerState]
  BY TypedFacts DEF Set
<1>3. ASSUME NEW q \in Handlers, rs'[q] # rs[q] PROVE HandlerShape(rs[q])'
  <2>1. rs'[q] = y /\ HandlerShape(y)
    BY <1>3, TypedFacts DEF Set
  <2>2. y.pc = "update" => gate[y.g].status # "absent" /\ y.g \in GateIds
    BY <2>1 DEF HandlerShape
  <2>3. y.pc = "update" => gate'[y.g].status # "absent"
    BY <2>2 DEF Stored
  <2> QED BY <2>1, <2>3 DEF HandlerShape
<1> QED BY <1>1, <1>2, <1>3, HandlerMoves, TypedFacts

\* The states a handler is put in.
LEMMA HandlerStates ==
    /\ NewHandler("idle") \in HandlerState /\ HandlerShape(NewHandler("idle"))
    /\ NewHandler("new") \in HandlerState /\ HandlerShape(NewHandler("new"))
    /\ NewHandler("done") \in HandlerState /\ HandlerShape(NewHandler("done"))
    /\ \A r : Finished(r) \in HandlerState /\ HandlerShape(Finished(r))
    /\ \A g \in GateIds : Resolving(g) \in HandlerState /\ HandlerShape(Resolving(g))
<1>1. 0 \in 0..NSteps
  BY NStepsAssumption
<1> QED BY <1>1 DEF NewHandler, HandlerState, HandlerPC, HandlerShape, Finished, Resolving

LEMMA HandlerNames ==
    /\ <<Poller, 0>> \in Handlers
    /\ \A g \in CallbackGates : <<"callback", g>> \in Handlers
    /\ OverrideCalls \subseteq Handlers
BY DEF Handlers, Callbacks

\* The council's decision and the two ways it arrives keep everything typed.
LEMMA DeliveryTyped ==
    ASSUME Typed, UNCHANGED crashes,
           \/ \E g \in GateIds : Decide(g) \/ PollAnswered(g) \/ PollUnanswered(g)
           \/ \E g \in CallbackGates : Callback(g) \/ LoseCallback(g)
           \/ PollCycle
    PROVE  Typed'
<1>1. ASSUME NEW g \in GateIds, Decide(g) PROVE Typed'
  <2>1. council' \in [GateIds -> CouncilStatus]
    BY <1>1, TypedFacts DEF Decide, CouncilStatus
  <2>2. UNCHANGED <<storeVars, th, ran, hostVars, rs, todo>>
    BY <1>1 DEF Decide, gateVars
  <2>3. HostTypeOK'
    BY <2>2, TypedFacts DEF HostTypeOK, hostVars
  <2> QED BY <2>1, <2>2, <2>3, TypedFacts, StoreSame, HandlerMoves
<1>2. ASSUME NEW g \in GateIds, PollAnswered(g) PROVE Typed'
  <2>1. /\ Set(<<Poller, 0>>, Resolving(g))
        /\ UNCHANGED <<storeVars, th, council, ran, hostVars>>
        /\ todo' \subseteq GateIds
    BY <1>2, TypedFacts DEF PollAnswered, PollNext
  <2>2. Resolving(g) \in HandlerState /\ HandlerShape(Resolving(g))
    BY HandlerStates
  <2>3. rs' \in [Handlers -> HandlerState]
    BY <2>1, <2>2, TypedFacts DEF Set
  <2>4. ASSUME NEW q \in Handlers, rs'[q] # rs[q] PROVE HandlerShape(rs[q])'
    <3>1. rs'[q] = Resolving(g) /\ gate' = gate
      BY <2>1, <2>4, TypedFacts DEF Set, storeVars
    <3> QED BY <2>2, <3>1 DEF HandlerShape
  <2>5. HostTypeOK'
    BY <2>1, TypedFacts DEF HostTypeOK, hostVars
  <2> QED BY <2>1, <2>3, <2>4, <2>5, TypedFacts, StoreSame, HandlerMoves
<1>3. ASSUME NEW g \in GateIds, PollUnanswered(g) PROVE Typed'
  <2>1. UNCHANGED <<storeVars, th, council, ran, hostVars, rs>> /\ todo' \subseteq GateIds
    BY <1>3, TypedFacts DEF PollUnanswered, PollNext
  <2>2. HostTypeOK'
    BY <2>1, TypedFacts DEF HostTypeOK, hostVars
  <2> QED BY <2>1, <2>2, TypedFacts, StoreSame, HandlerMoves
<1>4. ASSUME NEW g \in CallbackGates, Callback(g) PROVE Typed'
  <2>1. Resolving(g) \in HandlerState /\ HandlerShape(Resolving(g))
    BY HandlerStates, CallbackGatesAssumption
  <2> QED BY <1>4, <2>1, HandlerNames, SetKeepsShape, StoreSame DEF Callback
<1>5. ASSUME NEW g \in CallbackGates, LoseCallback(g) PROVE Typed'
  <2>1. NewHandler("done") \in HandlerState /\ HandlerShape(NewHandler("done"))
    BY HandlerStates
  <2> QED BY <1>5, <2>1, HandlerNames, SetKeepsShape, StoreSame DEF LoseCallback
<1>6. CASE PollCycle
  <2>1. StoreTypeOK' /\ GatesShaped'
    BY <1>6, TypedFacts, RetireWrites DEF PollCycle
  <2>2. \A g \in GateIds : gate'[g].status = "absent" => gate[g].status = "absent"
    BY <1>6, TypedFacts DEF PollCycle, RetireOrphans, StoreTypeOK, Orphans, PendingGates
  <2>3. todo' \subseteq GateIds /\ UNCHANGED <<th, council, ran, hostVars, rs>>
    BY <1>6 DEF PollCycle, PendingGates
  <2>4. HostTypeOK'
    BY <2>3, TypedFacts DEF HostTypeOK, hostVars
  <2> QED BY <2>1, <2>2, <2>3, <2>4, TypedFacts, HandlerMoves DEF Stored
<1> QED BY <1>1, <1>2, <1>3, <1>4, <1>5, <1>6

\* A callback, the poller or an override at work keeps everything typed.
LEMMA ResolveTyped ==
    ASSUME Typed, NEW r \in Handlers, ResolveStep(r) \/ OverrideCheck(r), UNCHANGED crashes
    PROVE  Typed'
<1> DEFINE x == rs[r]
<1>1. x \in HandlerState /\ HandlerShape(x) /\ 0 \in 0..NSteps
  BY TypedFacts, NStepsAssumption
<1>2. ASSUME NEW y \in HandlerState, HandlerShape(y), Set(r, y), Stored,
             UNCHANGED <<th, council, ran, hostVars, todo>>
      PROVE  Typed'
  BY <1>2, SetKeepsShape
<1>3. ASSUME x.step \in Steps
      PROVE  /\ Resolved(r) \in HandlerState /\ HandlerShape(Resolved(r))
             /\ [x EXCEPT !.pc = "stepWrite"] \in HandlerState
             /\ HandlerShape([x EXCEPT !.pc = "stepWrite"])
  BY <1>1, <1>3 DEF Resolved, HandlerState, HandlerPC, HandlerShape
<1>4. CASE ResolveCheck(r)
  <2>1. CASE gate[x.g].status = "pending"
    <3>1. /\ [x EXCEPT !.pc = "update"] \in HandlerState
          /\ HandlerShape([x EXCEPT !.pc = "update"])
      BY <1>1, <1>4, <2>1 DEF ResolveCheck, In, HandlerState, HandlerPC, HandlerShape
    <3> QED BY <1>2, <1>4, <2>1, <3>1, StoreSame DEF ResolveCheck
  <2>2. CASE gate[x.g].status # "pending"
    BY <1>2, <1>4, <2>2, HandlerStates, StoreSame DEF ResolveCheck
  <2> QED BY <2>1, <2>2
<1>5. CASE ResolveUpdate(r)
  <2>1. x.g \in GateIds /\ x.yes \in BOOLEAN /\ gate[x.g].status # "absent"
    BY <1>1, <1>5 DEF ResolveUpdate, In, HandlerState, HandlerShape
  <2>2. gate[x.g].step \in Steps /\ gate[x.g].step \in 0..NSteps
    BY <2>1, TypedFacts DEF GatesShaped, Steps
  <2>3. Stored
    <3>1. WriteResolution(x.g, x.yes)
      BY <1>5 DEF ResolveUpdate
    <3>2. StoreTypeOK' /\ GatesShaped'
      BY <2>1, <3>1, TypedFacts, GateWrites
    <3>3. \A h \in GateIds : gate'[h].status = "absent" => gate[h].status = "absent"
      BY <2>1, <3>1, TypedFacts DEF WriteResolution, StoreTypeOK
    <3> QED BY <3>2, <3>3 DEF Stored
  <2>4. /\ [x EXCEPT !.pc = "stepRead", !.step = gate[x.g].step] \in HandlerState
        /\ HandlerShape([x EXCEPT !.pc = "stepRead", !.step = gate[x.g].step])
    BY <1>1, <2>2 DEF HandlerState, HandlerPC, HandlerShape
  <2> QED BY <1>2, <1>5, <2>3, <2>4 DEF ResolveUpdate
<1>6. CASE HandlerStepRead(r)
  <2>1. x.step \in Steps
    BY <1>1, <1>6 DEF HandlerStepRead, In, HandlerShape
  <2> QED BY <1>2, <1>3, <1>6, <2>1, StoreSame DEF HandlerStepRead
<1>7. CASE HandlerStepWrite(r)
  <2>1. x.step \in Steps /\ {"succeeded", "failed_permanent"} \subseteq StepStatus
    BY <1>1, <1>7 DEF HandlerStepWrite, In, HandlerShape, StepStatus
  <2>2. StoreTypeOK' /\ gate' = gate
    BY <1>7, <2>1, TypedFacts, StoreWrites DEF HandlerStepWrite, WriteStep
  <2> QED BY <1>2, <1>3, <1>7, <2>1, <2>2, StoreKept DEF HandlerStepWrite
<1>8. CASE TriggerResume(r)
  <2>1. Moved
    BY <1>8, TypedFacts, RestingThreads, GoKeepsShape DEF TriggerResume, Moved
  <2>2. rs' \in [Handlers -> HandlerState] /\ \A q \in Handlers : HandlerShape(rs[q])'
    <3>1. UNCHANGED storeVars /\ Set(r, Finished(r))
      BY <1>8 DEF TriggerResume
    <3>2. rs' \in [Handlers -> HandlerState]
      BY <3>1, HandlerStates, TypedFacts DEF Set
    <3>3. ASSUME NEW q \in Handlers PROVE HandlerShape(rs'[q])
      BY <3>1, HandlerStates, TypedFacts DEF Set
    <3>4. gate' = gate
      BY <3>1 DEF storeVars
    <3> QED BY <3>2, <3>3, <3>4 DEF HandlerShape
  <2>3. StoreTypeOK' /\ GatesShaped' /\ HostTypeOK'
    BY <1>8, TypedFacts, StoreSame DEF TriggerResume, Stored, HostTypeOK, hostVars
  <2>4. /\ council' \in [GateIds -> CouncilStatus] /\ ran' \in [Steps -> Nat]
        /\ todo' \subseteq GateIds /\ crashes' \in 0..MaxCrashes
    BY <1>8, TypedFacts DEF TriggerResume
  <2> QED BY <2>1, <2>2, <2>3, <2>4
          DEF Moved, Typed, TypeOK, ShapeOK, GatesShaped, ThreadTypeOK, HandlerTypeOK
<1>9. CASE OverrideRecord(r)
  <2>1. x.step \in Steps
    BY <1>1, <1>9 DEF OverrideRecord, In, HandlerShape
  <2>2. StoreTypeOK' /\ gate' = gate
    BY <1>9, <2>1, TypedFacts, StoreWrites DEF OverrideRecord, RecordOverride
  <2>3. [x EXCEPT !.pc = "spawn"] \in HandlerState /\ HandlerShape([x EXCEPT !.pc = "spawn"])
    BY <1>1 DEF HandlerState, HandlerPC, HandlerShape
  <2> QED BY <1>2, <1>9, <2>2, <2>3, StoreKept DEF OverrideRecord
<1>10. CASE OverrideCheck(r)
  <2>1. PICK s \in Steps : Set(r, [NewHandler("stepRead") EXCEPT !.yes = TRUE, !.step = s])
    BY <1>10 DEF OverrideCheck, Existing
  <2>2. /\ [NewHandler("stepRead") EXCEPT !.yes = TRUE, !.step = s] \in HandlerState
        /\ HandlerShape([NewHandler("stepRead") EXCEPT !.yes = TRUE, !.step = s])
    <3>1. s \in 0..NSteps
      BY NStepsAssumption DEF Steps
    <3>2. NewHandler("stepRead") \in HandlerState
      BY <1>1 DEF NewHandler, HandlerState, HandlerPC
    <3>3. NewHandler("stepRead").pc = "stepRead"
      BY DEF NewHandler
    <3> QED BY <3>1, <3>2, <3>3 DEF HandlerState, HandlerShape
  <2> QED BY <1>2, <1>10, <2>1, <2>2, StoreSame DEF OverrideCheck
<1> QED BY <1>4, <1>5, <1>6, <1>7, <1>8, <1>9, <1>10 DEF ResolveStep

\* A restart keeps everything typed.
LEMMA RestartTyped ==
    ASSUME Typed, Restart PROVE Typed'
<1>1. UNCHANGED <<storeVars, council, ran, hostVars>> /\ todo' = {}
  BY DEF Restart
<1>2. Moved
  BY TypedFacts, RestingThreads DEF Restart, ResumeInterrupted, Moved
<1>3. rs' \in [Handlers -> HandlerState] /\ \A q \in Handlers : HandlerShape(rs[q])'
  <2>1. rs' \in [Handlers -> HandlerState]
    BY HandlerStates, TypedFacts DEF Restart
  <2>2. ASSUME NEW q \in Handlers PROVE HandlerShape(rs'[q])
    BY HandlerStates, TypedFacts DEF Restart
  <2>3. gate' = gate
    BY <1>1 DEF storeVars
  <2> QED BY <2>1, <2>2, <2>3 DEF HandlerShape
<1>4. StoreTypeOK' /\ GatesShaped' /\ HostTypeOK'
  BY <1>1, TypedFacts, StoreSame DEF Stored, HostTypeOK, hostVars
<1>5. crashes' \in 0..MaxCrashes
  BY TypedFacts, MaxCrashesAssumption DEF Restart
<1> QED BY <1>1, <1>2, <1>3, <1>4, <1>5, TypedFacts
        DEF Moved, Typed, TypeOK, ShapeOK, GatesShaped, ThreadTypeOK, HandlerTypeOK

LEMMA InitTyped == Init => Typed
<1> SUFFICES ASSUME Init PROVE Typed
  OBVIOUS
<1>1. StoreTypeOK
  BY NStepsAssumption
     DEF Init, StoreInit, StoreTypeOK, StepRow, GateRow, NoStepRow, NoGateRow,
         StepStatus, GateStatus, JobStatus
<1>2. ThreadTypeOK /\ \A t \in Threads : ThreadShape(th[t])
  BY RestingThreads DEF Init, ThreadInit, ThreadTypeOK, CouncilStatus
<1>3. HandlerTypeOK /\ \A r \in Handlers : HandlerShape(rs[r])
  BY HandlerStates DEF Init, HandlerInit, HandlerTypeOK
<1>4. HostTypeOK /\ crashes \in 0..MaxCrashes /\ GatesShaped
  BY MaxCrashesAssumption
     DEF Init, HostInit, HostTypeOK, StoreInit, GatesShaped, NoGateRow
<1> QED BY <1>1, <1>2, <1>3, <1>4 DEF Typed, TypeOK, ShapeOK, GatesShaped

LEMMA NextTyped == Typed /\ [Next]_vars => Typed'
<1> SUFFICES ASSUME Typed, [Next]_vars PROVE Typed'
  OBVIOUS
<1>1. ASSUME NEW t \in Threads, Run(t), UNCHANGED <<hostVars, gateVars, crashes>>
      PROVE  Typed'
  BY <1>1, RunTyped
<1>2. ASSUME NEW t \in Threads, ExecStep(t), UNCHANGED <<gateVars, crashes>>
      PROVE  Typed'
  BY <1>2, ExecTyped
<1>3. ASSUME UNCHANGED crashes,
             \/ \E g \in GateIds : Decide(g) \/ PollAnswered(g) \/ PollUnanswered(g)
             \/ \E g \in CallbackGates : Callback(g) \/ LoseCallback(g)
             \/ PollCycle
      PROVE  Typed'
  BY <1>3, DeliveryTyped
<1>4. ASSUME NEW r \in Handlers, ResolveStep(r) \/ OverrideCheck(r), UNCHANGED crashes
      PROVE  Typed'
  BY <1>4, ResolveTyped
<1>5. CASE UNCHANGED vars
  BY <1>5 DEF vars, storeVars, hostVars, gateVars, Typed, TypeOK, ShapeOK, StoreTypeOK,
              ThreadTypeOK, HostTypeOK, HandlerTypeOK, HandlerShape
<1> QED BY <1>1, <1>2, <1>3, <1>4, <1>5, RestartTyped DEF Next

\* Every row, thread, handler and audit record has its type, and the data in
\* hand fits the program counter: no operation is applied to an unknown step or
\* gate (engine.py, workflow_base.py, main.py).
THEOREM Typing == Spec => []TypeOK
<1>1. Typed => TypeOK
  BY DEF Typed
<1> QED BY <1>1, InitTyped, NextTyped, PTL DEF Spec

\* The stronger form later theorems use.
THEOREM Shaping == Spec => []Typed
BY InitTyped, NextTyped, PTL DEF Spec

-----------------------------------------------------------------------------
\* The strengthening: the approval bit of a gate row, and a thread that holds a
\* consumed gate, have the approval on record.  Without it a step that mutates
\* could not be tied to the decision that was recorded several steps earlier.
ApprovalInv == Typed /\ ApprovalOnRecord /\ MutationApproved

\* What leaves the invariant alone: approvals stay on record, no row gains an
\* approval bit, no mutation happens and no thread gets to hold a consumed gate.
ApprovalsKept ==
    /\ events \subseteq events'
    /\ \A g \in GateIds : gate'[g].approved => gate[g].approved
    /\ \A u \in Threads : th'[u].pc = "mutate" => th'[u] = th[u]

LEMMA KeptApproves ==
    ASSUME ApprovalInv, Typed', ApprovalsKept, mutations' = mutations
    PROVE  ApprovalInv'
BY DEF ApprovalInv, ApprovalOnRecord, MutationApproved, ApprovalsKept

\* A thread that goes on elsewhere.
LEMMA GoElsewhere ==
    ASSUME Typed, NEW t \in Threads, NEW y, Go(t, y), y.pc # "mutate"
    PROVE  \A u \in Threads : th'[u].pc = "mutate" => th'[u] = th[u]
BY TypedFacts DEF Go

LEMMA AdvanceElsewhere ==
    ASSUME Typed, NEW t \in Threads, NEW x \in ThreadState, NEW i, Advance(t, x, i)
    PROVE  \A u \in Threads : th'[u].pc = "mutate" => th'[u] = th[u]
<1>1. CASE Go(t, [x EXCEPT !.pc = "final", !.at = 0])
  BY <1>1, GoElsewhere DEF ThreadState
<1>2. ASSUME NEW s \in NextRow(x.snap, i), Go(t, Visit(x, s))
      PROVE  \A u \in Threads : th'[u].pc = "mutate" => th'[u] = th[u]
  <2>1. Visit(x, s).pc # "mutate"
    BY DEF Visit, Idle, ThreadState
  <2> QED BY <1>2, <2>1, GoElsewhere
<1> QED BY <1>1, <1>2 DEF Advance

LEMMA AfterElsewhere ==
    ASSUME NEW x \in ThreadState, x.pc # "mutate"
    PROVE  AfterTransition(x).pc # "mutate"
BY DEF AfterTransition, Idle, ThreadState

\* The workflow's own steps create no approval and hold no gate.
LEMMA RunApproves ==
    ASSUME Typed, NEW t \in Threads, Run(t) PROVE ApprovalsKept
<1> DEFINE x == th[t]
<1>1. x \in ThreadState /\ StoreTypeOK
  BY TypedFacts
<1>2. ASSUME NEW y, y.pc # "mutate", Go(t, y), gate' = gate, events \subseteq events'
      PROVE  ApprovalsKept
  BY <1>2, GoElsewhere DEF ApprovalsKept
<1>3. Idle.pc # "mutate" /\ Fresh.pc # "mutate"
  BY DEF Idle, Fresh
<1>4. ASSUME NEW status PROVE Transition(t, status).pc # "mutate"
  BY <1>1 DEF Transition, ThreadState
<1>5. CASE StartJob(t)
  <2>1. [Idle EXCEPT !.pc = "create", !.at = 1].pc # "mutate"
    BY DEF Idle
  <2> QED BY <1>2, <1>5, <2>1 DEF StartJob, CreateJobRow
<1>6. CASE StartStep(t)
  <2> DEFINE y == IF x.at < NSteps THEN [x EXCEPT !.at = @ + 1] ELSE [Idle EXCEPT !.pc = "start"]
  <2>1. y.pc # "mutate"
    BY <1>1, <1>6 DEF StartStep, At, Idle, ThreadState
  <2> HIDE DEF y
  <2>2. Go(t, y) /\ gate' = gate /\ events' = events
    BY <1>6 DEF StartStep, CreateStepRow, y
  <2> QED BY <1>2, <2>1, <2>2
<1>7. CASE StartRunning(t)
  BY <1>2, <1>3, <1>7 DEF StartRunning, WriteJob
<1>8. CASE ResumeSnapshot(t)
  <2>1. [x EXCEPT !.snap = step] \in ThreadState
    BY <1>1 DEF ThreadState, StoreTypeOK
  <2> QED BY <1>8, <2>1, AdvanceElsewhere DEF ResumeSnapshot, storeVars, ApprovalsKept
<1>9. CASE ResumeReread(t)
  <2>1. [x EXCEPT !.pc = "jobRead", !.to = "failed_permanent"].pc # "mutate"
    BY <1>1 DEF ThreadState
  <2> QED BY <1>1, <1>2, <1>9, <2>1, AdvanceElsewhere DEF ResumeReread, storeVars, ApprovalsKept
<1>10. CASE ResumeFinal(t)
  <2>1. [x EXCEPT !.pc = "jobRead", !.to = RollUp].pc # "mutate"
    BY <1>1 DEF ThreadState
  <2> QED BY <1>2, <1>3, <1>10, <2>1 DEF ResumeFinal, storeVars
<1>11. CASE StepTransitionRead(t)
  <2>1. AfterTransition(x).pc # "mutate" /\ [x EXCEPT !.pc = "stepWrite"].pc # "mutate"
    BY <1>1, <1>11, AfterElsewhere DEF StepTransitionRead, At, ThreadState
  <2> QED BY <1>2, <1>11, <2>1 DEF StepTransitionRead, storeVars
<1>12. CASE StepTransitionWrite(t)
  <2>1. AfterTransition(x).pc # "mutate"
    BY <1>1, <1>12, AfterElsewhere DEF StepTransitionWrite, At
  <2> QED BY <1>2, <1>12, <2>1 DEF StepTransitionWrite, WriteStep
<1>13. CASE JobTransitionRead(t)
  <2>1. [x EXCEPT !.pc = "jobWrite"].pc # "mutate"
    BY <1>1 DEF ThreadState
  <2> QED BY <1>2, <1>3, <1>13, <2>1 DEF JobTransitionRead, storeVars
<1>14. CASE JobTransitionWrite(t)
  BY <1>2, <1>3, <1>14 DEF JobTransitionWrite, WriteJob
<1>15. CASE ExecuteAuto(t)
  <2>1. [x EXCEPT !.pc = "failed"].pc # "mutate"
    BY <1>1 DEF ThreadState
  <2> QED BY <1>2, <1>4, <1>15, <2>1 DEF ExecuteAuto, storeVars
<1>16. CASE OpenGate(t)
  <2>1. PICK g \in GateIds : InsertGate(g, x.at) /\ Go(t, [x EXCEPT !.pc = "post", !.g = g])
    BY <1>16 DEF OpenGate
  <2>2. [x EXCEPT !.pc = "post", !.g = g].pc # "mutate"
    BY <1>1 DEF ThreadState
  <2>3. \A u \in Threads : th'[u].pc = "mutate" => th'[u] = th[u]
    BY <2>1, <2>2, GoElsewhere
  <2>4. events' = events /\ \A h \in GateIds : gate'[h].approved => gate[h].approved
    BY <1>1, <2>1 DEF InsertGate, StoreTypeOK
  <2> QED BY <2>3, <2>4 DEF ApprovalsKept
<1>17. CASE PostGate(t)
  <2>1. [x EXCEPT !.pc = "failed", !.g = 0].pc # "mutate"
    BY <1>1 DEF ThreadState
  <2> QED BY <1>2, <1>4, <1>17, <2>1 DEF PostGate, storeVars
<1>18. CASE RetryOrFail(t)
  <2>1. [Transition(t, "pending") EXCEPT !.retry = @ + 1].pc # "mutate"
    BY <1>1 DEF Transition, ThreadState
  <2>2. gate' = gate /\ events' = events
    BY <1>18 DEF RetryOrFail, BumpRetries, storeVars
  <2> QED BY <1>2, <1>4, <1>18, <2>1, <2>2 DEF RetryOrFail
<1> QED BY <1>5, <1>6, <1>7, <1>8, <1>9, <1>10, <1>11, <1>12, <1>13, <1>14, <1>15,
           <1>16, <1>17, <1>18 DEF Run, ThreadStep

\* The exec branch: only an approved gate is consumed, only a thread that
\* consumed one mutates.
LEMMA ExecApproves ==
    ASSUME ApprovalInv, Typed', NEW t \in Threads, ExecStep(t)
    PROVE  ApprovalInv'
<1> DEFINE x == th[t]
<1>1. x \in ThreadState /\ ThreadShape(x) /\ StoreTypeOK /\ Typed
  BY TypedFacts DEF ApprovalInv
<1>2. ASSUME NEW ok PROVE AuditDue(t, ok).pc # "mutate"
  BY <1>1 DEF AuditDue, ThreadState
<1>3. CASE FindGate(t)
  <2>1. [x EXCEPT !.pc = "failed"].pc # "mutate"
    BY <1>1 DEF ThreadState
  <2>2. ASSUME NEW g PROVE [x EXCEPT !.pc = "consume", !.g = g].pc # "mutate"
    BY <1>1 DEF ThreadState
  <2>3. \A u \in Threads : th'[u].pc = "mutate" => th'[u] = th[u]
    BY <1>1, <1>2, <1>3, <2>1, <2>2, GoElsewhere DEF FindGate
  <2> QED BY <1>3, <2>3, KeptApproves DEF FindGate, ApprovalsKept, storeVars, hostVars
<1>4. CASE Consume(t)
  <2>1. CASE Consumable(x.g)
    <3>1. ConsumeGate(x.g) /\ Go(t, [x EXCEPT !.pc = "mutate"]) /\ mutations' = mutations
      BY <1>4, <2>1 DEF Consume, hostVars
    <3>2. x.g \in GateIds
      BY <1>1, <1>4 DEF Consume, At, ThreadShape
    <3>3. <<"gate", x.g, "approved">> \in events
      BY <2>1, <3>2 DEF ApprovalInv, ApprovalOnRecord, Consumable
    <3>4. \A g \in GateIds : gate'[g].approved => gate[g].approved
      BY <1>1, <3>1 DEF ConsumeGate, StoreTypeOK
    <3>5. ASSUME NEW u \in Threads, th'[u].pc = "mutate"
          PROVE  <<"gate", th'[u].g, "approved">> \in events
      <4>1. CASE u = t
        <5>1. th'[u].g = x.g
          BY <1>1, <3>1, <4>1, TypedFacts DEF Go, ThreadState
        <5> QED BY <3>3, <5>1
      <4>2. CASE u # t
        BY <1>1, <3>1, <3>5, <4>2, TypedFacts DEF Go, ApprovalInv, ApprovalOnRecord
      <4> QED BY <4>1, <4>2
    <3> QED BY <3>1, <3>4, <3>5 DEF ApprovalInv, ApprovalOnRecord, MutationApproved, ConsumeGate
  <2>2. CASE ~Consumable(x.g)
    <3>1. [x EXCEPT !.pc = "failed", !.g = 0].pc # "mutate"
      BY <1>1 DEF ThreadState
    <3> QED BY <1>1, <1>4, <2>2, <3>1, GoElsewhere, KeptApproves
            DEF Consume, ApprovalsKept, storeVars, hostVars
  <2> QED BY <2>1, <2>2
<1>5. CASE Mutate(t)
  <2>1. x.g \in GateIds /\ <<"gate", x.g, "approved">> \in events
    BY <1>1, <1>5 DEF Mutate, At, ThreadShape, ApprovalInv, ApprovalOnRecord
  <2>2. \A g \in GateIds : g # x.g => mutations'[g] = mutations[g]
    BY <1>1, <1>5, TypedFacts DEF Mutate, HostTypeOK
  <2>3. \A u \in Threads : th'[u].pc = "mutate" => th'[u] = th[u]
    <3>1. Transition(t, "failed_recoverable").pc # "mutate"
      BY <1>1 DEF Transition, ThreadState
    <3> QED BY <1>1, <1>2, <1>5, <3>1, GoElsewhere DEF Mutate
  <2>4. UNCHANGED storeVars
    BY <1>5 DEF Mutate
  <2> QED BY <2>1, <2>2, <2>3, <2>4 DEF ApprovalInv, ApprovalOnRecord, MutationApproved, storeVars
<1>6. CASE RecordMutation(t)
  <2>1. /\ Transition(t, "succeeded").pc # "mutate"
        /\ [x EXCEPT !.pc = "failed", !.g = 0].pc # "mutate"
    BY <1>1 DEF Transition, ThreadState
  <2>2. \A u \in Threads : th'[u].pc = "mutate" => th'[u] = th[u]
    BY <1>1, <1>6, <2>1, GoElsewhere DEF RecordMutation
  <2> QED BY <1>6, <2>2, KeptApproves DEF RecordMutation, ApprovalsKept, storeVars
<1> QED BY <1>3, <1>4, <1>5, <1>6 DEF ExecStep

\* Only resolve_gate sets an approval bit, and it puts it on record.
LEMMA ResolveApproves ==
    ASSUME ApprovalInv, Typed', NEW r \in Handlers, ResolveStep(r) \/ OverrideCheck(r)
    PROVE  ApprovalInv'
<1>1. Typed /\ StoreTypeOK /\ HandlerShape(rs[r])
  BY TypedFacts DEF ApprovalInv
<1>2. CASE ResolveUpdate(r)
  <2> DEFINE g == rs[r].g
  <2>1. WriteResolution(g, rs[r].yes) /\ UNCHANGED <<th, mutations>>
    BY <1>2 DEF ResolveUpdate, hostVars
  <2>2. ASSUME NEW h \in GateIds, gate'[h].approved
        PROVE  <<"gate", h, "approved">> \in events'
    <3>1. CASE h = g
      BY <1>1, <2>1, <2>2, <3>1 DEF WriteResolution, StoreTypeOK
    <3>2. CASE h # g
      BY <1>1, <2>1, <2>2, <3>2
         DEF WriteResolution, StoreTypeOK, ApprovalInv, ApprovalOnRecord
    <3> QED BY <3>1, <3>2
  <2>3. events \subseteq events'
    BY <2>1 DEF WriteResolution
  <2> QED BY <2>1, <2>2, <2>3 DEF ApprovalInv, ApprovalOnRecord, MutationApproved
<1>3. CASE ResolveCheck(r) \/ HandlerStepRead(r) \/ OverrideCheck(r)
  BY <1>3, KeptApproves
     DEF ResolveCheck, HandlerStepRead, OverrideCheck, ApprovalsKept, storeVars, hostVars
<1>4. CASE HandlerStepWrite(r)
  BY <1>4, KeptApproves DEF HandlerStepWrite, WriteStep, ApprovalsKept, hostVars
<1>5. CASE OverrideRecord(r)
  BY <1>5, KeptApproves DEF OverrideRecord, RecordOverride, ApprovalsKept, hostVars
<1>6. CASE TriggerResume(r)
  <2>1. Fresh.pc # "mutate"
    BY DEF Fresh, Idle
  <2>2. \A u \in Threads : th'[u].pc = "mutate" => th'[u] = th[u]
    BY <1>1, <1>6, <2>1, GoElsewhere DEF TriggerResume
  <2> QED BY <1>6, <2>2, KeptApproves DEF TriggerResume, ApprovalsKept, storeVars, hostVars
<1> QED BY <1>2, <1>3, <1>4, <1>5, <1>6 DEF ResolveStep

LEMMA RestOfNextApproves ==
    ASSUME ApprovalInv, Typed',
           \/ \E g \in GateIds : Decide(g) \/ PollAnswered(g) \/ PollUnanswered(g)
           \/ \E g \in CallbackGates : Callback(g) \/ LoseCallback(g)
           \/ PollCycle
           \/ Restart
    PROVE  ApprovalInv'
<1>1. Typed /\ StoreTypeOK
  BY TypedFacts DEF ApprovalInv
<1>2. ASSUME NEW g \in GateIds, Decide(g) \/ PollAnswered(g) \/ PollUnanswered(g)
      PROVE  ApprovalInv'
  BY <1>2, KeptApproves
     DEF Decide, PollAnswered, PollUnanswered, PollNext, ApprovalsKept, storeVars, hostVars
<1>3. ASSUME NEW g \in CallbackGates, Callback(g) \/ LoseCallback(g) PROVE ApprovalInv'
  BY <1>3, KeptApproves DEF Callback, LoseCallback, ApprovalsKept, storeVars, hostVars
<1>4. CASE PollCycle
  <2>1. \A g \in GateIds : gate'[g].approved => gate[g].approved
    BY <1>1, <1>4 DEF PollCycle, RetireOrphans, StoreTypeOK
  <2> QED BY <1>4, <2>1, KeptApproves DEF PollCycle, RetireOrphans, ApprovalsKept, hostVars
<1>5. CASE Restart
  <2>1. \A u \in Threads : th'[u].pc # "mutate"
    BY <1>5 DEF Restart, ResumeInterrupted, Fresh, Idle
  <2> QED BY <1>5, <2>1, KeptApproves DEF Restart, ApprovalsKept, storeVars, hostVars
<1> QED BY <1>2, <1>3, <1>4, <1>5

\* Every host mutation has an approved gate behind it (hostops_deploy.py:3-4),
\* whatever threads, deliverers, overrides and restarts do.
THEOREM Approved == Spec => []MutationApproved
<1>1. Init => ApprovalInv
  <2>1. Init => MutationApproved /\ ApprovalOnRecord
    BY DEF Init, StoreInit, ThreadInit, HostInit, NoGateRow, Idle,
           MutationApproved, ApprovalOnRecord
  <2> QED BY <2>1, InitTyped DEF ApprovalInv
<1>2. ApprovalInv /\ [Next]_vars => ApprovalInv'
  <2> SUFFICES ASSUME ApprovalInv, [Next]_vars PROVE ApprovalInv'
    OBVIOUS
  <2>1. Typed'
    BY NextTyped DEF ApprovalInv
  <2>2. ASSUME NEW t \in Threads, Run(t), UNCHANGED <<hostVars, gateVars, crashes>>
        PROVE  ApprovalInv'
    BY <2>1, <2>2, RunApproves, KeptApproves DEF ApprovalInv, hostVars
  <2>3. CASE UNCHANGED vars
    BY <2>1, <2>3, KeptApproves DEF vars, storeVars, hostVars, ApprovalsKept
  <2> QED BY <2>1, <2>2, <2>3, ExecApproves, ResolveApproves, RestOfNextApproves DEF Next
<1>3. ApprovalInv => MutationApproved
  BY DEF ApprovalInv
<1> QED BY <1>1, <1>2, <1>3, PTL DEF Spec

(***************************************************************************)
(* Rows exist                                                              *)
(***************************************************************************)

RowsInv == Typed /\ RowsExist

\* The part of RowsExist about one thread.
RowPC == {"stepRead", "stepWrite", "execute", "post", "failed", "reread",
          "consume", "mutate", "audit"}
OnRow(x) == /\ \A s \in Steps : x.snap[s].status # "absent" => s \in Existing
            /\ x.pc \in RowPC => x.at \in Existing
            /\ x.pc \in {"stepRead", "stepWrite"} => x.to # "absent"
HandlerOnRow(x) == x.pc \in {"stepRead", "stepWrite"} => x.step \in Existing

\* Rows stay, gates keep their step, handlers stay put.
RowsStay == /\ Existing \subseteq Existing'
            /\ \A g \in GateIds : gate'[g].status # "absent" => gate'[g].step \in Existing
            /\ \A r \in Handlers : rs'[r] = rs[r] \/ HandlerOnRow(rs'[r])
            /\ \A u \in Threads : th'[u] = th[u] \/ OnRow(th'[u])

LEMMA StayExist ==
    ASSUME RowsInv, Typed', RowsStay PROVE RowsInv'
BY DEF RowsInv, RowsExist, RowsStay, OnRow, HandlerOnRow, RowPC

LEMMA GoOnRow ==
    ASSUME RowsInv, Typed', NEW t \in Threads, NEW y, Go(t, y), OnRow(y),
           Existing \subseteq Existing', UNCHANGED <<gate, rs>>
    PROVE  RowsInv'
BY TypedFacts, StayExist DEF Go, RowsStay, RowsInv, RowsExist

LEMMA RestingOnRow == OnRow(Idle) /\ OnRow(Fresh)
BY DEF OnRow, RowPC, Idle, Fresh, NoStepRow

LEMMA ThreadOnRow ==
    ASSUME RowsInv, NEW t \in Threads PROVE OnRow(th[t])
BY DEF RowsInv, RowsExist, OnRow, RowPC

LEMMA AdvanceOnRow ==
    ASSUME RowsInv, Typed', NEW t \in Threads, NEW x \in ThreadState, NEW i,
           \A s \in Steps : x.snap[s].status # "absent" => s \in Existing,
           Advance(t, x, i), UNCHANGED <<step, gate, rs>>
    PROVE  RowsInv'
<1>1. Existing' = Existing
  BY DEF Existing
<1>2. CASE Go(t, [x EXCEPT !.pc = "final", !.at = 0])
  <2>1. OnRow([x EXCEPT !.pc = "final", !.at = 0])
    BY DEF OnRow, RowPC, ThreadState
  <2> QED BY <1>1, <1>2, <2>1, GoOnRow
<1>3. ASSUME NEW s \in NextRow(x.snap, i), Go(t, Visit(x, s)) PROVE RowsInv'
  <2>1. s \in Existing
    BY DEF NextRow, Unfinished
  <2>2. OnRow(Visit(x, s))
    <3>1. CASE x.snap[s].status = "awaiting_gate"
      BY <3>1, RestingOnRow DEF Visit
    <3>2. CASE x.snap[s].status = "failed_permanent"
      BY <3>2, <2>1 DEF Visit, OnRow, RowPC, ThreadState
    <3>3. CASE x.snap[s].status \notin {"awaiting_gate", "failed_permanent"}
      BY <3>3, <2>1 DEF Visit, OnRow, RowPC, ThreadState
    <3> QED BY <3>1, <3>2, <3>3
  <2> QED BY <1>1, <1>3, <2>2, GoOnRow
<1> QED BY <1>2, <1>3 DEF Advance

LEMMA AfterOnRow ==
    ASSUME NEW x \in ThreadState, OnRow(x), x.pc \in {"stepRead", "stepWrite"}
    PROVE  OnRow(AfterTransition(x))
<1>1. x.at \in Existing /\ \A s \in Steps : x.snap[s].status # "absent" => s \in Existing
  BY DEF OnRow, RowPC
<1>2. CASE x.to \in {"running", "succeeded", "failed_permanent"}
  BY <1>1, <1>2 DEF AfterTransition, OnRow, RowPC, ThreadState
<1>3. CASE x.to = "pending"
  BY <1>1, <1>3 DEF AfterTransition, OnRow, RowPC, ThreadState
<1>4. CASE x.to \notin {"running", "succeeded", "failed_permanent", "pending"}
  BY <1>4, RestingOnRow DEF AfterTransition
<1> QED BY <1>2, <1>3, <1>4

\* The store's writes keep every row.
LEMMA WritesKeepRows ==
    ASSUME StoreTypeOK, NEW s \in Steps, NEW status
    PROVE  /\ CreateStepRow(s) => Existing \subseteq Existing'
           /\ status # "absent" /\ WriteStep(s, status) => Existing \subseteq Existing'
           /\ BumpRetries(s) => Existing \subseteq Existing'
BY DEF CreateStepRow, WriteStep, BumpRetries, StoreTypeOK, StepRow, Existing

\* What a thread at a row may turn into.
LEMMA OutcomeOnRow ==
    ASSUME NEW t \in Threads, th[t] \in ThreadState, OnRow(th[t]), th[t].pc \in RowPC
    PROVE  /\ \A status : status # "absent" =>
                /\ OnRow(Transition(t, status))
                /\ OnRow([Transition(t, status) EXCEPT !.retry = @ + 1])
           /\ OnRow([th[t] EXCEPT !.pc = "failed"])
           /\ OnRow([th[t] EXCEPT !.pc = "failed", !.g = 0])
           /\ OnRow([th[t] EXCEPT !.pc = "mutate"])
           /\ \A ok : OnRow(AuditDue(t, ok))
           /\ \A g : /\ OnRow([th[t] EXCEPT !.pc = "post", !.g = g])
                     /\ OnRow([th[t] EXCEPT !.pc = "consume", !.g = g])
BY DEF OnRow, RowPC, Transition, AuditDue, ThreadState

LEMMA RunOnRow ==
    ASSUME RowsInv, Typed', NEW t \in Threads, Run(t), UNCHANGED gateVars
    PROVE  RowsInv'
<1> DEFINE x == th[t]
<1>1. x \in ThreadState /\ ThreadShape(x) /\ OnRow(x) /\ StoreTypeOK /\ Typed
  BY TypedFacts, ThreadOnRow DEF RowsInv
<1>2. ASSUME NEW y, OnRow(y), Go(t, y), Existing \subseteq Existing', gate' = gate
      PROVE  RowsInv'
  BY <1>2, GoOnRow DEF gateVars
<1>3. ASSUME NEW y, OnRow(y), Go(t, y), UNCHANGED storeVars PROVE RowsInv'
  BY <1>2, <1>3 DEF Existing, storeVars
<1>4. \A s \in Steps : x.snap[s].status # "absent" => s \in Existing
  BY <1>1 DEF OnRow
<1>5. CASE StartJob(t)
  <2>1. OnRow([Idle EXCEPT !.pc = "create", !.at = 1])
    BY DEF OnRow, RowPC, Idle, NoStepRow
  <2> QED BY <1>2, <1>5, <2>1 DEF StartJob, CreateJobRow, Existing
<1>6. CASE StartStep(t)
  <2>1. OnRow([x EXCEPT !.at = @ + 1]) /\ OnRow([Idle EXCEPT !.pc = "start"])
    BY <1>1, <1>6 DEF StartStep, At, OnRow, RowPC, Idle, NoStepRow, ThreadState
  <2>2. CreateStepRow(x.at) /\ x.at \in Steps
    BY <1>1, <1>6 DEF StartStep, At, ThreadShape
  <2>3. Existing \subseteq Existing' /\ gate' = gate
    BY <1>1, <2>2, WritesKeepRows DEF CreateStepRow
  <2> QED BY <1>2, <1>6, <2>1, <2>3 DEF StartStep
<1>7. CASE StartRunning(t)
  BY <1>2, <1>7, RestingOnRow DEF StartRunning, WriteJob, Existing
<1>8. CASE ResumeSnapshot(t)
  <2>1. [x EXCEPT !.snap = step] \in ThreadState
    BY <1>1 DEF ThreadState, StoreTypeOK
  <2>2. \A s \in Steps : [x EXCEPT !.snap = step].snap[s].status # "absent" => s \in Existing
    BY <1>1 DEF ThreadState, Existing
  <2> QED BY <1>8, <2>1, <2>2, AdvanceOnRow DEF ResumeSnapshot, storeVars, gateVars
<1>9. CASE ResumeReread(t)
  <2>1. OnRow([x EXCEPT !.pc = "jobRead", !.to = "failed_permanent"])
    BY <1>1, <1>4 DEF OnRow, RowPC, ThreadState
  <2>2. CASE step[x.at].status = "failed_permanent"
    BY <1>3, <1>9, <2>1, <2>2 DEF ResumeReread
  <2>3. CASE Advance(t, x, x.at + 1)
    BY <1>1, <1>4, <1>9, <2>3, AdvanceOnRow DEF ResumeReread, storeVars, gateVars
  <2> QED BY <1>9, <2>2, <2>3 DEF ResumeReread
<1>10. CASE ResumeFinal(t)
  <2>1. OnRow([x EXCEPT !.pc = "jobRead", !.to = RollUp])
    BY <1>1, <1>4 DEF OnRow, RowPC, ThreadState
  <2> QED BY <1>3, <1>10, <2>1, RestingOnRow DEF ResumeFinal
<1>11. CASE StepTransitionRead(t)
  <2>1. x.pc = "stepRead"
    BY <1>11 DEF StepTransitionRead, At
  <2>2. OnRow([x EXCEPT !.pc = "stepWrite"])
    BY <1>1, <2>1 DEF OnRow, RowPC, ThreadState
  <2> QED BY <1>1, <1>3, <1>11, <2>1, <2>2, AfterOnRow DEF StepTransitionRead
<1>12. CASE StepTransitionWrite(t)
  <2>1. x.pc = "stepWrite" /\ x.to # "absent" /\ x.at \in Steps
    BY <1>1, <1>12 DEF StepTransitionWrite, At, OnRow, ThreadShape
  <2>2. Existing \subseteq Existing' /\ gate' = gate
    BY <1>1, <1>12, <2>1, WritesKeepRows DEF StepTransitionWrite, WriteStep
  <2> QED BY <1>1, <1>2, <1>12, <2>1, <2>2, AfterOnRow DEF StepTransitionWrite
<1>13. CASE JobTransitionRead(t)
  <2>1. OnRow([x EXCEPT !.pc = "jobWrite"])
    BY <1>1, <1>4 DEF OnRow, RowPC, ThreadState
  <2> QED BY <1>3, <1>13, <2>1, RestingOnRow DEF JobTransitionRead
<1>14. CASE JobTransitionWrite(t)
  BY <1>2, <1>14, RestingOnRow DEF JobTransitionWrite, WriteJob, Existing
<1>15. CASE ExecuteAuto(t)
  <2>1. x.pc \in RowPC
    BY <1>15 DEF ExecuteAuto, At, RowPC
  <2> QED BY <1>1, <1>3, <1>15, <2>1, OutcomeOnRow DEF ExecuteAuto
<1>16. CASE OpenGate(t)
  <2>1. x.pc \in RowPC /\ x.at \in Existing
    BY <1>1, <1>16 DEF OpenGate, At, RowPC, OnRow
  <2>2. PICK g \in GateIds : InsertGate(g, x.at) /\ Go(t, [x EXCEPT !.pc = "post", !.g = g])
    BY <1>16 DEF OpenGate
  <2>3. OnRow([x EXCEPT !.pc = "post", !.g = g])
    BY <1>1, <2>1, OutcomeOnRow
  <2>4. Existing' = Existing
    BY <2>2 DEF InsertGate, Existing
  <2>5. \A h \in GateIds : gate'[h].status # "absent" => gate'[h].step \in Existing
    BY <1>1, <2>1, <2>2 DEF InsertGate, StoreTypeOK, RowsInv, RowsExist
  <2>6. \A u \in Threads : th'[u] = th[u] \/ OnRow(th'[u])
    BY <1>1, <2>2, <2>3, TypedFacts DEF Go
  <2> QED BY <2>4, <2>5, <2>6, StayExist DEF RowsStay, gateVars
<1>17. CASE PostGate(t)
  <2>1. x.pc \in RowPC
    BY <1>17 DEF PostGate, At, RowPC
  <2> QED BY <1>1, <1>3, <1>17, <2>1, OutcomeOnRow DEF PostGate
<1>18. CASE RetryOrFail(t)
  <2>1. x.pc \in RowPC /\ x.at \in Steps
    BY <1>1, <1>18 DEF RetryOrFail, At, RowPC, ThreadShape
  <2>2. CASE x.retry < MaxRetries[x.at]
    <3>1. Existing \subseteq Existing' /\ gate' = gate
      BY <1>1, <1>18, <2>1, <2>2, WritesKeepRows DEF RetryOrFail, BumpRetries
    <3> QED BY <1>1, <1>2, <1>18, <2>1, <2>2, <3>1, OutcomeOnRow DEF RetryOrFail
  <2>3. CASE ~(x.retry < MaxRetries[x.at])
    BY <1>1, <1>3, <1>18, <2>1, <2>3, OutcomeOnRow DEF RetryOrFail
  <2> QED BY <2>2, <2>3
<1> QED BY <1>5, <1>6, <1>7, <1>8, <1>9, <1>10, <1>11, <1>12, <1>13, <1>14, <1>15,
           <1>16, <1>17, <1>18 DEF Run, ThreadStep

LEMMA ExecOnRow ==
    ASSUME RowsInv, Typed', NEW t \in Threads, ExecStep(t), UNCHANGED gateVars
    PROVE  RowsInv'
<1> DEFINE x == th[t]
<1>1. x \in ThreadState /\ ThreadShape(x) /\ OnRow(x) /\ StoreTypeOK /\ Typed
  BY TypedFacts, ThreadOnRow DEF RowsInv
<1>2. x.pc \in RowPC
  BY DEF ExecStep, FindGate, Consume, Mutate, RecordMutation, At, RowPC
<1>3. ASSUME NEW y, OnRow(y), Go(t, y), UNCHANGED storeVars PROVE RowsInv'
  BY <1>3, GoOnRow DEF Existing, storeVars, gateVars
<1>4. /\ OnRow([x EXCEPT !.pc = "failed"]) /\ OnRow([x EXCEPT !.pc = "failed", !.g = 0])
      /\ OnRow([x EXCEPT !.pc = "mutate"]) /\ OnRow(Transition(t, "succeeded"))
      /\ OnRow(Transition(t, "failed_recoverable"))
      /\ \A g : OnRow([x EXCEPT !.pc = "consume", !.g = g])
      /\ \A ok : OnRow(AuditDue(t, ok))
  BY <1>1, <1>2, OutcomeOnRow
<1>5. CASE FindGate(t)
  BY <1>3, <1>4, <1>5 DEF FindGate
<1>6. CASE Consume(t)
  <2>1. CASE Consumable(x.g)
    <3>1. ConsumeGate(x.g) /\ Go(t, [x EXCEPT !.pc = "mutate"])
      BY <1>6, <2>1 DEF Consume
    <3>2. \A h \in GateIds : gate'[h].status # "absent" => gate'[h].step \in Existing
      BY <1>1, <2>1, <3>1 DEF Consumable, ConsumeGate, StoreTypeOK, RowsInv, RowsExist
    <3>3. \A u \in Threads : th'[u] = th[u] \/ OnRow(th'[u])
      BY <1>1, <1>4, <3>1, TypedFacts DEF Go
    <3>4. Existing' = Existing
      BY <3>1 DEF ConsumeGate, Existing
    <3> QED BY <3>2, <3>3, <3>4, StayExist DEF RowsStay, gateVars
  <2>2. CASE ~Consumable(x.g)
    BY <1>3, <1>4, <1>6, <2>2 DEF Consume
  <2> QED BY <2>1, <2>2
<1>7. CASE Mutate(t)
  BY <1>3, <1>4, <1>7 DEF Mutate
<1>8. CASE RecordMutation(t)
  BY <1>3, <1>4, <1>8 DEF RecordMutation
<1> QED BY <1>5, <1>6, <1>7, <1>8 DEF ExecStep

\* A handler's move, the rows, gates and threads unchanged.
LEMMA SetOnRow ==
    ASSUME RowsInv, Typed', NEW r \in Handlers, NEW y, Set(r, y), HandlerOnRow(y),
           UNCHANGED <<step, gate, th>>
    PROVE  RowsInv'
BY TypedFacts, StayExist DEF Set, RowsStay, RowsInv, RowsExist, Existing

LEMMA HandlersOnRow ==
    ASSUME RowsInv, Typed',
           \/ \E g \in GateIds : Decide(g) \/ PollAnswered(g) \/ PollUnanswered(g)
           \/ \E g \in CallbackGates : Callback(g) \/ LoseCallback(g)
           \/ PollCycle
           \/ \E r \in Handlers : ResolveStep(r) \/ OverrideCheck(r)
           \/ Restart
    PROVE  RowsInv'
<1>1. Typed /\ StoreTypeOK
  BY TypedFacts DEF RowsInv
<1>2. \A y : y.pc \notin {"stepRead", "stepWrite"} => HandlerOnRow(y)
  BY DEF HandlerOnRow
<1>3. /\ \A g : HandlerOnRow(Resolving(g))
      /\ HandlerOnRow(NewHandler("done")) /\ HandlerOnRow(NewHandler("idle"))
      /\ \A r : HandlerOnRow(Finished(r))
  BY DEF HandlerOnRow, Resolving, NewHandler, Finished
<1>4. ASSUME NEW g \in GateIds, Decide(g) \/ PollUnanswered(g) PROVE RowsInv'
  BY <1>4 DEF Decide, PollUnanswered, PollNext, storeVars, gateVars, RowsInv, RowsExist, Existing
<1>5. ASSUME NEW g \in GateIds, PollAnswered(g) PROVE RowsInv'
  BY <1>3, <1>5, HandlerNames, SetOnRow DEF PollAnswered, PollNext, storeVars
<1>6. ASSUME NEW g \in CallbackGates, Callback(g) \/ LoseCallback(g) PROVE RowsInv'
  BY <1>3, <1>6, HandlerNames, SetOnRow DEF Callback, LoseCallback, storeVars
<1>7. CASE PollCycle
  <2>1. RetireOrphans /\ UNCHANGED <<th, rs>>
    BY <1>7 DEF PollCycle
  <2>2. \A g \in GateIds : gate'[g].status # "absent" =>
           gate[g].status # "absent" /\ gate'[g].step = gate[g].step
    BY <1>1, <2>1 DEF RetireOrphans, Orphans, PendingGates, StoreTypeOK
  <2>3. Existing' = Existing
    BY <2>1 DEF RetireOrphans, Existing
  <2> QED BY <2>1, <2>2, <2>3, StayExist DEF RowsStay, RowsInv, RowsExist
<1>8. ASSUME NEW r \in Handlers, ResolveStep(r) \/ OverrideCheck(r) PROVE RowsInv'
  <2> DEFINE x == rs[r]
  <2>1. x \in HandlerState /\ HandlerShape(x) /\ HandlerOnRow(x)
    BY <1>1, TypedFacts DEF RowsInv, RowsExist, HandlerOnRow
  <2>2. CASE ResolveCheck(r)
    <3>1. HandlerOnRow([x EXCEPT !.pc = "update"])
      BY <2>1 DEF HandlerOnRow, HandlerState
    <3> QED BY <1>3, <2>2, <3>1, SetOnRow DEF ResolveCheck, storeVars
  <2>3. CASE ResolveUpdate(r)
    <3>1. WriteResolution(x.g, x.yes) /\ gate[x.g].status # "absent" /\ x.g \in GateIds
      BY <2>1, <2>3 DEF ResolveUpdate, In, HandlerShape
    <3>2. gate[x.g].step \in Existing
      BY <3>1 DEF RowsInv, RowsExist
    <3>3. HandlerOnRow([x EXCEPT !.pc = "stepRead", !.step = gate[x.g].step])
      BY <2>1, <3>2 DEF HandlerOnRow, HandlerState
    <3>4. \A g \in GateIds : gate'[g].status # "absent" =>
             gate[g].status # "absent" /\ gate'[g].step = gate[g].step
      BY <1>1, <3>1 DEF WriteResolution, StoreTypeOK
    <3>5. Existing' = Existing /\ th' = th
      BY <2>3, <3>1 DEF ResolveUpdate, WriteResolution, Existing
    <3>6. \A q \in Handlers : rs'[q] = rs[q] \/ HandlerOnRow(rs'[q])
      BY <1>1, <2>3, <3>3, TypedFacts DEF ResolveUpdate, Set
    <3> QED BY <3>4, <3>5, <3>6, StayExist DEF RowsStay, RowsInv, RowsExist
  <2>4. HandlerOnRow(Resolved(r))
    BY <2>1 DEF Resolved, HandlerOnRow, HandlerState
  <2>5. CASE HandlerStepRead(r)
    <3>1. HandlerOnRow([x EXCEPT !.pc = "stepWrite"])
      BY <2>1, <2>5 DEF HandlerStepRead, In, HandlerOnRow, HandlerState
    <3> QED BY <2>4, <2>5, <3>1, SetOnRow DEF HandlerStepRead, storeVars
  <2>6. CASE HandlerStepWrite(r)
    <3> DEFINE status == IF x.yes THEN "succeeded" ELSE "failed_permanent"
    <3>1. WriteStep(x.step, status) /\ x.step \in Steps /\ Set(r, Resolved(r)) /\ th' = th
      BY <2>1, <2>6 DEF HandlerStepWrite, In, HandlerShape
    <3> status # "absent"
      OBVIOUS
    <3> HIDE DEF status
    <3>2. Existing \subseteq Existing' /\ gate' = gate
      BY <1>1, <3>1, WritesKeepRows DEF WriteStep
    <3>3. \A q \in Handlers : rs'[q] = rs[q] \/ HandlerOnRow(rs'[q])
      BY <1>1, <2>4, <3>1, TypedFacts DEF Set
    <3> QED BY <3>1, <3>2, <3>3, StayExist DEF RowsStay, RowsInv, RowsExist
  <2>7. CASE TriggerResume(r)
    <3>1. \A u \in Threads : th'[u] = th[u] \/ OnRow(th'[u])
      BY <1>1, <2>7, RestingOnRow, TypedFacts DEF TriggerResume, Go
    <3>2. \A q \in Handlers : rs'[q] = rs[q] \/ HandlerOnRow(rs'[q])
      BY <1>1, <1>3, <2>7, TypedFacts DEF TriggerResume, Set
    <3> QED BY <2>7, <3>1, <3>2, StayExist
            DEF TriggerResume, RowsStay, RowsInv, RowsExist, storeVars, Existing
  <2>8. CASE OverrideRecord(r)
    <3>1. HandlerOnRow([x EXCEPT !.pc = "spawn"])
      BY <2>1 DEF HandlerOnRow, HandlerState
    <3> QED BY <2>8, <3>1, SetOnRow DEF OverrideRecord, RecordOverride
  <2>9. CASE OverrideCheck(r)
    <3>1. PICK s \in Existing : Set(r, [NewHandler("stepRead") EXCEPT !.yes = TRUE, !.step = s])
      BY <2>9 DEF OverrideCheck
    <3>2. HandlerOnRow([NewHandler("stepRead") EXCEPT !.yes = TRUE, !.step = s])
      BY <3>1 DEF HandlerOnRow, NewHandler
    <3> QED BY <2>9, <3>1, <3>2, SetOnRow DEF OverrideCheck, storeVars
  <2> QED BY <1>8, <2>2, <2>3, <2>5, <2>6, <2>7, <2>8, <2>9 DEF ResolveStep
<1>9. CASE Restart
  <2>1. \A u \in Threads : OnRow(th'[u])
    BY <1>9, RestingOnRow DEF Restart, ResumeInterrupted
  <2>2. \A q \in Handlers : rs'[q] = rs[q] \/ HandlerOnRow(rs'[q])
    BY <1>3, <1>9 DEF Restart
  <2> QED BY <1>9, <2>1, <2>2, StayExist
          DEF Restart, RowsStay, RowsInv, RowsExist, storeVars, Existing
<1> QED BY <1>4, <1>5, <1>6, <1>7, <1>8, <1>9

\* No statement the program issues about a step is about a row that is missing.
LEMMA RowsInvariant == Spec => []RowsInv
<1>1. Init => RowsInv
  <2>1. Init => RowsExist
    BY DEF Init, StoreInit, ThreadInit, HandlerInit, NoGateRow, NoStepRow, Idle, NewHandler,
           RowsExist
  <2> QED BY <2>1, InitTyped DEF RowsInv
<1>2. RowsInv /\ [Next]_vars => RowsInv'
  <2> SUFFICES ASSUME RowsInv, [Next]_vars PROVE RowsInv'
    OBVIOUS
  <2>1. Typed'
    BY NextTyped DEF RowsInv
  <2>2. CASE UNCHANGED vars
    BY <2>1, <2>2 DEF vars, storeVars, gateVars, RowsInv, RowsExist, Existing
  <2>3. ASSUME NEW t \in Threads, Run(t), UNCHANGED <<hostVars, gateVars, crashes>>
        PROVE  RowsInv'
    BY <2>1, <2>3, RunOnRow
  <2>4. ASSUME NEW t \in Threads, ExecStep(t), UNCHANGED <<gateVars, crashes>>
        PROVE  RowsInv'
    BY <2>1, <2>4, ExecOnRow
  <2> QED BY <2>1, <2>2, <2>3, <2>4, HandlersOnRow DEF Next
<1> QED BY <1>1, <1>2, PTL DEF Spec

(***************************************************************************)
(* A job's success was earned                                              *)
(***************************************************************************)

\* The strengthening: while run_workflow is still adding rows nothing else works
\* on the job, and what rows and roll-ups show as succeeded is on record.
EarnedInv == RowsInv /\ QuietStart /\ SuccessOnRecord /\ JobSuccessIsEarned

\* The job is past its start.
Working == job # "absent" /\ \A u \in Threads : th[u].pc \notin {"create", "start"}

AllLogged == \A s \in Existing : Logged(s, "succeeded")
AboutToSucceed(x) == x.pc \in {"jobRead", "jobWrite"} /\ x.to = "succeeded"

\* What a step of a working job has to keep.
RowsKept ==
    /\ events \subseteq events'
    /\ \A s \in Steps : step'[s].status # "absent" => step[s].status # "absent"
    /\ \A s \in Steps : step'[s].status = "succeeded" =>
         step[s].status = "succeeded" \/ <<"step", s, "succeeded">> \in events'
ThreadsKept ==
    \A u \in Threads : /\ th'[u].pc \notin {"create", "start"}
                       /\ AboutToSucceed(th'[u]) => AboutToSucceed(th[u]) \/ AllLogged
JobKept ==
    /\ job' # "absent"
    /\ <<"job", 0, "succeeded">> \in events' =>
         <<"job", 0, "succeeded">> \in events \/ AllLogged

LEMMA KeptEarns ==
    ASSUME EarnedInv, RowsInv', Working, RowsKept, ThreadsKept, JobKept
    PROVE  EarnedInv'
<1>1. QuietStart'
  BY DEF QuietStart, ThreadsKept, JobKept
<1>2. AllLogged => AllLogged'
  BY DEF AllLogged, Existing, Logged, RowsKept
<1>3. SuccessOnRecord'
  BY <1>2 DEF EarnedInv, SuccessOnRecord, AllLogged, AboutToSucceed, Logged, RowsKept, ThreadsKept
<1>4. JobSuccessIsEarned'
  BY <1>2 DEF EarnedInv, JobSuccessIsEarned, AllLogged, JobKept
<1> QED BY <1>1, <1>3, <1>4 DEF EarnedInv

\* Whoever acts on the job other than run_workflow acts on a working job.
LEMMA ActorsWork ==
    ASSUME EarnedInv
    PROVE  /\ \A t \in Threads : th[t].pc \notin {"idle", "create", "start"} => Working
           /\ \A r \in Handlers : rs[r].pc \notin {"new", "idle", "done"} => Working
           /\ \A g \in GateIds : council[g] # "unsent" => Working
           /\ Existing # {} /\ (\A t \in Threads : th[t].pc \notin {"create", "start"}) => Working
<1>1. QuietStart
  BY DEF EarnedInv
<1>2. ASSUME NEW t \in Threads, th[t].pc \notin {"idle", "create", "start"} PROVE Working
  BY <1>1, <1>2 DEF QuietStart, Working
<1>3. Working \/ (job = "absent" \/ \E t \in Threads : th[t].pc \in {"create", "start"})
  BY DEF Working
<1>4. Existing # {} => job # "absent"
  BY <1>1 DEF QuietStart, Existing
<1> QED BY <1>1, <1>2, <1>3, <1>4 DEF QuietStart, Working

\* A thread that goes on to a state that neither starts nor rolls up a success.
LEMMA GoOn ==
    ASSUME Typed, Working, NEW t \in Threads, NEW y, Go(t, y), y.pc \notin {"create", "start"},
           AboutToSucceed(y) => AboutToSucceed(th[t]) \/ AllLogged
    PROVE  ThreadsKept
BY TypedFacts DEF Go, ThreadsKept, Working

LEMMA AdvanceGoesOn ==
    ASSUME Typed, Working, NEW t \in Threads, NEW x \in ThreadState, NEW i, Advance(t, x, i)
    PROVE  ThreadsKept
<1>1. CASE Go(t, [x EXCEPT !.pc = "final", !.at = 0])
  <2>1. [x EXCEPT !.pc = "final", !.at = 0].pc = "final"
    BY DEF ThreadState
  <2> QED BY <1>1, <2>1, GoOn DEF AboutToSucceed
<1>2. ASSUME NEW s \in NextRow(x.snap, i), Go(t, Visit(x, s)) PROVE ThreadsKept
  <2>1. Visit(x, s).pc \notin {"create", "start"} /\ ~AboutToSucceed(Visit(x, s))
    BY DEF Visit, Idle, ThreadState, AboutToSucceed
  <2> QED BY <1>2, <2>1, GoOn
<1> QED BY <1>1, <1>2 DEF Advance

LEMMA AfterGoesOn ==
    ASSUME NEW x \in ThreadState, x.pc \in {"stepRead", "stepWrite"}
    PROVE  /\ AfterTransition(x).pc \notin {"create", "start"}
           /\ ~AboutToSucceed(AfterTransition(x))
BY DEF AfterTransition, Idle, ThreadState, AboutToSucceed

\* Writing a step row records what it writes and adds no row.
LEMMA WriteKeepsRows ==
    ASSUME StoreTypeOK, NEW s \in Steps, NEW status, WriteStep(s, status),
           step[s].status # "absent"
    PROVE  RowsKept /\ (job # "absent" => JobKept)
<1>1. <<"job", 0, "succeeded">> # <<"step", s, status>>
  OBVIOUS
<1> QED BY <1>1 DEF WriteStep, StoreTypeOK, RowsKept, JobKept

\* The three actions of Workflow.start, before the job's own thread exists.
LEMMA StartEarns ==
    ASSUME EarnedInv, RowsInv', NEW t \in Threads, StartJob(t) \/ StartStep(t) \/ StartRunning(t),
           UNCHANGED <<hostVars, gateVars, crashes>>
    PROVE  EarnedInv'
<1> DEFINE x == th[t]
<1>1. x \in ThreadState /\ ThreadShape(x) /\ StoreTypeOK /\ th \in [Threads -> ThreadState]
  BY TypedFacts DEF EarnedInv, RowsInv
<1>2. QuietStart /\ SuccessOnRecord
  BY DEF EarnedInv
<1>3. ASSUME NEW y, Go(t, y), ~AboutToSucceed(y), y.pc \in {"create", "start", "snapshot"},
             job' # "absent", y.pc \in {"create", "start"} => job' = "queued",
             \A u \in Threads \ {t} : th[u].pc = "idle",
             \A s \in Steps : step'[s].status = "succeeded" => step[s].status = "succeeded",
             events \subseteq events',
             <<"job", 0, "succeeded">> \notin events', UNCHANGED <<council, rs>>,
             \A g \in GateIds : council[g] = "unsent",
             \A r \in Handlers : rs[r].pc \in {"new", "idle", "done"}
      PROVE  EarnedInv'
  <2>1. \A u \in Threads : th'[u] = IF u = t THEN y ELSE th[u]
    BY <1>1, <1>3 DEF Go
  <2>2. QuietStart'
    BY <1>3, <2>1 DEF QuietStart
  <2>3. SuccessOnRecord'
    BY <1>2, <1>3, <2>1 DEF SuccessOnRecord, AboutToSucceed, Logged
  <2>4. JobSuccessIsEarned'
    BY <1>3 DEF JobSuccessIsEarned
  <2> QED BY <2>2, <2>3, <2>4 DEF EarnedInv
<1>4. CASE StartJob(t)
  <2>1. /\ ~AboutToSucceed([Idle EXCEPT !.pc = "create", !.at = 1])
        /\ [Idle EXCEPT !.pc = "create", !.at = 1].pc = "create"
    BY DEF Idle, AboutToSucceed
  <2>2. job = "absent" /\ \A u \in Threads : th[u].pc = "idle"
    BY <1>2, <1>4 DEF StartJob, QuietStart
  <2>3. /\ job' = "queued" /\ UNCHANGED <<step, gate, events, council, rs>>
        /\ Go(t, [Idle EXCEPT !.pc = "create", !.at = 1])
    BY <1>4 DEF StartJob, CreateJobRow, gateVars
  <2> QED BY <1>2, <1>3, <2>1, <2>2, <2>3 DEF QuietStart
<1>5. ASSUME x.pc \in {"create", "start"}
      PROVE  /\ job = "queued" /\ \A u \in Threads \ {t} : th[u].pc = "idle"
             /\ <<"job", 0, "succeeded">> \notin events
             /\ \A g \in GateIds : council[g] = "unsent"
             /\ \A r \in Handlers : rs[r].pc \in {"new", "idle", "done"}
  BY <1>2, <1>5 DEF QuietStart
<1>6. CASE StartStep(t)
  <2> DEFINE y == IF x.at < NSteps THEN [x EXCEPT !.at = @ + 1] ELSE [Idle EXCEPT !.pc = "start"]
  <2>1. x.pc = "create" /\ x.at \in Steps
    BY <1>1, <1>6 DEF StartStep, At, ThreadShape
  <2>2. y.pc \in {"create", "start"}
    BY <1>1, <2>1 DEF Idle, ThreadState
  <2>3. ~AboutToSucceed(y)
    BY <2>2 DEF AboutToSucceed
  <2> HIDE DEF y
  <2>4. CreateStepRow(x.at) /\ Go(t, y) /\ UNCHANGED <<council, rs>>
    BY <1>6 DEF StartStep, y, gateVars
  <2>5. \A s \in Steps : step'[s].status = "succeeded" => step[s].status = "succeeded"
    BY <1>1, <2>4 DEF CreateStepRow, StoreTypeOK
  <2>6. UNCHANGED <<job, events>>
    BY <2>4 DEF CreateStepRow
  <2> QED BY <1>3, <1>5, <2>1, <2>2, <2>3, <2>4, <2>5, <2>6
<1>7. CASE StartRunning(t)
  <2>1. Fresh.pc = "snapshot" /\ ~AboutToSucceed(Fresh)
    BY DEF Fresh, Idle, AboutToSucceed
  <2>2. x.pc = "start" /\ Go(t, Fresh) /\ WriteJob("running") /\ UNCHANGED <<council, rs>>
    BY <1>7 DEF StartRunning, At, gateVars
  <2>3. /\ job' = "running" /\ step' = step /\ events \subseteq events'
        /\ <<"job", 0, "succeeded">> \notin events'
    BY <1>5, <2>2 DEF WriteJob
  <2> QED BY <1>3, <1>5, <2>1, <2>2, <2>3
<1> QED BY <1>4, <1>6, <1>7

\* A thread of a working job: only the roll-up writes a success, and only after
\* it has seen every row succeeded.
LEMMA RunEarns ==
    ASSUME EarnedInv, RowsInv', NEW t \in Threads, ThreadStep(t) \/ ExecStep(t),
           ~StartStep(t), ~StartRunning(t)
    PROVE  EarnedInv'
<1> DEFINE x == th[t]
<1>1. x \in ThreadState /\ ThreadShape(x) /\ StoreTypeOK /\ Typed /\ OnRow(x)
  BY TypedFacts, ThreadOnRow DEF EarnedInv, RowsInv
<1>2. x.pc \notin {"idle", "create", "start"}
  BY DEF ThreadStep, ResumeSnapshot, ResumeReread, ResumeFinal, StepTransitionRead,
         StepTransitionWrite, JobTransitionRead, JobTransitionWrite, ExecuteAuto, OpenGate,
         PostGate, RetryOrFail, ExecStep, FindGate, Consume, Mutate, RecordMutation, At
<1>3. Working
  BY <1>2, ActorsWork
<1>4. job # "absent"
  BY <1>3 DEF Working
<1>5. ASSUME NEW y, Go(t, y), y.pc \notin {"create", "start"},
             AboutToSucceed(y) => AboutToSucceed(x) \/ AllLogged
      PROVE  ThreadsKept
  BY <1>1, <1>3, <1>5, GoOn
<1>6. ASSUME ThreadsKept, RowsKept, JobKept PROVE EarnedInv'
  BY <1>3, <1>6, KeptEarns
<1>7. ASSUME ThreadsKept, UNCHANGED <<job, step, events>> PROVE EarnedInv'
  BY <1>4, <1>6, <1>7 DEF RowsKept, JobKept
<1>8. ASSUME NEW y, y.pc \notin {"create", "start", "jobRead", "jobWrite"}, Go(t, y)
      PROVE  ThreadsKept
  BY <1>5, <1>8 DEF AboutToSucceed
<1>9. Idle.pc = "idle"
  BY DEF Idle
<1>10. CASE ResumeSnapshot(t)
  <2>1. [x EXCEPT !.snap = step] \in ThreadState
    BY <1>1 DEF ThreadState, StoreTypeOK
  <2> QED BY <1>1, <1>3, <1>7, <1>10, <2>1, AdvanceGoesOn DEF ResumeSnapshot, storeVars
<1>11. CASE ResumeReread(t)
  <2>1. ~AboutToSucceed([x EXCEPT !.pc = "jobRead", !.to = "failed_permanent"])
        /\ [x EXCEPT !.pc = "jobRead", !.to = "failed_permanent"].pc = "jobRead"
    BY <1>1 DEF AboutToSucceed, ThreadState
  <2> QED BY <1>1, <1>3, <1>5, <1>7, <1>11, <2>1, AdvanceGoesOn DEF ResumeReread, storeVars
<1>12. CASE ResumeFinal(t)
  <2>1. CASE RollUp = "absent"
    BY <1>7, <1>8, <1>9, <1>12, <2>1 DEF ResumeFinal, storeVars
  <2>2. CASE RollUp # "absent"
    <3>1. /\ [x EXCEPT !.pc = "jobRead", !.to = RollUp].pc = "jobRead"
          /\ [x EXCEPT !.pc = "jobRead", !.to = RollUp].to = RollUp
      BY <1>1 DEF ThreadState
    <3>2. RollUp = "succeeded" => AllLogged
      BY DEF RollUp, AllLogged, EarnedInv, SuccessOnRecord, Existing
    <3>3. ThreadsKept
      BY <1>5, <1>12, <2>2, <3>1, <3>2 DEF ResumeFinal, AboutToSucceed
    <3> QED BY <1>7, <1>12, <3>3 DEF ResumeFinal, storeVars
  <2> QED BY <2>1, <2>2
<1>13. CASE StepTransitionRead(t)
  <2>1. x.pc = "stepRead" /\ [x EXCEPT !.pc = "stepWrite"].pc = "stepWrite"
    BY <1>1, <1>13 DEF StepTransitionRead, At, ThreadState
  <2> QED BY <1>1, <1>5, <1>7, <1>8, <1>13, <2>1, AfterGoesOn DEF StepTransitionRead, storeVars
<1>14. CASE StepTransitionWrite(t)
  <2>1. x.pc = "stepWrite" /\ x.at \in Steps /\ step[x.at].status # "absent"
    BY <1>1, <1>14 DEF StepTransitionWrite, At, ThreadShape, OnRow, RowPC, Existing
  <2> QED BY <1>1, <1>4, <1>5, <1>6, <1>14, <2>1, AfterGoesOn, WriteKeepsRows
          DEF StepTransitionWrite
<1>15. CASE JobTransitionRead(t)
  <2>1. /\ [x EXCEPT !.pc = "jobWrite"].pc = "jobWrite"
        /\ AboutToSucceed([x EXCEPT !.pc = "jobWrite"]) => AboutToSucceed(x)
    BY <1>1, <1>15 DEF JobTransitionRead, At, ThreadState, AboutToSucceed
  <2> QED BY <1>5, <1>7, <1>8, <1>9, <1>15, <2>1 DEF JobTransitionRead, storeVars
<1>16. CASE JobTransitionWrite(t)
  <2>1. WriteJob(x.to) /\ Go(t, Idle) /\ x.pc = "jobWrite" /\ x.to \in Terminal
    BY <1>1, <1>16 DEF JobTransitionWrite, At, ThreadShape
  <2>2. x.to = "succeeded" => AllLogged
    BY <2>1 DEF EarnedInv, SuccessOnRecord, AllLogged
  <2>3. JobKept /\ RowsKept
    BY <2>1, <2>2 DEF WriteJob, JobKept, RowsKept, Terminal
  <2> QED BY <1>6, <1>8, <1>9, <2>1, <2>3
<1>17. ASSUME NEW status PROVE Transition(t, status).pc = "stepRead"
  BY <1>1 DEF Transition, ThreadState
<1>18. /\ [x EXCEPT !.pc = "failed"].pc = "failed"
       /\ [x EXCEPT !.pc = "failed", !.g = 0].pc = "failed"
       /\ [x EXCEPT !.pc = "mutate"].pc = "mutate"
       /\ \A g : /\ [x EXCEPT !.pc = "post", !.g = g].pc = "post"
                 /\ [x EXCEPT !.pc = "consume", !.g = g].pc = "consume"
       /\ \A ok : AuditDue(t, ok).pc = "audit"
       /\ [Transition(t, "pending") EXCEPT !.retry = @ + 1].pc = "stepRead"
  BY <1>1 DEF Transition, AuditDue, ThreadState
<1>19. CASE ExecuteAuto(t)
  BY <1>7, <1>8, <1>17, <1>18, <1>19 DEF ExecuteAuto, storeVars
<1>20. CASE OpenGate(t)
  BY <1>7, <1>8, <1>18, <1>20 DEF OpenGate, InsertGate
<1>21. CASE PostGate(t)
  BY <1>7, <1>8, <1>17, <1>18, <1>21 DEF PostGate, storeVars
<1>22. CASE RetryOrFail(t)
  <2>1. ThreadsKept
    BY <1>8, <1>17, <1>18, <1>22 DEF RetryOrFail
  <2>2. RowsKept /\ JobKept
    <3>1. CASE BumpRetries(x.at)
      BY <1>1, <1>4, <3>1 DEF BumpRetries, StoreTypeOK, RowsKept, JobKept
    <3> QED BY <1>4, <1>22, <3>1 DEF RetryOrFail, storeVars, RowsKept, JobKept
  <2> QED BY <1>6, <2>1, <2>2
<1>23. CASE FindGate(t)
  BY <1>7, <1>8, <1>18, <1>23 DEF FindGate, storeVars
<1>24. CASE Consume(t)
  BY <1>7, <1>8, <1>18, <1>24 DEF Consume, ConsumeGate, storeVars
<1>25. CASE Mutate(t)
  BY <1>7, <1>8, <1>17, <1>18, <1>25 DEF Mutate, storeVars
<1>26. CASE RecordMutation(t)
  BY <1>7, <1>8, <1>17, <1>18, <1>26 DEF RecordMutation, storeVars
<1> QED BY <1>10, <1>11, <1>13, <1>12, <1>14, <1>15, <1>16, <1>19, <1>20, <1>21, <1>22,
           <1>23, <1>24, <1>25, <1>26 DEF ThreadStep, ExecStep

\* A callback, the poller or an override writes a success only into its own step.
LEMMA ResolveEarns ==
    ASSUME EarnedInv, RowsInv', NEW r \in Handlers, ResolveStep(r) \/ OverrideCheck(r)
    PROVE  EarnedInv'
<1> DEFINE x == rs[r]
<1>1. x \in HandlerState /\ HandlerShape(x) /\ StoreTypeOK /\ Typed
  BY TypedFacts DEF EarnedInv, RowsInv
<1>2. Working
  <2>1. CASE ResolveStep(r)
    <3>1. x.pc \notin {"new", "idle", "done"}
      BY <2>1 DEF ResolveStep, ResolveCheck, ResolveUpdate, HandlerStepRead, HandlerStepWrite,
                  TriggerResume, OverrideRecord, In
    <3> QED BY <3>1, ActorsWork
  <2>2. CASE OverrideCheck(r)
    BY <2>2, ActorsWork DEF OverrideCheck
  <2> QED BY <2>1, <2>2
<1>3. job # "absent" /\ (th' = th => ThreadsKept)
  BY <1>2 DEF Working, ThreadsKept
<1>4. ASSUME ThreadsKept, RowsKept, JobKept PROVE EarnedInv'
  BY <1>2, <1>4, KeptEarns
<1>5. ASSUME ThreadsKept, UNCHANGED <<job, step, events>> PROVE EarnedInv'
  BY <1>3, <1>4, <1>5 DEF RowsKept, JobKept
<1>6. CASE ResolveCheck(r) \/ HandlerStepRead(r) \/ OverrideCheck(r)
  BY <1>3, <1>5, <1>6 DEF ResolveCheck, HandlerStepRead, OverrideCheck, storeVars
<1>7. CASE ResolveUpdate(r)
  <2>1. WriteResolution(x.g, x.yes) /\ th' = th
    BY <1>7 DEF ResolveUpdate
  <2>2. RowsKept /\ JobKept
    BY <1>3, <2>1 DEF WriteResolution, RowsKept, JobKept
  <2> QED BY <1>3, <1>4, <2>1, <2>2
<1>8. CASE HandlerStepWrite(r)
  <2>1. x.step \in Steps /\ step[x.step].status # "absent"
    BY <1>1, <1>8 DEF HandlerStepWrite, In, HandlerShape, EarnedInv, RowsInv, RowsExist, Existing
  <2> QED BY <1>1, <1>3, <1>4, <1>8, <2>1, WriteKeepsRows DEF HandlerStepWrite
<1>9. CASE TriggerResume(r)
  <2>1. Fresh.pc = "snapshot"
    BY DEF Fresh, Idle
  <2>2. ThreadsKept
    BY <1>1, <1>2, <1>9, <2>1, GoOn DEF TriggerResume, AboutToSucceed
  <2> QED BY <1>5, <1>9, <2>2 DEF TriggerResume, storeVars
<1>10. CASE OverrideRecord(r)
  <2>1. RecordOverride(x.step) /\ th' = th
    BY <1>10 DEF OverrideRecord
  <2>2. RowsKept /\ JobKept
    BY <1>3, <2>1 DEF RecordOverride, RowsKept, JobKept
  <2> QED BY <1>3, <1>4, <2>1, <2>2
<1> QED BY <1>6, <1>7, <1>8, <1>9, <1>10 DEF ResolveStep

\* What writes neither the job, a row nor an event, and starts no one on an
\* absent or starting job.
LEMMA IdleEarns ==
    ASSUME EarnedInv, RowsInv', UNCHANGED <<job, step, events, th>>,
           Working \/ UNCHANGED council,
           Working \/ \A r \in Handlers : rs'[r].pc \in {"new", "idle", "done"}
    PROVE  EarnedInv'
<1>1. JobSuccessIsEarned' /\ SuccessOnRecord'
  BY DEF EarnedInv, JobSuccessIsEarned, SuccessOnRecord, Existing, Logged
<1>2. QuietStart'
  <2>1. QuietStart
    BY DEF EarnedInv
  <2>2. CASE Working
    BY <2>2 DEF Working, QuietStart
  <2>3. CASE ~Working
    BY <2>1, <2>3 DEF Working, QuietStart
  <2> QED BY <2>2, <2>3
<1> QED BY <1>1, <1>2 DEF EarnedInv

LEMMA DeliveryEarns ==
    ASSUME EarnedInv, RowsInv',
           \/ \E g \in GateIds : Decide(g) \/ PollAnswered(g) \/ PollUnanswered(g)
           \/ \E g \in CallbackGates : Callback(g) \/ LoseCallback(g)
           \/ PollCycle
    PROVE  EarnedInv'
<1>1. Typed
  BY DEF EarnedInv, RowsInv
<1>2. Working \/ \A r \in Handlers : rs[r].pc \in {"new", "idle", "done"}
  BY DEF EarnedInv, QuietStart, Working
<1>3. ASSUME NEW g \in GateIds, Decide(g) PROVE EarnedInv'
  <2>1. Working
    BY <1>3, ActorsWork DEF Decide
  <2> QED BY <1>3, <2>1, IdleEarns DEF Decide, storeVars
<1>4. ASSUME NEW g \in GateIds, PollAnswered(g) PROVE EarnedInv'
  <2>1. Working
    BY <1>4, ActorsWork DEF PollAnswered, Decided
  <2> QED BY <1>4, <2>1, IdleEarns DEF PollAnswered, PollNext, storeVars
<1>5. ASSUME NEW g \in GateIds, PollUnanswered(g) PROVE EarnedInv'
  BY <1>2, <1>5, IdleEarns DEF PollUnanswered, PollNext, storeVars
<1>6. ASSUME NEW g \in CallbackGates, Callback(g) \/ LoseCallback(g) PROVE EarnedInv'
  <2>1. Working
    BY <1>6, ActorsWork, CallbackGatesAssumption DEF Callback, LoseCallback, Decided
  <2> QED BY <1>6, <2>1, IdleEarns DEF Callback, LoseCallback, storeVars
<1>7. CASE PollCycle
  BY <1>2, <1>7, IdleEarns DEF PollCycle, RetireOrphans
<1> QED BY <1>3, <1>4, <1>5, <1>6, <1>7

LEMMA RestartEarns ==
    ASSUME EarnedInv, RowsInv', Restart PROVE EarnedInv'
<1>1. UNCHANGED <<job, step, events, council>>
  BY DEF Restart, storeVars
<1>2. QuietStart /\ SuccessOnRecord
  BY DEF EarnedInv
<1>3. /\ \A u \in Threads : th'[u].pc \in {"idle", "snapshot"}
      /\ job = "absent" => \A u \in Threads : th'[u].pc = "idle"
  BY DEF Restart, ResumeInterrupted, Fresh, Idle
<1>4. \A q \in Handlers : rs'[q].pc \in {"new", "idle", "done"}
  BY DEF Restart, NewHandler
<1>5. QuietStart'
  BY <1>1, <1>2, <1>3, <1>4 DEF QuietStart
<1>6. SuccessOnRecord' /\ JobSuccessIsEarned'
  BY <1>1, <1>2, <1>3 DEF EarnedInv, JobSuccessIsEarned, SuccessOnRecord, Existing, Logged
<1> QED BY <1>5, <1>6 DEF EarnedInv

LEMMA EarnedInvariant == Spec => []EarnedInv
<1>1. Init => QuietStart /\ SuccessOnRecord /\ JobSuccessIsEarned
  BY DEF Init, StoreInit, ThreadInit, HandlerInit, NoStepRow, Idle, NewHandler,
         QuietStart, SuccessOnRecord, JobSuccessIsEarned
<1>2. EarnedInv /\ RowsInv' /\ [Next]_vars => EarnedInv'
  <2> SUFFICES ASSUME EarnedInv, RowsInv', [Next]_vars PROVE EarnedInv'
    OBVIOUS
  <2>1. CASE UNCHANGED vars
    BY <2>1 DEF vars, storeVars, gateVars, EarnedInv, QuietStart, SuccessOnRecord,
                JobSuccessIsEarned, Existing, Logged
  <2>2. ASSUME NEW t \in Threads, Run(t), UNCHANGED <<hostVars, gateVars, crashes>>
        PROVE  EarnedInv'
    BY <2>2, StartEarns, RunEarns DEF Run
  <2>3. ASSUME NEW t \in Threads, ExecStep(t) PROVE EarnedInv'
    <3>1. CASE StartStep(t) \/ StartRunning(t)
      BY <2>3, <3>1 DEF StartStep, StartRunning, ExecStep, FindGate, Consume, Mutate,
                        RecordMutation, At
    <3> QED BY <2>3, <3>1, RunEarns
  <2> QED BY <2>1, <2>2, <2>3, ResolveEarns, DeliveryEarns, RestartEarns DEF Next
<1>3. RowsInv /\ QuietStart /\ SuccessOnRecord /\ JobSuccessIsEarned <=> EarnedInv
  BY DEF EarnedInv
<1> QED BY <1>1, <1>2, <1>3, RowsInvariant, PTL DEF Spec

\* A job is rolled up as succeeded only when every one of its step rows was once
\* recorded as succeeded (workflow_base.py:74-97), for any number of threads on
\* the job, deliverers, overrides and restarts.
THEOREM Earned == Spec => []JobSuccessIsEarned
<1>1. EarnedInv => JobSuccessIsEarned
  BY DEF EarnedInv
<1> QED BY <1>1, EarnedInvariant, PTL

(***************************************************************************)
(* Approvals are single-use tokens                                         *)
(***************************************************************************)

\* Why an approval carries one mutation where the poller alone delivers: ...
PollerAlone ==
    \A r \in Handlers :
      /\ rs[r].pc \in {"check", "update"} => r = <<Poller, 0>>
      /\ rs[r].pc = "update" => gate[rs[r].g].status = "pending"

\* ... and a gate once consumed stays consumed, in the hands of one thread.
HeldOnce ==
    /\ \A t \in Threads : th[t].pc = "mutate" =>
         gate[th[t].g].status = "consumed" /\ mutations[th[t].g] = 0
    /\ \A t, u \in Threads :
         th[t].pc = "mutate" /\ th[u].pc = "mutate" /\ th[t].g = th[u].g => t = u
    /\ \A g \in GateIds : mutations[g] > 0 => gate[g].status = "consumed"

TokenInv == Typed /\ PollerAlone /\ HeldOnce

\* The token a gate row stands for.
TokenAt(row) ==
    CASE row.status = "absent"   -> "none"
      [] row.status = "pending"  -> "requested"
      [] row.status = "resolved" -> IF row.approved THEN "granted" ELSE "denied"
      [] row.status = "consumed" -> "spent"
      [] row.status = "orphaned" -> "withdrawn"

\* A step of the promise, or none.
TokenStep == [Token!Next]_(Token!vars)

\* How a step of the program becomes one of the promise: nothing has happened
\* to the gates and the host, or one gate has moved.
LEMMA TokenStutters ==
    ASSUME gate' = gate, mutations' = mutations PROVE TokenStep
BY DEF TokenStep, Token!vars

LEMMA NextSteps ==
    /\ \A g \in GateIds : Token!Request(g) \/ Token!Grant(g) \/ Token!Deny(g)
                          \/ Token!Spend(g) \/ Token!Use(g) => TokenStep
    /\ Token!Withdraw => TokenStep
BY DEF TokenStep, Token!Next

LEMMA TokenMoves ==
    ASSUME NEW g \in GateIds, NEW from, NEW to, mutations' = mutations,
           TokenAt(gate[g]) = from, TokenAt(gate'[g]) = to,
           \A h \in GateIds : h # g => gate'[h] = gate[h]
    PROVE  Token!Move(g, from, to)
<1> DEFINE T(rows) == [h \in GateIds |-> TokenAt(rows[h])]
<1>1. T(gate') = [T(gate) EXCEPT ![g] = to]
  OBVIOUS
<1>2. T(gate)[g] = from
  OBVIOUS
<1> QED BY <1>1, <1>2 DEF TokenAt, Token!Move

\* What leaves the invariant alone.
TokensKept ==
    /\ mutations' = mutations
    /\ \A g \in GateIds : gate[g].status \in {"pending", "consumed"} =>
                            gate'[g].status = gate[g].status
    /\ \A u \in Threads : th'[u].pc = "mutate" => th'[u] = th[u]

LEMMA KeptTokens ==
    ASSUME TokenInv, Typed', TokensKept,
           \A r \in Handlers : rs'[r] = rs[r] \/ rs'[r].pc \notin {"check", "update"}
    PROVE  TokenInv'
<1>1. PollerAlone'
  BY TypedFacts DEF TokenInv, PollerAlone, TokensKept, HandlerShape
<1>2. HeldOnce'
  BY TypedFacts DEF TokenInv, HeldOnce, TokensKept, ThreadShape, HostTypeOK
<1> QED BY <1>1, <1>2 DEF TokenInv

\* The workflow's own steps at most insert a gate.
LEMMA RunTokens ==
    ASSUME TokenInv, Typed', NEW t \in Threads, Run(t), UNCHANGED <<hostVars, gateVars>>
    PROVE  TokenInv' /\ TokenStep
<1>1. Typed /\ StoreTypeOK /\ mutations' = mutations /\ rs' = rs
  BY TypedFacts DEF TokenInv, hostVars, gateVars
<1>2. \A u \in Threads : th'[u].pc = "mutate" => th'[u] = th[u]
  BY <1>1, RunApproves DEF ApprovalsKept
<1>3. CASE OpenGate(t)
  <2>1. PICK g \in GateIds : gate[g].status = "absent" /\ InsertGate(g, th[t].at)
    BY <1>3 DEF OpenGate
  <2>2. /\ gate'[g].status = "pending"
        /\ \A h \in GateIds : h # g => gate'[h] = gate[h]
    BY <1>1, <2>1 DEF InsertGate, StoreTypeOK
  <2>3. TokenInv'
    BY <1>1, <1>2, <2>1, <2>2, KeptTokens DEF TokensKept
  <2>4. TokenAt(gate[g]) = "none" /\ TokenAt(gate'[g]) = "requested"
    BY <2>1, <2>2 DEF TokenAt
  <2>5. Token!Request(g)
    BY <1>1, <2>2, <2>4, TokenMoves DEF Token!Request
  <2> QED BY <2>3, <2>5, NextSteps
<1>4. CASE ~OpenGate(t)
  <2>1. gate' = gate
    BY <1>4 DEF Run, StartJob, CreateJobRow, ThreadStep, StartStep, CreateStepRow, StartRunning,
                WriteJob, ResumeSnapshot, ResumeReread, ResumeFinal, StepTransitionRead,
                StepTransitionWrite, WriteStep, JobTransitionRead, JobTransitionWrite,
                ExecuteAuto, PostGate, RetryOrFail, BumpRetries, storeVars
  <2> QED BY <1>1, <1>2, <2>1, KeptTokens, TokenStutters DEF TokensKept
<1> QED BY <1>3, <1>4

\* An exec step spends a gate in one statement and uses it once after that.
LEMMA ExecTokens ==
    ASSUME TokenInv, Typed', NEW t \in Threads, ExecStep(t), UNCHANGED gateVars
    PROVE  TokenInv' /\ TokenStep
<1> DEFINE x == th[t]
<1>1. /\ Typed /\ StoreTypeOK /\ HostTypeOK /\ x \in ThreadState /\ ThreadShape(x)
      /\ rs' = rs /\ PollerAlone /\ HeldOnce /\ th \in [Threads -> ThreadState]
  BY TypedFacts DEF TokenInv, gateVars
<1>2. ASSUME NEW y, y.pc # "mutate", Go(t, y), gate' = gate, mutations' = mutations
      PROVE  TokenInv' /\ TokenStep
  BY <1>1, <1>2, GoElsewhere, KeptTokens, TokenStutters DEF TokensKept
<1>3. /\ [x EXCEPT !.pc = "failed"].pc = "failed"
      /\ [x EXCEPT !.pc = "failed", !.g = 0].pc = "failed"
      /\ Transition(t, "succeeded").pc = "stepRead"
      /\ Transition(t, "failed_recoverable").pc = "stepRead"
      /\ \A g : [x EXCEPT !.pc = "consume", !.g = g].pc = "consume"
      /\ \A ok : AuditDue(t, ok).pc = "audit"
  BY <1>1 DEF Transition, AuditDue, ThreadState
<1>4. CASE FindGate(t)
  BY <1>2, <1>3, <1>4 DEF FindGate, storeVars, hostVars
<1>5. CASE RecordMutation(t)
  BY <1>2, <1>3, <1>5 DEF RecordMutation, storeVars
<1>6. CASE Consume(t)
  <2>1. CASE ~Consumable(x.g)
    BY <1>2, <1>3, <1>6, <2>1 DEF Consume, storeVars, hostVars
  <2>2. CASE Consumable(x.g)
    <3> DEFINE y == [x EXCEPT !.pc = "mutate"]
    <3>1. /\ x.g \in GateIds /\ ConsumeGate(x.g) /\ Go(t, y) /\ mutations' = mutations
          /\ gate[x.g].status = "resolved" /\ gate[x.g].approved
      BY <1>1, <1>6, <2>2 DEF Consume, At, ThreadShape, hostVars, Consumable
    <3>2. y.pc = "mutate" /\ y.g = x.g
      BY <1>1 DEF ThreadState
    <3>3. \A u \in Threads : th'[u] = IF u = t THEN y ELSE th[u]
      BY <1>1, <3>1 DEF Go
    <3>4. /\ gate'[x.g].status = "consumed"
          /\ \A h \in GateIds : h # x.g => gate'[h] = gate[h]
      BY <1>1, <3>1 DEF ConsumeGate, StoreTypeOK
    <3> HIDE DEF y
    <3>5. HeldOnce'
      <4>1. mutations[x.g] = 0
        BY <1>1, <3>1 DEF HeldOnce, HostTypeOK
      <4>2. \A u \in Threads : u # t /\ th[u].pc = "mutate" => th[u].g # x.g
        BY <1>1, <3>1 DEF HeldOnce
      <4>3. \A u \in Threads : th[u].pc = "mutate" => th[u].g \in GateIds
        BY <1>1, TypedFacts DEF ThreadShape
      <4> QED BY <1>1, <3>1, <3>2, <3>3, <3>4, <4>1, <4>2, <4>3 DEF HeldOnce
    <3>6. PollerAlone'
      BY <1>1, <3>1, <3>4, TypedFacts DEF PollerAlone, HandlerShape
    <3>7. PICK g \in GateIds : g = x.g
      BY <3>1
    <3>8. Token!Spend(g)
      <4>1. TokenAt(gate[g]) = "granted" /\ TokenAt(gate'[g]) = "spent"
        BY <3>1, <3>4, <3>7 DEF TokenAt
      <4> QED BY <3>1, <3>4, <3>7, <4>1, TokenMoves DEF Token!Spend
    <3> QED BY <1>1, <3>1, <3>5, <3>6, <3>8, NextSteps DEF TokenInv
  <2> QED BY <2>1, <2>2
<1>7. CASE Mutate(t)
  <2>1. /\ x.pc = "mutate" /\ x.g \in GateIds /\ gate[x.g].status = "consumed"
        /\ mutations[x.g] = 0 /\ gate' = gate
    BY <1>1, <1>7 DEF Mutate, At, ThreadShape, HeldOnce, storeVars
  <2>2. CASE mutations' = mutations
    BY <1>2, <1>3, <1>7, <2>1, <2>2 DEF Mutate
  <2>3. CASE mutations' = [mutations EXCEPT ![x.g] = @ + 1]
    <3>1. mutations' = [mutations EXCEPT ![x.g] = 1]
      BY <1>1, <2>1, <2>3 DEF HostTypeOK
    <3>2. /\ mutations'[x.g] = 1
          /\ \A h \in GateIds : h # x.g => mutations'[h] = mutations[h]
      BY <1>1, <2>1, <3>1 DEF HostTypeOK
    <3>3. \A u \in Threads : th'[u].pc = "mutate" => u # t /\ th'[u] = th[u]
      <4>1. PICK y : Go(t, y) /\ y.pc # "mutate"
        BY <1>3, <1>7 DEF Mutate
      <4> QED BY <1>1, <1>3, <4>1 DEF Go
    <3>4. \A u \in Threads : th[u].pc = "mutate" => th[u].g \in GateIds
      BY <1>1, TypedFacts DEF ThreadShape
    <3>5. HeldOnce'
      BY <1>1, <2>1, <3>2, <3>3, <3>4 DEF HeldOnce
    <3>6. PollerAlone'
      BY <1>1, <2>1 DEF PollerAlone
    <3>7. PICK g \in GateIds : g = x.g
      BY <2>1
    <3>8. Token!Use(g)
      <4> DEFINE T(rows) == [h \in GateIds |-> TokenAt(rows[h])]
      <4>1. T(gate)[g] = "spent" /\ T(gate') = T(gate)
        BY <2>1, <3>7 DEF TokenAt
      <4>2. mutations[g] = 0 /\ mutations' = [mutations EXCEPT ![g] = 1]
        BY <2>1, <3>1, <3>7
      <4> QED BY <4>1, <4>2 DEF Token!Use, TokenAt
    <3> QED BY <2>1, <3>5, <3>6, <3>8, NextSteps DEF TokenInv
  <2> QED BY <1>7, <2>2, <2>3 DEF Mutate
<1> QED BY <1>4, <1>5, <1>6, <1>7 DEF ExecStep

\* The poller finds the gate it checked pending still when it writes; an override
\* looks at no gate.
LEMMA ResolveTokens ==
    ASSUME TokenInv, Typed', NEW r \in Handlers, ResolveStep(r) \/ OverrideCheck(r)
    PROVE  TokenInv' /\ TokenStep
<1> DEFINE x == rs[r]
<1>1. /\ Typed /\ StoreTypeOK /\ x \in HandlerState /\ HandlerShape(x)
      /\ rs \in [Handlers -> HandlerState] /\ PollerAlone /\ HeldOnce
  BY TypedFacts DEF TokenInv
<1>2. ASSUME NEW y, Set(r, y), y.pc \notin {"check", "update"}, gate' = gate,
             mutations' = mutations,
             \A u \in Threads : th'[u].pc = "mutate" => th'[u] = th[u]
      PROVE  TokenInv' /\ TokenStep
  BY <1>1, <1>2, KeptTokens, TokenStutters DEF TokensKept, Set
<1>3. /\ Finished(r).pc \in {"idle", "done"}
      /\ [x EXCEPT !.pc = "stepWrite"].pc = "stepWrite"
      /\ [x EXCEPT !.pc = "spawn"].pc = "spawn"
      /\ Resolved(r).pc \in {"record", "spawn"}
      /\ \A s : [NewHandler("stepRead") EXCEPT !.yes = TRUE, !.step = s].pc = "stepRead"
  BY <1>1 DEF Finished, NewHandler, Resolved, HandlerState
<1>4. CASE ResolveCheck(r)
  <2>1. CASE gate[x.g].status # "pending"
    BY <1>2, <1>3, <1>4, <2>1 DEF ResolveCheck, storeVars, hostVars
  <2>2. CASE gate[x.g].status = "pending"
    <3>1. /\ Set(r, [x EXCEPT !.pc = "update"]) /\ x.pc = "check" /\ th' = th
          /\ gate' = gate /\ mutations' = mutations
      BY <1>4, <2>2 DEF ResolveCheck, In, storeVars, hostVars
    <3>2. [x EXCEPT !.pc = "update"].pc = "update" /\ [x EXCEPT !.pc = "update"].g = x.g
      BY <1>1 DEF HandlerState
    <3>3. PollerAlone'
      BY <1>1, <2>2, <3>1, <3>2 DEF PollerAlone, Set
    <3>4. HeldOnce'
      BY <1>1, <3>1 DEF HeldOnce
    <3> QED BY <3>1, <3>3, <3>4, TokenStutters DEF TokenInv
  <2> QED BY <2>1, <2>2
<1>5. CASE ResolveUpdate(r)
  <2> DEFINE y == [x EXCEPT !.pc = "stepRead", !.step = gate[x.g].step]
  <2>1. /\ x.pc = "update" /\ x.g \in GateIds /\ gate[x.g].status = "pending"
        /\ x.yes \in BOOLEAN /\ r = <<Poller, 0>>
    BY <1>1, <1>5 DEF ResolveUpdate, In, HandlerShape, PollerAlone, HandlerState
  <2>2. WriteResolution(x.g, x.yes) /\ Set(r, y) /\ th' = th /\ mutations' = mutations
    BY <1>5 DEF ResolveUpdate, hostVars
  <2>3. y.pc = "stepRead"
    BY <1>1 DEF HandlerState
  <2>4. /\ gate'[x.g].status = "resolved" /\ gate'[x.g].approved = x.yes
        /\ \A h \in GateIds : h # x.g => gate'[h] = gate[h]
    BY <1>1, <2>1, <2>2 DEF WriteResolution, StoreTypeOK
  <2> HIDE DEF y
  <2>5. \A q \in Handlers : rs'[q].pc \notin {"check", "update"}
    BY <1>1, <2>1, <2>2, <2>3 DEF Set, PollerAlone
  <2>6. PollerAlone'
    BY <2>5 DEF PollerAlone
  <2>7. HeldOnce'
    BY <1>1, <2>1, <2>2, <2>4, TypedFacts DEF HeldOnce, ThreadShape
  <2>8. PICK g \in GateIds : g = x.g
    BY <2>1
  <2>9. Token!Grant(g) \/ Token!Deny(g)
    <3>1. TokenAt(gate[g]) = "requested" /\ TokenAt(gate'[g]) \in {"granted", "denied"}
      BY <2>1, <2>4, <2>8 DEF TokenAt
    <3> QED BY <2>1, <2>2, <2>4, <2>8, <3>1, TokenMoves DEF Token!Grant, Token!Deny
  <2> QED BY <2>1, <2>6, <2>7, <2>9, NextSteps DEF TokenInv
<1>6. CASE HandlerStepRead(r)
  BY <1>2, <1>3, <1>6 DEF HandlerStepRead, storeVars, hostVars
<1>7. CASE HandlerStepWrite(r)
  BY <1>2, <1>3, <1>7 DEF HandlerStepWrite, WriteStep, hostVars
<1>8. CASE TriggerResume(r)
  <2>1. Fresh.pc # "mutate"
    BY DEF Fresh, Idle
  <2>2. \A u \in Threads : th'[u].pc = "mutate" => th'[u] = th[u]
    BY <1>1, <1>8, <2>1, GoElsewhere DEF TriggerResume
  <2> QED BY <1>2, <1>3, <1>8, <2>2 DEF TriggerResume, storeVars, hostVars
<1>9. CASE OverrideRecord(r)
  BY <1>2, <1>3, <1>9 DEF OverrideRecord, RecordOverride, hostVars
<1>10. CASE OverrideCheck(r)
  BY <1>2, <1>3, <1>10 DEF OverrideCheck, storeVars, hostVars
<1> QED BY <1>4, <1>5, <1>6, <1>7, <1>8, <1>9, <1>10 DEF ResolveStep

\* A cycle of the poller withdraws the orphans; a restart changes no row.
LEMMA RestTokens ==
    ASSUME TokenInv, Typed',
           \/ \E g \in GateIds : Decide(g) \/ PollAnswered(g) \/ PollUnanswered(g)
           \/ PollCycle
           \/ Restart
    PROVE  TokenInv' /\ TokenStep
<1>1. /\ Typed /\ StoreTypeOK /\ rs \in [Handlers -> HandlerState] /\ PollerAlone /\ HeldOnce
  BY TypedFacts DEF TokenInv
<1>2. CASE \E g \in GateIds : Decide(g) \/ PollUnanswered(g)
  BY <1>2, KeptTokens, TokenStutters
     DEF Decide, PollUnanswered, PollNext, storeVars, hostVars, gateVars, TokensKept
<1>3. ASSUME NEW g \in GateIds, PollAnswered(g) PROVE TokenInv' /\ TokenStep
  <2>1. /\ Set(<<Poller, 0>>, Resolving(g)) /\ th' = th /\ gate' = gate
        /\ mutations' = mutations
    BY <1>3 DEF PollAnswered, PollNext, storeVars, hostVars
  <2>2. Resolving(g).pc = "check"
    BY DEF Resolving
  <2>3. PollerAlone'
    BY <1>1, <2>1, <2>2 DEF PollerAlone, Set
  <2>4. HeldOnce'
    BY <1>1, <2>1 DEF HeldOnce
  <2> QED BY <2>1, <2>3, <2>4, TokenStutters DEF TokenInv
<1>4. CASE PollCycle
  <2>1. /\ rs[<<Poller, 0>>].pc = "idle" /\ RetireOrphans
        /\ th' = th /\ rs' = rs /\ mutations' = mutations
    BY <1>4 DEF PollCycle, In, hostVars
  <2>2. /\ \A g \in Orphans : gate[g].status = "pending" /\ gate'[g].status = "orphaned"
        /\ \A g \in GateIds \ Orphans : gate'[g] = gate[g]
        /\ Orphans \subseteq GateIds
    BY <1>1, <2>1 DEF RetireOrphans, Orphans, PendingGates, StoreTypeOK
  <2>3. PollerAlone'
    BY <1>1, <2>1 DEF PollerAlone
  <2>4. HeldOnce'
    BY <1>1, <2>1, <2>2, TypedFacts DEF HeldOnce, ThreadShape
  <2>5. Token!Withdraw
    <3>1. \A g \in Orphans : TokenAt(gate[g]) = "requested" /\ TokenAt(gate'[g]) = "withdrawn"
      BY <2>2 DEF TokenAt
    <3>2. \A g \in GateIds \ Orphans : TokenAt(gate'[g]) = TokenAt(gate[g])
      BY <2>2
    <3> DEFINE T(rows) == [g \in GateIds |-> TokenAt(rows[g])]
    <3>3. \A g \in Orphans : T(gate)[g] = "requested"
      BY <2>2, <3>1
    <3>4. T(gate') = [g \in GateIds |-> IF g \in Orphans THEN "withdrawn" ELSE T(gate)[g]]
      BY <2>2, <3>1, <3>2
    <3>5. Orphans \in SUBSET GateIds
      BY <2>2
    <3> HIDE DEF Orphans
    <3> QED BY <2>1, <3>3, <3>4, <3>5 DEF Token!Withdraw, TokenAt
  <2> QED BY <2>3, <2>4, <2>5, NextSteps DEF TokenInv
<1>5. CASE Restart
  <2>1. \A u \in Threads : th'[u].pc # "mutate"
    BY <1>5 DEF Restart, ResumeInterrupted, Fresh, Idle
  <2>2. \A q \in Handlers : rs'[q] = rs[q] \/ rs'[q].pc \notin {"check", "update"}
    BY <1>5 DEF Restart, NewHandler
  <2> QED BY <1>5, <2>1, <2>2, KeptTokens, TokenStutters DEF Restart, TokensKept, storeVars, hostVars
<1> QED BY <1>2, <1>3, <1>4, <1>5

LEMMA TokenInit == Init => TokenInv /\ Token!Init
<1>1. Init => TokenInv
  BY InitTyped DEF Init, StoreInit, ThreadInit, HostInit, HandlerInit, Idle, NewHandler,
                   TokenInv, PollerAlone, HeldOnce
<1>2. Init => Token!Init
  BY DEF Init, StoreInit, HostInit, NoGateRow, Token!Init
<1> QED BY <1>1, <1>2

LEMMA TokenNext ==
    ASSUME CallbackGates = {} PROVE TokenInv /\ [Next]_vars => TokenInv' /\ TokenStep
<1> SUFFICES ASSUME TokenInv, [Next]_vars PROVE TokenInv' /\ TokenStep
  OBVIOUS
<1>1. Typed'
  BY NextTyped DEF TokenInv
<1>2. CASE UNCHANGED vars
  BY <1>1, <1>2, KeptTokens, TokenStutters DEF vars, storeVars, hostVars, gateVars, TokensKept
<1>3. CASE Next
  BY <1>1, <1>3, RunTokens, ExecTokens, ResolveTokens, RestTokens DEF Next
<1> QED BY <1>2, <1>3

\* Where the council sends no callback, so that the poller is the only one to
\* resolve a gate, the gate rows and the host implement single-use approvals
\* (engine.py:222-228, hostops_deploy.py:17-19), whatever overrides and restarts do.
THEOREM Refines ==
    ASSUME CallbackGates = {} PROVE Spec => TokenSpec
<1>1. TokenStep <=> [Token!Next]_(Token!vars)
  BY DEF TokenStep
<1> QED BY <1>1, TokenInit, TokenNext, PTL DEF Spec, TokenSpec, Token!Spec

(***************************************************************************)
(* The reconciler raises no false alarm                                    *)
(***************************************************************************)

\* A gate in the hands of an exec step is the gate of the step before it; once consumed it
\* stays so, and so it is when the record of a success names it.
GateInHand(x) ==
    /\ x.pc \in {"consume", "mutate"} \/ (x.pc = "audit" /\ x.to = "succeeded")
         => x.g \in GateIds /\ gate[x.g].step = x.at - 1 /\ gate[x.g].status # "absent"
    /\ x.pc = "mutate" \/ (x.pc = "audit" /\ x.to = "succeeded") => gate[x.g].status = "consumed"

AlarmInv == TokenInv /\ NoFalseAlarm /\ \A t \in Threads : GateInHand(th[t])

\* What leaves both alone: gates keep their step, a consumed one stays consumed, and
\* threads go on without a gate in hand.
AlarmsKept ==
    /\ audit' = audit
    /\ \A g \in GateIds : gate[g].status # "absent" =>
         /\ gate'[g].status # "absent" /\ gate'[g].step = gate[g].step
         /\ gate[g].status = "consumed" => gate'[g].status = "consumed"
    /\ \A u \in Threads : th'[u].pc \in {"consume", "mutate", "audit"} => th'[u] = th[u]

\* The shape of a record, and the property row by row.
LEMMA RecordsTyped == Typed => audit \subseteq AuditRow
BY TypedFacts DEF HostTypeOK

LEMMA AlarmRows ==
    NoFalseAlarm <=> \A row \in audit : Accounted(row)
BY DEF NoFalseAlarm, Unreconciled

LEMMA KeptAlarms ==
    ASSUME AlarmInv, TokenInv', AlarmsKept PROVE AlarmInv'
<1>1. audit \subseteq AuditRow
  BY RecordsTyped DEF AlarmInv, TokenInv
<1>2. ASSUME NEW row \in audit PROVE Accounted(row)'
  BY <1>1, <1>2, AlarmRows DEF AlarmInv, Accounted, AuditRow, AlarmsKept
<1>3. NoFalseAlarm'
  BY <1>2 DEF NoFalseAlarm, Unreconciled, AlarmsKept
<1>4. \A u \in Threads : GateInHand(th[u])'
  BY DEF AlarmInv, GateInHand, AlarmsKept
<1> QED BY <1>3, <1>4 DEF AlarmInv

\* The workflow's own steps take no gate in hand for a mutation: a thread takes one only
\* to post it.
LEMMA RunQuietly ==
    ASSUME Typed, NEW t \in Threads, Run(t)
    PROVE  /\ th[t].pc \notin {"consume", "mutate", "audit"}
           /\ \E y : /\ Go(t, y) /\ y.pc \notin {"consume", "mutate", "audit"}
                    /\ \/ y.g = 0 \/ y.pc = "post"
                       \/ y.g = th[t].g /\ th[t].pc # "post"
<1> DEFINE x == th[t]
        Quiet(y) == /\ y.pc \notin {"consume", "mutate", "audit"}
                    /\ \/ y.g = 0 \/ y.pc = "post"
                       \/ y.g = x.g /\ x.pc # "post"
<1>1. Typed /\ StoreTypeOK /\ x \in ThreadState /\ th \in [Threads -> ThreadState]
  BY TypedFacts
<1>3. Quiet(Idle) /\ Quiet(Fresh) /\ \A s : Quiet(Transition(t, s))
  BY <1>1 DEF Idle, Fresh, Transition, ThreadState
<1>4. ASSUME NEW y \in ThreadState, NEW s \in Steps, y.g = x.g, x.pc # "post"
      PROVE  Quiet(Visit(y, s))
  BY <1>4 DEF Visit, Idle, ThreadState
<1>5. ASSUME NEW y \in ThreadState, NEW i, Advance(t, y, i), y.g = x.g, x.pc # "post"
      PROVE  \E z : Go(t, z) /\ Quiet(z)
  <2>1. Quiet([y EXCEPT !.pc = "final", !.at = 0])
    BY <1>5 DEF ThreadState
  <2> QED BY <1>4, <1>5, <2>1 DEF Advance, NextRow, Unfinished
<1>6. Quiet(x) /\ x.pc # "post" => Quiet(AfterTransition(x))
  BY <1>1 DEF AfterTransition, Idle, ThreadState
<1>7. \E y : Go(t, y) /\ Quiet(y)
  <2>1. CASE StartJob(t)
    <3>1. Quiet([Idle EXCEPT !.pc = "create", !.at = 1])
      BY DEF Idle
    <3> QED BY <2>1, <3>1 DEF StartJob
  <2>2. CASE StartStep(t)
    <3>1. Quiet([Idle EXCEPT !.pc = "start"]) /\ (x.pc = "create" => Quiet([x EXCEPT !.at = @ + 1]))
      BY <1>1 DEF Idle, ThreadState
    <3> QED BY <2>2, <3>1 DEF StartStep, At
  <2>3. CASE StartRunning(t)
    BY <1>3, <2>3 DEF StartRunning
  <2>4. CASE ResumeSnapshot(t)
    <3>1. [x EXCEPT !.snap = step] \in ThreadState /\ [x EXCEPT !.snap = step].g = x.g
      BY <1>1 DEF ThreadState, StoreTypeOK
    <3> QED BY <1>5, <2>4, <3>1 DEF ResumeSnapshot, At
  <2>5. CASE ResumeReread(t)
    <3>1. Quiet([x EXCEPT !.pc = "jobRead", !.to = "failed_permanent"])
      BY <1>1, <2>5 DEF ResumeReread, At, ThreadState
    <3> QED BY <1>1, <1>5, <2>5, <3>1 DEF ResumeReread, At
  <2>6. CASE ResumeFinal(t)
    <3>1. Quiet([x EXCEPT !.pc = "jobRead", !.to = RollUp])
      BY <1>1, <2>6 DEF ResumeFinal, At, ThreadState
    <3> QED BY <1>3, <2>6, <3>1 DEF ResumeFinal
  <2>7. CASE StepTransitionRead(t) \/ StepTransitionWrite(t)
    <3>1. Quiet(x) /\ x.pc # "post" /\ Quiet([x EXCEPT !.pc = "stepWrite"])
      BY <1>1, <2>7 DEF StepTransitionRead, StepTransitionWrite, At, ThreadState
    <3> QED BY <1>6, <2>7, <3>1 DEF StepTransitionRead, StepTransitionWrite
  <2>8. CASE JobTransitionRead(t) \/ JobTransitionWrite(t)
    <3>1. x.pc \in {"jobRead", "jobWrite"} => Quiet([x EXCEPT !.pc = "jobWrite"])
      BY <1>1 DEF ThreadState
    <3> QED BY <1>3, <2>8, <3>1 DEF JobTransitionRead, JobTransitionWrite, At
  <2>9. (x.pc # "post" => Quiet([x EXCEPT !.pc = "failed"])) /\ Quiet([x EXCEPT !.pc = "failed", !.g = 0])
        /\ (\A g : Quiet([x EXCEPT !.pc = "post", !.g = g]))
        /\ Quiet([Transition(t, "pending") EXCEPT !.retry = @ + 1])
    BY <1>1 DEF Transition, ThreadState
  <2>10. CASE ExecuteAuto(t)
    BY <1>3, <2>9, <2>10 DEF ExecuteAuto, At
  <2>11. CASE OpenGate(t)
    BY <2>9, <2>11 DEF OpenGate
  <2>12. CASE PostGate(t)
    BY <1>3, <2>9, <2>12 DEF PostGate
  <2>13. CASE RetryOrFail(t)
    BY <1>3, <2>9, <2>13 DEF RetryOrFail
  <2> QED BY <2>1, <2>2, <2>3, <2>4, <2>5, <2>6, <2>7, <2>8, <2>10, <2>11, <2>12, <2>13
          DEF Run, ThreadStep
<1>8. x.pc \notin {"consume", "mutate", "audit"}
  BY <1>1, TypedFacts
     DEF Run, StartJob, ThreadStep, StartStep, StartRunning, ResumeSnapshot, ResumeReread, ResumeFinal,
         StepTransitionRead, StepTransitionWrite, JobTransitionRead, JobTransitionWrite,
         ExecuteAuto, OpenGate, PostGate, RetryOrFail, At
<1> QED BY <1>7, <1>8

\* They change no gate row that is there.
LEMMA RunInserts ==
    ASSUME NEW t \in Threads, Run(t)
    PROVE  gate' = gate \/ \E g \in GateIds : gate[g].status = "absent" /\ InsertGate(g, th[t].at)
BY DEF Run, StartJob, CreateJobRow, ThreadStep, StartStep, CreateStepRow, StartRunning,
       WriteJob, ResumeSnapshot, ResumeReread, ResumeFinal, StepTransitionRead,
       StepTransitionWrite, WriteStep, JobTransitionRead, JobTransitionWrite,
       ExecuteAuto, OpenGate, PostGate, RetryOrFail, BumpRetries, storeVars

\* So does the record of what was done with a gate stay the exec steps' alone.
LEMMA RunAlarms ==
    ASSUME AlarmInv, TokenInv', NEW t \in Threads, Run(t), UNCHANGED hostVars
    PROVE  AlarmInv'
<1> DEFINE x == th[t]
<1>1. Typed /\ StoreTypeOK /\ th \in [Threads -> ThreadState]
  BY TypedFacts DEF AlarmInv, TokenInv
<1>2. \A u \in Threads : th'[u].pc \in {"consume", "mutate", "audit"} => th'[u] = th[u]
  <2>1. PICK y : Go(t, y) /\ y.pc \notin {"consume", "mutate", "audit"}
    BY <1>1, RunQuietly
  <2> QED BY <1>1, <2>1 DEF Go
<1>3. gate' = gate \/ \E g \in GateIds : gate[g].status = "absent" /\ InsertGate(g, x.at)
  BY RunInserts
<1>4. AlarmsKept
  BY <1>1, <1>2, <1>3 DEF AlarmsKept, InsertGate, StoreTypeOK, hostVars
<1> QED BY <1>4, KeptAlarms

\* An exec step takes the gate of the step before it, consumes it, and names it on record.
LEMMA ExecAlarms ==
    ASSUME AlarmInv, TokenInv', NEW t \in Threads, ExecStep(t)
    PROVE  AlarmInv'
<1> DEFINE x == th[t]
<1>1. /\ Typed /\ StoreTypeOK /\ HostTypeOK /\ x \in ThreadState /\ ThreadShape(x)
      /\ GateInHand(x) /\ th \in [Threads -> ThreadState] /\ audit \subseteq AuditRow
      /\ \A row \in audit : Accounted(row)
  BY TypedFacts, AlarmRows, RecordsTyped DEF AlarmInv, TokenInv
<1>2. ASSUME NEW y, Go(t, y), UNCHANGED <<gate, audit>>, GateInHand(y) PROVE AlarmInv'
  <2>1. \A u \in Threads : GateInHand(th[u])'
    BY <1>1, <1>2 DEF Go, GateInHand, AlarmInv
  <2>2. NoFalseAlarm'
    BY <1>2 DEF AlarmInv, NoFalseAlarm, Unreconciled, Accounted
  <2> QED BY <2>1, <2>2 DEF AlarmInv
<1>3. /\ GateInHand([x EXCEPT !.pc = "failed"]) /\ GateInHand([x EXCEPT !.pc = "failed", !.g = 0])
      /\ GateInHand(Transition(t, "succeeded")) /\ GateInHand(AuditDue(t, FALSE))
  BY <1>1 DEF Transition, AuditDue, ThreadState, GateInHand
<1>4. CASE FindGate(t)
  <2>1. ASSUME NEW g \in NewestResolved(x.at - 1)
        PROVE  GateInHand([x EXCEPT !.pc = "consume", !.g = g])
    <3>1. g \in GateIds /\ gate[g].step = x.at - 1 /\ gate[g].status = "resolved"
      BY DEF NewestResolved, ResolvedGates
    <3>2. /\ [x EXCEPT !.pc = "consume", !.g = g].pc = "consume"
          /\ [x EXCEPT !.pc = "consume", !.g = g].g = g
          /\ [x EXCEPT !.pc = "consume", !.g = g].at = x.at
      BY <1>1 DEF ThreadState
    <3> QED BY <3>1, <3>2 DEF GateInHand
  <2> QED BY <1>2, <1>3, <1>4, <2>1 DEF FindGate, storeVars, hostVars
<1>5. CASE Consume(t)
  <2>1. CASE ~Consumable(x.g)
    BY <1>2, <1>3, <1>5, <2>1 DEF Consume, storeVars, hostVars
  <2>2. CASE Consumable(x.g)
    <3> DEFINE y == [x EXCEPT !.pc = "mutate"]
    <3>1. /\ x.g \in GateIds /\ gate[x.g].step = x.at - 1 /\ ConsumeGate(x.g) /\ Go(t, y)
          /\ audit' = audit
      BY <1>1, <1>5, <2>2 DEF Consume, At, GateInHand, hostVars
    <3>2. y.pc = "mutate" /\ y.g = x.g /\ y.at = x.at
      BY <1>1 DEF ThreadState
    <3>3. /\ gate'[x.g].status = "consumed" /\ gate'[x.g].step = gate[x.g].step
          /\ \A h \in GateIds : h # x.g => gate'[h] = gate[h]
      BY <1>1, <3>1 DEF ConsumeGate, StoreTypeOK
    <3> HIDE DEF y
    <3>4. \A u \in Threads : GateInHand(th[u])'
      BY <1>1, <3>1, <3>2, <3>3 DEF Go, GateInHand, AlarmInv
    <3>5. \A row \in audit : Accounted(row)'
      BY <1>1, <3>3 DEF Accounted, AuditRow
    <3> QED BY <3>1, <3>4, <3>5 DEF AlarmInv, NoFalseAlarm, Unreconciled
  <2> QED BY <2>1, <2>2
<1>6. CASE Mutate(t)
  <2>1. ASSUME NEW ok \in BOOLEAN PROVE GateInHand(AuditDue(t, ok))
    <3>1. x.g \in GateIds /\ gate[x.g].step = x.at - 1 /\ gate[x.g].status = "consumed"
      BY <1>1, <1>6 DEF Mutate, At, GateInHand
    <3>2. AuditDue(t, ok).pc = "audit" /\ AuditDue(t, ok).g = x.g /\ AuditDue(t, ok).at = x.at
      BY <1>1 DEF AuditDue, ThreadState
    <3> QED BY <3>1, <3>2 DEF GateInHand
  <2>2. GateInHand(Transition(t, "failed_recoverable"))
    BY <1>1 DEF Transition, ThreadState, GateInHand
  <2> QED BY <1>2, <1>6, <2>1, <2>2 DEF Mutate, storeVars
<1>7. CASE RecordMutation(t)
  <2> DEFINE ok == x.to = "succeeded"
             y == IF ok THEN Transition(t, "succeeded") ELSE [x EXCEPT !.pc = "failed", !.g = 0]
  <2>1. Go(t, y) /\ GateInHand(y) /\ gate' = gate /\ x.pc = "audit"
    BY <1>3, <1>7 DEF RecordMutation, At, storeVars
  <2>2. CASE audit' = audit
    BY <1>2, <2>1, <2>2
  <2>3. ASSUME NEW g \in IF ok THEN {x.g} ELSE RecoveredGate(x.at - 1),
               audit' = audit \cup {[step |-> x.at, gate |-> g, ok |-> ok]}
        PROVE  AlarmInv'
    <3>1. g # 0 => gate[g].status = "consumed" /\ gate[g].step = x.at - 1
      BY <1>1, <2>1 DEF GateInHand, RecoveredGate, ConsumedGates
    <3>2. Accounted([step |-> x.at, gate |-> g, ok |-> ok])
      BY <3>1 DEF Accounted
    <3>3. \A row \in audit' : Accounted(row)
      BY <1>1, <2>3, <3>2
    <3>4. NoFalseAlarm'
      BY <2>1, <3>3 DEF NoFalseAlarm, Unreconciled, Accounted
    <3> HIDE DEF y
    <3>5. \A u \in Threads : GateInHand(th[u])'
      BY <1>1, <2>1 DEF Go, GateInHand, AlarmInv
    <3> QED BY <3>4, <3>5 DEF AlarmInv
  <2> QED BY <1>7, <2>2, <2>3 DEF RecordMutation
<1> QED BY <1>4, <1>5, <1>6, <1>7 DEF ExecStep

\* What is neither the workflow's nor an exec step's takes nothing back from a gate and,
\* short of a restart, gives work to idle threads alone.
Rest ==
    \/ \E r \in Handlers : ResolveStep(r) \/ OverrideCheck(r)
    \/ \E g \in GateIds : Decide(g) \/ PollAnswered(g) \/ PollUnanswered(g)
    \/ PollCycle
    \/ Restart

LEMMA RestKeeps ==
    ASSUME TokenInv, Rest
    PROVE  /\ hostVars' = hostVars
           /\ \A g \in GateIds : gate[g].status # "absent" =>
                /\ gate'[g].status # "absent" /\ gate'[g].step = gate[g].step
                /\ gate[g].status = "consumed" => gate'[g].status = "consumed"
           /\ \A u \in Threads : \/ th'[u] = th[u]
                               \/ /\ th'[u].pc \in {"idle", "snapshot"} /\ th'[u].g = 0
                                  /\ th[u].pc = "idle" \/ crashes' = crashes + 1
<1>1. /\ Typed /\ StoreTypeOK /\ th \in [Threads -> ThreadState] /\ PollerAlone
      /\ \A r \in Handlers : HandlerShape(rs[r])
  BY TypedFacts DEF TokenInv
<1>2. CASE \E g \in GateIds : Decide(g) \/ PollAnswered(g) \/ PollUnanswered(g)
  BY <1>2 DEF Decide, PollAnswered, PollUnanswered, PollNext, storeVars
<1>3. CASE PollCycle
  <2>1. \A g \in GateIds :
          \/ gate'[g] = gate[g]
          \/ /\ gate[g].status = "pending" /\ gate'[g].status = "orphaned"
             /\ gate'[g].step = gate[g].step
    BY <1>1, <1>3 DEF PollCycle, RetireOrphans, Orphans, PendingGates, StoreTypeOK, GateRow
  <2> QED BY <1>3, <2>1 DEF PollCycle
<1>4. CASE Restart
  <2>1. \A u \in Threads : th'[u].pc \in {"idle", "snapshot"} /\ th'[u].g = 0
    BY <1>4 DEF Restart, ResumeInterrupted, Fresh, Idle
  <2> QED BY <1>4, <2>1 DEF Restart, storeVars
<1>5. ASSUME NEW r \in Handlers, ResolveUpdate(r)
      PROVE  \A h \in GateIds :
               \/ gate'[h] = gate[h]
               \/ /\ gate[h].status = "pending" /\ gate'[h].status = "resolved"
                  /\ gate'[h].step = gate[h].step
  <2>1. rs[r].g \in GateIds /\ gate[rs[r].g].status = "pending"
    BY <1>1, <1>5 DEF ResolveUpdate, In, HandlerShape, PollerAlone
  <2> QED BY <1>1, <1>5, <2>1 DEF ResolveUpdate, WriteResolution, StoreTypeOK, GateRow
<1>6. CASE \E r \in Handlers : ResolveUpdate(r)
  BY <1>5, <1>6 DEF ResolveUpdate
<1>7. ASSUME NEW r \in Handlers, TriggerResume(r)
      PROVE  \A u \in Threads : \/ th'[u] = th[u]
                                \/ th'[u].pc = "snapshot" /\ th'[u].g = 0 /\ th[u].pc = "idle"
  <2>1. Fresh.pc = "snapshot" /\ Fresh.g = 0
    BY DEF Fresh, Idle
  <2> QED BY <1>1, <1>7, <2>1 DEF TriggerResume, Go, At
<1>8. CASE \E r \in Handlers : TriggerResume(r)
  <2>1. UNCHANGED <<gate, hostVars>>
    BY <1>8 DEF TriggerResume, storeVars
  <2> QED BY <1>7, <1>8, <2>1
<1>9. CASE \E r \in Handlers : ResolveCheck(r) \/ HandlerStepRead(r) \/ HandlerStepWrite(r)
                               \/ OverrideRecord(r) \/ OverrideCheck(r)
  BY <1>9 DEF ResolveCheck, HandlerStepRead, HandlerStepWrite, OverrideRecord, OverrideCheck,
              WriteStep, RecordOverride, storeVars
<1> QED BY <1>2, <1>3, <1>4, <1>6, <1>8, <1>9 DEF Rest, ResolveStep

\* The rest moves no thread to a mutation and takes nothing back.
LEMMA RestAlarms ==
    ASSUME AlarmInv, TokenInv', Rest PROVE AlarmInv'
<1>1. \A u \in Threads : th'[u].pc \in {"consume", "mutate", "audit"} => th'[u] = th[u]
  BY RestKeeps DEF AlarmInv
<1>2. AlarmsKept
  BY <1>1, RestKeeps DEF AlarmInv, AlarmsKept, hostVars
<1> QED BY <1>2, KeptAlarms

LEMMA AlarmNext ==
    ASSUME CallbackGates = {} PROVE AlarmInv /\ [Next]_vars => AlarmInv'
<1> SUFFICES ASSUME AlarmInv, [Next]_vars PROVE AlarmInv'
  OBVIOUS
<1>1. TokenInv'
  BY TokenNext DEF AlarmInv
<1>2. CASE UNCHANGED vars
  BY <1>1, <1>2, KeptAlarms DEF vars, storeVars, hostVars, AlarmsKept
<1>3. CASE Next
  BY <1>1, <1>3, RunAlarms, ExecAlarms, RestAlarms DEF Next, Rest
<1> QED BY <1>2, <1>3

\* Where the council sends no callback, reconcile() (hostops_audit.py:215-251) finds no
\* record that names a gate other than a consumed one of the step before: what went
\* through the door is never reported as having bypassed it.
THEOREM NoAlarm ==
    ASSUME CallbackGates = {} PROVE Spec => []NoFalseAlarm
<1>1. Init => AlarmInv
  BY TokenInit
     DEF Init, HostInit, ThreadInit, Idle, AlarmInv, NoFalseAlarm, Unreconciled, GateInHand
<1>2. AlarmInv => NoFalseAlarm
  BY DEF AlarmInv
<1> QED BY <1>1, <1>2, AlarmNext, PTL DEF Spec

(***************************************************************************)
(* What is missing from the record of mutations                            *)
(***************************************************************************)

\* A thread has a gate in hand from where it opens or finds one to where it lets go; at
\* the record it is the consumed gate of the step before.
HandOnly(x) ==
    /\ x.g # 0 => x.pc \in {"post", "consume", "mutate", "audit"}
    /\ x.pc = "audit" /\ x.g # 0 => gate[x.g].step = x.at - 1 /\ gate[x.g].status = "consumed"

RecordInv == AlarmInv /\ RecordedOrLogged /\ \A t \in Threads : HandOnly(th[t])

\* What leaves it alone: nothing done on the host, nothing taken from a gate, and a thread
\* at the record stays there.
RecordsKept ==
    /\ UNCHANGED hostVars /\ (crashes' = 0 => crashes = 0)
    /\ \A g \in GateIds : gate[g].status # "absent" =>
         /\ gate'[g].step = gate[g].step
         /\ gate[g].status = "consumed" => gate'[g].status = "consumed"
    /\ \A u \in Threads : HandOnly(th[u])'
    /\ crashes' = 0 => \A u \in Threads : th[u].pc = "audit" => th'[u] = th[u]

LEMMA KeptRecords ==
    ASSUME RecordInv, AlarmInv', RecordsKept PROVE RecordInv'
<1>1. RecordedOrLogged'
  <2> SUFFICES ASSUME crashes' = 0, NEW g \in GateIds, mutations[g] > 0
               PROVE  Recorded(g)' \/ Overtaken(g)'
    BY DEF RecordedOrLogged, RecordsKept, hostVars
  <2>1. gate[g].status = "consumed" /\ gate'[g].step = gate[g].step
    BY DEF RecordInv, AlarmInv, TokenInv, HeldOnce, RecordsKept
  <2>2. CASE Recorded(g)
    BY <2>1, <2>2 DEF Recorded, RecordsKept, hostVars, At
  <2>3. CASE Overtaken(g)
    BY <2>1, <2>3 DEF Overtaken, RecordsKept
  <2> QED BY <2>2, <2>3 DEF RecordInv, RecordedOrLogged, RecordsKept
<1> QED BY <1>1 DEF RecordInv, RecordsKept

\* A thread that goes on leaves the others where they are.
LEMMA GoRecords ==
    ASSUME RecordInv, AlarmInv', NEW t \in Threads, NEW y, Go(t, y), UNCHANGED <<hostVars, crashes>>,
           th[t].pc # "audit", y.g # 0 => y.pc \in {"post", "consume", "mutate"},
           \A g \in GateIds : gate[g].status # "absent" =>
             /\ gate'[g].step = gate[g].step
             /\ gate[g].status = "consumed" => gate'[g].status = "consumed"
    PROVE  RecordInv'
<1>1. Typed /\ th \in [Threads -> ThreadState]
  BY TypedFacts DEF RecordInv, AlarmInv, TokenInv
<1>2. \A u \in Threads : th'[u] = IF u = t THEN y ELSE th[u]
  BY <1>1 DEF Go
<1>3. ASSUME NEW u \in Threads PROVE HandOnly(th[u])'
  <2>1. CASE u = t
    <3>1. th'[u] = y /\ (y.pc # "audit" \/ y.g = 0)
      BY <1>2, <2>1
    <3> QED BY <1>2, <2>1, <3>1 DEF HandOnly
  <2>2. CASE u # t
    <3>1. th'[u] = th[u] /\ th[u].g \in GateIds \cup {0} /\ HandOnly(th[u])
      BY <1>1, <1>2, <2>2 DEF RecordInv, ThreadState
    <3> QED BY <3>1 DEF HandOnly
  <2> QED BY <2>1, <2>2
<1>4. \A u \in Threads : th[u].pc = "audit" => th'[u] = th[u]
  BY <1>2
<1>5. UNCHANGED hostVars /\ crashes' = crashes
  OBVIOUS
<1>6. RecordsKept
  BY <1>3, <1>4, <1>5 DEF RecordsKept
<1> QED BY <1>6, KeptRecords

LEMMA RunRecords ==
    ASSUME RecordInv, AlarmInv', NEW t \in Threads, Run(t), UNCHANGED <<hostVars, crashes>>
    PROVE  RecordInv'
<1>1. Typed /\ StoreTypeOK /\ HandOnly(th[t])
  BY TypedFacts DEF RecordInv, AlarmInv, TokenInv
<1>2. PICK y : /\ Go(t, y) /\ y.pc \notin {"consume", "mutate", "audit"}
               /\ y.g = 0 \/ y.pc = "post" \/ (y.g = th[t].g /\ th[t].pc # "post")
  BY <1>1, RunQuietly
<1>3. th[t].pc \notin {"consume", "mutate", "audit"} /\ (y.g # 0 => y.pc = "post")
  BY <1>1, <1>2, RunQuietly DEF HandOnly
<1>4. \A g \in GateIds : gate[g].status # "absent" => gate'[g] = gate[g]
  BY <1>1, RunInserts DEF InsertGate, StoreTypeOK
<1> QED BY <1>2, <1>3, <1>4, GoRecords

\* A mutation is followed by its record, which names its gate, or a newer one.
LEMMA ExecRecords ==
    ASSUME RecordInv, AlarmInv', NEW t \in Threads, ExecStep(t), crashes' = crashes
    PROVE  RecordInv'
<1> DEFINE x == th[t]
<1>1. /\ StoreTypeOK /\ HostTypeOK /\ x \in ThreadState /\ th \in [Threads -> ThreadState]
      /\ HandOnly(x) /\ GateInHand(x) /\ HeldOnce /\ ThreadShape(x)
      /\ RecordedOrLogged
  BY TypedFacts DEF RecordInv, AlarmInv, TokenInv
<1>2. /\ [x EXCEPT !.pc = "failed", !.g = 0].g = 0
      /\ x.pc = "execute" => [x EXCEPT !.pc = "failed"].g = 0 /\ AuditDue(t, FALSE).g = 0
      /\ [x EXCEPT !.pc = "mutate"].pc = "mutate"
      /\ \A g : [x EXCEPT !.pc = "consume", !.g = g].pc = "consume"
      /\ Transition(t, "succeeded").g = 0
  BY <1>1 DEF HandOnly, AuditDue, Transition, ThreadState
<1>3. CASE FindGate(t)
  <2>1. x.pc = "execute" /\ UNCHANGED <<gate, hostVars>>
    BY <1>3 DEF FindGate, At, storeVars
  <2>2. PICK y : Go(t, y) /\ (y.g = 0 \/ y.pc = "consume")
    BY <1>2, <1>3, <2>1 DEF FindGate
  <2> QED BY <2>1, <2>2, GoRecords
<1>4. CASE Consume(t)
  <2>1. x.pc = "consume" /\ UNCHANGED hostVars
    BY <1>4 DEF Consume, At
  <2>2. PICK y : Go(t, y) /\ (y.g = 0 \/ y.pc = "mutate")
    BY <1>2, <1>4 DEF Consume
  <2>3. \A g \in GateIds : gate'[g].step = gate[g].step
                           /\ (gate[g].status = "consumed" => gate'[g].status = "consumed")
    <3>1. CASE Consumable(x.g)
      <4>1. /\ x.g \in GateIds /\ gate[x.g].status = "resolved" /\ gate[x.g] \in GateRow
            /\ gate' = [gate EXCEPT ![x.g].status = "consumed"]
        BY <1>1, <1>4, <3>1 DEF Consume, ConsumeGate, Consumable, At, ThreadShape, StoreTypeOK
      <4>2. gate'[x.g].step = gate[x.g].step /\ gate'[x.g].status = "consumed"
        BY <1>1, <4>1 DEF StoreTypeOK, GateRow
      <4>3. \A g \in GateIds : g # x.g => gate'[g] = gate[g]
        BY <1>1, <4>1 DEF StoreTypeOK
      <4> QED BY <4>2, <4>3
    <3>2. CASE ~Consumable(x.g)
      BY <1>4, <3>2 DEF Consume, storeVars
    <3> QED BY <3>1, <3>2
  <2> QED BY <2>1, <2>2, <2>3, GoRecords
<1>5. CASE Mutate(t)
  <2>1. PICK y : /\ Go(t, y)
                 /\ \/ (\E ok \in BOOLEAN : y = AuditDue(t, ok)) /\ UNCHANGED errorLog
                    \/ y = Transition(t, "failed_recoverable") /\ errorLog' = errorLog \cup {x.at}
    BY <1>5 DEF Mutate
  <2>2. /\ x.pc = "mutate" /\ x.g \in GateIds /\ gate[x.g].step = x.at - 1 /\ x.at \in Nat
        /\ gate[x.g].status = "consumed" /\ UNCHANGED <<gate, audit>>
        /\ errorLog \subseteq errorLog'
    BY <1>1, <1>5 DEF Mutate, At, ThreadShape, GateInHand, storeVars, ThreadState
  <2>3. \/ y.pc = "audit" /\ y.g = x.g /\ y.at = x.at
        \/ y.pc = "stepRead" /\ y.g = 0 /\ x.at \in errorLog'
    BY <1>1, <2>1 DEF AuditDue, Transition, ThreadState
  <2>4. th'[t] = y /\ \A u \in Threads : u # t => th'[u] = th[u]
    BY <1>1, <2>1 DEF Go
  <2>5. \A u \in Threads : HandOnly(th[u])'
    BY <2>2, <2>3, <2>4 DEF RecordInv, HandOnly
  <2>6. ASSUME crashes' = 0, NEW g \in GateIds, mutations'[g] > 0
        PROVE  Recorded(g)' \/ Overtaken(g)'
    <3>1. CASE g = x.g
      <4>1. CASE y.pc = "audit" /\ y.g = x.g
        BY <2>4, <3>1, <4>1 DEF Recorded, At
      <4>2. CASE x.at \in errorLog'
        <5>1. gate'[g].step + 1 = x.at
          BY <2>2, <3>1
        <5> QED BY <4>2, <5>1 DEF Recorded
      <4> QED BY <2>3, <4>1, <4>2
    <3>2. CASE g # x.g
      <4>1. mutations'[g] = mutations[g]
        BY <1>1, <1>5, <2>2, <3>2 DEF Mutate, HostTypeOK
      <4>2. CASE Recorded(g)
        BY <2>2, <2>4, <4>2 DEF Recorded, At
      <4>3. CASE Overtaken(g)
        BY <2>2, <4>3 DEF Overtaken
      <4> QED BY <1>1, <2>6, <4>1, <4>2, <4>3 DEF RecordedOrLogged
    <3> QED BY <3>1, <3>2
  <2> QED BY <2>5, <2>6 DEF RecordInv, RecordedOrLogged
<1>6. CASE RecordMutation(t)
  <2> DEFINE ok == x.to = "succeeded"
             y == IF ok THEN Transition(t, "succeeded") ELSE [x EXCEPT !.pc = "failed", !.g = 0]
  <2>1. x.pc = "audit" /\ UNCHANGED <<gate, mutations>> /\ Go(t, y) /\ y.g = 0
        /\ audit \subseteq audit' /\ errorLog \subseteq errorLog'
    BY <1>2, <1>6 DEF RecordMutation, At, storeVars
  <2>2. \A u \in Threads : th'[u] = IF u = t THEN y ELSE th[u]
    BY <1>1, <2>1 DEF Go
  <2> HIDE DEF y
  <2>3. \A u \in Threads : HandOnly(th[u])'
    BY <2>1, <2>2 DEF RecordInv, HandOnly
  <2>4. ASSUME crashes' = 0, NEW g \in GateIds, mutations'[g] > 0
        PROVE  Recorded(g)' \/ Overtaken(g)'
    <3>1. CASE Overtaken(g)
      BY <2>1, <3>1 DEF Overtaken
    <3>2. CASE \E row \in audit : row.gate = g
      BY <2>1, <3>2 DEF Recorded
    <3>3. CASE gate[g].step + 1 \in errorLog
      BY <2>1, <3>3 DEF Recorded
    <3>4. CASE \E u \in Threads : u # t /\ At(u, "audit") /\ th[u].g = g
      BY <2>1, <2>2, <3>4 DEF Recorded, At
    <3>5. CASE x.g = g
      <4>1. gate[g].step = x.at - 1 /\ gate[g].status = "consumed" /\ x.at \in Nat /\ g # 0
        BY <1>1, <2>1, <3>5, GateIdsAssumption DEF HandOnly, ThreadState
      <4>2. CASE errorLog' = errorLog \cup {x.at}
        <5>1. gate'[g].step + 1 = x.at
          BY <2>1, <4>1
        <5> QED BY <4>2, <5>1 DEF Recorded
      <4>3. ASSUME NEW h \in IF ok THEN {x.g} ELSE RecoveredGate(x.at - 1),
                   audit' = audit \cup {[step |-> x.at, gate |-> h, ok |-> ok]}
            PROVE  Recorded(g)' \/ Overtaken(g)'
        <5>1. CASE h = g
          <6>1. [step |-> x.at, gate |-> h, ok |-> ok].gate = g
            BY <5>1
          <6> QED BY <4>3, <6>1 DEF Recorded
        <5>2. CASE h # g
          <6>1. g \in ConsumedGates(x.at - 1)
            BY <4>1 DEF ConsumedGates
          <6>2. h \in ConsumedGates(x.at - 1)
            BY <3>5, <4>3, <5>2, <6>1 DEF RecoveredGate
          <6> QED BY <2>1, <4>1, <5>2, <6>2 DEF ConsumedGates, Overtaken
        <5> QED BY <5>1, <5>2
      <4> QED BY <1>6, <4>2, <4>3 DEF RecordMutation
    <3> QED BY <1>1, <2>1, <2>4, <3>1, <3>2, <3>3, <3>4, <3>5 DEF RecordedOrLogged, Recorded
  <2> QED BY <2>3, <2>4 DEF RecordInv, RecordedOrLogged
<1> QED BY <1>3, <1>4, <1>5, <1>6 DEF ExecStep

LEMMA RestRecords ==
    ASSUME RecordInv, AlarmInv', Rest, crashes \in Nat, crashes' \in {crashes, crashes + 1}
    PROVE  RecordInv'
<1>1. TokenInv /\ Typed /\ th \in [Threads -> ThreadState]
  BY TypedFacts DEF RecordInv, AlarmInv, TokenInv
<1>2. ASSUME NEW u \in Threads PROVE HandOnly(th[u])'
  <2>1. HandOnly(th[u]) /\ th[u].g \in GateIds \cup {0}
    BY <1>1 DEF RecordInv, ThreadState
  <2>2. CASE th'[u] = th[u]
    BY <1>1, <2>1, <2>2, RestKeeps DEF HandOnly
  <2>3. CASE th'[u].pc \in {"idle", "snapshot"} /\ th'[u].g = 0
    BY <2>3 DEF HandOnly
  <2> QED BY <1>1, <2>2, <2>3, RestKeeps
<1>3. crashes' = 0 => crashes = 0 /\ \A u \in Threads : th[u].pc = "audit" => th'[u] = th[u]
  BY <1>1, RestKeeps
<1>4. RecordsKept
  BY <1>1, <1>2, <1>3, RestKeeps DEF RecordsKept, hostVars
<1> QED BY <1>4, KeptRecords

\* Where the council sends no callback, every mutation of the host made by a process that has
\* not died is on record or told of in the log (record_mutation, hostops_audit.py:93-154; the
\* two logged errors of _run_step, workflow_base.py:121-123 and 165), save for one that a second
\* gate of its operation is named for.
THEOREM OnRecord ==
    ASSUME CallbackGates = {} PROVE Spec => []RecordedOrLogged
<1>1. Init => RecordInv
  BY TokenInit
     DEF Init, HostInit, ThreadInit, Idle, AlarmInv, NoFalseAlarm, Unreconciled, GateInHand,
         RecordInv, HandOnly, RecordedOrLogged
<1>2. RecordInv /\ [Next]_vars => RecordInv'
  <2> SUFFICES ASSUME RecordInv, [Next]_vars PROVE RecordInv'
    OBVIOUS
  <2>1. AlarmInv'
    BY AlarmNext DEF RecordInv
  <2>2. crashes \in Nat
    BY TypedFacts, MaxCrashesAssumption DEF RecordInv, AlarmInv, TokenInv
  <2>3. CASE UNCHANGED vars
    <3>1. UNCHANGED <<gate, hostVars, th, crashes>>
      BY <2>3 DEF vars, storeVars
    <3>2. RecordsKept
      BY <3>1 DEF RecordsKept, RecordInv, HandOnly
    <3> QED BY <2>1, <3>2, KeptRecords
  <2>4. CASE Next
    <3>1. crashes' \in {crashes, crashes + 1}
      BY <2>4 DEF Next, Restart
    <3> QED BY <2>1, <2>2, <2>4, <3>1, RunRecords, ExecRecords, RestRecords DEF Next, Rest
  <2> QED BY <2>3, <2>4
<1>3. RecordInv => RecordedOrLogged
  BY DEF RecordInv
<1> QED BY <1>1, <1>2, <1>3, PTL DEF Spec

(***************************************************************************)
(* A job that nothing gates and nobody overrides                           *)
(***************************************************************************)

Ungated == Overrides = {} /\ \A s \in Steps : Kind[s] = "auto"

\* Such a job has no gate and one thread at a time.
Alone ==
    /\ \A g \in GateIds : gate[g].status = "absent" /\ council[g] = "unsent"
    /\ todo = {} /\ \A r \in Handlers : rs[r].pc \in {"new", "idle", "done"}
    /\ \A t \in Threads : th[t].pc \notin {"post", "consume", "mutate", "audit"}
    /\ \A t, u \in Threads : th[t].pc # "idle" /\ th[u].pc # "idle" => t = u
    /\ job = "absent" => \A t \in Threads : th[t].pc = "idle"

\* A row whose capability may run once more in this life of the process.
Due(s) == ran[s] <= step[s].retries + crashes

\* The thread is at a row whose capability it will run, unless a transition ends it.
Attempts(x) ==
    x.pc \in {"execute", "failed"} \/ (x.pc \in {"stepRead", "stepWrite"} /\ x.to \in {"running", "pending"})

\* The rows it has passed are done, the row it is at is counted as its dictionary says,
\* and the rows ahead are as it read them and have not run.
Walks(x) ==
    /\ x.pc \in {"create", "start", "snapshot"} => \A s \in Steps : Due(s)
    /\ x.pc \in {"stepRead", "stepWrite", "execute", "failed", "reread"} =>
         /\ \A s \in Steps : s > x.at => x.snap[s] = step[s] /\ Due(s)
         /\ \A s \in Existing : s < x.at => Logged(s, "succeeded")
    /\ x.pc = "reread" => step[x.at].status \in Terminal
    /\ Attempts(x) => x.retry = step[x.at].retries /\ (x.pc # "failed" => Due(x.at))

Paced ==
    /\ AttemptBudget
    /\ \A s \in Steps : step[s].status = "succeeded" => Logged(s, "succeeded")
    /\ job = "absent" => \A s \in Steps : Due(s)

SoloInv == Typed /\ Alone /\ Paced /\ \A t \in Threads : Walks(th[t])

\* The one thread goes on; the others are idle.
LEMMA SoloGoes ==
    ASSUME SoloInv, Typed', NEW t \in Threads, NEW y, Go(t, y),
           y.pc \notin {"post", "consume", "mutate", "audit"}, job' # "absent",
           \A u \in Threads : u # t => th[u].pc = "idle",
           UNCHANGED <<gate, council, gateVars>>, Walks(y)', Paced'
    PROVE  SoloInv'
<1>1. /\ th \in [Threads -> ThreadState] /\ rs' = rs /\ todo' = todo /\ gate' = gate /\ council' = council
  BY TypedFacts DEF SoloInv, gateVars
<1>2. \A u \in Threads : th'[u] = IF u = t THEN y ELSE th[u]
  BY <1>1 DEF Go
<1>3. Alone'
  BY <1>1, <1>2 DEF SoloInv, Alone
<1>4. ASSUME NEW u \in Threads PROVE Walks(th[u])'
  <2>1. CASE u = t
    <3>1. th'[u] = y
      BY <1>2, <2>1
    <3> QED BY <3>1 DEF Walks, Attempts, Due
  <2>2. CASE u # t
    <3>1. th'[u] = th[u] /\ th[u].pc = "idle"
      BY <1>2, <2>2
    <3> QED BY <3>1 DEF Walks, Attempts
  <2> QED BY <2>1, <2>2
<1> QED BY <1>3, <1>4 DEF SoloInv

\* The loop goes on to the next row that is not done, or to its end.
LEMMA SoloAdvance ==
    ASSUME SoloInv, NEW t \in Threads, NEW x \in ThreadState, NEW i \in 1..(NSteps + 1), Advance(t, x, i),
           x.pc \in {"snapshot", "reread"},
           \A s \in Steps : s >= i => x.snap[s] = step[s] /\ Due(s),
           \A s \in Existing : s < i => Logged(s, "succeeded")
    PROVE  \E y : /\ Go(t, y) /\ Walks(y)
                  /\ y.pc \notin {"post", "consume", "mutate", "audit"}
<1>1. StoreTypeOK /\ Paced /\ NSteps \in Nat
  BY TypedFacts, NStepsAssumption DEF SoloInv
<1>2. CASE Go(t, [x EXCEPT !.pc = "final", !.at = 0])
  <2> DEFINE y == [x EXCEPT !.pc = "final", !.at = 0]
  <2>1. y.pc = "final"
    BY DEF ThreadState
  <2> HIDE DEF y
  <2>2. Walks(y)
    BY <2>1 DEF Walks, Attempts
  <2> QED BY <1>2, <2>1, <2>2 DEF y
<1>3. ASSUME NEW s \in NextRow(x.snap, i), Go(t, Visit(x, s))
      PROVE  \E y : Go(t, y) /\ Walks(y) /\ y.pc \notin {"post", "consume", "mutate", "audit"}
  <2> DEFINE y == Visit(x, s)
  <2>1. /\ s \in Steps /\ s >= i /\ s \in Nat /\ x.snap[s] = step[s] /\ Due(s)
        /\ \A u \in Steps : u >= i /\ u < s => step[u].status \in {"succeeded", "absent"}
    <3>1. s \in Steps /\ s >= i /\ \A u \in Unfinished(x.snap, i) : s <= u
      BY DEF NextRow, Unfinished
    <3>2. \A u \in Steps : u >= i /\ u < s => x.snap[u].status \in {"succeeded", "absent"}
      BY <3>1 DEF Unfinished, Steps
    <3> QED BY <3>1, <3>2 DEF Steps
  <2>2. \A u \in Existing : u < s => Logged(u, "succeeded")
    BY <1>1, <2>1 DEF Existing, Paced, Steps
  <2>3. \/ y = Idle
        \/ y.pc = "jobRead"
        \/ /\ y.pc = "stepRead" /\ y.to = "running" /\ y.at = s /\ y.snap = x.snap
           /\ y.retry = step[s].retries
    BY <2>1 DEF Visit, ThreadState
  <2> HIDE DEF y
  <2>4. y.pc \in {"idle", "jobRead", "stepRead"}
    BY <2>3 DEF Idle
  <2>5. Walks(y)
    <3>1. CASE y.pc # "stepRead"
      BY <2>4, <3>1 DEF Walks, Attempts
    <3>2. CASE y.pc = "stepRead"
      <4>1. /\ y.to = "running" /\ y.at = s /\ y.snap = x.snap /\ y.retry = step[s].retries
        BY <2>3, <3>2 DEF Idle
      <4>2. \A u \in Steps : u > s => u >= i
        BY <2>1 DEF Steps
      <4> QED BY <2>1, <2>2, <3>2, <4>1, <4>2 DEF Walks, Attempts
    <3> QED BY <3>1, <3>2
  <2> QED BY <1>3, <2>4, <2>5 DEF y
<1> QED BY <1>2, <1>3 DEF Advance

LEMMA WalksKept ==
    ASSUME NEW y, Walks(y), UNCHANGED <<step, events, ran, crashes>> PROVE Walks(y)'
<1> SUFFICES ASSUME step' = step, events' = events, ran' = ran, crashes' = crashes
             PROVE  Walks(y)'
  OBVIOUS
<1> QED BY DEF Walks, Attempts, Due, Existing, Logged

\* What follows a transition, by what it was to.
LEMMA AfterShape ==
    ASSUME NEW x \in ThreadState, NEW y, y = AfterTransition(x)
    PROVE  \/ y.pc = "idle"
           \/ /\ y.at = x.at /\ y.snap = x.snap /\ y.retry = x.retry
              /\ \/ y.pc = "execute" /\ x.to = "running"
                 \/ y.pc = "stepRead" /\ y.to = "running" /\ x.to = "pending"
                 \/ y.pc = "reread" /\ x.to \in Terminal
BY DEF AfterTransition, ThreadState, Idle, Terminal

\* The job's thread, statement by statement.
LEMMA RunSolo ==
    ASSUME Ungated, SoloInv, Typed', NEW t \in Threads, Run(t), UNCHANGED <<gateVars, crashes>>
    PROVE  SoloInv'
<1> DEFINE x == th[t]
           Quiet(y) == y.pc \notin {"post", "consume", "mutate", "audit"}
<1>1. /\ x \in ThreadState /\ StoreTypeOK /\ ran \in [Steps -> Nat] /\ ThreadShape(x)
      /\ Alone /\ Paced /\ Walks(x) /\ x.pc \in PC /\ th \in [Threads -> ThreadState]
      /\ crashes \in Nat /\ crashes' = crashes /\ NSteps \in Nat \ {0}
      /\ \A s \in Steps : step[s] \in StepRow /\ MaxRetries[s] \in Nat /\ s \in Nat
      /\ step \in [Steps -> StepRow]
  BY TypedFacts, MaxCrashesAssumption, MaxRetriesAssumption, NStepsAssumption
     DEF SoloInv, ThreadState, StoreTypeOK
<1>2. ~OpenGate(t) /\ ~PostGate(t)
  <2>1. At(t, "execute") => Kind[x.at] # "gate"
    BY <1>1 DEF Ungated, ThreadShape, At
  <2> QED BY <1>1, <2>1 DEF OpenGate, PostGate, Alone, At
<1>3. UNCHANGED <<gate, council>>
  BY <1>2 DEF Run, StartJob, CreateJobRow, ThreadStep, StartStep, CreateStepRow, StartRunning,
              WriteJob, ResumeSnapshot, ResumeReread, ResumeFinal, StepTransitionRead,
              StepTransitionWrite, WriteStep, JobTransitionRead, JobTransitionWrite,
              ExecuteAuto, RetryOrFail, BumpRetries, storeVars
<1>4. ASSUME NEW y, Go(t, y), Quiet(y), job' # "absent", x.pc # "idle" \/ job = "absent",
             Walks(y)', Paced'
      PROVE  SoloInv'
  <2>1. \A u \in Threads : u # t => th[u].pc = "idle"
    BY <1>1, <1>4 DEF Alone
  <2> QED BY <1>3, <1>4, <2>1, SoloGoes
<1>5. x.pc # "idle" => job # "absent"
  BY <1>1 DEF Alone
<1>6. ASSUME UNCHANGED storeVars, ran' = ran, NEW y, Go(t, y), Quiet(y), x.pc # "idle", Walks(y)
      PROVE  SoloInv'
  <2>1. Walks(y)'
    BY <1>1, <1>6, WalksKept DEF storeVars
  <2>2. Paced' /\ job' # "absent"
    BY <1>1, <1>5, <1>6 DEF Paced, AttemptBudget, Due, Logged, storeVars
  <2> QED BY <1>4, <1>6, <2>1, <2>2
<1>7. ASSUME NEW y, y.pc \in {"idle", "final", "jobRead", "jobWrite"} PROVE Walks(y) /\ Walks(y)' /\ Quiet(y)
  BY <1>7 DEF Walks, Attempts
<1>8. CASE StartJob(t)
  <2> DEFINE y == [Idle EXCEPT !.pc = "create", !.at = 1]
  <2>1. Go(t, y) /\ job = "absent" /\ job' = "queued" /\ step' = step /\ events' = events /\ ran' = ran
    BY <1>8 DEF StartJob, CreateJobRow
  <2>2. y.pc = "create"
    BY DEF Idle
  <2> HIDE DEF y
  <2>3. Walks(y)'
    BY <1>1, <2>1, <2>2 DEF Walks, Attempts, Paced, Due
  <2>4. Paced'
    BY <1>1, <2>1 DEF Paced, AttemptBudget, Logged
  <2> QED BY <1>4, <2>1, <2>2, <2>3, <2>4
<1>9. CASE StartStep(t)
  <2>1. /\ x.pc = "create" /\ x.at \in Steps /\ job' = job /\ events' = events /\ ran' = ran
        /\ step' = [step EXCEPT ![x.at].status = "pending"]
    BY <1>1, <1>9 DEF StartStep, CreateStepRow, At, ThreadShape
  <2>2. /\ \A s \in Steps : step'[s].retries = step[s].retries
        /\ \A s \in Steps : step'[s].status = "succeeded" => step[s].status = "succeeded"
    BY <1>1, <2>1 DEF StepRow
  <2>3. PICK y : Go(t, y) /\ y.pc \in {"create", "start"}
    <3>1. [x EXCEPT !.at = @ + 1].pc = "create" /\ [Idle EXCEPT !.pc = "start"].pc = "start"
      BY <1>1, <2>1 DEF Idle, ThreadState
    <3> QED BY <1>9, <3>1 DEF StartStep
  <2>4. Walks(y)'
    BY <1>1, <2>1, <2>2, <2>3 DEF Walks, Attempts, Due
  <2>5. Paced'
    BY <1>1, <1>5, <2>1, <2>2 DEF Paced, AttemptBudget, Logged
  <2> QED BY <1>4, <1>5, <2>1, <2>3, <2>4, <2>5
<1>10. CASE StartRunning(t)
  <2>1. /\ x.pc = "start" /\ Go(t, Fresh) /\ job' = "running" /\ step' = step /\ ran' = ran
        /\ events \subseteq events'
    BY <1>10 DEF StartRunning, WriteJob, At
  <2>2. Fresh.pc = "snapshot"
    BY DEF Fresh, Idle
  <2>3. Walks(Fresh)'
    BY <1>1, <2>1, <2>2 DEF Walks, Attempts, Due
  <2>4. Paced'
    BY <1>1, <2>1 DEF Paced, AttemptBudget, Logged
  <2> QED BY <1>4, <2>1, <2>2, <2>3, <2>4
<1>11. CASE ResumeSnapshot(t)
  <2> DEFINE z == [x EXCEPT !.snap = step]
  <2>1. /\ x.pc = "snapshot" /\ Advance(t, z, 1) /\ UNCHANGED storeVars /\ ran' = ran
    BY <1>11 DEF ResumeSnapshot, At
  <2>2. z \in ThreadState /\ z.pc = "snapshot" /\ z.snap = step
    BY <1>1, <2>1 DEF ThreadState, StoreTypeOK
  <2> HIDE DEF z
  <2>3. \A s \in Steps : Due(s) /\ s >= 1
    BY <1>1, <2>1 DEF Walks, Steps
  <2>4. \E y : Go(t, y) /\ Walks(y) /\ Quiet(y)
    BY <1>1, <2>1, <2>2, <2>3, SoloAdvance DEF Existing
  <2> QED BY <1>6, <2>1, <2>4
<1>12. CASE ResumeReread(t)
  <2>1. x.pc = "reread" /\ x.at \in Steps /\ UNCHANGED storeVars /\ ran' = ran
    BY <1>1, <1>12 DEF ResumeReread, At, ThreadShape
  <2>2. CASE step[x.at].status = "failed_permanent"
    <3> DEFINE y == [x EXCEPT !.pc = "jobRead", !.to = "failed_permanent"]
    <3>1. Go(t, y) /\ y.pc = "jobRead"
      BY <1>1, <1>12, <2>2 DEF ResumeReread, ThreadState
    <3> HIDE DEF y
    <3> QED BY <1>6, <1>7, <2>1, <3>1
  <2>3. CASE step[x.at].status # "failed_permanent"
    <3>1. Logged(x.at, "succeeded")
      BY <1>1, <2>1, <2>3 DEF Walks, Paced, Terminal
    <3>2. \A s \in Existing : s < x.at + 1 => Logged(s, "succeeded")
      BY <1>1, <2>1, <3>1 DEF Walks, Existing
    <3>3. \A s \in Steps : s >= x.at + 1 => x.snap[s] = step[s] /\ Due(s)
      BY <1>1, <2>1 DEF Walks
    <3>4. x.at + 1 \in 1..(NSteps + 1) /\ Advance(t, x, x.at + 1)
      BY <1>1, <1>12, <2>1, <2>3 DEF ResumeReread, Steps
    <3>5. \E y : Go(t, y) /\ Walks(y) /\ Quiet(y)
      BY <1>1, <2>1, <3>2, <3>3, <3>4, SoloAdvance
    <3> QED BY <1>6, <2>1, <3>5
  <2> QED BY <2>2, <2>3
<1>13. CASE ResumeFinal(t) \/ JobTransitionRead(t)
  <2>1. /\ [x EXCEPT !.pc = "jobRead", !.to = RollUp].pc = "jobRead"
        /\ [x EXCEPT !.pc = "jobWrite"].pc = "jobWrite" /\ Idle.pc = "idle"
    BY <1>1 DEF ThreadState, Idle
  <2>2. PICK y : Go(t, y) /\ y.pc \in {"idle", "jobRead", "jobWrite"}
    BY <1>13, <2>1 DEF ResumeFinal, JobTransitionRead
  <2>3. UNCHANGED storeVars /\ ran' = ran /\ x.pc # "idle"
    BY <1>13 DEF ResumeFinal, JobTransitionRead, At
  <2> QED BY <1>6, <1>7, <2>2, <2>3
<1>14. CASE JobTransitionWrite(t)
  <2>1. /\ Go(t, Idle) /\ Idle.pc = "idle" /\ job' \in Terminal /\ step' = step /\ ran' = ran
        /\ events \subseteq events' /\ x.pc # "idle"
    BY <1>1, <1>14 DEF JobTransitionWrite, WriteJob, At, ThreadShape, Idle
  <2>2. Paced'
    BY <1>1, <2>1 DEF Paced, AttemptBudget, Logged, Terminal
  <2> QED BY <1>4, <1>7, <2>1, <2>2 DEF Terminal
<1>15. CASE StepTransitionRead(t)
  <2>1. x.pc = "stepRead" /\ x.at \in Steps /\ UNCHANGED storeVars /\ ran' = ran
    BY <1>1, <1>15 DEF StepTransitionRead, At, ThreadShape
  <2>2. CASE step[x.at].status \notin Terminal
    <3> DEFINE y == [x EXCEPT !.pc = "stepWrite"]
    <3>1. Go(t, y) /\ y.pc = "stepWrite" /\ y = [x EXCEPT !.pc = "stepWrite"]
      BY <1>1, <1>15, <2>2 DEF StepTransitionRead, ThreadState
    <3>2. y.at = x.at /\ y.snap = x.snap /\ y.to = x.to /\ y.retry = x.retry
      BY <1>1 DEF ThreadState
    <3> HIDE DEF y
    <3>3. Walks(y)
      BY <1>1, <2>1, <3>1, <3>2 DEF Walks, Attempts
    <3> QED BY <1>6, <2>1, <3>1, <3>3
  <2>3. CASE step[x.at].status \in Terminal
    <3>1. Go(t, AfterTransition(x))
      BY <1>15, <2>3 DEF StepTransitionRead
    <3>2. PICK y : y = AfterTransition(x)
      OBVIOUS
    <3>3. Walks(y) /\ Quiet(y)
      BY <1>1, <2>1, <2>3, <3>2, AfterShape DEF Walks, Attempts
    <3> QED BY <1>6, <2>1, <3>1, <3>2, <3>3
  <2> QED BY <2>2, <2>3
<1>16. CASE StepTransitionWrite(t)
  <2>1. /\ x.pc = "stepWrite" /\ x.at \in Steps /\ job' = job /\ ran' = ran
        /\ step' = [step EXCEPT ![x.at].status = x.to] /\ events' = events \cup {<<"step", x.at, x.to>>}
    BY <1>1, <1>16 DEF StepTransitionWrite, WriteStep, At, ThreadShape
  <2>2. PICK y : y = AfterTransition(x)
    OBVIOUS
  <2>3. Go(t, y)
    BY <1>16, <2>2 DEF StepTransitionWrite
  <2>4. /\ step'[x.at].status = x.to /\ step'[x.at].retries = step[x.at].retries
        /\ \A s \in Steps : s # x.at => step'[s] = step[s]
    BY <1>1, <2>1 DEF StepRow
  <2>5. \A s \in Steps : step'[s].retries = step[s].retries
    BY <2>4
  <2>6. \A s \in Steps : Logged(s, "succeeded") => Logged(s, "succeeded")'
    BY <2>1 DEF Logged
  <2>7. Paced'
    <3>1. \A s \in Steps : s = x.at /\ x.to = "succeeded" => Logged(s, "succeeded")'
      BY <2>1 DEF Logged
    <3>2. AttemptBudget'
      BY <1>1, <2>1, <2>5 DEF Paced, AttemptBudget
    <3> QED BY <1>1, <1>5, <2>1, <2>4, <2>6, <3>1, <3>2 DEF Paced
  <2>8. PICK z \in ThreadState : z = x
    BY <1>1
  <2>9. /\ \A s \in Steps : s > z.at => z.snap[s] = step'[s] /\ Due(s)'
        /\ \A s \in Existing' : s < z.at => Logged(s, "succeeded")'
        /\ Attempts(z) => z.retry = step'[z.at].retries /\ Due(z.at)'
        /\ step'[z.at].status = z.to
    <3>1. \A s \in Steps : s > x.at => x.snap[s] = step'[s] /\ Due(s)'
      BY <1>1, <2>1, <2>4 DEF Walks, Due
    <3>2. \A s \in Existing' : s < x.at => Logged(s, "succeeded")'
      BY <1>1, <2>1, <2>4, <2>6 DEF Walks, Existing
    <3>3. Attempts(z) => z.retry = step'[z.at].retries /\ Due(z.at)'
      BY <1>1, <2>1, <2>4, <2>8 DEF Walks, Due, Attempts
    <3> QED BY <2>4, <2>8, <3>1, <3>2, <3>3
  <2>10. z.pc = "stepWrite"
    BY <2>1, <2>8
  <2>11. Walks(y)' /\ Quiet(y)
    <3>1. Attempts(z) <=> z.to \in {"running", "pending"}
      BY <2>10 DEF Attempts
    <3> QED BY <2>2, <2>8, <2>9, <3>1, AfterShape DEF Walks, Attempts
  <2> QED BY <1>4, <1>5, <2>1, <2>3, <2>7, <2>11
<1>17. CASE ExecuteAuto(t)
  <2>1. /\ x.pc = "execute" /\ x.at \in Steps /\ UNCHANGED storeVars
        /\ ran' = [ran EXCEPT ![x.at] = @ + 1]
    BY <1>1, <1>17 DEF ExecuteAuto, CountRun, At, ThreadShape
  <2>2. /\ ran'[x.at] = ran[x.at] + 1 /\ Due(x.at) /\ x.retry = step[x.at].retries
        /\ \A s \in Steps : s # x.at => ran'[s] = ran[s]
    BY <1>1, <2>1 DEF Walks, Attempts
  <2>3. PICK y : /\ Go(t, y) /\ y.at = x.at /\ y.snap = x.snap /\ y.retry = x.retry
                 /\ y.pc = "failed" \/ (y.pc = "stepRead" /\ y.to \in {"succeeded", "failed_recoverable"})
    <3> DEFINE Goes(y) ==
                 /\ y.at = x.at /\ y.snap = x.snap /\ y.retry = x.retry
                 /\ y.pc = "failed" \/ (y.pc = "stepRead" /\ y.to \in {"succeeded", "failed_recoverable"})
    <3>1. Goes(Transition(t, "succeeded")) /\ Goes(Transition(t, "failed_recoverable"))
      BY <1>1 DEF Transition, ThreadState
    <3>2. Goes([x EXCEPT !.pc = "failed"])
      BY <1>1 DEF ThreadState
    <3> HIDE DEF Goes
    <3>3. \E y : Go(t, y) /\ Goes(y)
      BY <1>17, <3>1, <3>2 DEF ExecuteAuto
    <3> QED BY <3>3 DEF Goes
  <2>4. Walks(y)'
    <3>1. \A s \in Steps : s > x.at => x.snap[s] = step'[s] /\ Due(s)'
      BY <1>1, <2>1, <2>2 DEF Walks, Due, storeVars
    <3>2. \A s \in Existing' : s < x.at => Logged(s, "succeeded")'
      BY <1>1, <2>1 DEF Walks, Existing, Logged, storeVars
    <3> QED BY <2>1, <2>2, <2>3, <3>1, <3>2 DEF Walks, Attempts, storeVars
  <2>5. Paced'
    <3>1. AttemptBudget'
      <4> SUFFICES ASSUME NEW s \in Steps
                   PROVE  step[s].retries <= MaxRetries[s] /\ ran'[s] <= step[s].retries + 1 + crashes
        BY <1>1, <2>1 DEF AttemptBudget, storeVars
      <4>1. CASE s = x.at
        BY <1>1, <2>1, <2>2, <4>1 DEF Paced, AttemptBudget, Due, StepRow
      <4>2. CASE s # x.at
        BY <1>1, <2>2, <4>2 DEF Paced, AttemptBudget
      <4> QED BY <4>1, <4>2
    <3> QED BY <1>1, <1>5, <2>1, <3>1 DEF Paced, Logged, storeVars
  <2> QED BY <1>4, <1>5, <2>1, <2>3, <2>4, <2>5 DEF storeVars
<1>18. CASE RetryOrFail(t)
  <2>1. /\ x.pc = "failed" /\ x.at \in Steps /\ ran' = ran /\ x.retry = step[x.at].retries
        /\ job' = job /\ events' = events
    BY <1>1, <1>18 DEF RetryOrFail, BumpRetries, At, ThreadShape, Walks, Attempts, storeVars
  <2>2. CASE ~(x.retry < MaxRetries[x.at])
    <3>1. /\ Transition(t, "failed_permanent").pc = "stepRead"
          /\ Transition(t, "failed_permanent").to = "failed_permanent"
          /\ Transition(t, "failed_permanent").at = x.at
          /\ Transition(t, "failed_permanent").snap = x.snap
      BY <1>1 DEF Transition, ThreadState
    <3>2. PICK y : y = Transition(t, "failed_permanent")
      OBVIOUS
    <3>3. Go(t, y) /\ UNCHANGED storeVars
      BY <1>18, <2>2, <3>2 DEF RetryOrFail
    <3>4. Walks(y)
      BY <1>1, <2>1, <3>1, <3>2 DEF Walks, Attempts
    <3> QED BY <1>6, <2>1, <3>1, <3>2, <3>3, <3>4
  <2>3. CASE x.retry < MaxRetries[x.at]
    <3>1. PICK y : y = [Transition(t, "pending") EXCEPT !.retry = @ + 1]
      OBVIOUS
    <3>2. /\ y.pc = "stepRead" /\ y.to = "pending" /\ y.at = x.at /\ y.snap = x.snap
          /\ y.retry = x.retry + 1
      BY <1>1, <3>1 DEF Transition, ThreadState
    <3>3. Go(t, y) /\ step' = [step EXCEPT ![x.at].retries = @ + 1]
      BY <1>18, <2>3, <3>1 DEF RetryOrFail, BumpRetries
    <3>4. /\ step'[x.at].retries = step[x.at].retries + 1 /\ step'[x.at].status = step[x.at].status
          /\ \A s \in Steps : s # x.at => step'[s] = step[s]
      BY <1>1, <2>1, <3>3 DEF StepRow
    <3>5. ran[x.at] <= step[x.at].retries + 1 + crashes
      BY <1>1, <2>1 DEF Paced, AttemptBudget
    <3>6. step[x.at].retries \in Nat
      BY <1>1, <2>1 DEF StepRow
    <3>7. ran'[x.at] <= step'[x.at].retries + crashes'
      <4>1. ran[x.at] \in Nat
        BY <1>1, <2>1
      <4> QED BY <1>1, <2>1, <3>4, <3>5, <3>6, <4>1
    <3>8. Walks(y)'
      <4>1. \A s \in Steps : s > x.at => x.snap[s] = step'[s] /\ Due(s)'
        BY <1>1, <2>1, <3>4 DEF Walks, Due
      <4>2. \A s \in Existing' : s < x.at => Logged(s, "succeeded")'
        BY <1>1, <2>1, <3>4 DEF Walks, Existing, Logged
      <4> QED BY <2>1, <3>2, <3>4, <3>7, <4>1, <4>2 DEF Walks, Attempts, Due
    <3>9. Paced'
      <4>1. AttemptBudget'
        <5> SUFFICES ASSUME NEW s \in Steps
                     PROVE  step'[s].retries <= MaxRetries[s] /\ ran'[s] <= step'[s].retries + 1 + crashes'
          BY DEF AttemptBudget
        <5>1. CASE s = x.at
          BY <1>1, <2>1, <2>3, <3>4, <3>5, <3>6, <5>1
        <5>2. CASE s # x.at
          BY <1>1, <2>1, <3>4, <5>2 DEF Paced, AttemptBudget
        <5> QED BY <5>1, <5>2
      <4>2. \A s \in Steps : step'[s].status = step[s].status
        BY <3>4
      <4> QED BY <1>1, <1>5, <2>1, <4>1, <4>2 DEF Paced, Logged
    <3> QED BY <1>4, <1>5, <2>1, <3>2, <3>3, <3>8, <3>9
  <2> QED BY <2>2, <2>3
<1> QED BY <1>2, <1>8, <1>9, <1>10, <1>11, <1>12, <1>13, <1>14, <1>15, <1>16, <1>17, <1>18 DEF Run, ThreadStep

LEMMA SoloStays ==
    ASSUME SoloInv, Typed', UNCHANGED vars PROVE SoloInv'
<1>1. /\ UNCHANGED <<job, step, gate, events, council, ran, rs, todo, crashes>> /\ th' = th
  BY DEF vars, storeVars, gateVars
<1>2. Alone' /\ Paced'
  BY <1>1 DEF SoloInv, Alone, Paced, AttemptBudget, Due, Logged
<1>3. ASSUME NEW t \in Threads PROVE Walks(th[t])'
  <2>1. PICK y : y = th[t]
    OBVIOUS
  <2>2. Walks(y)'
    BY <1>1, <2>1, WalksKept DEF SoloInv
  <2> QED BY <1>1, <2>1, <2>2
<1> QED BY <1>2, <1>3 DEF SoloInv

\* The process dies and starts one thread for the job; nothing else happens to it.
LEMMA RestSolo ==
    ASSUME Ungated, SoloInv, Typed',
           Rest \/ \E g \in CallbackGates : Callback(g) \/ LoseCallback(g),
           Restart \/ crashes' = crashes
    PROVE  SoloInv'
<1>1. /\ Alone /\ Paced /\ \A t \in Threads : Walks(th[t])
      /\ rs \in [Handlers -> HandlerState] /\ crashes \in Nat
      /\ \A s \in Steps : step[s].retries \in Nat /\ ran[s] \in Nat
  BY TypedFacts, MaxCrashesAssumption DEF SoloInv, StoreTypeOK, StepRow
<1>2. CASE Restart
  <2>1. /\ crashes' = crashes + 1 /\ UNCHANGED <<job, step, gate, events, council, ran>> /\ todo' = {}
        /\ ResumeInterrupted
    BY <1>2 DEF Restart, storeVars
  <2>2. /\ Fresh.pc = "snapshot" /\ Idle.pc = "idle"
    BY DEF Fresh, Idle
  <2>3. /\ \A t \in Threads : th'[t].pc \in {"idle", "snapshot"}
        /\ \A t, u \in Threads : th'[t].pc # "idle" /\ th'[u].pc # "idle" => t = u
        /\ job = "absent" => \A t \in Threads : th'[t].pc = "idle"
    BY <2>1, <2>2 DEF ResumeInterrupted
  <2>4. \A r \in Handlers : rs'[r].pc \in {"new", "idle", "done"}
    BY <1>2 DEF Restart, NewHandler
  <2>5. Alone'
    BY <1>1, <2>1, <2>3, <2>4 DEF Alone
  <2>6. \A s \in Steps : Due(s)'
    BY <1>1, <2>1 DEF Paced, AttemptBudget, Due
  <2>7. Paced'
    BY <1>1, <2>1, <2>6 DEF Paced, AttemptBudget, Logged
  <2>8. \A t \in Threads : Walks(th[t])'
    BY <2>3, <2>6 DEF Walks, Attempts
  <2> QED BY <2>5, <2>7, <2>8 DEF SoloInv
<1>3. CASE PollCycle /\ crashes' = crashes
  <2>1. PendingGates = {}
    BY <1>1 DEF PendingGates, Alone
  <2>2. UNCHANGED vars
    <3>1. Orphans = {}
      BY <2>1 DEF Orphans
    <3>2. gate' = gate
      BY <1>3, <3>1, TypedFacts DEF PollCycle, RetireOrphans, SoloInv, StoreTypeOK
    <3> QED BY <1>1, <1>3, <2>1, <3>1, <3>2
            DEF PollCycle, RetireOrphans, Alone, vars, storeVars, hostVars, gateVars
  <2> QED BY <2>2, SoloStays
<1>4. \A g \in GateIds : ~Decide(g) /\ ~PollAnswered(g) /\ ~PollUnanswered(g)
  BY <1>1 DEF Decide, PollAnswered, PollUnanswered, PollNext, Alone
<1>5. \A g \in CallbackGates : ~Callback(g) /\ ~LoseCallback(g)
  BY <1>1, CallbackGatesAssumption DEF Callback, LoseCallback, Decided, Alone
<1>6. \A r \in Handlers : ~ResolveStep(r) /\ ~OverrideCheck(r)
  <2>1. OverrideCalls = {}
    BY DEF OverrideCalls, Ungated
  <2> QED BY <1>1, <2>1 DEF ResolveStep, ResolveCheck, ResolveUpdate, HandlerStepRead, HandlerStepWrite,
                            TriggerResume, OverrideRecord, OverrideCheck, In, Alone
<1> QED BY <1>2, <1>3, <1>4, <1>5, <1>6 DEF Rest

LEMMA SoloInvariant == ASSUME Ungated PROVE Spec => []SoloInv
<1>1. Init => SoloInv
  <2> SUFFICES ASSUME Init PROVE SoloInv
    OBVIOUS
  <2>1. Typed
    BY InitTyped
  <2>2. /\ \A t \in Threads : th[t].pc = "idle"
        /\ \A s \in Steps : ran[s] = 0 /\ step[s] = NoStepRow
        /\ crashes = 0 /\ \A s \in Steps : MaxRetries[s] \in Nat
    BY MaxRetriesAssumption DEF Init, StoreInit, ThreadInit, Idle
  <2>3. Alone
    BY <2>2 DEF Init, StoreInit, ThreadInit, HandlerInit, NoGateRow, NewHandler, Alone
  <2>4. Paced
    BY <2>2 DEF Paced, AttemptBudget, Due, NoStepRow
  <2>5. \A t \in Threads : Walks(th[t])
    BY <2>2 DEF Walks, Attempts
  <2> QED BY <2>1, <2>3, <2>4, <2>5 DEF SoloInv
<1>2. SoloInv /\ [Next]_vars => SoloInv'
  <2> SUFFICES ASSUME SoloInv, [Next]_vars PROVE SoloInv'
    OBVIOUS
  <2>1. Typed'
    BY NextTyped DEF SoloInv
  <2>2. CASE UNCHANGED vars
    BY <2>1, <2>2, SoloStays
  <2>3. ASSUME NEW t \in Threads PROVE ~ExecStep(t)
    BY TypedFacts DEF ExecStep, FindGate, Consume, Mutate, RecordMutation, At, SoloInv, Alone, Ungated,
                      ThreadShape
  <2>4. ASSUME NEW t \in Threads, Run(t), UNCHANGED <<hostVars, gateVars, crashes>> PROVE SoloInv'
    BY <2>1, <2>4, RunSolo
  <2>5. CASE Next
    BY <2>1, <2>3, <2>4, <2>5, RestSolo DEF Next, Rest
  <2> QED BY <2>2, <2>5
<1> QED BY <1>1, <1>2, PTL DEF Spec

\* A job without gates, whose steps nobody overrides, keeps to the attempts each step
\* allows: retry_count is persisted before the retry (workflow_base.py:149-162), so that
\* a restart costs one more run at most.
THEOREM Budget == ASSUME Ungated PROVE Spec => []AttemptBudget
<1>1. SoloInv => AttemptBudget
  BY DEF SoloInv, Paced
<1> QED BY <1>1, SoloInvariant, PTL

\* No step of such a job is executed before every earlier one is on record as succeeded:
\* the loop over the rows it read (workflow_base.py:41-72) re-reads the one it ran.
THEOREM InOrder == ASSUME Ungated PROVE Spec => []StepsInOrder
<1>1. SoloInv => StepsInOrder
  BY DEF SoloInv, Walks, StepsInOrder
<1> QED BY <1>1, SoloInvariant, PTL

(***************************************************************************)
(* The order of the steps, where one thread at a time works on the job     *)
(***************************************************************************)

\* What a thread in its loop has passed, or will not visit, is on record as succeeded; the
\* row it is about to read again has ended.
Trails(x) ==
    /\ x.pc \in RowPC => \A s \in Existing :
         s < x.at \/ x.snap[s].status \in {"succeeded", "absent"} => Logged(s, "succeeded")
    /\ x.pc = "reread" => step[x.at].status \in Terminal

OrderInv == EarnedInv /\ \A t \in Threads : Trails(th[t])

\* Nothing but the thread moves it, and no row that has ended is opened again.
LEMMA OthersTrail ==
    ASSUME OrderInv, EarnedInv', events \subseteq events', Existing' = Existing,
           \A s \in Steps : step[s].status \in Terminal => step'[s].status \in Terminal,
           \A t \in Threads : th'[t] = th[t] \/ th'[t].pc \notin RowPC
    PROVE  OrderInv'
<1>1. ASSUME NEW t \in Threads, th'[t] = th[t] PROVE Trails(th[t])'
  <2>1. th[t].pc = "reread" => th[t].at \in Steps
    BY TypedFacts DEF OrderInv, EarnedInv, RowsInv, ThreadShape
  <2> QED BY <1>1, <2>1 DEF OrderInv, Trails, Logged
<1>2. ASSUME NEW t \in Threads, th'[t].pc \notin RowPC PROVE Trails(th[t])'
  BY <1>2 DEF Trails, RowPC
<1> QED BY <1>1, <1>2 DEF OrderInv

LEMMA OneTrails ==
    ASSUME \A t, u \in Threads : t = u, OrderInv, EarnedInv', NEW t \in Threads, NEW y, Go(t, y), Trails(y)'
    PROVE  OrderInv'
<1>1. \A u \in Threads : th'[u] = y
  BY TypedFacts DEF Go, OrderInv, EarnedInv, RowsInv
<1> QED BY <1>1 DEF OrderInv, Trails

\* The thread stays at its row.
LEMMA StaysBehind ==
    ASSUME NEW x, NEW y, Trails(x), x.pc \in RowPC, y.pc \notin {"reread"}, y.at = x.at, y.snap = x.snap,
           events \subseteq events', Existing' = Existing
    PROVE  Trails(y)'
BY DEF Trails, Logged

\* The loop goes on: the rows it skips are on record.
LEMMA AdvanceTrails ==
    ASSUME NEW t \in Threads, NEW x \in ThreadState, NEW i \in Nat, Advance(t, x, i),
           \A s \in Existing :
             s < i \/ x.snap[s].status \in {"succeeded", "absent"} => Logged(s, "succeeded")
    PROVE  \E y : Go(t, y) /\ Trails(y)
<1>1. CASE Go(t, [x EXCEPT !.pc = "final", !.at = 0])
  <2>1. [x EXCEPT !.pc = "final", !.at = 0].pc = "final"
    BY DEF ThreadState
  <2> QED BY <1>1, <2>1 DEF Trails, RowPC
<1>2. ASSUME NEW s \in NextRow(x.snap, i), Go(t, Visit(x, s)) PROVE \E y : Go(t, y) /\ Trails(y)
  <2>1. s \in Steps /\ \A u \in Unfinished(x.snap, i) : s <= u
    BY DEF NextRow, Unfinished
  <2>2. \A u \in Existing : u < s => Logged(u, "succeeded")
    <3> SUFFICES ASSUME NEW u \in Existing, u < s, ~(u < i), x.snap[u].status \notin {"succeeded", "absent"}
                 PROVE  FALSE
      OBVIOUS
    <3>1. u \in Unfinished(x.snap, i) /\ u \in Nat /\ s \in Nat
      BY <2>1 DEF Unfinished, Existing, Steps
    <3> QED BY <2>1, <3>1
  <2>3. PICK y : y = Visit(x, s)
    OBVIOUS
  <2>4. \/ y.pc \in {"idle", "jobRead"}
        \/ y.pc = "stepRead" /\ y.at = s /\ y.snap = x.snap
    BY <2>3 DEF Visit, Idle, ThreadState
  <2>5. Trails(y)
    BY <2>2, <2>4 DEF Trails, RowPC
  <2> QED BY <1>2, <2>3, <2>5
<1> QED BY <1>1, <1>2 DEF Advance

LEMMA RunTrails ==
    ASSUME \A t, u \in Threads : t = u, OrderInv, EarnedInv', NEW t \in Threads, Run(t) \/ ExecStep(t)
    PROVE  OrderInv'
<1> DEFINE x == th[t]
<1>1. x \in ThreadState /\ ThreadShape(x) /\ StoreTypeOK /\ OnRow(x) /\ Trails(x) /\ SuccessOnRecord
  BY TypedFacts, ThreadOnRow DEF OrderInv, EarnedInv, RowsInv
<1>2. ASSUME NEW y, Go(t, y), Trails(y)' PROVE OrderInv'
  BY <1>2, OneTrails
<1>3. ASSUME NEW y, Go(t, y), y.pc \notin RowPC PROVE OrderInv'
  <2>1. Trails(y)'
    BY <1>3 DEF Trails, RowPC
  <2> QED BY <1>2, <1>3, <2>1
<1>4. ASSUME NEW y, Go(t, y), x.pc \in RowPC, y.pc # "reread", y.at = x.at, y.snap = x.snap,
             events \subseteq events', Existing' = Existing
      PROVE  OrderInv'
  BY <1>1, <1>2, <1>4, StaysBehind
<1>5. CASE StartJob(t) \/ StartStep(t) \/ StartRunning(t)
  <2>1. /\ [Idle EXCEPT !.pc = "create", !.at = 1].pc = "create" /\ Fresh.pc = "snapshot"
        /\ [x EXCEPT !.at = @ + 1].pc = x.pc /\ [Idle EXCEPT !.pc = "start"].pc = "start"
    BY <1>1 DEF Idle, Fresh, ThreadState
  <2> QED BY <1>3, <1>5, <2>1 DEF StartJob, StartStep, StartRunning, At, RowPC
<1>6. CASE ResumeSnapshot(t)
  <2>1. PICK z : z = [x EXCEPT !.snap = step]
    OBVIOUS
  <2>2. z \in ThreadState /\ z.snap = step
    BY <1>1, <2>1 DEF ThreadState, StoreTypeOK
  <2>3. \A s \in Existing : s < 1 \/ z.snap[s].status \in {"succeeded", "absent"} => Logged(s, "succeeded")
    BY <1>1, <2>2 DEF Existing, SuccessOnRecord, Steps
  <2>4. Advance(t, z, 1) /\ UNCHANGED storeVars
    BY <1>6, <2>1 DEF ResumeSnapshot
  <2>5. PICK y : Go(t, y) /\ Trails(y)
    BY <2>2, <2>3, <2>4, AdvanceTrails
  <2>6. Trails(y)'
    BY <2>4, <2>5 DEF Trails, Existing, Logged, storeVars
  <2> QED BY <1>2, <2>5, <2>6
<1>7. CASE ResumeReread(t)
  <2>1. x.pc = "reread" /\ x.at \in Steps /\ UNCHANGED storeVars /\ step[x.at].status \in Terminal
    BY <1>1, <1>7 DEF ResumeReread, At, ThreadShape, Trails
  <2>2. CASE step[x.at].status = "failed_permanent"
    <3>1. [x EXCEPT !.pc = "jobRead", !.to = "failed_permanent"].pc = "jobRead"
      BY <1>1 DEF ThreadState
    <3> QED BY <1>3, <1>7, <2>2, <3>1 DEF ResumeReread, RowPC
  <2>3. CASE step[x.at].status # "failed_permanent"
    <3>1. Logged(x.at, "succeeded")
      BY <1>1, <2>1, <2>3 DEF SuccessOnRecord, Terminal
    <3>2. \A s \in Existing :
            s < x.at + 1 \/ x.snap[s].status \in {"succeeded", "absent"} => Logged(s, "succeeded")
      BY <1>1, <2>1, <3>1 DEF Trails, RowPC, Existing, Steps
    <3>3. Advance(t, x, x.at + 1) /\ x.at + 1 \in Nat
      BY <1>7, <2>1, <2>3 DEF ResumeReread, Steps
    <3>4. PICK y : Go(t, y) /\ Trails(y)
      BY <1>1, <3>2, <3>3, AdvanceTrails
    <3>5. Trails(y)'
      BY <2>1, <3>4 DEF Trails, Existing, Logged, storeVars
    <3> QED BY <1>2, <3>4, <3>5
  <2> QED BY <2>2, <2>3
<1>8. CASE ResumeFinal(t) \/ JobTransitionRead(t) \/ JobTransitionWrite(t)
  <2>1. /\ [x EXCEPT !.pc = "jobRead", !.to = RollUp].pc = "jobRead"
        /\ [x EXCEPT !.pc = "jobWrite"].pc = "jobWrite" /\ Idle.pc = "idle"
    BY <1>1 DEF ThreadState, Idle
  <2> QED BY <1>3, <1>8, <2>1 DEF ResumeFinal, JobTransitionRead, JobTransitionWrite, RowPC
<1>9. CASE StepTransitionRead(t)
  <2>1. x.pc = "stepRead" /\ UNCHANGED storeVars /\ Existing' = Existing
    BY <1>9 DEF StepTransitionRead, At, storeVars, Existing
  <2>2. CASE step[x.at].status \notin Terminal
    <3>1. PICK y : y = [x EXCEPT !.pc = "stepWrite"]
      OBVIOUS
    <3>2. y.pc = "stepWrite" /\ y.at = x.at /\ y.snap = x.snap
      BY <1>1, <3>1 DEF ThreadState
    <3> QED BY <1>4, <1>9, <2>1, <2>2, <3>1, <3>2 DEF StepTransitionRead, RowPC, storeVars
  <2>3. CASE step[x.at].status \in Terminal
    <3>1. PICK y : y = AfterTransition(x)
      OBVIOUS
    <3>2. Go(t, y)
      BY <1>9, <2>3, <3>1 DEF StepTransitionRead
    <3>3. Trails(y)
      BY <1>1, <2>1, <2>3, <3>1, AfterShape DEF Trails, RowPC
    <3>4. Trails(y)'
      BY <2>1, <3>3 DEF Trails, Existing, Logged, storeVars
    <3> QED BY <1>2, <3>2, <3>4
  <2> QED BY <2>2, <2>3
<1>10. CASE StepTransitionWrite(t)
  <2>1. x.pc = "stepWrite" /\ x.at \in Existing /\ x.at \in Steps /\ WriteStep(x.at, x.to) /\ x.to # "absent"
    BY <1>1, <1>10 DEF StepTransitionWrite, At, OnRow, RowPC, ThreadShape
  <2>2. Existing' = Existing /\ events \subseteq events' /\ step'[x.at].status = x.to
    BY <1>1, <2>1 DEF WriteStep, Existing, StoreTypeOK, StepRow
  <2>3. PICK y : y = AfterTransition(x)
    OBVIOUS
  <2>4. PICK z \in ThreadState : z = x
    BY <1>1
  <2>5. /\ \A s \in Existing' : s < z.at \/ z.snap[s].status \in {"succeeded", "absent"} => Logged(s, "succeeded")'
        /\ step'[z.at].status = z.to
    BY <1>1, <2>1, <2>2, <2>4 DEF Trails, RowPC, Logged
  <2>6. Trails(y)'
    BY <2>3, <2>4, <2>5, AfterShape DEF Trails, RowPC
  <2>7. Go(t, y)
    BY <1>10, <2>3 DEF StepTransitionWrite
  <2> QED BY <1>2, <2>6, <2>7
<1>11. ASSUME ExecuteAuto(t) \/ OpenGate(t) \/ PostGate(t) \/ RetryOrFail(t) \/ ExecStep(t)
       PROVE  /\ x.pc \in RowPC /\ events' = events /\ Existing' = Existing
              /\ \E y : Go(t, y) /\ y.pc # "reread" /\ y.at = x.at /\ y.snap = x.snap
  <2> DEFINE Near(y) == y.pc # "reread" /\ y.at = x.at /\ y.snap = x.snap
  <2>1. /\ \A status : /\ Near(Transition(t, status))
                       /\ Near([Transition(t, status) EXCEPT !.retry = @ + 1])
        /\ \A ok : Near(AuditDue(t, ok))
        /\ \A g : Near([x EXCEPT !.pc = "post", !.g = g]) /\ Near([x EXCEPT !.pc = "consume", !.g = g])
        /\ Near([x EXCEPT !.pc = "failed"]) /\ Near([x EXCEPT !.pc = "failed", !.g = 0])
        /\ Near([x EXCEPT !.pc = "mutate"])
    BY <1>1 DEF Transition, AuditDue, ThreadState
  <2> HIDE DEF Near
  <2>2. \E y : Go(t, y) /\ Near(y)
    <3>1. CASE ExecuteAuto(t) \/ OpenGate(t) \/ PostGate(t)
      BY <2>1, <3>1 DEF ExecuteAuto, OpenGate, PostGate
    <3>2. CASE RetryOrFail(t)
      BY <2>1, <3>2 DEF RetryOrFail
    <3>3. CASE ExecStep(t)
      BY <2>1, <3>3 DEF ExecStep, FindGate, Consume, Mutate, RecordMutation
    <3> QED BY <1>11, <3>1, <3>2, <3>3
  <2>3. x.pc \in RowPC
    BY <1>11 DEF ExecuteAuto, OpenGate, PostGate, RetryOrFail, ExecStep, FindGate, Consume, Mutate,
                 RecordMutation, At, RowPC
  <2>4. events' = events /\ Existing' = Existing
    <3>1. CASE RetryOrFail(t)
      <4>1. x.at \in Steps
        BY <1>1, <3>1 DEF RetryOrFail, At, ThreadShape
      <4> QED BY <1>1, <3>1, <4>1 DEF RetryOrFail, BumpRetries, storeVars, Existing, StoreTypeOK, StepRow
    <3>2. CASE ~RetryOrFail(t)
      BY <1>11, <3>2 DEF ExecuteAuto, OpenGate, InsertGate, PostGate, ExecStep, FindGate, Consume,
                         ConsumeGate, Mutate, RecordMutation, storeVars, Existing
    <3> QED BY <3>1, <3>2
  <2> QED BY <2>2, <2>3, <2>4 DEF Near
<1>12. CASE ExecuteAuto(t) \/ OpenGate(t) \/ PostGate(t) \/ RetryOrFail(t) \/ ExecStep(t)
  BY <1>4, <1>11, <1>12
<1> QED BY <1>5, <1>6, <1>7, <1>8, <1>9, <1>10, <1>12 DEF Run, ThreadStep

\* Callbacks, the poller, overrides and a restart end rows and never open one again.
LEMMA RestTrails ==
    ASSUME OrderInv, EarnedInv', Rest \/ \E g \in CallbackGates : Callback(g) \/ LoseCallback(g)
    PROVE  OrderInv'
<1>1. Typed /\ RowsExist /\ StoreTypeOK /\ th \in [Threads -> ThreadState]
  BY TypedFacts DEF OrderInv, EarnedInv, RowsInv
<1>2. Fresh.pc \notin RowPC /\ Idle.pc \notin RowPC
  BY DEF Fresh, Idle, RowPC
<1>3. CASE UNCHANGED <<step, events, th>>
  BY <1>3, OthersTrail DEF Existing
<1>4. CASE Restart
  <2>1. \A t \in Threads : th'[t].pc \notin RowPC
    BY <1>2, <1>4 DEF Restart, ResumeInterrupted
  <2> QED BY <1>4, <2>1, OthersTrail DEF Restart, storeVars, Existing
<1>5. ASSUME NEW r \in Handlers, TriggerResume(r) PROVE OrderInv'
  <2>1. \A t \in Threads : th'[t] = th[t] \/ th'[t].pc \notin RowPC
    BY <1>1, <1>2, <1>5 DEF TriggerResume, Go
  <2> QED BY <1>5, <2>1, OthersTrail DEF TriggerResume, storeVars, Existing
<1>6. ASSUME NEW r \in Handlers, HandlerStepWrite(r) PROVE OrderInv'
  <2>1. /\ rs[r].step \in Steps /\ rs[r].step \in Existing /\ th' = th
        /\ WriteStep(rs[r].step, IF rs[r].yes THEN "succeeded" ELSE "failed_permanent")
    BY <1>1, <1>6 DEF HandlerStepWrite, In, RowsExist, Existing
  <2>2. /\ Existing' = Existing /\ events \subseteq events'
        /\ \A s \in Steps : step[s].status \in Terminal => step'[s].status \in Terminal
    BY <1>1, <2>1 DEF WriteStep, Existing, StoreTypeOK, StepRow, Terminal
  <2> QED BY <2>1, <2>2, OthersTrail
<1>7. ASSUME NEW r \in Handlers,
             ResolveCheck(r) \/ ResolveUpdate(r) \/ HandlerStepRead(r) \/ OverrideRecord(r) \/ OverrideCheck(r)
      PROVE  OrderInv'
  <2>1. step' = step /\ th' = th /\ events \subseteq events'
    BY <1>7 DEF ResolveCheck, ResolveUpdate, WriteResolution, HandlerStepRead, OverrideRecord,
                RecordOverride, OverrideCheck, storeVars
  <2> QED BY <2>1, OthersTrail DEF Existing
<1>8. CASE \/ \E g \in GateIds : Decide(g) \/ PollAnswered(g) \/ PollUnanswered(g)
           \/ \E g \in CallbackGates : Callback(g) \/ LoseCallback(g)
           \/ PollCycle
  <2>1. UNCHANGED <<step, events, th>>
    BY <1>8 DEF Decide, PollAnswered, PollUnanswered, PollNext, Callback, LoseCallback, PollCycle,
                RetireOrphans, storeVars
  <2> QED BY <1>3, <2>1
<1> QED BY <1>4, <1>5, <1>6, <1>7, <1>8 DEF Rest, ResolveStep

\* Whatever gates, lost answers, callbacks, overrides and restarts do, a step is executed
\* only after every earlier one is on record as succeeded, where no two threads work on the
\* job at a time: what breaks the order (run overlap) is their overlapping.
THEOREM OrderOfOne ==
    ASSUME \A t, u \in Threads : t = u PROVE Spec => []StepsInOrder
<1>1. Init => \A t \in Threads : Trails(th[t])
  BY DEF Init, ThreadInit, Idle, Trails, RowPC
<1>2. OrderInv /\ EarnedInv' /\ [Next]_vars => OrderInv'
  <2> SUFFICES ASSUME OrderInv, EarnedInv', [Next]_vars PROVE OrderInv'
    OBVIOUS
  <2>1. CASE UNCHANGED vars
    BY <2>1, OthersTrail DEF vars, storeVars, Existing
  <2> QED BY <2>1, RunTrails, RestTrails DEF Next, Rest
<1>3. OrderInv => StepsInOrder
  BY DEF OrderInv, Trails, StepsInOrder, RowPC
<1>4. EarnedInv /\ (\A t \in Threads : Trails(th[t])) <=> OrderInv
  BY DEF OrderInv
<1> QED BY <1>1, <1>2, <1>3, <1>4, EarnedInvariant, PTL DEF Spec
=============================================================================
