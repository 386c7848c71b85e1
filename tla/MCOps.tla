-------------------------------- MODULE MCOps --------------------------------
(* Small instances of the scheduler's watches for TLC.  They share no state: *)
(* a behaviour exercises one of them, chosen at the start, and only its jobs *)
(* are fair.                                                                 *)
EXTENDS Watchdog, TelegramLoop, InvariantRunner, GreenBaseline,
        FleetWatch

VARIABLE part

MCChecks == <<"fleet", "disk">>
MCInvariants == <<"vault", "ledger">>
MCKind == <<"chat", "malformed", "approve", "worker", "stranger">>

vars == <<part, watchVars, alarmVars, triageVars, loopVars, runnerVars, baselineVars, fleetVars>>

Init ==
    /\ part \in {"watch", "alarm", "triage", "loop", "runner", "baseline", "fleet"}
    /\ WatchInit /\ AlarmInit /\ TriageInit /\ LoopInit /\ RunnerInit /\ BaselineInit /\ FleetInit

InWatch(A) == part = "watch" /\ A
    /\ UNCHANGED <<part, alarmVars, triageVars, loopVars, runnerVars, baselineVars, fleetVars>>
InAlarm(A) == part = "alarm" /\ A
    /\ UNCHANGED <<part, watchVars, triageVars, loopVars, runnerVars, baselineVars, fleetVars>>
InTriage(A) == part = "triage" /\ A
    /\ UNCHANGED <<part, watchVars, alarmVars, loopVars, runnerVars, baselineVars, fleetVars>>
InLoop(A) == part = "loop" /\ A
    /\ UNCHANGED <<part, watchVars, alarmVars, triageVars, runnerVars, baselineVars, fleetVars>>
InRunner(A) == part = "runner" /\ A
    /\ UNCHANGED <<part, watchVars, alarmVars, triageVars, loopVars, baselineVars, fleetVars>>
InBaseline(A) == part = "baseline" /\ A
    /\ UNCHANGED <<part, watchVars, alarmVars, triageVars, loopVars, runnerVars, fleetVars>>
InFleet(A) == part = "fleet" /\ A
    /\ UNCHANGED <<part, watchVars, alarmVars, triageVars, loopVars, runnerVars, baselineVars>>

Next ==
    InWatch(WatchNext) \/ InAlarm(AlarmNext) \/ InTriage(TriageNext)
    \/ InLoop(LoopNext) \/ InRunner(RunnerNext) \/ InBaseline(BaselineNext) \/ InFleet(FleetNext)

\* The parts exclude one another: one condition stands for the job of each.
Fairness ==
    /\ WF_vars(InWatch(WatchJob) \/ InAlarm(Sweep) \/ InLoop(LoopStep) \/ InRunner(RunnerJob)
            \/ InBaseline(TimePasses))
    /\ WF_vars(InBaseline(KnowledgeRuns))

Spec == Init /\ [][Next]_vars /\ Fairness
==================================================================================
