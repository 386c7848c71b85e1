--------------------------- MODULE MCOrchestrator ---------------------------
(* Small instances of Orchestrator for TLC.                                *)
EXTENDS Orchestrator, TLC

GateThenAuto == <<"gate", "auto">>
GateThenAutos == <<"gate", "auto", "auto">>
OnlyGate == <<"gate">>
GatedExec == <<"gate", "exec">>
AutoAuto == <<"auto", "auto">>
NoRetry == [s \in Steps |-> 0]
RetryGate == [s \in Steps |-> IF Kind[s] = "gate" THEN 1 ELSE 0]
RetryOnce == [s \in Steps |-> IF Kind[s] = "exec" THEN 0 ELSE 1]
ThreadSymmetry == Permutations(Threads)

\* What is explored of the behaviours with overrides and restarts: those with one of the two.
OneDisturbance == crashes = 0 \/ \A r \in OverrideCalls : rs[r].pc = "new"
=============================================================================
