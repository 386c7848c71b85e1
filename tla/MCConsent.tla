------------------------------ MODULE MCConsent ------------------------------
(* What the system does with Leo's consent or without it, in small instances *)
(* for TLC: the custodians with three problems, one of each disposition, in  *)
(* the order of the roster (storage, security, inventory); the move of a      *)
(* secret that a tap unlocks.                                                *)
EXTENDS Custodian, Provisioning

CONSTANTS disk, leak, duplicate

VARIABLE part

TheRoster == <<disk, leak, duplicate>>

vars == <<part, cuVars, provisioningVars>>
Sweeping(A) == part = "sweeps" /\ A /\ UNCHANGED <<part, provisioningVars>>
Unlocking(A) == part = "unlock" /\ A /\ UNCHANGED <<part, cuVars>>

Init ==
    /\ CUInit /\ ProvInit
    /\ part \in {"sweeps", "unlock"}
    /\ part # "unlock" => buzz /\ store.sessions = {}
Next == Sweeping(CUNext) \/ Unlocking(ProvNext)
Fairness ==
    /\ \A s \in Sweeps : WF_vars(Sweeping(SweepStep(s)))
    /\ \A p \in Structural :
          /\ SF_vars(Sweeping(FindsTrouble(p))) /\ SF_vars(Sweeping(FindsNoTicket(p)))
          /\ SF_vars(Sweeping(FilesTicket(p)))
    /\ \A p \in Throttled : WF_vars(Sweeping(DayPasses(p)))
Spec == Init /\ [][Next]_vars /\ Fairness
=============================================================================
