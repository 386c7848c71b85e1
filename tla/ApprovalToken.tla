--------------------------- MODULE ApprovalToken ---------------------------
(***************************************************************************)
(* What the gate store promises to the host operations                     *)
(* (kai-orchestrator/engine.py consume_hostops_gate, "verifies the gate is *)
(* resolved, correctly bound, and marks it consumed (single-use / replay   *)
(* refused)", workflows/hostops_deploy.py:17-19): an approval is a token   *)
(* that is requested, then granted, denied or withdrawn once and for all;  *)
(* a granted one can be spent once, and only a spent one is used, once.    *)
(***************************************************************************)
EXTENDS Integers

CONSTANT Ids

VARIABLES
    token,   \* token[i]: where token i is in its life
    used     \* used[i]: how many mutations were made on its authority

vars == <<token, used>>

TypeOK ==
    /\ token \in [Ids -> {"none", "requested", "granted", "denied",
                          "withdrawn", "spent"}]
    /\ used \in [Ids -> Nat]

Init ==
    /\ token = [i \in Ids |-> "none"]
    /\ used = [i \in Ids |-> 0]

Move(i, from, to) ==
    /\ token[i] = from
    /\ token' = [token EXCEPT ![i] = to]
    /\ UNCHANGED used

Request(i)  == Move(i, "none", "requested")
Grant(i)    == Move(i, "requested", "granted")
Deny(i)     == Move(i, "requested", "denied")
Spend(i)    == Move(i, "granted", "spent")

\* Several requests whose job or step ended are withdrawn together.
Withdraw ==
    \E S \in SUBSET Ids :
        /\ \A i \in S : token[i] = "requested"
        /\ token' = [i \in Ids |-> IF i \in S THEN "withdrawn" ELSE token[i]]
        /\ UNCHANGED used

Use(i) ==
    /\ token[i] = "spent" /\ used[i] = 0
    /\ used' = [used EXCEPT ![i] = 1]
    /\ UNCHANGED token

Next == \/ \E i \in Ids : Request(i) \/ Grant(i) \/ Deny(i) \/ Spend(i) \/ Use(i)
        \/ Withdraw

Spec == Init /\ [][Next]_vars
=============================================================================
