------------------------------- MODULE MCDesk -------------------------------
(* Small instances for TLC of what Leo talks to: the approval prompts, the   *)
(* queue the Buzz desk drains, the turn gate, the memory of a conversation,  *)
(* a message to an advisor and the facts it is given.  They share no state   *)
(* but that a message is recorded: a behaviour exercises one of them, chosen *)
(* at the start, the memory for long and by any client, or with the message  *)
(* and for few turns.                                                        *)
EXTENDS BuzzApprove, NotifyQueue, TurnGate, CouncilTurn, FactRegistry, TLC

CONSTANT TalkTurns   \* bound: turns recorded in the part of the message

VARIABLE part

MCOwner == [c \in Cards |-> CHOOSE s \in Sessions : TRUE]

Init ==
    /\ part \in {"prompts", "queue", "turn", "memory", "talk", "registry"}
    /\ PromptInit /\ QueueInit /\ TurnInit /\ CTInit /\ FRInit

Next ==
    /\ UNCHANGED part
    /\ \/ part = "prompts" /\ PromptNext /\ UNCHANGED <<queueVars, turnVars, ctVars, frVars>>
       \/ part = "queue" /\ QueueNext /\ UNCHANGED <<promptVars, turnVars, ctVars, frVars>>
       \/ part = "turn" /\ TurnNext /\ UNCHANGED <<promptVars, queueVars, ctVars, frVars>>
       \/ /\ part = "memory" /\ CMNext
          /\ UNCHANGED <<promptVars, queueVars, turnVars, req, confided, usage, data, hermes, frVars>>
       \/ part = "talk" /\ CTNext /\ turns' <= TalkTurns /\ UNCHANGED <<promptVars, queueVars, turnVars, frVars>>
       \/ part = "registry" /\ FRNext /\ UNCHANGED <<promptVars, queueVars, turnVars, ctVars>>

vars == <<part, promptVars, queueVars, turnVars, ctVars, frVars>>
Spec == Init /\ [][Next]_vars
=============================================================================
