------------------------------ MODULE SelfModify ------------------------------
(***************************************************************************)
(* devops.self_modify: the workflow by which KAI's own source is changed   *)
(* (kai-orchestrator/workflows/devops_self_modify.py over capabilities/    *)
(* self_modify.py).  A diff is verified by a model, applied to the working *)
(* tree, committed, and noted on a Plane ticket.  Its inputs name no site, *)
(* so that one_active_build lets any number of these jobs run at once, on  *)
(* one tree.  A diff is the set of files it writes, each file one job's.   *)
(***************************************************************************)
EXTENDS Naturals, FiniteSets

CONSTANTS Diffs,                \* the jobs, each with its diff
          Paths,                \* the files of a diff
          FirstRetries,         \* times a step before apply_diff is repeated: 3
          MaxReboots           \* bound: restarts of the orchestrator

VARIABLES step, phase, tries,       \* a job's step, and where it stands in it
          touched_files,               \* what the process remembers of the applying
          passed, rejected,            \* diffs the verifier passed, and turned down
          tree, index, head,           \* the repository: files changed, staged, committed
          description, existing,       \* the ticket's trailers; those a job has read
          reboots

repoVars == <<tree, index, head>>
ticketVars == <<description, existing>>
smVars == <<step, phase, tries, touched_files, passed, rejected, repoVars, ticketVars, reboots>>

steps == <<"log_proposal", "verify_semantic", "apply_diff", "commit", "update_plane">>
repeats(name) == IF name \in {"log_proposal", "verify_semantic"} THEN FirstRetries ELSE 0
Unknown == {<<>>}                      \* nothing is remembered

SMInit ==
    /\ step = [j \in Diffs |-> 0] /\ phase = [j \in Diffs |-> "new"] /\ tries = [j \in Diffs |-> 0]
    /\ touched_files = [j \in Diffs |-> Unknown]
    /\ passed = {} /\ rejected = {}
    /\ tree = {} /\ index = {} /\ head = {}
    /\ description = {} /\ existing = [j \in Diffs |-> {}] /\ reboots = 0

At(j, name) == phase[j] = "ready" /\ steps[step[j]] = name
Body(j) == {j} \X Paths

\* How a step ends: see _run_step.  A result called permanent is repeated like any other.
StepSucceeds(j) ==
    /\ tries' = [tries EXCEPT ![j] = 0]
    /\ IF step[j] = 5 THEN phase' = [phase EXCEPT ![j] = "succeeded"] /\ UNCHANGED step
       ELSE phase' = [phase EXCEPT ![j] = "ready"] /\ step' = [step EXCEPT ![j] = @ + 1]
StepFails(j) ==
    /\ UNCHANGED step
    /\ IF tries[j] < repeats(steps[step[j]])
       THEN tries' = [tries EXCEPT ![j] = @ + 1] /\ UNCHANGED phase
       ELSE phase' = [phase EXCEPT ![j] = "failed"] /\ UNCHANGED tries
StepRaises(j) == phase' = [phase EXCEPT ![j] = "parked"] /\ UNCHANGED <<step, tries>>

Starts(j) ==
    /\ phase[j] = "new" /\ phase' = [phase EXCEPT ![j] = "ready"] /\ step' = [step EXCEPT ![j] = 1]
    /\ UNCHANGED <<tries, touched_files, passed, rejected, repoVars, ticketVars, reboots>>

Propose(j) ==
    /\ At(j, "log_proposal") /\ (StepSucceeds(j) \/ StepFails(j))
    /\ UNCHANGED <<touched_files, passed, rejected, repoVars, ticketVars, reboots>>

\* The model passes the diff, turns it down, or does not give an answer that can be read.
VerifySemantic(j) ==
    /\ At(j, "verify_semantic")
    /\ \/ StepSucceeds(j) /\ passed' = passed \cup {j} /\ UNCHANGED rejected
       \/ StepFails(j) /\ UNCHANGED passed /\ rejected' \in {rejected, rejected \cup {j}}
       \/ StepRaises(j) /\ UNCHANGED <<passed, rejected>>
    /\ UNCHANGED <<touched_files, repoVars, ticketVars, reboots>>

\* patch --forward: what is there already is not applied again, and is a failure; so is a
\* timeout, which leaves the files written so far.
Apply(j) ==
    /\ At(j, "apply_diff")
    /\ \/ /\ Body(j) \cap tree = {} /\ tree' = tree \cup Body(j)
          /\ StepSucceeds(j) /\ touched_files' = [touched_files EXCEPT ![j] = Body(j)]
       \/ /\ \E some \in SUBSET Body(j) : tree' = tree \cup some
          /\ StepFails(j) /\ UNCHANGED touched_files
    /\ UNCHANGED <<passed, rejected, index, head, ticketVars, reboots>>

\* git add: the files the process remembers, else everything; nothing staged is a failure.
Staged(j) == index \cup ((IF touched_files[j] = Unknown THEN tree ELSE touched_files[j]) \ head)
Stage(j) ==
    /\ At(j, "commit")
    /\ \/ UNCHANGED index /\ (StepFails(j) \/ StepRaises(j))
       \/ /\ index' = Staged(j)
          /\ IF index' = {} THEN StepFails(j) ELSE phase' = [phase EXCEPT ![j] = "staged"] /\ UNCHANGED <<step, tries>>
    /\ UNCHANGED <<touched_files, passed, rejected, tree, head, ticketVars, reboots>>

\* git commit: all that is staged, by whomever; with nothing left to commit it fails, and
\* past its time limit the step raises, the commit being made or not.
Commit(j) ==
    /\ phase[j] = "staged"
    /\ \/ UNCHANGED <<index, head>> /\ (StepFails(j) \/ StepRaises(j))
       \/ index # {} /\ head' = head \cup index /\ index' = {} /\ (StepSucceeds(j) \/ StepRaises(j))
    /\ UNCHANGED <<touched_files, passed, rejected, tree, ticketVars, reboots>>

\* The description is read, and written with the job's trailer at its end.
ReadTicket(j) ==
    /\ At(j, "update_plane")
    /\ \/ (StepFails(j) \/ StepRaises(j)) /\ UNCHANGED existing
       \/ existing' = [existing EXCEPT ![j] = description] /\ phase' = [phase EXCEPT ![j] = "patching"] /\ UNCHANGED <<step, tries>>
    /\ UNCHANGED <<touched_files, passed, rejected, repoVars, description, reboots>>
PatchTicket(j) ==
    /\ phase[j] = "patching"
    /\ \/ (StepFails(j) \/ StepRaises(j)) /\ description' \in {description, existing[j] \cup {j}}
       \/ StepSucceeds(j) /\ description' = existing[j] \cup {j}
    /\ UNCHANGED <<touched_files, passed, rejected, repoVars, existing, reboots>>

\* The process starts again: it remembers nothing, and runs what was under way or raised.
OrchestratorRestarts ==
    /\ reboots < MaxReboots /\ reboots' = reboots + 1
    /\ phase' = [j \in Diffs |-> IF phase[j] \in {"parked", "staged", "patching"} THEN "ready" ELSE phase[j]]
    /\ touched_files' = [j \in Diffs |-> Unknown]
    /\ UNCHANGED <<step, tries, passed, rejected, repoVars, ticketVars>>

SMNext ==
    \/ OrchestratorRestarts
    \/ \E j \in Diffs :
          \/ Starts(j) \/ Propose(j) \/ VerifySemantic(j) \/ Apply(j) \/ Stage(j) \/ Commit(j)
          \/ ReadTicket(j) \/ PatchTicket(j)

SMSpec == SMInit /\ [][SMNext]_smVars

-----------------------------------------------------------------------------
\* A job that succeeded has its whole diff in the history, whoever committed it, whatever
\* was forgotten in a restart or left staged by a job that failed.
SuccessIsCommitted == \A j \in Diffs : phase[j] = "succeeded" => Body(j) \subseteq head

\* "This is the verifier-gates-apply contract" (devops_self_modify.py:87): nothing of a diff
\* the verifier did not pass is in the tree, staged or committed: neither by its own job nor
\* by another that adds everything.
OnlyVerifiedLands == \A f \in tree \cup index \cup head : f[1] \in passed

\* "Verifier reject = workflow ends failed_permanent, no apply, no commit" (devops_self_
\* modify.py:13): does not hold, the step is repeated and the model may pass it yet.
RejectedNeverLands == \A f \in tree \cup index \cup head : f[1] \notin rejected
=============================================================================
