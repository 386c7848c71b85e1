---------------------------- MODULE FactRegistry ----------------------------
(***************************************************************************)
(* The Fact Registry (kai-orchestrator/registry.py): verified facts in one *)
(* JSON file, to which seed batches are appended.  A writer checks its     *)
(* batch first, holds a lock of its own file while it reads, compares and  *)
(* replaces the registry, and may die at any step.  Readers take no lock:  *)
(* the file is replaced as a whole.                                        *)
(***************************************************************************)
EXTENDS Naturals, FiniteSets

CONSTANTS Ingests,          \* seed ingests
          Ids, Contents,    \* a fact: its id, and all the rest that _same_fact compares
          NoIngest          \* the lock is free

Facts == [id : Ids, content : Contents]

ASSUME NoIngestAssumption == NoIngest \notin Ingests

VARIABLES registry,         \* the facts of the file
          lock,
          ingest            \* a writer: where it is, its batch, what it has prepared to write

frVars == <<registry, lock, ingest>>

Rest == [at |-> "idle", batch |-> {}, root |-> {}]

FRInit ==
    /\ registry = {} /\ lock = NoIngest
    /\ ingest = [w \in Ingests |-> Rest]

\* Every fact of a batch is well formed, verified and of the command's scope, and no id is
\* there twice; any other batch is refused before a file is touched.
OneEach(batch) == \A f, g \in batch : f.id = g.id => f = g
_normalize_fact(batch) == batch # {} /\ OneEach(batch)

append_verified_facts(w) ==
    /\ ingest[w] = Rest
    /\ \E batch \in SUBSET Facts :
          /\ _normalize_fact(batch)
          /\ ingest' = [ingest EXCEPT ![w] = [Rest EXCEPT !.at = "waiting", !.batch = batch]]
    /\ UNCHANGED <<registry, lock>>

\* Mutant of Locks: without the lock.
LocksNothing(w) ==
    /\ ingest[w].at = "waiting" /\ ingest' = [ingest EXCEPT ![w].at = "locked"]
    /\ UNCHANGED <<registry, lock>>
Locks(w) ==
    /\ ingest[w].at = "waiting" /\ lock = NoIngest /\ lock' = w
    /\ ingest' = [ingest EXCEPT ![w].at = "locked"]
    /\ UNCHANGED registry

\* The same id with another content refuses the whole batch; what is there already is
\* passed over; the new root is what was read and the rest of the batch.
_same_fact(f, g) == f = g
Conflicts(batch) == \E f \in batch, g \in registry : f.id = g.id /\ ~_same_fact(f, g)
Release(w) == lock' = NoIngest /\ ingest' = [ingest EXCEPT ![w] = Rest]

Reads(w) ==
    /\ ingest[w].at = "locked"
    /\ IF Conflicts(ingest[w].batch) \/ ingest[w].batch \subseteq registry
       THEN Release(w)
       ELSE /\ ingest' = [ingest EXCEPT ![w].at = "writing", ![w].root = registry \cup ingest[w].batch]
            /\ UNCHANGED lock
    /\ UNCHANGED registry

\* os.replace of a temporary file that was written and synced.
Replaces(w) ==
    /\ ingest[w].at = "writing" /\ registry' = ingest[w].root /\ Release(w)

\* An error on the way, or the death of the process: the lock goes with its file.
Fails(w) ==
    /\ ingest[w] # Rest /\ ingest' = [ingest EXCEPT ![w] = Rest]
    /\ lock' = IF lock = w THEN NoIngest ELSE lock
    /\ UNCHANGED registry

FRNext ==
    \E w \in Ingests : append_verified_facts(w) \/ Locks(w) \/ Reads(w) \/ Replaces(w) \/ Fails(w)
FRSpec == FRInit /\ [][FRNext]_frVars

-----------------------------------------------------------------------------
\* No id stands for two facts, whoever ingests at the same time ("reusing an ID with
\* different content rejects the whole batch", registry.py:152).
IdsAreOne == OneEach(registry)

\* A fact that was taken is never lost, and a batch is taken as a whole: the registry changes
\* only by all the facts of one writer's batch that it did not have.
FactsAreKept ==
    [][registry' # registry => \E w \in Ingests : registry' = registry \cup ingest[w].batch]_frVars
=============================================================================
