--------------------------- MODULE ContextPackage ---------------------------
(***************************************************************************)
(* What the model is given with one message: assemble() of the Memory      *)
(* Service (kai-orchestrator/context_service.py), a decision on what the   *)
(* stores hold.  Each tier has a ceiling of its own and drops from its own *)
(* end what does not fit.  Text is abstracted to its size, in units.       *)
(***************************************************************************)
EXTENDS SequencesExt

CONSTANTS
    TIER1_CHAR_CAP, TIER3_CHAR_CAP, TIER4_CHAR_CAP, TIER5_STABLE_CHAR_CAP, TIER5_VOLATILE_CHAR_CAP,
    TIER3_TOP_K, TIER3_SCORE_THRESHOLD,
    RubricSize,   \* the text that goes before the hits of one kind
    Worlds        \* what the stores may hold when a message comes

StableBlocks ==
    <<"background_context", "persona", "organization_structure", "org_model", "build_profile",
      "style_guide", "context", "project_status">>
VolatileBlocks == <<"current_datetime", "date_reference", "system_state", "session_memory", "day_state">>
Names == Range(StableBlocks) \cup Range(VolatileBlocks)

\* Turns come in their order, hits are numbered as the searches return them, facts as their
\* registry ranks those of one relevance.
Numbered(S) == IsFiniteSet(S) /\ \A x, y \in S : x.id = y.id => x = y
IsWorld(w) ==
    /\ w.turns \in Seq([n : Nat, size : Nat]) /\ \A i, j \in DOMAIN w.turns : i < j => w.turns[i].n < w.turns[j].n
    /\ w.hits \subseteq [id : Nat, score : Int, clean : BOOLEAN, size : Nat] /\ Numbered(w.hits)
    /\ w.facts \subseteq [id : Nat, relevance : Nat, project : STRING, size : Nat] /\ Numbered(w.facts)
    /\ w.size \in [Names -> Nat]

ASSUME PackageAssumption ==
    /\ {TIER1_CHAR_CAP, TIER3_CHAR_CAP, TIER4_CHAR_CAP, TIER5_STABLE_CHAR_CAP, TIER5_VOLATILE_CHAR_CAP} \subseteq Nat
    /\ TIER3_TOP_K \in Nat /\ TIER3_SCORE_THRESHOLD \in Int /\ RubricSize \in Nat
    /\ \A w \in Worlds : IsWorld(w)

VARIABLES world, package
pkVars == <<world, package>>

Length(blocks) ==
    LET upTo[n \in 0..Len(blocks)] == IF n = 0 THEN 0 ELSE upTo[n - 1] + blocks[n].size
    IN upTo[Len(blocks)]

\* A set in the order of a relation: each where as many are above it as come before it.
Ranked(S, above) ==
    [n \in 1..Cardinality(S) |-> CHOOSE x \in S : Cardinality({y \in S : <<y, x>> \in above}) = n - 1]

\* The last is dropped until the rest fits: emitted[n] is what the first n come to.
Trimmed(blocks, cap, emitted) ==
    SubSeq(blocks, 1, Max({n \in 0..Len(blocks) : n = 0 \/ emitted[n] <= cap}))
Fitting(blocks, cap) ==
    Trimmed(blocks, cap, [n \in 1..Len(blocks) |-> Length(SubSeq(blocks, 1, n))])

\* Tier 1: the last turns, the oldest dropped first.  Mutant of tier1: the newest.
tier1Newest(turns) == Fitting(turns, TIER1_CHAR_CAP)
tier1(turns) == Reverse(Fitting(Reverse(turns), TIER1_CHAR_CAP))

\* Tier 3: the hits of the advisor's own collection, if it is one of the known ones, that are
\* near enough, the best first.  One that the scan finds clean is knowledge, any other is
\* recalled as untrusted.  What is emitted is counted with the rubric of each kind.
_render(hits) ==
    Length(hits) + RubricSize * Cardinality({hits[i].clean : i \in DOMAIN hits})
Nearer(hits) ==
    {p \in hits \X hits : p[1].score > p[2].score \/ (p[1].score = p[2].score /\ p[1].id < p[2].id)}
Gated(hits) ==
    LET near == Ranked({h \in hits : h.score >= TIER3_SCORE_THRESHOLD}, Nearer(hits))
    IN SubSeq(near, 1, IF Len(near) < TIER3_TOP_K THEN Len(near) ELSE TIER3_TOP_K)
_tier3_recall(w) ==
    IF w.advisor = "unknown" \/ w.store = "down" THEN <<>>
    ELSE LET near == Gated(w.hits)
         IN Trimmed(near, TIER3_CHAR_CAP, [n \in 1..Len(near) |-> _render(SubSeq(near, 1, n))])
curated_knowledge(w) == SelectSeq(_tier3_recall(w), LAMBDA h : h.clean)

\* Tier 4: the verified facts of the advisor and of nobody in particular; those of another
\* project are left out only if the message names one.  The most relevant first, then the
\* most specific, then the freshest.  The rubric is not counted.
facts_for(w) == {f \in w.facts : w.project = "none" \/ f.project \in {"none", w.project}}
RanksAbove(facts) ==
    {p \in facts \X facts :
        p[1].relevance > p[2].relevance \/ (p[1].relevance = p[2].relevance /\ p[1].id < p[2].id)}
_tier4_facts(w) == Fitting(Ranked(facts_for(w), RanksAbove(w.facts)), TIER4_CHAR_CAP)

\* Tier 5: the standing texts in the order of their rank.  The first ones stay the same from
\* turn to turn and are cached.  KAI's own two are read from elsewhere; one that fails is warned of.
KaiOnly == {"org_model", "system_state"}
There(w, name) == name \notin w.missing /\ (name \in KaiOnly => w.advisor = "kai")
Before == {p \in Nat \X Nat : p[1] < p[2]}
Block(w, name) == [name |-> name, size |-> w.size[name]]
_register_block(w, names) ==
    LET there == Ranked({i \in DOMAIN names : There(w, names[i])}, Before)
    IN [i \in DOMAIN there |-> Block(w, names[there[i]])]
Warnings(w) == {name \in KaiOnly : w.advisor = "kai" /\ name \in w.missing}
tier5_standing_context(w) ==
    [stable |-> Fitting(_register_block(w, StableBlocks), TIER5_STABLE_CHAR_CAP),
     volatile |-> Fitting(_register_block(w, VolatileBlocks), TIER5_VOLATILE_CHAR_CAP),
     warnings |-> Warnings(w)]

NoPackage == [turns |-> <<>>, hits |-> <<>>, facts |-> <<>>, stable |-> <<>>, volatile |-> <<>>,
              warnings |-> {}, alarms |-> {}]

\* The invariants assemble() writes: an empty window over a conversation that is not, a hit
\* the scan did not find clean, a source of the standing texts that failed.
Alarms(w, turns, hits) ==
    (IF w.turns # <<>> /\ turns = <<>> THEN {"inv_context_t1"} ELSE {})
        \cup (IF \E i \in DOMAIN hits : ~hits[i].clean THEN {"inv_context_scan"} ELSE {})
        \cup (IF Warnings(w) # {} THEN {"inv_context_t5"} ELSE {})

\* No persona, no package.
assemble(w) ==
    IF "persona" \in w.missing THEN NoPackage
    ELSE LET t5 == tier5_standing_context(w)
         IN [turns |-> tier1(w.turns), hits |-> _tier3_recall(w), facts |-> _tier4_facts(w),
             stable |-> t5.stable, volatile |-> t5.volatile, warnings |-> t5.warnings,
             alarms |-> Alarms(w, tier1(w.turns), _tier3_recall(w))]

PKInit == world \in Worlds /\ package = NoPackage
PKNext ==
    /\ UNCHANGED world
    /\ \/ package = NoPackage /\ package' = assemble(world)
       \/ package # NoPackage /\ package' = NoPackage

PKSpec == PKInit /\ [][PKNext]_pkVars

-----------------------------------------------------------------------------
\* What is kept is within the ceiling and ranks above all that was dropped, and the best of
\* what was dropped would not have fit.
BestOf(S, above) == CHOOSE y \in S : \A z \in S \ {y} : <<y, z>> \in above
FitsBest(kept, all, above, cap, Emitted(_), most) ==
    LET dropped == all \ Range(kept)
    IN /\ kept = <<>> \/ Emitted(kept) <= cap
       /\ \A x \in Range(kept), y \in dropped : <<x, y>> \in above
       /\ dropped # {} /\ Len(kept) < most => Emitted(Append(kept, BestOf(dropped, above))) > cap
Newer(turns) == {p \in Range(turns) \X Range(turns) : p[1].n > p[2].n}
Blocks(w, names) == {Block(w, names[i]) : i \in {j \in DOMAIN names : There(w, names[j])}}
Earlier(w, names) ==
    {p \in Blocks(w, names) \X Blocks(w, names) :
        \E i, j \in DOMAIN names : i < j /\ names[i] = p[1].name /\ names[j] = p[2].name}
FitsInOrder(kept, names, cap) ==
    FitsBest(kept, Blocks(world, names), Earlier(world, names), cap, Length, Len(names))

\* Every tier gives the model the best it has, up to its ceiling and no further, and nothing
\* that was there is missing without a warning: the newest turns, the nearest hits, the most
\* relevant facts, the standing texts by their rank.
PackageFits ==
    package # NoPackage =>
        /\ FitsBest(package.turns, Range(world.turns), Newer(world.turns), TIER1_CHAR_CAP, Length, Len(world.turns))
        /\ world.advisor = "kai" /\ world.store = "up" =>
               FitsBest(package.hits, {h \in world.hits : h.score >= TIER3_SCORE_THRESHOLD}, Nearer(world.hits),
                        TIER3_CHAR_CAP, _render, TIER3_TOP_K)
        /\ FitsBest(package.facts, facts_for(world), RanksAbove(world.facts), TIER4_CHAR_CAP, Length, Cardinality(world.facts))
        /\ FitsInOrder(package.stable, StableBlocks, TIER5_STABLE_CHAR_CAP)
        /\ FitsInOrder(package.volatile, VolatileBlocks, TIER5_VOLATILE_CHAR_CAP)
        /\ world.advisor = "kai" /\ world.missing \cap KaiOnly # {} => "inv_context_t5" \in package.alarms

\* "A fact with a project/task_type set only matches an assemble() call naming the same one"
\* (registry.py:321-323): does not hold, a message that names no project is given the facts
\* of all of them.
ProjectFactsStayHome ==
    \A i \in DOMAIN package.facts : package.facts[i].project \in {"none", world.project}

\* "persona/voice content itself is always present" (context_service.py:938-939): does not hold
\* where the background text is so long that the persona does not fit under the ceiling.
PersonaIsKept ==
    package # NoPackage => \E i \in DOMAIN package.stable : package.stable[i].name = "persona"
=============================================================================
