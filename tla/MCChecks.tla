------------------------------- MODULE MCChecks -------------------------------
(***************************************************************************)
(* Every check of both engines, of the custodians and of the WordPress     *)
(* routes on every answer its probes can give, and the block validator on  *)
(* every short document: a behaviour is one check on one state of the      *)
(* world, decided again and again; the pre-flight gate is run with every   *)
(* other check of it GREEN.  Or it is one of the parts that have a state   *)
(* of their own: the watchers outside the worker, and a message's package. *)
(***************************************************************************)
EXTENDS SiteChecks, HostWatch, ContextPackage

VARIABLES check, evidence, verdict, unattended

Parts == {"shim", "mini", "errors", "package"}

\* What the stores hold in this instance: one tier is full at a time.
Quiet == [advisor |-> "kai", store |-> "up", turns |-> <<>>, hits |-> {}, facts |-> {},
          project |-> "none", missing |-> {}, size |-> [n \in Names |-> 1]]
Turns == UNION {[1..n -> 1..4] : n \in 0..3}
None == [size |-> 0]
SetsOf(n, Records) == {{f[i] @@ [id |-> i] : i \in {j \in 1..n : f[j] # None}} : f \in [1..n -> Records \cup {None}]}
SomeHits == {{h @@ [score |-> <<3, 2, 2, 1>>[h.id]] : h \in S} : S \in SetsOf(4, [clean : BOOLEAN, size : 1..2])}
SomeFacts == SetsOf(2, [relevance : 0..1, project : {"none", "p", "q"}, size : 1..2])
MCWorlds ==
    {[Quiet EXCEPT !.turns = [i \in DOMAIN s |-> [n |-> i, size |-> s[i]]]] : s \in Turns}
    \cup {[Quiet EXCEPT !.hits = S, !.advisor = a, !.store = d] :
              S \in SomeHits, a \in {"kai", "unknown"}, d \in {"up", "down"}}
    \cup {[Quiet EXCEPT !.facts = S, !.project = p] : S \in SomeFacts, p \in {"none", "p"}}
    \cup {[Quiet EXCEPT !.missing = M, !.size = [n \in Names |-> IF n \in L THEN 3 ELSE 1], !.advisor = a] :
              M \in {{m} : m \in Names} \cup {{}}, L \in {{l, m} : l, m \in Names} \cup {{}}, a \in {"kai", "dev"}}

checkVars == <<check, evidence, verdict, unattended>>
vars == <<checkVars, hwVars, pkVars>>

Init ==
    /\ \/ check \in Checks /\ evidence \in Evidence(check)
       \/ check \in Diagnostics /\ evidence \in Answers(check)
       \/ check \in Domains /\ evidence \in Probes(check)
       \/ check \in SiteRoutes /\ evidence \in SiteAnswers(check)
       \/ check = "document" /\ evidence \in {[delims |-> d, text |-> "good"] : d \in Documents} \cup {[delims |-> <<>>, text |-> "none"]}
       \/ check \in Parts /\ evidence = [none |-> "good"]
    /\ package = NoPackage /\ IF check = "package" THEN world \in Worlds ELSE world = Quiet
    /\ HWInit /\ verdict = "none" /\ unattended = FALSE

Decides ==
    /\ verdict = "none" /\ check \notin Parts
    /\ verdict' =
           CASE check \in Checks -> Red(InvariantPasses(check, evidence))
             [] check \in Diagnostics -> Diagnosis(check, evidence)
             [] check \in SiteRoutes -> Red(SitePasses(check, evidence))
             [] check = "document" -> Red(validate(evidence.delims, evidence.text))
             [] OTHER -> Red(Findings(check, evidence) = {})
    /\ UNCHANGED <<check, evidence, unattended, hwVars, pkVars>>

\* The pre-flight gate opens for an unattended run.
PreflightRuns ==
    /\ verdict # "none" /\ check \in PREFLIGHT_NAMES
    /\ unattended' = SuitePasses([c \in PREFLIGHT_NAMES |-> IF c = check THEN verdict ELSE "GREEN"])
    /\ UNCHANGED <<check, evidence, verdict, hwVars, pkVars>>

NextTick ==
    /\ verdict # "none" /\ verdict' = "none" /\ unattended' = FALSE
    /\ UNCHANGED <<check, evidence, hwVars, pkVars>>

\* The watchers share nothing but the bound on faults: each is run by itself.
Host(watcher, A) == check = watcher /\ A /\ UNCHANGED <<checkVars, pkVars>>
Watches == Host("shim", ShimNext) \/ Host("mini", MiniNext) \/ Host("errors", ErrorNext)
Assembles == check = "package" /\ PKNext /\ UNCHANGED <<checkVars, hwVars>>

Next == Decides \/ PreflightRuns \/ NextTick \/ Watches \/ Assembles

\* The watchers exclude one another: one condition stands for the same of each.
Spec ==
    /\ Init /\ [][Next]_vars
    /\ WF_vars(Host("shim", CooldownEnds))
    /\ SF_vars(Host("shim", ShimCounts) \/ Host("mini", MiniCounts) \/ Host("errors", ErrorSaves))
    /\ \A sig \in Signatures :
          SF_vars(Host("shim", ShimHeals) \/ Host("mini", MiniTells) \/ Host("errors", ErrorTells(sig)))

-----------------------------------------------------------------------------
Flat == DOMAIN evidence \ {"tries", "jobs", "delims"}     \* the probes made once

\* A leg that answers with the trouble a check looks for, all its other legs being well,
\* keeps the check from being GREEN: no leg is there for show (the review's finding F4,
\* invariants.py:814: a check that proved one caller stayed green while another was
\* refused).  A peer of the spine that is down is named in the text of a GREEN gate.
EveryLegCounts ==
    \A p \in Flat :
        /\ evidence[p] \in {"bad", "now"}
        /\ \A q \in Flat \ {p} : evidence[q] = "good"
        /\ <<check, p>> # <<"fleet_visibility", "peers">>
        => verdict # "GREEN"

\* The checks that are content with seeing nothing, each by a comment of its own: no
\* secrets are mounted, no manifest or audit log is there yet, a document or a line of a
\* log that cannot be read is passed over, a lookup not made is a note; and disk_pressure, which no comment excuses.
ContentBlind ==
    {"secret_files_permissions", "vault_backup_skip_manifest", "no_override_without_ack",
     "audit_log_integrity", "no_secrets_in_vault_docs", "no_wp_password_in_vault_json",
     "cron_log_error_scan", "cve_findings", "disk_pressure"}

\* A check none of whose probes is answered is not GREEN: lost sight never reads as health
\* (green_baseline.py:259-262 of the fleet; both engines otherwise by their except clauses).
NothingSeenNothingGreen ==
    (Flat = DOMAIN evidence /\ \A p \in Flat : evidence[p] \in {"none", "refused", "garbled"})
        => verdict # "GREEN" \/ check \in ContentBlind

\* The gate before every write: a document the generator may publish is well formed
\* (gutenberg.py: validate).
ValidIsWellFormed ==
    check = "document" => (verdict = "GREEN" => WellFormed(evidence.delims))

\* "The subset of diagnostics that must ALL be green before an unattended sprint run may
\* start" (green_baseline.py:1514): does not hold, a warning counts as GREEN.
PreflightAllGreen == unattended => verdict = "GREEN"
=============================================================================
