---------------------------- MODULE PageWorkflows ----------------------------
(***************************************************************************)
(* The governed workflows that write pages to a WordPress site: publish a  *)
(* homepage, build a draft, edit a draft (kai-orchestrator/workflows/      *)
(* wordpress_*.py over capabilities/wordpress.py).  The site is shared by  *)
(* the jobs; a request to it may never arrive, or be carried out with its  *)
(* answer lost; the engine repeats a step that failed and leaves a job     *)
(* whose step raised where it is, until the process is started again or    *)
(* a person overrides the step.  A job names its site as its caller wrote  *)
(* it: the credentials are looked up by a part of the name.                *)
(***************************************************************************)
EXTENDS Naturals, Sequences, FiniteSets

CONSTANTS Jobs, Pages, NoPage,
          Spellings,      \* names of the site that jobs are started with
          Live,           \* the homepage visitors see before any job starts
          WriteRetries, OtherRetries,  \* times a step that failed is repeated: 2 and 3
          MaxRestarts     \* bound: starts of the process again

ASSUME LiveAssumption == Live \in Pages

VARIABLES kind, site, expected, page_id,            \* a job's workflow and inputs
          at, mode, retry_count, id, page_on_front, \* its progress, and its context
          status, show_on_front, coming_soon,       \* the site
          restarts

jobVars == <<kind, site, expected, page_id>>
siteVars == <<status, show_on_front, coming_soon>>
wpVars == <<jobVars, at, mode, retry_count, id, page_on_front, siteVars, restarts>>

Approvals == <<"load_site_config", "check_credentials", "load_brief", "dev_gate", "creative_brief">>
Steps(k) == Approvals \o
    CASE k = "publish" -> <<"create_page_draft", "disable_coming_soon", "precheck_homepage_overwrite",
                            "set_as_homepage", "publish_page", "purge_cache", "verify_live", "devops_review", "complete">>
      [] k = "build" -> <<"generate_page", "create_page_draft", "complete">>
      [] k = "edit" -> <<"update_page_draft", "complete">>
Writes == {"create_page_draft", "disable_coming_soon", "set_as_homepage", "publish_page", "update_page_draft"}
max_retries(step) == IF step \in Writes THEN WriteRetries ELSE OtherRetries

WPInit ==
    /\ kind \in [Jobs -> {"publish", "build", "edit"}]
    /\ site \in [Jobs -> Spellings] /\ expected \in [Jobs -> {NoPage, Live}]
    /\ page_id = [j \in Jobs |-> NoPage]
    /\ at = [j \in Jobs |-> 0] /\ mode = [j \in Jobs |-> "new"] /\ retry_count = [j \in Jobs |-> 0]
    /\ id = [j \in Jobs |-> NoPage] /\ page_on_front = [j \in Jobs |-> NoPage]
    /\ status = [p \in Pages |-> IF p = Live THEN "publish" ELSE "none"]
    /\ show_on_front = Live /\ coming_soon = TRUE /\ restarts = 0

Step(j) == Steps(kind[j])[at[j]]
Ready(j, step) == mode[j] = "ready" /\ Step(j) = step
ContextId(j) == id[j]                               \* the id of the last step that gave one

\* How a step ends: verified; failed, and repeated while its retries last, a result called
\* permanent like any other; raised, which includes a success that is not verified.
Succeeds(j) == at' = [at EXCEPT ![j] = @ + 1] /\ retry_count' = [retry_count EXCEPT ![j] = 0] /\ UNCHANGED mode
Fails(j) ==
    /\ UNCHANGED at
    /\ IF retry_count[j] < max_retries(Step(j))
       THEN retry_count' = [retry_count EXCEPT ![j] = @ + 1] /\ mode' = [mode EXCEPT ![j] = "ready"]
       ELSE UNCHANGED retry_count /\ mode' = [mode EXCEPT ![j] = "failed"]
Raises(j) == mode' = [mode EXCEPT ![j] = "parked"] /\ UNCHANGED <<at, retry_count>>

\* A write: refused by the preflight of the worker, or its worker is not there; not carried
\* out; carried out, and then read back as it should be, or not, or the answer is lost.
NotWritten(j) == (Raises(j) \/ Fails(j)) /\ UNCHANGED <<id, siteVars>>
WrittenUnseen(j) == (Raises(j) \/ Fails(j)) /\ UNCHANGED id

\* one_active_build: a name of a site has one live job of a kind, and one that raised is live.
SameBuild(i, j) == kind[i] = kind[j] /\ site[i] = site[j]
\* Mutant of OneActiveBuild: a job whose step raised is not counted.
ParkedIsOver(j) == \A i \in Jobs : SameBuild(i, j) => mode[i] \in {"new", "parked", "succeeded", "failed"}
OneActiveBuild(j) == \A i \in Jobs : SameBuild(i, j) => mode[i] \in {"new", "succeeded", "failed"}
Launch(j) ==
    /\ mode[j] = "new" /\ OneActiveBuild(j)
    /\ IF kind[j] = "edit" THEN \E p \in Pages : status[p] # "none" /\ page_id' = [page_id EXCEPT ![j] = p] ELSE UNCHANGED page_id
    /\ at' = [at EXCEPT ![j] = 1] /\ mode' = [mode EXCEPT ![j] = "ready"]
    /\ UNCHANGED <<kind, site, expected, retry_count, id, page_on_front, siteVars, restarts>>

\* Credentials, the brief, the generated body: read or made, or not.
Prepare(j) ==
    /\ mode[j] = "ready" /\ Step(j) \in {"load_site_config", "check_credentials", "load_brief", "generate_page"}
    /\ (Succeeds(j) \/ Fails(j))
    /\ UNCHANGED <<jobVars, id, page_on_front, siteVars, restarts>>

gate_type_map(step) ==
    CASE step = "dev_gate" -> "dev_gate" [] step = "creative_brief" -> "creative_gate"
      [] step = "devops_review" -> "devops_gate" [] step = "precheck_homepage_overwrite" -> "homepage_overwrite"

\* The council is asked and the step waits; or the council cannot be asked.
RunGate(j) ==
    /\ mode[j] = "ready" /\ Step(j) \in {"dev_gate", "creative_brief", "devops_review"}
    /\ ((mode' = [mode EXCEPT ![j] = gate_type_map(Step(j))] /\ UNCHANGED <<at, retry_count>>) \/ Fails(j))
    /\ UNCHANGED <<jobVars, id, page_on_front, siteVars, restarts>>
Waits(j) == mode[j] \in {"dev_gate", "creative_gate", "devops_gate", "homepage_overwrite"}
GateAnswered(j) ==
    /\ Waits(j)
    /\ \/ at' = [at EXCEPT ![j] = @ + 1] /\ mode' = [mode EXCEPT ![j] = "ready"] /\ retry_count' = [retry_count EXCEPT ![j] = 0]
       \/ mode' = [mode EXCEPT ![j] = "failed"] /\ UNCHANGED <<at, retry_count>>
    /\ UNCHANGED <<jobVars, id, page_on_front, siteVars, restarts>>

\* override_step: a person vouches for the step at which a job waits or that raised.  One that
\* failed for good stays so, and the job with it.
Override(j) ==
    /\ mode[j] = "parked" \/ Waits(j)
    /\ at' = [at EXCEPT ![j] = @ + 1] /\ mode' = [mode EXCEPT ![j] = "ready"] /\ retry_count' = [retry_count EXCEPT ![j] = 0]
    /\ UNCHANGED <<jobVars, id, page_on_front, siteVars, restarts>>

Unused == {p \in Pages : status[p] = "none"}
Fresh == IF Unused = {} THEN {} ELSE {CHOOSE p \in Unused : TRUE}
\* Each attempt writes a page of its own: nothing of a lost one is known.
CreatePage(j) ==
    /\ Ready(j, "create_page_draft")
    /\ \/ NotWritten(j)
       \/ \E p \in Fresh :
            /\ status' = [status EXCEPT ![p] = "draft"]
            /\ ((Succeeds(j) /\ id' = [id EXCEPT ![j] = p]) \/ WrittenUnseen(j))
            /\ UNCHANGED <<show_on_front, coming_soon>>
    /\ UNCHANGED <<jobVars, page_on_front, restarts>>

\* Over REST with a reading back; where that fails over SSH, whose transport has none to
\* read back with: the step raises, the option being set.
DisableComingSoon(j) ==
    /\ Ready(j, "disable_coming_soon")
    /\ \/ NotWritten(j)
       \/ coming_soon' = FALSE /\ ((Succeeds(j) /\ UNCHANGED id) \/ WrittenUnseen(j)) /\ UNCHANGED <<status, show_on_front>>
    /\ UNCHANGED <<jobVars, page_on_front, restarts>>

\* No page to replace, or the one the caller expects; else a person is asked about it.
Precheck(j) ==
    /\ Ready(j, "precheck_homepage_overwrite")
    /\ \/ Fails(j) /\ UNCHANGED page_on_front
       \/ /\ page_on_front' = [page_on_front EXCEPT ![j] = show_on_front]
          /\ IF show_on_front \in {NoPage, expected[j]} THEN Succeeds(j)
             ELSE mode' = [mode EXCEPT ![j] = gate_type_map(Step(j))] /\ UNCHANGED <<at, retry_count>>
    /\ UNCHANGED <<jobVars, id, siteVars, restarts>>

\* Without a page of its own, its creation having been overridden, the job fails.
SetHomepage(j) ==
    /\ Ready(j, "set_as_homepage")
    /\ \/ IF ContextId(j) = NoPage THEN Fails(j) /\ UNCHANGED <<id, siteVars>> ELSE NotWritten(j)
       \/ ContextId(j) # NoPage /\ show_on_front' = ContextId(j) /\ ((Succeeds(j) /\ UNCHANGED id) \/ WrittenUnseen(j)) /\ UNCHANGED <<status, coming_soon>>
    /\ UNCHANGED <<jobVars, page_on_front, restarts>>

Publish(j) ==
    /\ Ready(j, "publish_page")
    /\ \/ NotWritten(j)
       \/ /\ status' = [status EXCEPT ![ContextId(j)] = "publish"]
          /\ ((Succeeds(j) /\ UNCHANGED id) \/ WrittenUnseen(j)) /\ UNCHANGED <<show_on_front, coming_soon>>
    /\ UNCHANGED <<jobVars, page_on_front, restarts>>

PurgeCache(j) == Ready(j, "purge_cache") /\ Succeeds(j) /\ UNCHANGED <<jobVars, id, page_on_front, siteVars, restarts>>

\* On the homepage, or in the page as the REST API gives it.
Visible(p) == status[p] = "publish"
VerifyLive(j) ==
    /\ Ready(j, "verify_live")
    /\ ((Visible(ContextId(j)) /\ Succeeds(j)) \/ Fails(j))
    /\ UNCHANGED <<jobVars, id, page_on_front, siteVars, restarts>>

Complete(j) == Ready(j, "complete") /\ mode' = [mode EXCEPT ![j] = "succeeded"] /\ UNCHANGED <<at, retry_count, jobVars, id, page_on_front, siteVars, restarts>>

\* The page is read, and refused when it is not a draft; then it is written, as a draft.
UpdateReads(j) ==
    /\ Ready(j, "update_page_draft")
    /\ \/ Raises(j)
       \/ Fails(j)
       \/ status[page_id[j]] = "draft" /\ mode' = [mode EXCEPT ![j] = "writing"] /\ UNCHANGED <<at, retry_count>>
    /\ UNCHANGED <<jobVars, id, page_on_front, siteVars, restarts>>
UpdateWrites(j) ==
    /\ mode[j] = "writing"
    /\ \/ NotWritten(j)
       \/ /\ status' = [status EXCEPT ![page_id[j]] = "draft"] /\ UNCHANGED <<show_on_front, coming_soon>>
          /\ \/ WrittenUnseen(j)
             \/ /\ at' = [at EXCEPT ![j] = @ + 1] /\ retry_count' = [retry_count EXCEPT ![j] = 0]
                /\ mode' = [mode EXCEPT ![j] = "ready"] /\ id' = [id EXCEPT ![j] = page_id[j]]
    /\ UNCHANGED <<jobVars, page_on_front, restarts>>

\* The process dies and is started again: what was under way or had raised is run again.
Restart ==
    /\ restarts < MaxRestarts /\ restarts' = restarts + 1
    /\ mode' = [j \in Jobs |-> IF mode[j] \in {"parked", "writing"} THEN "ready" ELSE mode[j]]
    /\ UNCHANGED <<jobVars, at, retry_count, id, page_on_front, siteVars>>

Runs(j) ==
    \/ Prepare(j) \/ RunGate(j) \/ CreatePage(j) \/ DisableComingSoon(j) \/ Precheck(j) \/ SetHomepage(j)
    \/ Publish(j) \/ PurgeCache(j) \/ VerifyLive(j) \/ Complete(j) \/ UpdateReads(j) \/ UpdateWrites(j)
WPNext == Restart \/ (\E j \in Jobs : Launch(j) \/ GateAnswered(j) \/ Override(j) \/ Runs(j))

WPSpec == WPInit /\ [][WPNext]_wpVars

-----------------------------------------------------------------------------
\* A job ends, or stands where its step raised: no step is repeated for ever.
Settled(j) == mode[j] \in {"new", "succeeded", "failed", "parked"}
JobsSettle == \A j \in Jobs : []<>Settled(j)

\* "Drafts-only by construction: it refuses to mutate a published/live page" (capabilities/
\* wordpress.py:356): does not hold, the page may be published between the reading and the
\* writing.
DraftsOnly == [][\A p \in Pages : status[p] = "publish" => status'[p] = "publish"]_wpVars

\* What a job replaces is the homepage that its caller expected, or that a person was asked
\* about, or its own, or one that a job on another name of the site has put there: the check and
\* the act lie several steps, retries, overrides and restarts apart, and no other job on the
\* same name comes between.
FailsClosed ==
    [][\A j \in Jobs : SetHomepage(j) =>
          \/ show_on_front \in {NoPage, expected[j], page_on_front[j], id[j]}
          \/ \E i \in Jobs : site[i] # site[j] /\ show_on_front = id[i]]_wpVars

\* "Fail closed unless the live homepage matches the caller's predecessor" (wordpress_
\* publish_homepage.py:360).  Not so where two jobs name the site differently: one replaces what
\* the other has put there since its check.
HomepageMatches ==
    [][\A j \in Jobs : SetHomepage(j) => show_on_front \in {NoPage, expected[j], page_on_front[j], id[j]}]_wpVars

\* A job that succeeded has published its page: does not hold, an edit unpublishes it.
SuccessIsPublished == \A j \in Jobs : (kind[j] = "publish" /\ mode[j] = "succeeded") => status[id[j]] = "publish"
=============================================================================
