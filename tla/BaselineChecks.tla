---------------------------- MODULE BaselineChecks ----------------------------
(***************************************************************************)
(* The diagnostics of the green baseline (scripts/green_baseline.py), each *)
(* as the decision it takes on what its probes answer, and the two gates   *)
(* made of them: the suite a session, a push and a close run, and the pre- *)
(* flight gate of an unattended run.  A diagnostic raises (RED), warns or  *)
(* is GREEN.  Its two journeys are modelled in GreenBaseline.  The answers *)
(* of a probe are those of InvariantChecks, with "soon" and "now" for what *)
(* is about to expire or to fill up.  Then what each custodian finds.      *)
(***************************************************************************)
EXTENDS InvariantChecks, Naturals

Red(ok) == IF ok THEN "GREEN" ELSE "RED"
Warn(ok) == IF ok THEN "GREEN" ELSE "WARN"
Has(e, answer) == \E p \in DOMAIN e : e[p] = answer

\* RED unless all is well: every exception is a failure.
services_up(e) == Red(All(e))
session_brief(e) == Red(e.brief = "good")
worker_auth_fail_closed(e) == Red(e.anonymous = "good")      \* denied
plane_reachable(e) == Red(e.issues \in {"good", "empty"})
qdrant_up(e) == Red(e.healthz = "good")
protected_resources(e) == Red(All(e))
litellm_models(e) == Red(e.models = "good")
qwen_mid_route_and_fallback(e) == Red(e.config = "good")
buzz_shim_backend(e) == Red(e.models = "good")
secret_permissions(e) == Red(e.files = "good")
source_drift(e) == Red(e.diff = "good")
fleet_visibility(e) == Red(e.heartbeat = "good" /\ e.spine = "good")

\* WARN at most: what is probed is not what the runtime stands on.
buzz_approvals_auth(e) == IF e.exec = "refused" THEN "RED" ELSE Warn(e.code = "good")
buzz_shim_answers(e) == Warn(e.reply = "good")
codex_verifier_auth(e) == Warn(e.auth = "good")
cron_log_error_scan(e) == Warn(~Has(e, "bad"))               \* a log that is absent is clean
host_hygiene(e) ==
    Warn(e.updates = "good" /\ e.reboot = "good" /\ e.zombies # "bad" /\ e.cache # "stale")
backup_freshness(e) == Warn(e.dir = "good" /\ e.stores = "good" /\ e.log # "bad" /\ e.leftovers = "good")
calendar_freshness(e) == Warn(e.events \in {"good", "empty"})
\* Three tries at Cloudways: the first that is answered decides.
cloudways_auth(e) ==
    Warn(/\ e.credentials = "good"
         /\ \E i \in 1..3 : e.tries[i] = "good" /\ \A j \in 1..i - 1 : e.tries[j] = "none")

\* Three answers.
expiry_severity(left) ==
    CASE left = "now" -> "RED" [] left \in {"soon", "none"} -> "WARN" [] OTHER -> "GREEN"
tailscale_key_expiry(e) == expiry_severity(e.key)
public_tls(e) == expiry_severity(e.certificate)
credential_registry(e) ==
    CASE e.registry # "good" \/ e.present = "empty" -> "WARN"
      [] e.critical = "bad" -> "RED"
      [] OTHER -> Warn(e.registered = "good")
disk_pressure(e) ==
    CASE "now" \in {e.disk, e.inodes, e.memory} -> "RED"
      [] Has(e, "soon") -> "WARN"
      [] OTHER -> "GREEN"                                    \* what cannot be read does not count
container_roster(e) ==
    CASE e.ps \in {"none", "empty"} \/ e.inspect = "none" -> "WARN"
      [] e.inspect = "refused" -> "GREEN"                    \* the exit code is not looked at: 0 checked
      [] e.up = "bad" -> "RED"
      [] OTHER -> Warn(e.restarts = "good")
backup_verify(e) ==
    CASE e.result = "bad" -> "RED" [] OTHER -> Warn(e.result = "good")
offsite_freshness(e) ==
    CASE e.enabled # "good" -> "WARN"
      [] e.result \in {"bad", "stale"} -> "RED"
      [] OTHER -> Warn(e.result = "good")                    \* "gone": the target is unreachable
hostops_rail_canary(e) ==
    CASE e.exec # "good" \/ e.resolver = "garbled" -> "WARN"
      [] OTHER -> Red(e.resolver = "good")

\* The leak guard reads the stored secrets, looks for jobs whose rows hold one, and asks
\* the orchestrator to serve each (at most a hundred).
LeakGuard(e) ==
    CASE e.inventory = "refused" -> "SKIPPED"
      [] e.inventory = "empty" -> "NOSECRETS"
      [] e.db = "refused" -> "DBERR"
      [] "bad" \in {e.jobs[j] : j \in 1..2} -> "LEAK"
      [] \A j \in 1..2 : e.jobs[j] = "empty" -> "OK"         \* nobody is at risk
      [] \A j \in 1..2 : e.jobs[j] \in {"none", "empty"} -> "UNVERIFIED"
      [] "none" \in {e.jobs[j] : j \in 1..2} -> "PARTIAL"
      [] e.beyond = "good" -> "OK"
      [] OTHER -> "TRUNC"
jobs_secret_leak(e) ==
    CASE e.exec # "good" -> "WARN"
      [] LeakGuard(e) = "LEAK" -> "RED"
      [] OTHER -> Warn(LeakGuard(e) = "OK")

\* Only the pre-flight gate asks these two.
deploy_path_commit(e) ==
    CASE e.repo # "good" \/ e.tracked # "good" -> "RED"
      [] OTHER -> Warn(e.untracked = "good" /\ e.upstream # "bad")
pinned_base(e) == IF e.compose = "none" THEN "RED" ELSE Warn(e.images = "good")

-----------------------------------------------------------------------------
Diagnostics == {
    "services_up", "session_brief", "worker_auth_fail_closed", "plane_reachable", "qdrant_up",
    "protected_resources", "litellm_models", "qwen_mid_route_and_fallback", "buzz_shim_backend",
    "buzz_approvals_auth", "buzz_shim_answers", "secret_permissions", "credential_registry",
    "jobs_secret_leak", "source_drift", "deploy_path_commit", "pinned_base", "fleet_visibility",
    "codex_verifier_auth", "hostops_rail_canary", "host_hygiene", "cron_log_error_scan",
    "disk_pressure", "container_roster", "backup_freshness", "tailscale_key_expiry", "public_tls",
    "cloudways_auth", "backup_verify", "offsite_freshness", "calendar_freshness"}

PREFLIGHT_NAMES == {
    "services_up", "session_brief", "codex_verifier_auth", "disk_pressure", "credential_registry",
    "secret_permissions", "container_roster", "source_drift", "pinned_base", "host_hygiene",
    "backup_freshness", "backup_verify", "deploy_path_commit"}

Try == {"none", "refused", "good"}
Level == {"none", "soon", "now", "good"}

Answers(check) ==
    CASE check = "services_up" -> [state : Http, networks : {"refused", "bad", "good"}]
      [] check = "session_brief" -> [brief : Http \cup {"stale"}]
      [] check = "worker_auth_fail_closed" -> [anonymous : {"none", "bad", "good"}]
      [] check = "plane_reachable" -> [issues : {"none", "refused", "garbled", "empty", "good"}]
      [] check = "qdrant_up" -> [healthz : Try]
      [] check = "protected_resources" ->
            [registry : {"garbled", "good"}, volume : Open, mounts : {"none", "bad", "good"},
             running : Open, content : {"refused", "garbled", "bad", "good"}]
      [] check \in {"litellm_models", "buzz_shim_backend"} -> [models : Http]
      [] check = "qwen_mid_route_and_fallback" -> [config : {"none", "garbled", "bad", "good"}]
      [] check = "buzz_approvals_auth" -> [exec : {"refused", "good"}, code : {"none", "bad", "good"}]
      [] check = "buzz_shim_answers" -> [reply : Http \cup {"empty"}]
      [] check = "secret_permissions" -> [files : {"none", "refused", "empty", "bad", "good"}]
      [] check = "credential_registry" ->
            [registry : {"none", "garbled", "good"}, present : {"empty", "good"}, critical : Open, registered : Open]
      [] check = "jobs_secret_leak" ->
            [exec : {"none", "refused", "garbled", "good"}, inventory : {"refused", "empty", "good"},
             db : {"refused", "good"}, jobs : [1..2 -> {"empty", "none", "bad", "good"}], beyond : {"none", "good"}]
      [] check = "source_drift" -> [diff : {"refused", "bad", "good"}]
      [] check = "deploy_path_commit" ->
            [repo : {"none", "refused", "good"}, tracked : Open, untracked : Open, upstream : {"refused", "bad", "good"}]
      [] check = "pinned_base" -> [compose : Secret, images : Open]
      [] check = "fleet_visibility" ->
            [heartbeat : {"none", "garbled", "stale", "good"}, spine : Open, peers : Open]
      [] check = "codex_verifier_auth" -> [auth : {"none", "garbled", "stale", "soon", "good"}]
      [] check = "hostops_rail_canary" ->
            [exec : {"none", "refused", "good"}, resolver : {"none", "refused", "garbled", "empty", "good"}]
      [] check = "host_hygiene" ->
            [updates : {"none", "bad", "good"}, reboot : Open, zombies : {"none", "bad", "good"}, cache : {"none", "stale", "good"}]
      [] check = "cron_log_error_scan" -> [{"relay", "fleet", "alerts"} -> {"none", "bad", "good"}]
      [] check = "disk_pressure" -> [disk : Level, inodes : Level, memory : Level, swap : Level \ {"now"}]
      [] check = "container_roster" ->
            [ps : {"none", "empty", "good"}, inspect : Try, up : Open, restarts : Open]
      [] check = "backup_freshness" ->
            [dir : Secret, stores : {"none", "stale", "good"}, log : {"none", "refused", "bad", "good"}, leftovers : Open]
      [] check \in {"tailscale_key_expiry"} -> [key : Level \cup {"empty"}]
      [] check = "public_tls" -> [certificate : Level]
      [] check = "cloudways_auth" -> [credentials : {"none", "empty", "good"}, tries : [1..3 -> Try]]
      [] check = "backup_verify" -> [result : {"none", "garbled", "stale", "bad", "good"}]
      [] check = "offsite_freshness" -> [enabled : {"none", "refused", "good"}, result : {"none", "stale", "gone", "bad", "good"}]
      [] check = "calendar_freshness" -> [events : {"none", "refused", "garbled", "bad", "empty", "good"}]

Diagnosis(check, e) ==
    CASE check = "services_up" -> services_up(e)
      [] check = "session_brief" -> session_brief(e)
      [] check = "worker_auth_fail_closed" -> worker_auth_fail_closed(e)
      [] check = "plane_reachable" -> plane_reachable(e)
      [] check = "qdrant_up" -> qdrant_up(e)
      [] check = "protected_resources" -> protected_resources(e)
      [] check = "litellm_models" -> litellm_models(e)
      [] check = "qwen_mid_route_and_fallback" -> qwen_mid_route_and_fallback(e)
      [] check = "buzz_shim_backend" -> buzz_shim_backend(e)
      [] check = "buzz_approvals_auth" -> buzz_approvals_auth(e)
      [] check = "buzz_shim_answers" -> buzz_shim_answers(e)
      [] check = "secret_permissions" -> secret_permissions(e)
      [] check = "credential_registry" -> credential_registry(e)
      [] check = "jobs_secret_leak" -> jobs_secret_leak(e)
      [] check = "source_drift" -> source_drift(e)
      [] check = "deploy_path_commit" -> deploy_path_commit(e)
      [] check = "pinned_base" -> pinned_base(e)
      [] check = "fleet_visibility" -> fleet_visibility(e)
      [] check = "codex_verifier_auth" -> codex_verifier_auth(e)
      [] check = "hostops_rail_canary" -> hostops_rail_canary(e)
      [] check = "host_hygiene" -> host_hygiene(e)
      [] check = "cron_log_error_scan" -> cron_log_error_scan(e)
      [] check = "disk_pressure" -> disk_pressure(e)
      [] check = "container_roster" -> container_roster(e)
      [] check = "backup_freshness" -> backup_freshness(e)
      [] check = "tailscale_key_expiry" -> tailscale_key_expiry(e)
      [] check = "public_tls" -> public_tls(e)
      [] check = "cloudways_auth" -> cloudways_auth(e)
      [] check = "backup_verify" -> backup_verify(e)
      [] check = "offsite_freshness" -> offsite_freshness(e)
      [] check = "calendar_freshness" -> calendar_freshness(e)

\* The exit code of a suite of diagnostics: a warning is printed as GREEN and passes.
SuitePasses(verdicts) == \A c \in DOMAIN verdicts : verdicts[c] # "RED"

-----------------------------------------------------------------------------
(***************************************************************************)
(* What each DevOps custodian (scripts/devops_*_custodian.py) finds, from  *)
(* what its probes answer: a set of findings, each with the disposition    *)
(* that decides who acts on it (Custodian models what is done with them).  *)
(* The answers are those of InvariantChecks and BaselineChecks.            *)
(***************************************************************************)

Finding(when, disposition) == IF when THEN {disposition} ELSE {}

\* 80 per cent of the disk: reclaim logs; 90: what is left is structural.
storage(e) == Finding(e.disk \in {"soon", "now"}, "auto") \cup Finding(e.disk = "now", "structural")

\* What unattended-upgrade cannot apply is held back; a count that cannot be read is silence.
classify_hygiene(e) ==
    Finding(e.security = "bad", IF e.applicable = "good" THEN "auto" ELSE "structural")
        \cup Finding(e.zombies = "bad", "auto") \cup Finding(e.reboot = "bad", "structural")

offsite_stale(e) == e.enabled = "good" /\ e.result \in {"bad", "stale"}
backups(e) ==
    IF e.dir # "good" THEN {"structural"}
    ELSE Finding(e.stores # "good", "auto") \cup Finding(offsite_stale(e), "structural")

\* A container that asked for a network and has none is made anew; one that is down is
\* restarted, unless it has been restarted too often already; a one-shot may be done.
classify_container(c) ==
    CASE c.policy = "good" /\ c.networks = "bad" -> {"auto"}
      [] c.status = "good" -> Finding(c.restarts = "many" /\ c.uptime # "good", "structural")
      [] c.policy = "once" /\ c.exit = "good" -> {}
      [] OTHER -> {IF c.restarts = "many" THEN "structural" ELSE "auto"}
services(e) ==
    CASE e.docker = "none" -> {"structural"}          \* the command could not be run
      [] e.docker = "refused" -> {}                   \* it failed: its empty output is read
      [] OTHER -> classify_container(e)

\* A check of the baseline that raises or says WARN is owned; only drifted permissions of
\* the host's secret files are repaired, only a leaked secret is Leo's decision.
security(e) ==
    Finding(e.baseline # "good", "structural") \cup Finding(e.leak # "good", "decision")
        \cup Finding(e.permissions = "bad", "auto")

fleet(e) == Finding(e.fleet # "good", "structural") \cup Finding(e.nodes # "good", "structural")

classify_currency(e) ==
    IF e.scan \in {"none", "garbled"} THEN {"structural"}
    ELSE Finding(e.scan = "stale", "structural") \cup Finding(e.layer = "bad", "structural")

\* Once a day; a sweep that could not be made is no finding.
due(e) == e.stamp # "recent"
findings_from_sweep(e) == Finding("bad" \in {e.duplicates, e.collisions}, "structural")
inventory(e) == IF due(e) /\ e.sweep = "good" THEN findings_from_sweep(e) ELSE {}

feed_broken(e) == e.response # "good" \/ e.error = "bad" \/ e.feed_status = "bad" \/ e.errors = "bad"
                  \/ e.content = "none" \/ (e.content = "empty" /\ e.empty_ok # "yes")
tasks_stale(e) == e.overdue = "bad"
feeds(e) == Finding(feed_broken(e) \/ tasks_stale(e), "structural")

\* The media bucket is made anew only when it is known to be gone (an answer that says
\* neither is put down in the state file); the shim is pinged.
bucket_exists(e) == Finding(e.ls # "good", IF e.ls = "bad" THEN "auto" ELSE "noted")
probe_live(e) == Finding(~All(e), "auto")

-----------------------------------------------------------------------------
Domains == {"storage", "updates", "backups", "services", "security", "fleet", "currency",
            "inventory", "feeds", "media_bucket", "shim"}

Probes(domain) ==
    CASE domain = "storage" -> [disk : {"good", "soon", "now"}]
      [] domain = "updates" -> [security : {"none", "bad", "good"}, applicable : {"none", "good"},
                                zombies : Open, reboot : Open]
      [] domain = "backups" -> [dir : {"none", "good"}, stores : {"none", "stale", "good"},
                                enabled : {"none", "good"}, result : {"none", "bad", "stale", "good"}]
      [] domain = "services" -> [docker : Try, status : Open, exit : {"good", "nonzero"},
                                 policy : {"good", "once"}, restarts : {"good", "many"},
                                 uptime : {"none", "short", "good"}, networks : {"none", "bad", "good"}]
      [] domain = "security" -> [baseline : {"bad", "soon", "good"}, leak : {"bad", "soon", "good"},
                                 permissions : Open]
      [] domain = "fleet" -> [fleet : {"none", "bad", "soon", "good"}, nodes : {"none", "bad", "good"}]
      [] domain = "currency" -> [scan : {"none", "garbled", "stale", "good"}, layer : {"none", "bad", "good"}]
      [] domain = "inventory" -> [stamp : {"none", "garbled", "recent", "good"}, sweep : {"none", "refused", "garbled", "good"},
                                  duplicates : Open, collisions : Open]
      [] domain = "feeds" -> [response : {"none", "garbled", "good"}, error : Open, feed_status : Open,
                              errors : Open, content : {"none", "empty", "good"},
                              empty_ok : {"yes", "good"}, overdue : Open]
      [] domain = "media_bucket" -> [ls : {"none", "garbled", "bad", "good"}]
      [] domain = "shim" -> [models : Http]

Findings(domain, e) ==
    CASE domain = "storage" -> storage(e)
      [] domain = "updates" -> classify_hygiene(e)
      [] domain = "backups" -> backups(e)
      [] domain = "services" -> services(e)
      [] domain = "security" -> security(e)
      [] domain = "fleet" -> fleet(e)
      [] domain = "currency" -> classify_currency(e)
      [] domain = "inventory" -> inventory(e)
      [] domain = "feeds" -> feeds(e)
      [] domain = "media_bucket" -> bucket_exists(e)
      [] domain = "shim" -> probe_live(e)
=============================================================================
