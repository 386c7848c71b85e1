--------------------------- MODULE InvariantChecks ---------------------------
(***************************************************************************)
(* The thirty invariants the scheduler's engine runs (kai-scheduler/       *)
(* invariants.py), each as the decision it takes on what its probes        *)
(* answer.  A check passes or fails; it never writes.  Answers of a probe: *)
(*   "none"    nothing: no answer in time, no such file, no such secret    *)
(*   "refused" another status, an exit code, a file that cannot be read    *)
(*   "garbled" an answer without the shape or the field it should have     *)
(*   "empty"   there is nothing of the kind to judge                       *)
(*   "stale"   older or slower than the check allows                       *)
(*   "gone"    HTTP 410                                                    *)
(*   "bad"     the very trouble the check looks for                        *)
(*   "good"    the answer of a healthy system                              *)
(***************************************************************************)
Secret == {"none", "good"}
Open   == {"bad", "good"}                            \* a probe that always finds out
Http   == {"none", "refused", "garbled", "bad", "good"}
Timed  == {"none", "refused", "stale", "good"}
File   == {"none", "refused", "garbled", "empty", "stale", "bad", "good"}
Listing == {"none", "refused", "empty", "bad", "good"}

All(e) == \A p \in DOMAIN e : e[p] = "good"

\* Infrastructure.
container_health(e) == All(e)
vault_writability(e) == e.sentinel = "good"
council_api_latency(e) == e.health = "good"
council_answer_quality(e) == e.reply = "good"
capability_reachability(e) == e.list \in {"good", "empty"}
execution_registry_freshness(e) == e.runs = "good"
cert_expiry(e) == e.certificate = "good"
backup_integrity(e) == e.log = "good"
disk_usage(e) == e.df = "good"
llm_latency(e) == e.tags = "good"
plane_api_health(e) == e.token = "good" /\ e.states = "good"
persona_assembly(e) == e.diagnostic = "good" /\ e.loaded = "good" /\ e.blocks = "good"
endpoint_contracts(e) == e.results = "good"
loop_telemetry_present(e) == e.iterations \in {"good", "empty"}

\* Secrets and the perimeter.  What cannot be read is passed over by the two scans of
\* the vault, counted as an offence by the scan of the git remotes.
no_secrets_in_vault_docs(e) == \A p \in DOMAIN e : e[p] # "bad"
no_wp_password_in_vault_json(e) == no_secrets_in_vault_docs(e)
no_embedded_git_creds(e) == All(e)
secret_files_permissions(e) == e.mounted = "none" \/ e.modes = "good"
AuthWithoutMcp(e) == e.boundary = "good" /\ e.scheduler = "good" /\ e.orchestrator = "good"  \* mutant
internal_worker_auth(e) ==
    e.boundary = "good" /\ e.scheduler = "good" /\ e.orchestrator = "good" /\ e.mcp = "good"
external_scan(e) ==
    /\ e.public = "good"
    /\ e.targets = "good"                            \* without addresses nothing is scanned
    /\ \A p \in {"qdrant", "ollama", "council", "listeners"} : e[p] = "good"

\* The ledger of work, and the audit trail.
ledger_pointer_consistent(e) ==
    /\ e.pointer = "good" /\ e.token = "good"
    /\ e.states = "good" /\ e.issue = "good"
capability_transports_healthy(e) == e.token = "good" /\ e.todoist \in {"good", "gone"}
vault_backup_skip_manifest(e) == e.manifest \in {"none", "empty", "good"}
audit_log_integrity(e) == e.log \in {"good", "garbled", "stale", "bad"}  \* any line at all
no_override_without_ack(e) == e.log \notin {"refused", "bad"}            \* lines it cannot read are skipped

\* Practice.  Each stops, content, where there is nothing further to look at.
\* Comments that cannot be fetched count as no comments.
all_closed_issues_have_td(e) ==
    /\ e.token = "good"
    /\ \/ e.states = "empty"
       \/ e.states = "good" /\ (e.issues = "empty" \/ (e.issues = "good" /\ e.comments = "good"))
leo_facing_zerostress_note(e) ==
    /\ e.token = "good"
    /\ \/ e.labels = "empty"
       \/ e.labels = "good" /\ all_closed_issues_have_td(e)
session_saves_current(e) == e.closeLog = "good"
plan_doc_current(e) == e.stamp = "good"
workspace_sync_current(e) == e.activity = "good"

-----------------------------------------------------------------------------
Checks == {
    "container_health", "vault_writability", "council_api_latency", "council_answer_quality",
    "capability_reachability", "execution_registry_freshness", "cert_expiry", "backup_integrity",
    "disk_usage", "llm_latency", "plane_api_health", "persona_assembly", "endpoint_contracts",
    "no_secrets_in_vault_docs", "no_embedded_git_creds", "ledger_pointer_consistent",
    "secret_files_permissions", "internal_worker_auth", "no_wp_password_in_vault_json",
    "capability_transports_healthy", "vault_backup_skip_manifest", "audit_log_integrity",
    "no_override_without_ack", "all_closed_issues_have_td", "leo_facing_zerostress_note",
    "session_saves_current", "plan_doc_current", "workspace_sync_current", "external_scan",
    "loop_telemetry_present"}

\* What the probes of a check may answer.
Evidence(check) ==
    CASE check = "container_health" -> [{"worker", "council", "orchestrator"} -> {"none", "refused", "good"}]
      [] check = "vault_writability" -> [sentinel : {"refused", "good"}]
      [] check = "council_api_latency" -> [health : Timed]
      [] check = "council_answer_quality" -> [reply : Http \cup {"empty"}]
      [] check = "capability_reachability" -> [list : {"none", "refused", "garbled", "empty", "good"}]
      [] check = "execution_registry_freshness" -> [runs : {"none", "refused", "empty", "stale", "good"}]
      [] check = "cert_expiry" -> [certificate : {"none", "garbled", "stale", "good"}]
      [] check = "backup_integrity" -> [log : {"none", "garbled", "stale", "good"}]
      [] check = "disk_usage" -> [df : {"none", "garbled", "bad", "good"}]
      [] check = "llm_latency" -> [tags : Timed \cup {"garbled"}]
      [] check = "plane_api_health" -> [token : Secret, states : {"none", "refused", "good"}]
      [] check = "persona_assembly" -> [diagnostic : {"none", "refused", "empty", "good"}, loaded : Open, blocks : Open]
      [] check = "endpoint_contracts" -> [results : {"none", "garbled", "stale", "bad", "good"}]
      [] check \in {"no_secrets_in_vault_docs", "no_wp_password_in_vault_json"} ->
            [{"document", "another"} -> {"refused", "bad", "good"}]
      [] check = "no_embedded_git_creds" -> [{"kai-system", "vault"} -> {"refused", "bad", "good"}]
      [] check = "ledger_pointer_consistent" ->
            [pointer : {"none", "garbled", "stale", "good"}, token : Secret, states : Http, issue : Http]
      [] check = "secret_files_permissions" -> [mounted : Secret, modes : Open]
      [] check = "internal_worker_auth" ->
            [boundary : {"none", "bad", "good"}, scheduler : {"none", "refused", "good"},
             orchestrator : Http, mcp : Http]
      [] check = "capability_transports_healthy" -> [token : Secret, todoist : {"none", "refused", "gone", "good"}]
      [] check = "vault_backup_skip_manifest" -> [manifest : {"none", "refused", "empty", "bad", "good"}]
      [] check = "audit_log_integrity" -> [log : {"none", "refused", "garbled", "empty", "good"}]
      [] check = "no_override_without_ack" -> [log : File]
      [] check = "all_closed_issues_have_td" -> [token : Secret, states : Listing, issues : Listing, comments : Listing]
      [] check = "leo_facing_zerostress_note" ->
            [token : Secret, labels : {"none", "refused", "empty", "good"},
             states : Listing \ {"bad"}, issues : Listing \ {"bad"}, comments : Listing]
      [] check = "session_saves_current" -> [closeLog : File]
      [] check = "plan_doc_current" -> [stamp : {"none", "garbled", "stale", "good"}]
      [] check = "workspace_sync_current" -> [activity : {"none", "garbled", "empty", "stale", "good"}]
      [] check = "external_scan" ->
            [public : {"none", "bad", "good"}, targets : {"garbled", "good"}, qdrant : {"none", "bad", "good"},
             ollama : {"none", "bad", "good"}, council : {"none", "bad", "good"}, listeners : {"none", "refused", "bad", "good"}]
      [] check = "loop_telemetry_present" -> [iterations : {"none", "refused", "garbled", "empty", "bad", "good"}]

InvariantPasses(check, e) ==
    CASE check = "container_health" -> container_health(e)
      [] check = "vault_writability" -> vault_writability(e)
      [] check = "council_api_latency" -> council_api_latency(e)
      [] check = "council_answer_quality" -> council_answer_quality(e)
      [] check = "capability_reachability" -> capability_reachability(e)
      [] check = "execution_registry_freshness" -> execution_registry_freshness(e)
      [] check = "cert_expiry" -> cert_expiry(e)
      [] check = "backup_integrity" -> backup_integrity(e)
      [] check = "disk_usage" -> disk_usage(e)
      [] check = "llm_latency" -> llm_latency(e)
      [] check = "plane_api_health" -> plane_api_health(e)
      [] check = "persona_assembly" -> persona_assembly(e)
      [] check = "endpoint_contracts" -> endpoint_contracts(e)
      [] check = "no_secrets_in_vault_docs" -> no_secrets_in_vault_docs(e)
      [] check = "no_embedded_git_creds" -> no_embedded_git_creds(e)
      [] check = "ledger_pointer_consistent" -> ledger_pointer_consistent(e)
      [] check = "secret_files_permissions" -> secret_files_permissions(e)
      [] check = "internal_worker_auth" -> internal_worker_auth(e)
      [] check = "no_wp_password_in_vault_json" -> no_wp_password_in_vault_json(e)
      [] check = "capability_transports_healthy" -> capability_transports_healthy(e)
      [] check = "vault_backup_skip_manifest" -> vault_backup_skip_manifest(e)
      [] check = "audit_log_integrity" -> audit_log_integrity(e)
      [] check = "no_override_without_ack" -> no_override_without_ack(e)
      [] check = "all_closed_issues_have_td" -> all_closed_issues_have_td(e)
      [] check = "leo_facing_zerostress_note" -> leo_facing_zerostress_note(e)
      [] check = "session_saves_current" -> session_saves_current(e)
      [] check = "plan_doc_current" -> plan_doc_current(e)
      [] check = "workspace_sync_current" -> workspace_sync_current(e)
      [] check = "external_scan" -> external_scan(e)
      [] check = "loop_telemetry_present" -> loop_telemetry_present(e)
=============================================================================
