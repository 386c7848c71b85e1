------------------------------ MODULE SiteChecks ------------------------------
(***************************************************************************)
(* What the WordPress routes of the worker (kai-worker-api/routes/         *)
(* wordpress.py), the site capabilities of the orchestrator and the page   *)
(* generator answer, as decisions on what their own reads and requests     *)
(* give them.  A decision passes when the caller is told that the thing    *)
(* was done, or is well.  The answers are those of InvariantChecks.        *)
(***************************************************************************)
EXTENDS BaselineChecks, Sequences, FiniteSets

\* The chokepoint of every write: the workflow's token, then a known site with a password.
RefusedByDefault(e) == e.expected # "good" \/ e.token # "good"
preflight_write(e) == ~RefusedByDefault(e)
get_site(e) == e.site = "good" /\ e.password = "good"
WritesOf(e) == preflight_write(e) /\ get_site(e)
create_post(e) == WritesOf(e) /\ e.response = "good"       \* a tag that cannot be made is left out
update_post(e) == create_post(e)
publish_post(e) == create_post(e)                          \* whatever status WordPress answers with
delete_post(e) == WritesOf(e) /\ e.audit = "good" /\ e.response = "good"
set_custom_css(e) == WritesOf(e) /\ e.response \in {"good", "garbled"}
write_preflight(e) == e.caller = "good"

get_posts(e) == get_site(e) /\ e.response = "good"
get_site_info(e) == get_site(e)                            \* pages that cannot be read are no pages
get_menus(e) == get_site(e) /\ e.response \in {"good", "gone"}

add_site(e) == e.taken = "good" /\ e.secrets = "good"
update_site(e) == e.site = "good"
update_wp_task(e) == e.task = "good"

\* The proxies to the orchestrator.
run_workflow(e) == e.response = "good" /\ e.error = "good"
build_draft(e) == get_site(e) /\ e.ticket = "good" /\ run_workflow(e)
edit_draft(e) == build_draft(e)
build_draft_status(e) == e.response = "good"
resolve_build_gate(e) == e.secret = "good" /\ run_workflow(e)

\* The board: what was not looked at is not well.
backup_row(e) == e.scan = "good" /\ e.server = "good"
standards_row(e) == e.scan = "good" /\ e.https = "good" /\ e.no_lorem = "good" /\ e.has_title = "good"
detect(e) == e.profile = "good" /\ e.fonts = "good" /\ e.colors = "good"   \* foreign colours, logo: advice
drifted(e) == e.profile = "good" /\ ~detect(e)
drift_scan(e) == e.profile # "none" /\ e.page = "good" /\ ~drifted(e)

\* Reading a site's configuration, and its state back.
load_creds(e) == e.sites = "good" /\ e.entry = "good" /\ e.secret = "good"
probe_credentials(e) == e.response = "good"
get_front_page(e) == e.response = "good"
readback(e) == e.rest = "good" /\ e.value = "good"
set_option(e) == e.allowed = "good" /\ e.preflight = "good" /\ readback(e)
verify_page_exists(e) == e.response = "good" /\ e.id = "good"
verify_live(e) == e.marker = "good" \/ (e.marker = "cloudflare" /\ e.by_host = "good")
purge(e) == e.custom_domain = "good" /\ e.fqdn = "good"

\* The scan of one site over SSH: incomplete sections read as no scan.
remote_scan(e) == e.user = "good" /\ e.ssh = "good"
scan_complete(e) == remote_scan(e) /\ e.urls = "good" /\ e.checksums \notin {"none", "refused"} /\ e.counts \notin {"none", "garbled"} /\ e.admins # "refused"
ScanFindings(e) == {p \in DOMAIN e : e[p] = "bad"}
security_scan_site(e) == scan_complete(e) /\ ScanFindings(e) = {}

\* The vulnerabilities of one component: cached for a day, else looked up while the day's
\* budget lasts; what was not looked up is not found.
looked_up(e) == e.cache = "good" \/ (e.budget = "good" /\ e.lookup \in {"good", "bad"})
cve_findings(e) == ~(looked_up(e) /\ e.lookup = "bad" /\ e.fixed_in # "older")

\* A page is written by the local model: a plan, then each section at most three times, each
\* of which must be valid, then the whole, which must be too.
MAX_RENDER_RETRIES == 2
render_valid_section(outs) == \E i \in 1..(MAX_RENDER_RETRIES + 1) : outs[i] = "good"
generate_blocks(e) ==
    /\ e.key = "good" /\ e.plan = "good"
    /\ render_valid_section(e.tries)
    /\ e.document = "good"

-----------------------------------------------------------------------------
\* shared/gutenberg.py: a document is the sequence of its block delimiters.
ALLOWED_BLOCKS == {"group", "list"}
BlockNames == ALLOWED_BLOCKS \cup {"script"}
Delimiters ==
    [kind : {"open", "void"}, name : BlockNames, attrs : {"json", "text"}]
        \cup [kind : {"close"}, name : BlockNames, attrs : {"json"}]
Documents == UNION {[1..n -> Delimiters] : n \in 0..4}

Close(st, d) ==
    IF st.stack # <<>> /\ Head(st.stack) = d.name THEN [st EXCEPT !.stack = Tail(@)]
    ELSE [st EXCEPT !.fine = FALSE]
OpenBlock(st, d) ==
    [stack |-> IF d.kind = "void" THEN st.stack ELSE <<d.name>> \o st.stack,
     fine |-> st.fine /\ d.name \in ALLOWED_BLOCKS /\ d.attrs = "json"]
Advance(st, d) == IF d.kind = "close" THEN Close(st, d) ELSE OpenBlock(st, d)

\* A document of nothing but blanks is valid, with a warning; text without a block is not.
validate(doc, text) ==
    LET after[n \in 0..Len(doc)] ==
            IF n = 0 THEN [stack |-> <<>>, fine |-> TRUE] ELSE Advance(after[n - 1], doc[n])
    IN (doc = <<>> => text = "none") /\ after[Len(doc)].fine /\ after[Len(doc)].stack = <<>>

\* The delimiter that closes the one at j: the first after which as many blocks were closed
\* as opened since.
Opens(doc, j, i) == Cardinality({k \in j..i : doc[k].kind = "open"})
Closes(doc, j, i) == Cardinality({k \in j..i : doc[k].kind = "close"})
Closer(doc, j) ==
    LET level == {i \in (j + 1)..Len(doc) : Opens(doc, j, i) = Closes(doc, j, i)}
    IN {i \in level : \A k \in level : i <= k}

\* A document WordPress can edit: every block is on the list, its attributes parse, each one
\* opened is closed by a delimiter of its own name, and nothing else is closed.
WellFormed(doc) ==
    LET opened == {j \in DOMAIN doc : doc[j].kind = "open"}
    IN /\ \A j \in DOMAIN doc : doc[j].name \in ALLOWED_BLOCKS /\ doc[j].attrs = "json"
       /\ \A j \in opened : \E i \in Closer(doc, j) : doc[i].name = doc[j].name
       /\ {i \in DOMAIN doc : doc[i].kind = "close"} = UNION {Closer(doc, j) : j \in opened}

-----------------------------------------------------------------------------
Write == [expected : Secret, token : {"none", "bad", "good"}, site : Secret, password : Secret]
Status == {"none", "refused", "garbled", "good"}
With(r, s) == [p \in DOMAIN r \cup DOMAIN s |-> IF p \in DOMAIN r THEN r[p] ELSE s[p]]
Every(rs, ss) == {With(r, s) : r \in rs, s \in ss}

SitePasses(route, e) ==
    CASE route = "create_post" -> create_post(e) [] route = "update_post" -> update_post(e)
      [] route = "publish_post" -> publish_post(e) [] route = "delete_post" -> delete_post(e)
      [] route = "set_custom_css" -> set_custom_css(e) [] route = "write_preflight" -> write_preflight(e)
      [] route = "get_posts" -> get_posts(e) [] route = "get_site_info" -> get_site_info(e)
      [] route = "get_menus" -> get_menus(e) [] route = "add_site" -> add_site(e)
      [] route = "update_site" -> update_site(e) [] route = "update_wp_task" -> update_wp_task(e)
      [] route = "build_draft" -> build_draft(e) [] route = "edit_draft" -> edit_draft(e)
      [] route = "build_draft_status" -> build_draft_status(e) [] route = "resolve_build_gate" -> resolve_build_gate(e)
      [] route = "backup_row" -> backup_row(e) [] route = "standards_row" -> standards_row(e)
      [] route = "detect" -> detect(e) [] route = "drift_scan" -> drift_scan(e)
      [] route = "load_creds" -> load_creds(e) [] route = "probe_credentials" -> probe_credentials(e)
      [] route = "get_front_page" -> get_front_page(e) [] route = "set_option" -> set_option(e)
      [] route = "verify_page_exists" -> verify_page_exists(e) [] route = "verify_live" -> verify_live(e)
      [] route = "purge" -> purge(e) [] route = "security_scan_site" -> security_scan_site(e)
      [] route = "cve_findings" -> cve_findings(e) [] route = "generate_blocks" -> generate_blocks(e)

SiteRoutes ==
    {"create_post", "update_post", "publish_post", "delete_post", "set_custom_css", "write_preflight", "get_posts",
     "get_site_info", "get_menus", "add_site", "update_site", "update_wp_task", "build_draft", "edit_draft",
     "build_draft_status", "resolve_build_gate", "backup_row", "standards_row", "detect", "drift_scan", "load_creds",
     "probe_credentials", "get_front_page", "set_option", "verify_page_exists", "verify_live", "purge",
     "security_scan_site", "cve_findings", "generate_blocks"}

SiteAnswers(route) ==
    CASE route \in {"create_post", "update_post", "publish_post", "set_custom_css"} -> Every(Write, [response : Status])
      [] route = "delete_post" -> Every(Write, [audit : {"none", "good"}, response : Status])
      [] route = "write_preflight" -> [caller : {"none", "bad", "good"}]
      [] route \in {"get_posts", "get_menus", "get_site_info"} -> [site : Secret, password : Secret, response : Status \cup {"gone"}]
      [] route = "add_site" -> [taken : Open, secrets : {"refused", "good"}]
      [] route \in {"update_site"} -> [site : Secret]
      [] route = "update_wp_task" -> [task : Secret]
      [] route \in {"build_draft", "edit_draft"} -> [site : Secret, password : Secret, ticket : {"none", "good"}, response : Status, error : Open]
      [] route = "build_draft_status" -> [response : Status]
      [] route = "resolve_build_gate" -> [secret : Secret, response : Status, error : Open]
      [] route = "backup_row" -> [scan : {"none", "garbled", "refused", "good"}, server : {"none", "bad", "good"}]
      [] route = "standards_row" -> [scan : {"none", "good"}, https : Open, no_lorem : Open, has_title : Open]
      [] route = "detect" -> [profile : {"none", "garbled", "good"}, fonts : Open, colors : Open]
      [] route = "drift_scan" -> [profile : {"none", "garbled", "good"}, page : Status, fonts : Open, colors : Open]
      [] route = "load_creds" -> [sites : {"none", "garbled", "good"}, entry : Secret, secret : Secret]
      [] route \in {"probe_credentials", "get_front_page"} -> [response : Status]
      [] route = "set_option" -> [allowed : Open, preflight : {"none", "refused", "good"}, rest : Status, value : {"bad", "none", "good"}]
      [] route = "verify_page_exists" -> [response : Status, id : Open]
      [] route = "verify_live" -> [marker : {"none", "bad", "cloudflare", "good"}, by_host : {"none", "refused", "good"}]
      [] route = "purge" -> [custom_domain : {"refused", "bad", "good"}, fqdn : {"refused", "bad", "good"}]
      [] route = "security_scan_site" -> [user : Open, ssh : {"none", "refused", "garbled", "good"}, urls : {"none", "bad", "good"},
                                          checksums : {"none", "refused", "bad", "good"}, counts : {"none", "garbled", "bad", "good"},
                                          admins : {"refused", "bad", "good"}, autoload : Open, posts : Open]
      [] route = "cve_findings" -> [cache : {"none", "stale", "good"}, budget : {"none", "good"}, lookup : {"none", "refused", "garbled", "bad", "good"}, fixed_in : {"none", "older", "good"}]
      [] route = "generate_blocks" -> [key : Secret, plan : {"none", "refused", "garbled", "empty", "good"}, tries : [1..3 -> {"none", "bad", "good"}], document : Open]
=============================================================================
