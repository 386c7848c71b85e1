----------------------------- MODULE SiteSecurity -----------------------------
(***************************************************************************)
(* The daily security scan of the WordPress fleet: the capability of the   *)
(* orchestrator compares each site with its baseline and marks which       *)
(* findings are new (capabilities/wp_security.py); the scheduler files a   *)
(* ticket of each new one and tells of all (scheduler.py,                  *)
(* _wp_security_scan_job).  Then the rotation of a site's application      *)
(* password (scripts/rotate_wp_app_password.py).                           *)
(***************************************************************************)
EXTENDS Naturals, FiniteSets

CONSTANTS Sites,
          MaxCompromises    \* bound: compromises, and losses of the baseline's file

VARIABLES wrong,                       \* what is wrong with a site
          base_sites, open_findings,   \* the baseline's file
          answer,                      \* a scan's result on its way to the scheduler
          filed, told,                 \* findings with a ticket; findings told
          compromises

scVars == <<wrong, base_sites, open_findings, answer, filed, told, compromises>>

Compromise == {"autoload_injection", "rogue_admin"}
NoAnswer == [findings |-> {}, new |-> {}]

SCInit ==
    /\ wrong = [s \in Sites |-> {}] /\ base_sites = [s \in Sites |-> "absent"] /\ open_findings = {}
    /\ answer = NoAnswer /\ filed = {} /\ told = {} /\ compromises = 0

Compromised(s) ==
    /\ compromises < MaxCompromises /\ compromises' = compromises + 1
    /\ \E t \in Compromise \ wrong[s] : wrong' = [wrong EXCEPT ![s] = @ \cup {t}]
    /\ UNCHANGED <<base_sites, open_findings, answer, filed, told>>
Cured(s) ==
    /\ wrong[s] # {} /\ wrong' = [wrong EXCEPT ![s] = {}]
    /\ filed' = {k \in filed : k[1] # s} /\ told' = {k \in told : k[1] # s}
    /\ UNCHANGED <<base_sites, open_findings, answer, compromises>>

\* A file that cannot be read is begun anew.
BaselineCorrupt ==
    /\ compromises < MaxCompromises /\ compromises' = compromises + 1
    /\ base_sites' = [s \in Sites |-> "absent"] /\ open_findings' = {}
    /\ UNCHANGED <<wrong, answer, filed, told>>

\* Absolute indicators count at every scan, the first too; an account counts when it was not
\* there at the first.
evaluate(s) == {t \in wrong[s] : t = "autoload_injection" \/ base_sites[s] = "without"}
seed(s) == IF base_sites[s] # "absent" THEN base_sites[s] ELSE IF "rogue_admin" \in wrong[s] THEN "with" ELSE "without"

\* One scan, of the sites that can be reached and whose sections are whole.  What is found
\* and not on the list of open findings is new; the list becomes what was found.
security_scan ==
    \E scanned \in SUBSET Sites :
        LET findings == UNION {{s} \X evaluate(s) : s \in scanned} \cup {<<s, "unscannable">> : s \in Sites \ scanned} IN
        /\ answer = NoAnswer
        /\ base_sites' = [s \in Sites |-> IF s \in scanned THEN seed(s) ELSE base_sites[s]]
        /\ open_findings' = findings
        /\ answer' = [findings |-> findings, new |-> findings \ open_findings]
        /\ UNCHANGED <<wrong, filed, told, compromises>>

AnswerLost == answer # NoAnswer /\ answer' = NoAnswer /\ UNCHANGED <<wrong, base_sites, open_findings, filed, told, compromises>>

\* Mutant of Alerts: the new findings alone are told.
AlertsNew == told' \in {told, told \cup answer.new}
Alerts == told' \in {told, told \cup answer.findings}
\* Tickets for the new ones, each of which may fail; one alert of all, which may fail.
scan_job ==
    /\ answer # NoAnswer /\ answer' = NoAnswer
    /\ \E some \in SUBSET answer.new : filed' = filed \cup some
    /\ Alerts
    /\ UNCHANGED <<wrong, base_sites, open_findings, compromises>>

SCNext == (\E s \in Sites : Compromised(s) \/ Cured(s)) \/ BaselineCorrupt \/ security_scan \/ AnswerLost \/ scan_job

\* A job that runs every day gets its answer, and its alert out, in the end.
ScanTells == scan_job /\ answer.findings \subseteq told'
-----------------------------------------------------------------------------
\* What is wrong with a site is told, by name or as a site that cannot be scanned, unless it
\* is cured: a lost answer or a failed alert "self-heals next run" (scheduler.py:1100).  An
\* account that was there when the baseline was begun anew is normal.
CompromiseIsTold ==
    \A s \in Sites, t \in Compromise :
        (t \in wrong[s]) ~> \/ t \notin wrong[s]
                            \/ {<<s, t>>, <<s, "unscannable">>} \cap told # {}
                            \/ (t = "rogue_admin" /\ base_sites[s] = "with")

\* "Findings file a deduped Plane [BUG]" (wp_security.py:24): does not hold, a finding whose
\* answer was lost or whose ticket failed is new no more.
CompromiseIsFiled ==
    \A s \in Sites, t \in Compromise :
        (t \in wrong[s]) ~> \/ t \notin wrong[s]
                            \/ {<<s, t>>, <<s, "unscannable">>} \cap filed # {}
                            \/ (t = "rogue_admin" /\ base_sites[s] = "with")

-----------------------------------------------------------------------------
(***************************************************************************)
(* The rotation of a site's application password (scripts/                 *)
(* rotate_wp_app_password.py): a new one is made, put in the secret file,  *)
(* mounted by recreating the services and tried; then the old ones are     *)
(* revoked, or everything is put back.  A password is named by the run     *)
(* that made it.                                                           *)
(***************************************************************************)

CONSTANTS Rotations, Initial, Services,
          Concurrent      \* a run may start while another is under way

VARIABLES valid,                     \* the passwords WordPress accepts
          secret, mounted,           \* the file; what each service was created with
          pc, old_value, pre_uuids, my_uuid

crVars == <<valid, secret, mounted, pc, old_value, pre_uuids, my_uuid>>
mine == <<old_value, pre_uuids, my_uuid>>

CRInit ==
    /\ valid = {Initial} /\ secret = Initial /\ mounted = [s \in Services |-> Initial]
    /\ pc = [r \in Rotations |-> "idle"] /\ old_value = [r \in Rotations |-> Initial]
    /\ pre_uuids = [r \in Rotations |-> {}] /\ my_uuid = [r \in Rotations |-> {}]

Goes(r, l) == pc' = [pc EXCEPT ![r] = l]
Ended == {"idle", "done", "failed"}

\* What is there is listed and kept for the way back; the new password is made.  Output
\* that is not a password alone ends the run: one may have been made all the same.
Create(r) ==
    /\ pc[r] = "idle" /\ (Concurrent \/ \A q \in Rotations : pc[q] \in Ended)
    /\ old_value' = [old_value EXCEPT ![r] = secret] /\ pre_uuids' = [pre_uuids EXCEPT ![r] = valid]
    /\ \/ valid' = valid \cup {r} /\ Goes(r, "write") /\ my_uuid' \in {my_uuid, [my_uuid EXCEPT ![r] = {r}]}
       \/ valid' \in {valid, valid \cup {r}} /\ Goes(r, "failed") /\ UNCHANGED my_uuid
    /\ UNCHANGED <<secret, mounted>>

WriteSecret(r) ==
    /\ pc[r] = "write"
    /\ \/ secret' = r /\ Goes(r, "recreate")
       \/ UNCHANGED secret /\ Goes(r, "restore")
    /\ UNCHANGED <<valid, mounted, mine>>

\* Mutant of Recreated: without --force-recreate a container that is running is left alone.
RecreatedIfChanged(done) == done \in SUBSET Services /\ UNCHANGED mounted
\* A service reads the secret when its container is created; compose may stop half-way.
Recreated(done) == mounted' = [s \in Services |-> IF s \in done THEN secret ELSE mounted[s]]
RecreateServices(r) ==
    /\ pc[r] = "recreate"
    /\ \/ Recreated(Services) /\ Goes(r, "verify")
       \/ \E some \in SUBSET Services : Recreated(some) /\ Goes(r, "restore")
    /\ UNCHANGED <<valid, secret, mine>>

Verify(r) ==
    /\ pc[r] = "verify"
    /\ ((r \in valid /\ Goes(r, "revoke")) \/ Goes(r, "restore"))
    /\ UNCHANGED <<valid, secret, mounted, mine>>

\* The way back, each step of which may fail in turn; nothing is revoked unless the old
\* password is seen to work, and then the run's own alone.
Restore(r) ==
    /\ pc[r] = "restore"
    /\ \/ secret' = old_value[r] /\ Goes(r, "remount")
       \/ UNCHANGED secret /\ Goes(r, "failed")
    /\ UNCHANGED <<valid, mounted, mine>>
Remount(r) ==
    /\ pc[r] = "remount"
    /\ \/ Recreated(Services) /\ Goes(r, "reverify")
       \/ \E some \in SUBSET Services : Recreated(some) /\ Goes(r, "failed")
    /\ UNCHANGED <<valid, secret, mine>>
Reverify(r) ==
    /\ pc[r] = "reverify" /\ Goes(r, "failed")
    /\ \/ old_value[r] \in valid /\ valid' = valid \ my_uuid[r]
       \/ UNCHANGED valid
    /\ UNCHANGED <<secret, mounted, mine>>

\* Every password that was there before is revoked, one by one; one may refuse to go.
Revoke(r) ==
    /\ pc[r] = "revoke"
    /\ IF pre_uuids[r] = {} THEN Goes(r, "done") /\ UNCHANGED <<valid, pre_uuids>>
       ELSE \E u \in pre_uuids[r] :
                /\ pre_uuids' = [pre_uuids EXCEPT ![r] = @ \ {u}]
                /\ valid' \in {valid, valid \ {u}} /\ UNCHANGED pc
    /\ UNCHANGED <<secret, mounted, old_value, my_uuid>>

\* The run is cut off.
Cut(r) == pc[r] \notin Ended /\ Goes(r, "failed") /\ UNCHANGED <<valid, secret, mounted, mine>>

Rotates(r) ==
    \/ Create(r) \/ WriteSecret(r) \/ RecreateServices(r) \/ Verify(r)
    \/ Restore(r) \/ Remount(r) \/ Reverify(r) \/ Revoke(r)
CRNext == \E r \in Rotations : Rotates(r) \/ Cut(r)
CRSpec == CRInit /\ [][CRNext]_crVars

-----------------------------------------------------------------------------
\* "Never revoke a credential the running services might still be using" (rotate_wp_app_
\* password.py:260): wherever a run fails or is cut off, what the services hold and what the
\* file holds is accepted.  Two runs at once break it.
CredentialsWork == secret \in valid /\ \A s \in Services : mounted[s] \in valid
=============================================================================
