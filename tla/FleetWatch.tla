----------------------------- MODULE FleetWatch -----------------------------
(***************************************************************************)
(* The watch over the machines.  The worker's cron job writes a heartbeat  *)
(* file of every host (scripts/fleet_heartbeat.py); the scheduler's        *)
(* watchdog only reads that file, announces reboots once and verifies that *)
(* everything came back after one (kai-scheduler/watchdog.py); the gate of *)
(* the green baseline reads it too (shared/fleet_eval.py).                 *)
(***************************************************************************)
EXTENDS Naturals, FiniteSets

CONSTANTS
    Hosts,       \* the allowlisted nodes, all wired for ssh
    Spine,       \* kai-worker, where the heartbeat runs
    MaxBoot,     \* bound on boots of a host
    MaxFaults    \* bound on deaths of the scheduler and failed writes of its files

ASSUME FleetAssumption == Spine \in Hosts /\ MaxBoot \in Nat \ {0} /\ MaxFaults \in Nat

VARIABLES
    up,        \* hosts that run and answer ssh
    boot,      \* boot[h]: boot_epoch, counted
    tailnet,   \* does `tailscale status` work on the worker?
    sick,      \* is some container restarting or exited non-zero?
    beat,      \* the fleet state file
    muted,     \* hosts of the maintenance window
    seen,      \* the seen-map file, 0 for a host without an entry
    pending,   \* the recovery-pending file: hosts, and whether an alert is due for them
    run,       \* the watchdog's surface_fleet_reboots between its effects
    faults,
    handled,   \* boots announced, excused by a mute, or the first on record
    verified,  \* boots that entered recovery verification, or whose entry failed to be written,
               \* or that needed none
    news       \* what the last cycle reported: hosts alerted again, or a completion

fleetVars == <<up, boot, tailnet, sick, beat, muted, seen, pending, run, faults, handled, verified, news>>

Boots == [Hosts -> 0..MaxBoot]
Reboots == Hosts \X (1..MaxBoot)
NoRun == [at |-> "idle"]
Quiet == [kind |-> "none"]
NoFile == [age |-> "none", up |-> {}, boot |-> [h \in Hosts |-> 0], tailnet |-> TRUE]

FleetTypeOK ==
    /\ up \subseteq Hosts /\ boot \in Boots /\ tailnet \in BOOLEAN /\ sick \in BOOLEAN
    /\ beat \in [age : {"none", "fresh", "stale"}, up : SUBSET Hosts, boot : Boots, tailnet : BOOLEAN]
    /\ muted \subseteq Hosts /\ seen \in Boots
    /\ pending \in [Hosts -> {"no", "due", "paced"}]
    /\ run = NoRun \/ run \in [at : {"announced", "seeded"}, fresh : SUBSET Reboots, seen : Boots]
    /\ faults \in 0..MaxFaults /\ handled \subseteq Reboots /\ verified \subseteq Reboots
    /\ news = Quiet \/ news \in [kind : {"alert"}, hosts : SUBSET Hosts]
                    \/ news \in [kind : {"complete"}, sound : BOOLEAN]

FleetInit ==
    /\ up = Hosts /\ boot = [h \in Hosts |-> 1] /\ tailnet = TRUE /\ sick = FALSE
    /\ beat = NoFile /\ muted = {} /\ seen = [h \in Hosts |-> 0]
    /\ pending = [h \in Hosts |-> "no"] /\ run = NoRun /\ faults = 0
    /\ handled = {} /\ verified = {} /\ news = Quiet

worldVars == <<up, boot, tailnet, sick>>
watchdogVars == <<seen, pending, run, faults, handled, verified, news>>

-----------------------------------------------------------------------------
\* The world.  A red host is off or does not answer ssh; its boot time is not read then.
HostGoesRed(h) == h \in up /\ up' = up \ {h} /\ UNCHANGED <<boot, tailnet, sick>>
HostComesBack(h) ==
    /\ h \notin up /\ up' = up \cup {h}
    /\ \E b \in {boot[h], boot[h] + 1} \cap 1..MaxBoot : boot' = [boot EXCEPT ![h] = b]
    /\ UNCHANGED <<tailnet, sick>>
TailnetFlips == tailnet' = ~tailnet /\ UNCHANGED <<up, boot, sick>>
ContainersChange == sick' = ~sick /\ UNCHANGED <<up, boot, tailnet>>
World ==
    /\ \/ TailnetFlips \/ ContainersChange
       \/ \E h \in Hosts : HostGoesRed(h) \/ HostComesBack(h)
    /\ UNCHANGED <<beat, muted, watchdogVars>>

\* fleet_maint.py on / off, or the window expires.
Mute ==
    /\ muted' \in SUBSET (Hosts \ {Spine}) /\ muted' # muted
    /\ UNCHANGED <<worldVars, beat, watchdogVars>>

\* build_host_entry: reachable, and ssh gave a boot time.  The worker itself is probed
\* locally; without the tailnet every peer is unknown to the writer.
Entry(h) == h \in up /\ (h = Spine \/ tailnet)

\* fleet_heartbeat.main: collect_fleet_state and an atomic write.
Heartbeat ==
    /\ Spine \in up
    /\ beat' = [age |-> "fresh", up |-> {h \in Hosts : Entry(h)},
                boot |-> [h \in Hosts |-> IF Entry(h) THEN boot[h] ELSE 0], tailnet |-> tailnet]
    /\ UNCHANGED <<worldVars, muted, watchdogVars>>

\* FLEET_MAX_AGE_SEC passes without a heartbeat.
BeatGoesStale ==
    /\ beat.age = "fresh" /\ beat' = [beat EXCEPT !.age = "stale"]
    /\ UNCHANGED <<worldVars, muted, watchdogVars>>

-----------------------------------------------------------------------------
Structural == beat.age = "fresh"                             \* _structural_check
Red == Hosts \ beat.up
FleetVerdict == Structural /\ Red = {}                       \* fleet_verdict, the watchdog's
GateVerdict == Structural /\ Spine \notin Red                \* fleet_gate_verdict, the baseline's
Suppressed == Structural /\ Red # {} /\ Red \subseteq muted  \* maint_suppresses_page

\* compute_reboots: a boot that is later than the seen one; an unknown boot changes nothing,
\* and the first one is only noted.
FreshBoots == {<<h, beat.boot[h]>> : h \in {x \in Hosts : seen[x] # 0 /\ beat.boot[x] > seen[x]}}
UpdatedSeen == [h \in Hosts |-> IF beat.boot[h] > seen[h] THEN beat.boot[h] ELSE seen[h]]

First == {<<h, beat.boot[h]>> : h \in {x \in Hosts : seen[x] = 0 /\ beat.boot[x] > 0}}
Unmuted == {r \in FreshBoots : r[1] \notin muted}

\* Mutant of SurfaceReboots: the seen-map is written first.
SurfaceSeenFirst ==
    /\ run = NoRun /\ beat.age # "none" /\ UpdatedSeen # seen
    /\ handled' = handled \cup FreshBoots \cup First
    /\ verified' = verified \cup (FreshBoots \ Unmuted) \cup First
    /\ seen' = UpdatedSeen
    /\ run' = IF Unmuted = {} THEN run ELSE [at |-> "announced", fresh |-> Unmuted, seen |-> UpdatedSeen]
    /\ news' = Quiet
    /\ UNCHANGED <<worldVars, beat, muted, pending, faults>>

\* surface_fleet_reboots reads the file, however old, and announces what is not muted.
SurfaceReboots ==
    /\ run = NoRun /\ beat.age # "none" /\ UpdatedSeen # seen
    /\ handled' = handled \cup FreshBoots \cup First
    /\ verified' = verified \cup (FreshBoots \ Unmuted) \cup First
    /\ IF Unmuted = {}
       THEN seen' = UpdatedSeen /\ UNCHANGED run
       ELSE run' = [at |-> "announced", fresh |-> Unmuted, seen |-> UpdatedSeen] /\ UNCHANGED seen
    /\ news' = Quiet
    /\ UNCHANGED <<worldVars, beat, muted, pending, faults>>

Faulty == faults < MaxFaults /\ faults' = faults + 1

\* seed_recovery_pending: a host that is pending already stays as it is.  A failed write is
\* logged and the run goes on.
SeedRecovery ==
    /\ run.at = "announced"
    /\ run' = [run EXCEPT !.at = "seeded"]
    /\ verified' = verified \cup run.fresh
    /\ \/ /\ pending' = [h \in Hosts |-> IF pending[h] = "no" /\ \E r \in run.fresh : r[1] = h
                                         THEN "due" ELSE pending[h]]
          /\ UNCHANGED faults
       \/ Faulty /\ UNCHANGED pending
    /\ UNCHANGED <<worldVars, beat, muted, seen, handled, news>>

AdvanceSeen ==
    /\ run.at = "seeded"
    /\ run' = NoRun
    /\ \/ seen' = run.seen /\ UNCHANGED faults
       \/ Faulty /\ UNCHANGED seen
    /\ UNCHANGED <<worldVars, beat, muted, pending, handled, verified, news>>

PendingHosts == {h \in Hosts : pending[h] # "no"}

\* _fleet_bad_containers: `docker ps` that fails reads as no bad container.
BadContainers == {sick, FALSE}

\* verify_post_reboot_recovery: complete when the strict verdict is ok and no container was
\* found bad; otherwise the hosts whose alert is due are alerted.  The new map is written
\* after the report, and the scheduler may die, or the write fail, between the two.
VerifyRecovery ==
    /\ run = NoRun /\ PendingHosts # {}
    /\ \E bad \in IF FleetVerdict THEN BadContainers ELSE {FALSE} :
         LET done == FleetVerdict /\ ~bad
             due == {h \in Hosts : pending[h] = "due"}
         IN /\ news' = IF done THEN [kind |-> "complete", sound |-> ~sick]
                       ELSE IF due # {} THEN [kind |-> "alert", hosts |-> due] ELSE Quiet
            /\ \/ /\ pending' = [h \in Hosts |-> IF pending[h] = "no" \/ done THEN "no" ELSE "paced"]
                  /\ UNCHANGED faults
               \/ Faulty /\ UNCHANGED pending
    /\ UNCHANGED <<worldVars, beat, muted, seen, run, handled, verified>>

\* realert_sec passes.
AlertDue ==
    /\ \E h \in Hosts : pending[h] = "paced"
    /\ run = NoRun
    /\ pending' = [h \in Hosts |-> IF pending[h] = "paced" THEN "due" ELSE pending[h]]
    /\ UNCHANGED <<worldVars, beat, muted, seen, run, faults, handled, verified, news>>

SchedulerDies ==
    /\ run # NoRun /\ Faulty /\ run' = NoRun
    /\ UNCHANGED <<worldVars, beat, muted, seen, pending, handled, verified, news>>

FleetCycle == SurfaceReboots \/ SeedRecovery \/ AdvanceSeen
FleetNext ==
    World \/ Mute \/ Heartbeat \/ BeatGoesStale \/ FleetCycle \/ VerifyRecovery \/ AlertDue \/ SchedulerDies
FleetFairness ==
    /\ WF_fleetVars(Heartbeat) /\ WF_fleetVars(FleetCycle)
    /\ SF_fleetVars(VerifyRecovery) /\ WF_fleetVars(AlertDue)
FleetSpec == FleetInit /\ [][FleetNext]_fleetVars /\ FleetFairness

-----------------------------------------------------------------------------
\* A reboot that is marked as seen was announced or fell into a maintenance window, and
\* had entered recovery verification unless that write failed: whatever died in between,
\* the seen-map is behind (surface_fleet_reboots writes it last).
SeenIsHandled ==
    \A h \in Hosts : seen[h] # 0 => <<h, seen[h]>> \in handled \cap verified

\* A host under verification is reported again and again until the fleet is back
\* (compute_recovery, "re-alert until resolved").
RecoveryNeverSilent ==
    \A h \in Hosts :
        <>[](pending[h] # "no") => []<>(news.kind = "alert" /\ h \in news.hosts)

\* A reboot of a host that then stays up is found, though the heartbeat misses it for a
\* while or the scheduler dies (boot_epoch against the persisted seen-map).
RebootFound ==
    \A h \in Hosts : <>[](h \in up /\ tailnet /\ Spine \in up) => []<>(seen[h] = boot[h])

\* "Recovery is COMPLETE when the STRICT off-host fleet verdict is OK AND no container is
\* restarting/exited-nonzero" (watchdog.py:655-657).
CompleteMeansHealthy == news.kind = "complete" => news.sound

\* "A genuine self tailnet-death makes tailscale status fail -> self absent from peers ->
\* caught as roster-incomplete RED" (fleet_heartbeat.py:351-353): the gate must refuse it.
TailnetDeathIsRed == ~beat.tailnet => ~GateVerdict
=============================================================================
