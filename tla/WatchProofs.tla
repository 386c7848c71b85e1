----------------------------- MODULE WatchProofs -----------------------------
(***************************************************************************)
(* What holds of the watches, of Leo's captures and messages, of the       *)
(* site's pages and of Kai's own source, for every number of files, scans, *)
(* hosts, boots, rotations, services, tickets, cards, requests, updates,   *)
(* jobs, diffs, bugs and pages, and for any faults: a file is filed only   *)
(* after its answer was noted, a reboot is marked as seen only after it    *)
(* was announced and verified, a rotation leaves every service with a      *)
(* password that works, an invariant has one open ticket at most within    *)
(* reach of the look-up, of the captures under a name one is kept, a       *)
(* homepage is replaced only when it is the one that was expected or asked *)
(* about, nothing lands in the source that was not verified, a bug reaches *)
(* Leo by its reviews, and updates are served in their order.              *)
(***************************************************************************)
EXTENDS InboxScan, FleetWatch, SiteSecurity, InvariantRunner, ParkingLot, PageWorkflows,
        SelfModify, BugWorkflow, TelegramLoop, FiniteSetTheorems, SequenceTheorems,
        WellFoundedInduction, TLAPS

-----------------------------------------------------------------------------
(* The inbox.  A scan that is about to file its file has noted the answer   *)
(* to it, and what was noted stays so, whatever the other scans do.         *)

ScanState == [at : {"idle", "read", "asks", "noted"}, todo : SUBSET Names]

InboxInv ==
    /\ inbox \in [Names -> SUBSET {"inbox", "pending", "processed", "failed"}]
    /\ scan \in [Scans -> ScanState]
    /\ \A i \in Scans : scan[i].at = "noted" => AtWork(i) \in noted
    /\ ProcessedIsNoted

LEMMA NextFileIsScan ==
    ASSUME scan \in [Scans -> ScanState], NEW i \in Scans
    PROVE  NextFile(i) \in ScanState /\ NextFile(i).at # "noted"
BY DEF NextFile, NoScan, ScanState

\* A scan files the file at work, as processed only when its answer is noted, and goes on.
LEMMA FileMoves ==
    ASSUME InboxInv, NEW i \in Scans, NEW d \in {"pending", "failed", "processed"},
           d = "processed" => AtWork(i) \in noted,
           Files(AtWork(i), d), scan' = [scan EXCEPT ![i] = NextFile(i)], noted' = noted
    PROVE  InboxInv'
<1>1. inbox' \in [Names -> SUBSET {"inbox", "pending", "processed", "failed"}]
    BY DEF InboxInv, Files
<1>2. scan' \in [Scans -> ScanState]
    BY NextFileIsScan DEF InboxInv
<1>3. ASSUME NEW j \in Scans, scan'[j].at = "noted" PROVE AtWork(j)' \in noted'
  <2>1. j # i
      BY <1>3, NextFileIsScan DEF InboxInv
  <2>2. scan'[j] = scan[j]
      BY <2>1 DEF InboxInv
  <2>3. AtWork(j)' = AtWork(j)
      BY <2>2, Zenon DEF AtWork
  <2> QED BY <1>3, <2>2, <2>3 DEF InboxInv
<1>4. ProcessedIsNoted'
    BY DEF InboxInv, Files, ProcessedIsNoted
<1> QED BY <1>1, <1>2, <1>3, <1>4 DEF InboxInv

LEMMA InboxStarts == InboxInit => InboxInv
BY DEF InboxInit, InboxInv, NoScan, ScanState, ProcessedIsNoted

\* A step of one scan leaves the file at work of every other one as it was.
LEMMA InboxKeeps == InboxInv /\ [InboxNext]_inboxVars => InboxInv'
<1> SUFFICES ASSUME InboxInv, [InboxNext]_inboxVars PROVE InboxInv'
    OBVIOUS
<1> USE DEF InboxInv, ProcessedIsNoted
<1>1. CASE UNCHANGED inboxVars
    BY <1>1 DEF inboxVars, AtWork
<1>2. ASSUME NEW i \in Scans, ScanStarts(i) PROVE InboxInv'
    BY <1>2 DEF ScanStarts, AtWork, InDirectory, ScanState
<1>3. ASSUME NEW i \in Scans, ScanReads(i) PROVE InboxInv'
  <2>1. CASE scan' = [scan EXCEPT ![i].at = "asks"] /\ UNCHANGED inbox
      BY <1>3, <2>1 DEF ScanReads, AtWork, ScanState
  <2>2. ASSUME NEW d \in {"pending", "failed"}, Files(AtWork(i), d), scan' = [scan EXCEPT ![i] = NextFile(i)]
        PROVE  InboxInv'
      BY <1>3, <2>2, FileMoves DEF ScanReads
  <2> QED BY <1>3, <2>1, <2>2 DEF ScanReads
<1>4. ASSUME NEW i \in Scans, Asks(i) PROVE InboxInv'
  <2>1. CASE noted' = noted \cup {AtWork(i)} /\ scan' = [scan EXCEPT ![i].at = "noted"] /\ UNCHANGED inbox
      BY <1>4, <2>1 DEF Asks, AtWork, ScanState
  <2>2. CASE Files(AtWork(i), "failed") /\ scan' = [scan EXCEPT ![i] = NextFile(i)] /\ UNCHANGED noted
      BY <2>2, FileMoves
  <2>3. CASE scan' = [scan EXCEPT ![i] = NoScan] /\ UNCHANGED <<inbox, noted>>
      BY <1>4, <2>3 DEF AtWork, NoScan, ScanState
  <2> QED BY <1>4, <2>1, <2>2, <2>3 DEF Asks
<1>5. ASSUME NEW i \in Scans, ScanFinishes(i) PROVE InboxInv'
    BY <1>5, FileMoves DEF ScanFinishes
<1>6. ASSUME NEW i \in Scans, ScanDies(i) PROVE InboxInv'
    BY <1>6 DEF ScanDies, AtWork, NoScan, ScanState
<1>7. CASE ScansLost
    BY <1>7 DEF ScansLost, AtWork, NoScan, ScanState
<1>8. ASSUME NEW f \in Names, Arrives(f) PROVE InboxInv'
    BY <1>8 DEF Arrives, AtWork
<1>9. ASSUME NEW f \in Names, NEW i \in Scans, Reprocess(f, i) PROVE InboxInv'
    BY <1>9 DEF Reprocess, AtWork, InDirectory, ScanState
<1> QED BY <1>1, <1>2, <1>3, <1>4, <1>5, <1>6, <1>7, <1>8, <1>9 DEF InboxNext, InboxStep, ScanStep

\* No file is filed as processed without an answer in the advisor's knowledge
\* (_process_file writes first, then renames), for any number of scans.
THEOREM FiledIsNoted == InboxSpec => []ProcessedIsNoted
<1>1. InboxInv => ProcessedIsNoted
    BY DEF InboxInv
<1> QED BY <1>1, InboxStarts, InboxKeeps, PTL DEF InboxSpec

-----------------------------------------------------------------------------
(* The fleet.  The map a run carries to its last write holds only reboots   *)
(* that were announced, and that entered verification or are about to.      *)

FleetRun == [at : {"announced", "seeded"}, fresh : SUBSET Reboots, seen : Boots]
Handled(map, done) == \A h \in Hosts : map[h] # 0 => <<h, map[h]>> \in handled /\ <<h, map[h]>> \in done

FleetInv ==
    /\ boot \in Boots /\ beat.boot \in Boots /\ seen \in Boots
    /\ run = NoRun \/ run \in FleetRun
    /\ Handled(seen, verified)
    /\ run.at = "announced" => Handled(run.seen, verified \cup run.fresh)
    /\ run.at = "seeded" => Handled(run.seen, verified)

LEMMA FleetStarts == FleetInit => FleetInv
BY FleetAssumption DEF FleetInit, FleetInv, Boots, NoFile, NoRun, Handled

LEMMA FleetKeeps == FleetInv /\ [FleetNext]_fleetVars => FleetInv'
<1> SUFFICES ASSUME FleetInv, [FleetNext]_fleetVars PROVE FleetInv'
    OBVIOUS
<1> USE FleetAssumption DEF FleetInv, Handled
<1>1. CASE UNCHANGED fleetVars
    BY <1>1 DEF fleetVars
<1>2. CASE World
    BY <1>2 DEF World, TailnetFlips, ContainersChange, HostGoesRed, HostComesBack, watchdogVars, Boots
<1>3. CASE Mute
    BY <1>3 DEF Mute, worldVars, watchdogVars
<1>4. CASE Heartbeat
    BY <1>4 DEF Heartbeat, worldVars, watchdogVars, Boots
<1>5. CASE BeatGoesStale
    BY <1>5 DEF BeatGoesStale, worldVars, watchdogVars
<1>6. CASE SurfaceReboots
  <2>1. /\ UpdatedSeen \in Boots
        /\ FreshBoots \subseteq Reboots
      BY DEF UpdatedSeen, FreshBoots, Boots, Reboots
  <2>2. \A h \in Hosts : UpdatedSeen[h] # 0 =>
           /\ <<h, UpdatedSeen[h]>> \in handled'
           /\ <<h, UpdatedSeen[h]>> \in verified' \cup Unmuted
      BY <1>6 DEF SurfaceReboots, UpdatedSeen, FreshBoots, First, Unmuted, Boots
  <2>3. CASE Unmuted = {}
      BY <1>6, <2>1, <2>2, <2>3 DEF SurfaceReboots, worldVars, NoRun
  <2>4. CASE Unmuted # {}
    <3>1. run' = [at |-> "announced", fresh |-> Unmuted, seen |-> UpdatedSeen] /\ seen' = seen
        BY <1>6, <2>4 DEF SurfaceReboots
    <3>2. run' \in FleetRun
        BY <3>1, <2>1 DEF FleetRun, Unmuted
    <3> QED BY <1>6, <2>2, <3>1, <3>2 DEF SurfaceReboots, worldVars
  <2> QED BY <2>3, <2>4
<1>7. CASE SeedRecovery
  <2>1. run \in FleetRun
      BY <1>7 DEF SeedRecovery, NoRun
  <2>2. run' \in FleetRun /\ run'.at = "seeded" /\ run'.seen = run.seen
      BY <1>7, <2>1 DEF SeedRecovery, FleetRun
  <2> QED BY <1>7, <2>1, <2>2 DEF SeedRecovery, worldVars
<1>8. CASE AdvanceSeen
    BY <1>8 DEF AdvanceSeen, worldVars, NoRun, FleetRun
<1>9. CASE VerifyRecovery
    BY <1>9 DEF VerifyRecovery, worldVars
<1>10. CASE AlertDue
    BY <1>10 DEF AlertDue, worldVars
<1>11. CASE SchedulerDies
    BY <1>11 DEF SchedulerDies, worldVars, NoRun
<1> QED BY <1>1, <1>2, <1>3, <1>4, <1>5, <1>6, <1>7, <1>8, <1>9, <1>10, <1>11 DEF FleetNext, FleetCycle

\* A reboot is marked as seen only after it was announced, muted or first noted, and had
\* entered verification (surface_fleet_reboots writes the seen-map last), wherever it dies.
THEOREM SeenLast == FleetSpec => []SeenIsHandled
<1>1. FleetInv => SeenIsHandled
    BY DEF FleetInv, Handled, SeenIsHandled
<1> QED BY <1>1, FleetStarts, FleetKeeps, PTL DEF FleetSpec

-----------------------------------------------------------------------------
(* The rotation, one at a time.  A run knows what the file and the services *)
(* hold at each of its points, and its own password is not among those that *)
(* were there before it.                                                    *)

Password == Rotations \cup {Initial}
CRPoint == {"idle", "write", "recreate", "verify", "restore", "remount", "reverify", "revoke", "done", "failed"}

CRTyped ==
    /\ valid \subseteq Password /\ secret \in Password /\ mounted \in [Services -> Password]
    /\ pc \in [Rotations -> CRPoint]
    /\ old_value \in [Rotations -> Password]
    /\ pre_uuids \in [Rotations -> SUBSET Password] /\ my_uuid \in [Rotations -> SUBSET Password]

AllHold(p) == secret = p /\ \A s \in Services : mounted[s] = p

CRInv ==
    /\ CRTyped
    /\ CredentialsWork
    /\ \A q, r \in Rotations : pc[q] \notin Ended /\ pc[r] \notin Ended => q = r
    /\ \A r \in Rotations :
          /\ pc[r] = "idle" => r \notin valid
          /\ pc[r] \notin Ended => old_value[r] # r
          /\ r \notin pre_uuids[r] /\ my_uuid[r] \subseteq {r}
          /\ pc[r] \in {"write", "recreate", "verify", "restore"} => old_value[r] \in valid
          /\ pc[r] \in {"write", "recreate"} => r \in valid
          /\ pc[r] = "recreate" => secret = r
          /\ pc[r] \in {"verify", "revoke"} => AllHold(r)
          /\ pc[r] = "remount" => secret = old_value[r]
          /\ pc[r] = "reverify" => AllHold(old_value[r])

LEMMA RotationStarts == Initial \notin Rotations /\ CRInit => CRInv
BY DEF CRInit, CRInv, CRTyped, CRPoint, Password, CredentialsWork, Ended, AllHold

LEMMA RotationKeeps == ~Concurrent /\ CRInv /\ [CRNext]_crVars => CRInv'
<1> SUFFICES ASSUME ~Concurrent, CRInv, [CRNext]_crVars PROVE CRInv'
    OBVIOUS
<1> USE DEF CRInv, CRTyped, CRPoint, CredentialsWork, Ended, AllHold, Goes, mine, Password
<1>1. CASE UNCHANGED crVars
    BY <1>1 DEF crVars
<1>2. ASSUME NEW r \in Rotations, Create(r) PROVE CRInv'
    BY <1>2 DEF Create
<1>3. ASSUME NEW r \in Rotations, WriteSecret(r) PROVE CRInv'
    BY <1>3 DEF WriteSecret
<1>4. ASSUME NEW r \in Rotations, RecreateServices(r) PROVE CRInv'
    BY <1>4 DEF RecreateServices, Recreated
<1>5. ASSUME NEW r \in Rotations, Verify(r) PROVE CRInv'
    BY <1>5 DEF Verify
<1>6. ASSUME NEW r \in Rotations, Restore(r) PROVE CRInv'
    BY <1>6 DEF Restore
<1>7. ASSUME NEW r \in Rotations, Remount(r) PROVE CRInv'
    BY <1>7 DEF Remount, Recreated
<1>8. ASSUME NEW r \in Rotations, Reverify(r) PROVE CRInv'
    BY <1>8 DEF Reverify
<1>9. ASSUME NEW r \in Rotations, Revoke(r) PROVE CRInv'
    BY <1>9 DEF Revoke
<1>10. ASSUME NEW r \in Rotations, Cut(r) PROVE CRInv'
    BY <1>10 DEF Cut
<1> QED BY <1>1, <1>2, <1>3, <1>4, <1>5, <1>6, <1>7, <1>8, <1>9, <1>10 DEF CRNext, Rotates

\* Where one run follows another, the file and every service hold a password that is
\* accepted, wherever a run fails, is cut off or fails on its way back
\* (rotate_wp_app_password.py:260).
THEOREM RotationIsSafe ==
    ASSUME Initial \notin Rotations, ~Concurrent
    PROVE  CRSpec => []CredentialsWork
<1>1. CRInv => CredentialsWork
    BY DEF CRInv
<1> QED BY <1>1, RotationStarts, RotationKeeps, PTL DEF CRSpec

-----------------------------------------------------------------------------
(* The tickets of an invariant.  A standing ticket has no marker, so that a *)
(* search does not find it, and a search misses a ticket beyond the page:   *)
(* what keeps a second one from being filed is that the tie is there for as *)
(* long as the ticket is open, in memory once restored.                     *)

StandingIsTied(k) ==
    Open(k, StandingTicket) =>
        /\ k \in Standing /\ results[k] \in {0, StandingTicket} /\ refs[k] \in {0, StandingTicket}
        /\ restored => refs[k] = StandingTicket
        /\ \A n \in Slots \ {StandingTicket} : ~Open(k, n)

\* What the results name and is open is tied, once the ties are restored.
WrittenIsTied(k) == restored /\ results[k] # 0 /\ Open(k, results[k]) => refs[k] = results[k]

AloneInReach(k) == \A m, n \in Slots : InReach(k, m) /\ InReach(k, n) => m = n

TicketInv ==
    /\ tickets \in [InvKeys -> [Slots -> {"listed", "beyond", "closed"}]]
    /\ refs \in [InvKeys -> 0..MaxTickets] /\ results \in [InvKeys -> 0..MaxTickets]
    /\ place \in 0..WriteTime /\ restored \in BOOLEAN
    /\ place # 0 => restored
    /\ \A k \in InvKeys : AloneInReach(k) /\ StandingIsTied(k) /\ WrittenIsTied(k)

\* The lowest of some tickets is one of them.
LEMMA LowestTicket ==
    ASSUME NEW T \in SUBSET Slots, T # {}
    PROVE  \E n \in T : \A m \in T : n <= m
<1> DEFINE below == {ss \in Nat \X Nat : ss[1] < ss[2]}
<1>1. T \subseteq Nat
  BY DEF Slots
<1>2. IsWellFoundedOn(below, Nat)
  BY NatLessThanWellFounded, Zenon DEF OpToRel
<1>3. PICK n \in T : \A m \in T : <<m, n>> \notin below
  <2> HIDE DEF below
  <2> QED BY <1>1, <1>2, WFMin
<1>4. ASSUME NEW m \in T PROVE n <= m
  <2>1. n \in Nat /\ m \in Nat
    BY <1>1
  <2>2. m < n => <<m, n>> \in below
    BY <2>1
  <2>3. ~(m < n)
    BY <1>3, <2>2
  <2> QED BY <2>1, <2>3
<1> QED BY <1>4

LEMMA AdoptedIsFound ==
    ASSUME NEW k, Found(k) # {} PROVE Adopted(k) \in Found(k)
<1>1. \E n \in Found(k) : \A m \in Found(k) : n <= m
  BY LowestTicket DEF Found
<1> QED BY <1>1, Zenon DEF Adopted

LEMMA NewIsNew ==
    ASSUME NEW k, NewTickets(k) # {} PROVE NewTicket(k) \in NewTickets(k)
<1>1. \E n \in NewTickets(k) : \A m \in NewTickets(k) : n <= m
  BY LowestTicket DEF NewTickets
<1> QED BY <1>1, Zenon DEF NewTicket

LEMMA RestoredTyped ==
    ASSUME TicketInv, NEW k \in InvKeys PROVE Restored(k) \in 0..MaxTickets
<1>1. Found(k) # {} => Adopted(k) \in Slots
  BY AdoptedIsFound DEF Found
<1>2. StandingTicket \in 0..MaxTickets
  BY RunnerAssumption DEF StandingTicket
<1>3. CASE results[k] # 0
  BY <1>3 DEF Restored, TicketInv
<1>4. CASE results[k] = 0 /\ k \in Standing
  BY <1>2, <1>4 DEF Restored
<1>5. CASE results[k] = 0 /\ k \notin Standing /\ plane /\ Found(k) # {}
  BY <1>1, <1>5 DEF Restored, Slots
<1>6. CASE results[k] = 0 /\ k \notin Standing /\ ~(plane /\ Found(k) # {})
  BY <1>6, RunnerAssumption DEF Restored
<1> QED BY <1>3, <1>4, <1>5, <1>6

LEMMA StartKeepsTickets == ASSUME TicketInv, RunStarts PROVE TicketInv'
<1>1. refs' \in [InvKeys -> 0..MaxTickets]
  BY RestoredTyped DEF RunStarts, TicketInv
<1>2. ASSUME NEW k \in InvKeys
      PROVE  AloneInReach(k)' /\ StandingIsTied(k)' /\ WrittenIsTied(k)'
  <2>1. CASE restored
    BY <2>1 DEF RunStarts, TicketInv, AloneInReach, InReach, StandingIsTied, WrittenIsTied, Open
  <2>2. CASE ~restored
    <3>1. refs'[k] = Restored(k) /\ UNCHANGED <<tickets, results>>
      BY <2>2 DEF RunStarts
    <3>2. results[k] # 0 => Restored(k) = results[k]
      BY DEF Restored
    <3>3. Open(k, StandingTicket) => Restored(k) = StandingTicket
      BY DEF Restored, TicketInv, StandingIsTied, StandingTicket
    <3>4. StandingIsTied(k)' /\ WrittenIsTied(k)'
      BY <3>1, <3>2, <3>3 DEF TicketInv, StandingIsTied, WrittenIsTied, Open
    <3>5. AloneInReach(k)'
      <4>1. CASE results[k] # 0
        BY <3>1, <3>2, <4>1 DEF TicketInv, AloneInReach, InReach
      <4>2. CASE results[k] = 0 /\ k \in Standing
        <5>1. Restored(k) = StandingTicket
          BY <4>2 DEF Restored
        <5> QED BY <3>1, <4>2, <5>1 DEF TicketInv, AloneInReach, InReach, StandingIsTied, Open
      <4>3. CASE results[k] = 0 /\ k \notin Standing
        <5>1. Restored(k) = 0 \/ Restored(k) \in Found(k)
          BY <4>3, AdoptedIsFound DEF Restored
        <5>2. \A n \in Slots : n = Restored(k) => tickets[k][n] = "listed"
          BY <5>1 DEF Found, Slots
        <5> QED BY <3>1, <4>3, <5>2 DEF TicketInv, AloneInReach, InReach
      <4> QED BY <4>1, <4>2, <4>3
    <3> QED BY <3>4, <3>5
  <2> QED BY <2>1, <2>2
<1>3. place' \in 0..WriteTime
  BY RunnerAssumption DEF RunStarts, WriteTime
<1> QED BY <1>1, <1>2, <1>3 DEF RunStarts, TicketInv

\* An invariant that passes loses its ticket and the tie together.
LEMMA PassKeepsTickets ==
    ASSUME TicketInv, NEW k \in InvKeys, Passes(k), restored' = restored, results' = results,
           place # 0, place' \in 0..WriteTime
    PROVE  TicketInv'
<1>1. CASE UNCHANGED <<tickets, refs>>
  BY <1>1 DEF TicketInv, AloneInReach, InReach, StandingIsTied, WrittenIsTied, Open
<1>2. CASE /\ refs[k] # 0 /\ tickets' = [tickets EXCEPT ![k][refs[k]] = "closed"]
           /\ refs' = [refs EXCEPT ![k] = 0]
  <2>1. refs[k] \in Slots /\ StandingTicket \in Slots /\ restored
    BY <1>2, RunnerAssumption DEF TicketInv, Slots, StandingTicket
  <2>2. \A j \in InvKeys, n \in Slots :
           tickets'[j][n] = IF j = k /\ n = refs[k] THEN "closed" ELSE tickets[j][n]
    BY <1>2, <2>1 DEF TicketInv
  <2>3. tickets' \in [InvKeys -> [Slots -> {"listed", "beyond", "closed"}]]
    BY <1>2, <2>1 DEF TicketInv
  <2>4. refs' \in [InvKeys -> 0..MaxTickets]
    BY <1>2, RunnerAssumption DEF TicketInv
  <2>5. ASSUME NEW j \in InvKeys, NEW n \in Slots PROVE InReach(j, n)' => InReach(j, n)
    BY <1>2, <2>1, <2>2 DEF TicketInv, InReach, Slots
  <2>6. \A j \in InvKeys : AloneInReach(j)'
    BY <2>5 DEF TicketInv, AloneInReach
  <2>7. ASSUME NEW j \in InvKeys PROVE StandingIsTied(j)'
    BY <1>2, <2>1, <2>2 DEF TicketInv, StandingIsTied, Open
  <2>8. ASSUME NEW j \in InvKeys PROVE WrittenIsTied(j)'
    <3>1. results[j] # 0 => results[j] \in Slots
      BY DEF TicketInv, Slots
    <3> QED BY <1>2, <2>1, <2>2, <3>1 DEF TicketInv, WrittenIsTied, Open
  <2> QED BY <2>1, <2>3, <2>4, <2>6, <2>7, <2>8 DEF TicketInv
<1> QED BY <1>1, <1>2 DEF Passes

\* Once restored, an invariant without a tie has no open ticket in reach but listed ones.
LEMMA UntiedIsListed ==
    ASSUME TicketInv, NEW k \in InvKeys, restored, ~Tied(k)
    PROVE  /\ ~Open(k, StandingTicket)
           /\ \A n \in Slots : InReach(k, n) => n \in Found(k)
<1>1. ~Open(k, StandingTicket)
  BY DEF TicketInv, StandingIsTied, Tied, StandingTicket
<1>2. ASSUME NEW n \in Slots, InReach(k, n) PROVE n \in Found(k)
  <2>1. tickets[k][n] = "listed"
    BY <1>2 DEF TicketInv, InReach, WrittenIsTied, Tied, Open, Slots
  <2> QED BY <1>1, <2>1 DEF Found, Open
<1> QED BY <1>1, <1>2

\* An invariant that does not pass gets a ticket only where none is in reach.
LEMMA FailKeepsTickets ==
    ASSUME TicketInv, NEW k \in InvKeys, NonPass(k), restored' = restored, results' = results,
           place # 0, place' \in 0..WriteTime
    PROVE  TicketInv'
<1>1. StandingTicket \in Slots /\ restored
  BY RunnerAssumption DEF TicketInv, Slots, StandingTicket
<1>2. CASE UNCHANGED <<tickets, refs>>
  BY <1>2 DEF TicketInv, AloneInReach, InReach, StandingIsTied, WrittenIsTied, Open
<1>3. ASSUME ~Tied(k), tickets' = tickets, NEW r \in Found(k) \cup {0},
             refs' = [refs EXCEPT ![k] = r]
      PROVE  TicketInv'
  <2>1. r \in 0..MaxTickets
    BY RunnerAssumption DEF Found, Slots
  <2>2. refs' \in [InvKeys -> 0..MaxTickets] /\ \A j \in InvKeys : refs'[j] = IF j = k THEN r ELSE refs[j]
    BY <1>3, <2>1 DEF TicketInv
  <2>3. ASSUME NEW j \in InvKeys, NEW n \in Slots PROVE InReach(j, n)' => InReach(j, n)
    BY <1>3, <2>2 DEF InReach, Found, Slots
  <2>4. \A j \in InvKeys : AloneInReach(j)'
    BY <2>3 DEF TicketInv, AloneInReach
  <2>5. ~Open(k, StandingTicket) /\ (results[k] # 0 => ~Open(k, results[k]))
    BY <1>1, <1>3, UntiedIsListed DEF TicketInv, WrittenIsTied, Tied
  <2>6. \A j \in InvKeys : StandingIsTied(j)' /\ WrittenIsTied(j)'
    BY <1>3, <2>2, <2>5 DEF TicketInv, StandingIsTied, WrittenIsTied, Open
  <2> QED BY <1>1, <1>3, <2>2, <2>4, <2>6 DEF TicketInv
<1>4. CASE /\ Found(k) # {} /\ ~Tied(k) /\ tickets' = tickets
           /\ refs' = [refs EXCEPT ![k] = Adopted(k)]
  BY <1>3, <1>4, AdoptedIsFound
<1>5. CASE ~Tied(k) /\ tickets' = tickets /\ refs' = [refs EXCEPT ![k] = 0]
  BY <1>3, <1>5
<1>6. CASE ~Tied(k) /\ Found(k) = {} /\ FilesTicket(k)
  <2>1. PICK new \in Slots : /\ new # StandingTicket /\ new # results[k]
                             /\ tickets' = [tickets EXCEPT ![k][new] = "listed"]
                             /\ \E r \in {new, 0} : refs' = [refs EXCEPT ![k] = r]
    BY <1>6, NewIsNew DEF FilesTicket, NewTickets
  <2>2. ~Open(k, StandingTicket) /\ \A n \in Slots : ~InReach(k, n)
    BY <1>1, <1>6, UntiedIsListed
  <2>3. \A j \in InvKeys, n \in Slots :
           tickets'[j][n] = IF j = k /\ n = new THEN "listed" ELSE tickets[j][n]
    BY <2>1 DEF TicketInv
  <2>4. tickets' \in [InvKeys -> [Slots -> {"listed", "beyond", "closed"}]]
    BY <2>1 DEF TicketInv
  <2>5. PICK r \in {new, 0} : refs' = [refs EXCEPT ![k] = r]
    BY <2>1
  <2>6. r \in 0..MaxTickets
    BY <2>5, RunnerAssumption DEF Slots
  <2>7. refs' \in [InvKeys -> 0..MaxTickets] /\ \A j \in InvKeys : refs'[j] = IF j = k THEN r ELSE refs[j]
    BY <2>5, <2>6 DEF TicketInv
  <2>8. ASSUME NEW j \in InvKeys, NEW n \in Slots, InReach(j, n)'
        PROVE  IF j = k THEN n = new ELSE InReach(j, n)
    <3>1. CASE j # k
      BY <2>3, <2>7, <2>8, <3>1 DEF InReach
    <3>2. CASE j = k /\ n # new
      <4>1. tickets'[k][n] = tickets[k][n] /\ refs'[k] # n
        BY <2>3, <2>5, <2>7, <3>2 DEF Slots
      <4>2. InReach(k, n)
        BY <2>8, <3>2, <4>1 DEF InReach
      <4> QED BY <2>2, <4>2
    <3> QED BY <3>1, <3>2
  <2>9. \A j \in InvKeys : AloneInReach(j)'
    BY <2>8 DEF TicketInv, AloneInReach
  <2>10. results[k] # 0 => results[k] \in Slots /\ ~Open(k, results[k])
    BY <1>1, <1>6 DEF TicketInv, WrittenIsTied, Tied, Slots
  <2>11. \A j \in InvKeys : StandingIsTied(j)'
    BY <1>1, <2>1, <2>2, <2>3, <2>7 DEF TicketInv, StandingIsTied, Open
  <2>12. ASSUME NEW j \in InvKeys PROVE WrittenIsTied(j)'
    <3>1. CASE j = k
      BY <2>1, <2>3, <2>10, <3>1 DEF WrittenIsTied, Open
    <3>2. CASE j # k
      <4>1. results[j] # 0 => results[j] \in Slots
        BY DEF TicketInv, Slots
      <4> QED BY <2>3, <2>7, <3>2, <4>1 DEF TicketInv, WrittenIsTied, Open
    <3> QED BY <3>1, <3>2
  <2> QED BY <1>1, <2>4, <2>7, <2>9, <2>11, <2>12 DEF TicketInv
<1> QED BY <1>2, <1>4, <1>5, <1>6 DEF NonPass

LEMMA CheckKeepsTickets == ASSUME TicketInv, CheckInvariant PROVE TicketInv'
<1> DEFINE k == Invariants[place]
<1>1. k \in InvKeys /\ place # 0 /\ place' \in 0..WriteTime
  BY RunnerAssumption DEF CheckInvariant, InvKeys, WriteTime
<1>2. restored' = restored /\ results' = results /\ (Passes(k) \/ NonPass(k))
  BY DEF CheckInvariant
<1> HIDE DEF k
<1> QED BY <1>1, <1>2, PassKeepsTickets, FailKeepsTickets

\* A ticket that is closed by hand or pushed off the page is in reach no more than it was.
LEMMA BoardKeepsTickets ==
    ASSUME TicketInv, NEW k \in InvKeys, NEW n \in Slots, ClosedByHand(k, n) \/ LeavesPage(k, n)
    PROVE  TicketInv'
<1>1. PICK to \in {"closed", "beyond"} : /\ tickets' = [tickets EXCEPT ![k][n] = to]
                                         /\ to = "beyond" => tickets[k][n] = "listed"
  BY DEF ClosedByHand, LeavesPage
<1>2. UNCHANGED <<refs, results, place, restored>>
  BY DEF ClosedByHand, LeavesPage
<1>3. \A j \in InvKeys, m \in Slots : tickets'[j][m] = IF j = k /\ m = n THEN to ELSE tickets[j][m]
  BY <1>1 DEF TicketInv
<1>4. tickets' \in [InvKeys -> [Slots -> {"listed", "beyond", "closed"}]]
  BY <1>1 DEF TicketInv
<1>5. StandingTicket \in Slots /\ \A j \in InvKeys : results[j] # 0 => results[j] \in Slots
  BY RunnerAssumption DEF TicketInv, Slots, StandingTicket
<1>6. ASSUME NEW j \in InvKeys, NEW m \in Slots
      PROVE  (InReach(j, m)' => InReach(j, m)) /\ (Open(j, m)' => Open(j, m))
  BY <1>1, <1>2, <1>3 DEF InReach, Open
<1>7. ASSUME NEW j \in InvKeys PROVE AloneInReach(j)' /\ StandingIsTied(j)' /\ WrittenIsTied(j)'
  <2>1. AloneInReach(j)'
    BY <1>6 DEF TicketInv, AloneInReach
  <2>2. Open(j, StandingTicket)' => Open(j, StandingTicket)
    BY <1>5, <1>6
  <2>3. \A m \in Slots : ~Open(j, m) => ~Open(j, m)'
    BY <1>6
  <2>4. StandingIsTied(j)'
    BY <1>2, <2>2, <2>3 DEF TicketInv, StandingIsTied
  <2>5. results[j] # 0 /\ Open(j, results[j])' => Open(j, results[j])
    BY <1>2, <1>3, <1>5, <1>1 DEF Open
  <2>6. WrittenIsTied(j)'
    BY <1>2, <2>5 DEF TicketInv, WrittenIsTied, Open
  <2> QED BY <2>1, <2>4, <2>6
<1> QED BY <1>2, <1>4, <1>7 DEF TicketInv

LEMMA OtherStepsKeepTickets ==
    ASSUME TicketInv,
           \/ WriteResults \/ RunnerDies \/ PlaneFlips
           \/ \E k \in InvKeys : \/ InvariantFlips(k)
                                 \/ \E n \in Slots : ClosedByHand(k, n) \/ LeavesPage(k, n)
    PROVE  TicketInv'
<1>1. CASE WriteResults
  <2>1. \A k \in InvKeys : results'[k] \in {0, refs[k]}
    BY <1>1 DEF WriteResults, NoRefs
  <2>2. results' \in [InvKeys -> 0..MaxTickets]
    BY <1>1, RunnerAssumption DEF WriteResults, NoRefs, TicketInv
  <2>3. 0 \in 0..WriteTime
    BY RunnerAssumption DEF WriteTime
  <2>4. tickets' = tickets /\ refs' = refs /\ restored' = restored /\ place' = 0
    BY <1>1 DEF WriteResults
  <2>5. \A k \in InvKeys, n \in Slots : InReach(k, n)' => InReach(k, n)
    BY <2>1, <2>4 DEF InReach, Slots
  <2>6. \A k \in InvKeys : AloneInReach(k)'
    BY <2>5 DEF TicketInv, AloneInReach
  <2>7. \A k \in InvKeys : StandingIsTied(k)' /\ WrittenIsTied(k)'
    BY <2>1, <2>4 DEF TicketInv, StandingIsTied, WrittenIsTied, Open
  <2> QED BY <2>2, <2>3, <2>4, <2>6, <2>7 DEF TicketInv
<1>2. CASE RunnerDies
  <2>1. refs' = [k \in InvKeys |-> 0] /\ 0 \in 0..WriteTime /\ 0 \in 0..MaxTickets
    BY <1>2, RunnerAssumption DEF RunnerDies, NoRefs, WriteTime
  <2>2. tickets' = tickets /\ results' = results /\ restored' = FALSE /\ place' = 0
    BY <1>2 DEF RunnerDies
  <2>3. \A k \in InvKeys, n \in Slots : InReach(k, n)' => InReach(k, n)
    BY <2>1, <2>2 DEF InReach, Slots
  <2>4. \A k \in InvKeys : AloneInReach(k)'
    BY <2>3 DEF TicketInv, AloneInReach
  <2>5. \A k \in InvKeys : StandingIsTied(k)' /\ WrittenIsTied(k)'
    BY <2>1, <2>2 DEF TicketInv, StandingIsTied, WrittenIsTied, Open
  <2> QED BY <2>1, <2>2, <2>4, <2>5 DEF TicketInv
<1>3. CASE PlaneFlips \/ \E k \in InvKeys : InvariantFlips(k)
  BY <1>3 DEF PlaneFlips, InvariantFlips, TicketInv, AloneInReach, InReach, StandingIsTied,
     WrittenIsTied, Open
<1> QED BY <1>1, <1>2, <1>3, BoardKeepsTickets

LEMMA AloneIsOne == ASSUME TicketInv PROVE NoTicketInReachTwice
<1> SUFFICES ASSUME NEW k \in InvKeys PROVE Cardinality({n \in Slots : InReach(k, n)}) <= 1
  BY DEF NoTicketInReachTwice
<1> DEFINE T == {n \in Slots : InReach(k, n)}
<1>1. CASE T = {}
  BY <1>1, FS_EmptySet
<1>2. CASE T # {}
  <2>1. PICK n : n \in T
    BY <1>2
  <2>2. T = {n}
    BY <2>1 DEF TicketInv, AloneInReach
  <2>3. Cardinality({n}) = 1
    BY FS_Singleton, Zenon
  <2> QED BY <2>2, <2>3
<1> QED BY <1>1, <1>2

\* Lost answers, failed writes, tickets closed by hand or pushed off the page, restarts and
\* torn results (invariants.py, _ensure_invariant_issue and _restore_invariant_issue_refs)
\* never lead to a second ticket of an invariant while the first is listed on the page, tied in
\* memory or named in the results, for any number of each.
THEOREM OneTicket == RunnerSpec => []NoTicketInReachTwice
<1>1. RunnerInit => TicketInv
  <2> SUFFICES ASSUME RunnerInit PROVE TicketInv
    OBVIOUS
  <2>1. refs = [k \in InvKeys |-> 0] /\ results = [k \in InvKeys |-> 0] /\ 0 \in 0..WriteTime
        /\ 0 \in 0..MaxTickets
    BY RunnerAssumption DEF RunnerInit, NoRefs, WriteTime
  <2>2. \A k \in InvKeys, n \in Slots :
           tickets[k][n] = IF k \in Standing /\ n = StandingTicket THEN "listed" ELSE "closed"
    BY DEF RunnerInit
  <2>3. StandingTicket \in Slots
    BY RunnerAssumption DEF Slots, StandingTicket
  <2>4. tickets \in [InvKeys -> [Slots -> {"listed", "beyond", "closed"}]]
    BY DEF RunnerInit
  <2>5. \A k \in InvKeys : AloneInReach(k) /\ StandingIsTied(k) /\ WrittenIsTied(k)
    BY <2>1, <2>2, <2>3 DEF RunnerInit, AloneInReach, InReach, StandingIsTied, WrittenIsTied, Open
  <2> QED BY <2>1, <2>4, <2>5 DEF RunnerInit, TicketInv
<1>2. TicketInv /\ [RunnerNext]_runnerVars => TicketInv'
  <2>1. CASE UNCHANGED runnerVars
    BY <2>1 DEF runnerVars, TicketInv, AloneInReach, InReach, StandingIsTied, WrittenIsTied, Open
  <2> QED BY <2>1, StartKeepsTickets, CheckKeepsTickets, OtherStepsKeepTickets
          DEF RunnerNext, RunnerJob
<1> QED BY <1>1, <1>2, AloneIsOne, PTL DEF RunnerSpec

-----------------------------------------------------------------------------
(* The parking lot.  Whatever is at work on a card holds one of the captures *)
(* of its name, so that a late write puts back one of those; and a routed    *)
(* card is dropped only after it was copied.                                 *)

LotSteps == {"exit", "read", "write", "copy", "move", "drop"}
RouteState == [op : Ops, slug : Slugs, text : Cards, words : BOOLEAN, todo : Seq(LotSteps)]

IsCard(c, s) == c \in Card /\ c.text \in Under(s)

\* What request w has still to do is an end of its program.
EndOfProgram(w) ==
    LET p == Program(w.op) IN
    /\ Len(w.todo) \in 1..Len(p)
    /\ \A i \in 1..Len(w.todo) : w.todo[i] = p[Len(p) - Len(w.todo) + i]

\* A request that is about to drop a routed card has copied it.
OnItsCard(w) ==
    w # NoWork =>
        /\ w \in RouteState /\ w.text \in Under(w.slug) /\ EndOfProgram(w)
        /\ w.op = "routed" /\ Len(w.todo) = 1 => IsCard(archive[w.slug], w.slug)

JobOnItsCard(t, j) ==
    \/ j = NoWork
    \/ t \in saved /\ j = [at |-> "model"]
    \/ t \in saved /\ \E c \in Card : IsCard(c, slug[t]) /\ j = [at |-> "write", held |-> c]

NamesInv ==
    /\ taken \subseteq Cards /\ saved \subseteq taken /\ unwritten \subseteq taken
    /\ \A t \in taken : slug[t] \in Slugs

OneIsKept(s) ==
    Under(s) # {} /\ Under(s) \cap deleted = {} => IsCard(lot[s], s) \/ IsCard(archive[s], s)

LotInv ==
    /\ NamesInv
    /\ lot \in [Slugs -> Card \cup {Gone}] /\ archive \in [Slugs -> Card \cup {Gone}]
    /\ \A s \in Slugs : lot[s] # Gone => IsCard(lot[s], s)
    /\ job = [t \in Cards |-> job[t]] /\ \A t \in Cards : JobOnItsCard(t, job[t])
    /\ route = [r \in Requests |-> route[r]] /\ \A r \in Requests : OnItsCard(route[r])
    /\ \A s \in Slugs : OneIsKept(s)

ArchiveGrows == \A s \in Slugs : IsCard(archive[s], s) => IsCard(archive'[s], s)

LEMMA Programs ==
    /\ Len(Program("edit")) = 2 /\ Program("edit")[1] = "read" /\ Program("edit")[2] = "write"
    /\ Len(Program("archive")) = 3 /\ Program("archive")[1] = "read"
       /\ Program("archive")[2] = "write" /\ Program("archive")[3] = "move"
    /\ Len(Program("routed")) = 4 /\ Program("routed")[1] = "read" /\ Program("routed")[2] = "write"
       /\ Program("routed")[3] = "copy" /\ Program("routed")[4] = "drop"
    /\ Len(Program("handed")) = 4 /\ Program("handed")[1] = "exit" /\ Program("handed")[2] = "read"
       /\ Program("handed")[3] = "write" /\ Program("handed")[4] = "move"
    /\ Len(Program("dispatch")) = 2 /\ Program("dispatch")[1] = "exit" /\ Program("dispatch")[2] = "move"
    /\ Len(Program("delete")) = 1 /\ Program("delete")[1] = "drop"
BY DEF Program

\* A new request has all of its program to do.
LEMMA StartsWhole ==
    ASSUME NEW op \in Ops
    PROVE  /\ Program(op) \in Seq(LotSteps) /\ Len(Program(op)) >= 1
           /\ op = "routed" => Len(Program(op)) # 1
<1>1. CASE op = "edit"
  BY <1>1 DEF Program, LotSteps
<1>2. CASE op = "archive"
  BY <1>2 DEF Program, LotSteps
<1>3. CASE op = "routed"
  BY <1>3 DEF Program, LotSteps
<1>4. CASE op = "handed"
  BY <1>4 DEF Program, LotSteps
<1>5. CASE op = "dispatch"
  BY <1>5 DEF Program, LotSteps
<1>6. CASE op = "delete"
  BY <1>6 DEF Program, LotSteps
<1> QED BY <1>1, <1>2, <1>3, <1>4, <1>5, <1>6 DEF Ops

\* Where in its program a request is that is about to read, to drop or to end.
LEMMA AtHead ==
    ASSUME NEW w \in RouteState, EndOfProgram(w)
    PROVE  /\ Len(w.todo) \in Nat /\ Len(w.todo) >= 1
           /\ Head(w.todo) = "read" => Len(w.todo) # 1
           /\ Head(w.todo) = "write" => w.op \in {"edit", "archive", "routed", "handed"}
           /\ w.op = "routed" /\ Len(w.todo) = 2 => Head(w.todo) = "copy"
           /\ Head(w.todo) = "drop" => w.op = "delete" \/ (w.op = "routed" /\ Len(w.todo) = 1)
<1> DEFINE p == Program(w.op)
           n == Len(w.todo)
<1>1. w.op \in Ops /\ w.todo \in Seq(LotSteps)
  BY DEF RouteState
<1>2. Len(p) \in Nat
  BY <1>1, StartsWhole
<1>3. n \in 1..Len(p) /\ \A i \in 1..n : w.todo[i] = p[Len(p) - n + i]
  BY DEF EndOfProgram
<1>4. n \in Nat /\ n >= 1 /\ n <= Len(p)
  BY <1>2, <1>3
<1>5. Head(w.todo) = p[Len(p) - n + 1]
  <2>1. 1 \in 1..n /\ Head(w.todo) = w.todo[1]
    BY <1>1, <1>4
  <2> QED BY <1>3, <2>1
<1>6. CASE w.op = "edit"
  <2>1. Len(p) = 2 /\ p[1] = "read" /\ p[2] = "write"
    BY <1>6, Programs
  <2> HIDE DEF p, n
  <2>2. n = 1 \/ n = 2
    BY <1>4, <2>1
  <2>3. Len(w.todo) = n
    BY DEF n
  <2> QED BY <1>4, <1>5, <1>6, <2>1, <2>2, <2>3
<1>7. CASE w.op = "archive"
  <2>1. Len(p) = 3 /\ p[1] = "read" /\ p[2] = "write" /\ p[3] = "move"
    BY <1>7, Programs
  <2> HIDE DEF p, n
  <2>2. n = 1 \/ n = 2 \/ n = 3
    BY <1>4, <2>1
  <2>3. Len(w.todo) = n
    BY DEF n
  <2> QED BY <1>4, <1>5, <1>7, <2>1, <2>2, <2>3
<1>8. CASE w.op = "routed"
  <2>1. Len(p) = 4 /\ p[1] = "read" /\ p[2] = "write" /\ p[3] = "copy" /\ p[4] = "drop"
    BY <1>8, Programs
  <2> HIDE DEF p, n
  <2>2. n = 1 \/ n = 2 \/ n = 3 \/ n = 4
    BY <1>4, <2>1
  <2>3. Len(w.todo) = n
    BY DEF n
  <2> QED BY <1>4, <1>5, <1>8, <2>1, <2>2, <2>3
<1>9. CASE w.op = "handed"
  <2>1. Len(p) = 4 /\ p[1] = "exit" /\ p[2] = "read" /\ p[3] = "write" /\ p[4] = "move"
    BY <1>9, Programs
  <2> HIDE DEF p, n
  <2>2. n = 1 \/ n = 2 \/ n = 3 \/ n = 4
    BY <1>4, <2>1
  <2>3. Len(w.todo) = n
    BY DEF n
  <2> QED BY <1>4, <1>5, <1>9, <2>1, <2>2, <2>3
<1>10. CASE w.op = "dispatch"
  <2>1. Len(p) = 2 /\ p[1] = "exit" /\ p[2] = "move"
    BY <1>10, Programs
  <2> HIDE DEF p, n
  <2>2. n = 1 \/ n = 2
    BY <1>4, <2>1
  <2>3. Len(w.todo) = n
    BY DEF n
  <2> QED BY <1>4, <1>5, <1>10, <2>1, <2>2, <2>3
<1>11. CASE w.op = "delete"
  <2>1. Len(p) = 1 /\ p[1] = "drop"
    BY <1>11, Programs
  <2> HIDE DEF p, n
  <2>2. n = 1
    BY <1>4, <2>1
  <2>3. Len(w.todo) = n
    BY DEF n
  <2> QED BY <1>4, <1>5, <1>11, <2>1, <2>2, <2>3
<1> QED BY <1>1, <1>6, <1>7, <1>8, <1>9, <1>10, <1>11 DEF Ops

\* A request that goes on has a later end of its program to do.
LEMMA TailIsEnd ==
    ASSUME NEW w \in RouteState, EndOfProgram(w), Len(w.todo) # 1
    PROVE  /\ [w EXCEPT !.todo = Tail(w.todo)] \in RouteState
           /\ EndOfProgram([w EXCEPT !.todo = Tail(w.todo)])
           /\ Len(Tail(w.todo)) = Len(w.todo) - 1
<1> DEFINE p == Program(w.op)
           n == Len(w.todo)
           v == [w EXCEPT !.todo = Tail(w.todo)]
<1>1. w.op \in Ops /\ w.todo \in Seq(LotSteps) /\ n \in Nat /\ n > 1
  <2>1. n \in Nat /\ n >= 1
    BY AtHead
  <2>2. n # 1
    OBVIOUS
  <2>3. n > 1
    BY <2>1, <2>2
  <2>4. w.op \in Ops /\ w.todo \in Seq(LotSteps)
    BY DEF RouteState
  <2> QED BY <2>1, <2>3, <2>4
<1>2. n <= Len(p) /\ Len(p) \in Nat
  BY <1>1, StartsWhole DEF EndOfProgram
<1>3. Tail(w.todo) \in Seq(LotSteps) /\ Len(Tail(w.todo)) = n - 1
      /\ \A i \in 1..n - 1 : Tail(w.todo)[i] = w.todo[i + 1]
  BY <1>1
<1>4. v \in RouteState /\ v.op = w.op /\ v.todo = Tail(w.todo)
  BY <1>3 DEF RouteState
<1>5. \A i \in 1..n - 1 : Tail(w.todo)[i] = p[Len(p) - (n - 1) + i]
  <2> SUFFICES ASSUME NEW i \in 1..n - 1 PROVE Tail(w.todo)[i] = p[Len(p) - (n - 1) + i]
    OBVIOUS
  <2>1. i + 1 \in 1..n /\ Len(p) - n + (i + 1) = Len(p) - (n - 1) + i
    BY <1>1, <1>2
  <2>2. w.todo[i + 1] = p[Len(p) - n + (i + 1)]
    BY <2>1 DEF EndOfProgram
  <2> QED BY <1>3, <2>1, <2>2
<1>6. EndOfProgram(v)
  <2> HIDE DEF v
  <2>1. Len(v.todo) \in 1..Len(Program(v.op))
    BY <1>1, <1>2, <1>3, <1>4
  <2>2. \A i \in 1..Len(v.todo) : v.todo[i] = Program(v.op)[Len(Program(v.op)) - Len(v.todo) + i]
    BY <1>3, <1>4, <1>5
  <2> QED BY <2>1, <2>2 DEF EndOfProgram
<1> QED BY <1>3, <1>4, <1>6

LEMMA CardsAreThere == Gone \notin Card
BY LotAssumption DEF Gone, Card, Cards

LEMMA UnderIsSaved == ASSUME LotInv, NEW s PROVE Under(s) \subseteq Cards
BY DEF LotInv, NamesInv, Under

LEMMA StatusWritten ==
    ASSUME NEW op \in {"edit", "archive", "routed", "handed"} PROVE StatusOf[op] \in Statuses
BY DEF StatusOf, Statuses

\* What a request goes on with, when it goes on.
LEMMA OnwardIsItsCard ==
    ASSUME NEW r \in Requests, OnItsCard(route[r]), route[r] # NoWork, Onward(r) # NoWork
    PROVE  /\ Onward(r) \in RouteState /\ EndOfProgram(Onward(r))
           /\ Onward(r).op = route[r].op /\ Onward(r).slug = route[r].slug
           /\ Onward(r).text = route[r].text
           /\ Len(Onward(r).todo) = Len(route[r].todo) - 1
<1>1. PICK w : w = route[r]
  OBVIOUS
<1>2. w \in RouteState /\ EndOfProgram(w)
  BY <1>1 DEF OnItsCard
<1>3. Onward(r) = [w EXCEPT !.todo = Tail(w.todo)] /\ Len(w.todo) # 1
  BY <1>1 DEF Onward
<1> DEFINE v == [w EXCEPT !.todo = Tail(w.todo)]
<1>4. v.op = w.op /\ v.slug = w.slug /\ v.text = w.text /\ v.todo = Tail(w.todo)
  BY <1>2 DEF RouteState
<1>5. v \in RouteState /\ EndOfProgram(v) /\ Len(Tail(w.todo)) = Len(w.todo) - 1
  BY <1>2, <1>3, TailIsEnd
<1> HIDE DEF v
<1>6. Onward(r) = v
  BY <1>3 DEF v
<1> QED BY <1>1, <1>4, <1>5, <1>6

\* Going on keeps a request on its card, if the copy it makes is there.
LEMMA GoesOnItsCard ==
    ASSUME LotInv, ArchiveGrows, UNCHANGED captureVars, NEW r \in Requests, route[r] # NoWork,
           NEW y, y = Onward(r),
           Head(route[r].todo) = "copy" => IsCard(archive'[Slug(r)], Slug(r))
    PROVE  OnItsCard(y)'
<1> SUFFICES ASSUME y # NoWork PROVE OnItsCard(y)'
  BY DEF OnItsCard
<1>1. OnItsCard(route[r])
  BY DEF LotInv
<1>2. /\ y \in RouteState /\ EndOfProgram(y) /\ y.op = route[r].op /\ y.slug = route[r].slug
      /\ y.text = route[r].text /\ Len(y.todo) = Len(route[r].todo) - 1
  BY <1>1, OnwardIsItsCard
<1>3. PICK w : w = route[r]
  OBVIOUS
<1>4. w \in RouteState /\ EndOfProgram(w) /\ w.text \in Under(w.slug)
  BY <1>1, <1>3 DEF OnItsCard
<1>5. Len(w.todo) \in Nat /\ (w.op = "routed" /\ Len(w.todo) = 2 => Head(w.todo) = "copy")
  BY <1>4, AtHead
<1>6. ASSUME y.op = "routed", Len(y.todo) = 1 PROVE IsCard(archive'[y.slug], y.slug)
  <2> DEFINE n == Len(w.todo)
             m == Len(y.todo)
  <2>1. n = 2
    <3>1. m = n - 1 /\ n \in Nat
      BY <1>2, <1>3, <1>5
    <3>2. m = 1
      BY <1>6
    <3> HIDE DEF n, m
    <3> QED BY <3>1, <3>2
  <2> QED BY <1>2, <1>3, <1>5, <1>6, <2>1 DEF Slug
<1>7. \A s, c : (IsCard(c, s) => IsCard(c, s)') /\ (Under(s))' = Under(s)
  BY DEF captureVars, IsCard, Under
<1>8. y.text \in Under(y.slug)'
  BY <1>2, <1>3, <1>4, <1>7
<1>9. y.op = "routed" /\ Len(y.todo) = 1 => IsCard(archive[y.slug], y.slug)'
  BY <1>6, <1>7 DEF IsCard
<1> QED BY <1>2, <1>8, <1>9 DEF OnItsCard

\* A step of a request that leaves the cards it does not name alone.
LEMMA RouteKeepsLot ==
    ASSUME LotInv, ArchiveGrows, UNCHANGED captureVars, NEW r \in Requests, NEW y, Then(r, y),
           OnItsCard(y)', job' = job,
           lot' \in [Slugs -> Card \cup {Gone}], archive' \in [Slugs -> Card \cup {Gone}],
           \A s \in Slugs : lot'[s] # Gone => IsCard(lot'[s], s),
           \A s \in Slugs : Under(s) # {} /\ Under(s) \cap deleted' = {} =>
                               IsCard(lot'[s], s) \/ IsCard(archive'[s], s)
    PROVE  LotInv'
<1>1. route' = [route EXCEPT ![r] = y]
  BY DEF Then
<1>2. route' = [q \in Requests |-> route'[q]]
  BY <1>1 DEF LotInv
<1>3. ASSUME NEW q \in Requests PROVE OnItsCard(route[q])'
  <2>1. CASE q = r
    BY <1>1, <2>1 DEF LotInv, OnItsCard
  <2>2. CASE q # r
    <3>1. route'[q] = route[q] /\ OnItsCard(route[q])
      BY <1>1, <2>2 DEF LotInv
    <3>2. route[q] \in RouteState => route[q].slug \in Slugs
      BY DEF RouteState
    <3> QED BY <3>1, <3>2 DEF OnItsCard, ArchiveGrows, IsCard, Under, captureVars
  <2> QED BY <2>1, <2>2
<1>4. NamesInv' /\ \A t \in Cards : JobOnItsCard(t, job[t])'
  BY DEF LotInv, NamesInv, JobOnItsCard, IsCard, Under, captureVars
<1>5. ASSUME NEW s \in Slugs PROVE (lot[s] # Gone => IsCard(lot[s], s))' /\ OneIsKept(s)'
  BY DEF OneIsKept, IsCard, Under, captureVars
<1> QED BY <1>2, <1>3, <1>4, <1>5 DEF LotInv

LEMMA CardsAtWork ==
    ASSUME LotInv, NEW r \in Requests, route[r] # NoWork
    PROVE  /\ route[r] \in RouteState /\ Slug(r) \in Slugs /\ route[r].text \in Under(Slug(r))
           /\ route[r].text \in Cards /\ route[r].words \in BOOLEAN
           /\ EndOfProgram(route[r])
           /\ Present(r) => IsCard(lot[Slug(r)], Slug(r))
<1>1. OnItsCard(route[r])
  BY DEF LotInv
<1>2. route[r] \in RouteState
  BY <1>1 DEF OnItsCard
<1>3. /\ Slug(r) \in Slugs /\ route[r].text \in Under(Slug(r)) /\ EndOfProgram(route[r])
      /\ route[r].text \in Cards /\ route[r].words \in BOOLEAN
  BY <1>1, <1>2 DEF OnItsCard, RouteState, Slug
<1> QED BY <1>2, <1>3 DEF LotInv, Present

LEMMA ExitKeepsLot == ASSUME LotInv, NEW r \in Requests, MakesExit(r) PROVE LotInv'
<1>1. ArchiveGrows /\ UNCHANGED <<captureVars, lot, archive, job, deleted>>
  BY DEF MakesExit, ArchiveGrows
<1>2. route[r] # NoWork /\ Head(route[r].todo) = "exit"
  BY DEF MakesExit, Does
<1>3. ASSUME NEW y, Then(r, y), OnItsCard(y)' PROVE LotInv'
  BY <1>1, <1>3, RouteKeepsLot DEF LotInv, OneIsKept
<1>4. PICK y : y = Onward(r)
  OBVIOUS
<1>5. OnItsCard(y)'
  BY <1>1, <1>2, <1>4, GoesOnItsCard
<1>6. OnItsCard(NoWork)'
  BY DEF OnItsCard
<1>7. Then(r, y) \/ Then(r, NoWork)
  BY <1>4 DEF MakesExit
<1> QED BY <1>3, <1>5, <1>6, <1>7

\* What a request goes on with after it has read its card.
LEMMA RereadIsItsCard ==
    ASSUME LotInv, NEW r \in Requests, route[r] # NoWork, Head(route[r].todo) = "read", Present(r)
    PROVE  /\ Onward(r) # NoWork /\ Reread(r) # NoWork /\ Reread(r) \in RouteState
           /\ Reread(r).op = Onward(r).op /\ Reread(r).slug = Slug(r)
           /\ Reread(r).todo = Onward(r).todo /\ Reread(r).text \in Under(Slug(r))
<1>1. IsCard(lot[Slug(r)], Slug(r)) /\ route[r] \in RouteState /\ EndOfProgram(route[r])
  BY CardsAtWork
<1>2. lot[Slug(r)].text \in Cards /\ lot[Slug(r)].words \in BOOLEAN /\ lot[Slug(r)].text \in Under(Slug(r))
  BY <1>1 DEF IsCard, Card
<1>3. Len(route[r].todo) # 1
  BY <1>1, AtHead
<1>4. PICK y : y = [route[r] EXCEPT !.todo = Tail(route[r].todo)]
  OBVIOUS
<1>5. y \in RouteState /\ y.slug = Slug(r) /\ y = Onward(r)
  BY <1>1, <1>3, <1>4, TailIsEnd DEF RouteState, Onward, Slug
<1>6. Reread(r) = [y EXCEPT !.text = lot[Slug(r)].text, !.words = lot[Slug(r)].words]
  BY <1>5 DEF Reread
<1> QED BY <1>2, <1>5, <1>6 DEF RouteState, NoWork

LEMMA ReadKeepsLot == ASSUME LotInv, NEW r \in Requests, RouteReads(r) PROVE LotInv'
<1>1. ArchiveGrows /\ UNCHANGED <<captureVars, lot, archive, job, deleted>>
  BY DEF RouteReads, ArchiveGrows
<1>2. route[r] # NoWork /\ Head(route[r].todo) = "read"
  BY DEF RouteReads, Does
<1>3. ASSUME NEW y, Then(r, y), OnItsCard(y)' PROVE LotInv'
  BY <1>1, <1>3, RouteKeepsLot DEF LotInv, OneIsKept
<1>4. CASE ~Present(r)
  BY <1>3, <1>4 DEF RouteReads, OnItsCard
<1>5. CASE Present(r)
  <2>1. PICK y : y = Onward(r)
    OBVIOUS
  <2>2. OnItsCard(y)' /\ y # NoWork
    BY <1>1, <1>2, <1>5, <2>1, GoesOnItsCard, RereadIsItsCard
  <2>3. PICK z : z = Reread(r)
    OBVIOUS
  <2>4. /\ z \in RouteState /\ z # NoWork /\ z.op = y.op /\ z.slug = y.slug /\ z.todo = y.todo
        /\ z.text \in Under(z.slug)
    <3>1. y.slug = Slug(r)
      BY <1>2, <2>1, <2>2, OnwardIsItsCard DEF LotInv, Slug
    <3> QED BY <1>2, <1>5, <2>1, <2>3, <3>1, RereadIsItsCard
  <2>5. EndOfProgram(z)
    BY <2>2, <2>4 DEF OnItsCard, EndOfProgram
  <2>6. z.text \in Under(z.slug)'
    BY <1>1, <2>4 DEF Under, captureVars
  <2>7. OnItsCard(z)'
    BY <2>2, <2>4, <2>5, <2>6 DEF OnItsCard
  <2> QED BY <1>3, <1>5, <2>3, <2>7 DEF RouteReads
<1> QED BY <1>4, <1>5

LEMMA WriteKeepsLot == ASSUME LotInv, NEW r \in Requests, RouteWrites(r) PROVE LotInv'
<1>1. ArchiveGrows /\ UNCHANGED <<captureVars, archive, job, deleted>>
  BY DEF RouteWrites, ArchiveGrows
<1>2. route[r] # NoWork /\ Head(route[r].todo) = "write"
  BY DEF RouteWrites, Does
<1>3. PICK y : y = Onward(r) /\ Then(r, y)
  BY DEF RouteWrites
<1>4. OnItsCard(y)'
  BY <1>1, <1>2, <1>3, GoesOnItsCard
<1>5. PICK c : c = [text |-> route[r].text, words |-> route[r].words, status |-> StatusOf[route[r].op]]
  OBVIOUS
<1>6. Slug(r) \in Slugs /\ IsCard(c, Slug(r))
  <2>1. route[r].op \in {"edit", "archive", "routed", "handed"}
    BY <1>2, CardsAtWork, AtHead
  <2>2. StatusOf[route[r].op] \in Statuses
    BY <2>1, StatusWritten
  <2> QED BY <1>2, <1>5, <2>2, CardsAtWork DEF IsCard, Card
<1>7. lot' = [lot EXCEPT ![Slug(r)] = c]
  BY <1>5 DEF RouteWrites
<1>8. lot' \in [Slugs -> Card \cup {Gone}] /\ \A s \in Slugs : lot'[s] = IF s = Slug(r) THEN c ELSE lot[s]
  BY <1>6, <1>7 DEF LotInv, IsCard
<1>9. \A s \in Slugs : Under(s) # {} /\ Under(s) \cap deleted' = {} => IsCard(lot'[s], s) \/ IsCard(archive'[s], s)
  BY <1>1, <1>6, <1>8 DEF LotInv, OneIsKept
<1> QED BY <1>1, <1>3, <1>4, <1>6, <1>8, <1>9, RouteKeepsLot DEF LotInv

LEMMA CopyKeepsLot ==
    ASSUME LotInv, NEW r \in Requests, Copies(r) \/ Moves(r) PROVE LotInv'
<1>1. route[r] # NoWork /\ Present(r) /\ UNCHANGED <<captureVars, job, deleted>>
  BY DEF Copies, Moves, Does
<1>2. Slug(r) \in Slugs /\ IsCard(lot[Slug(r)], Slug(r))
  BY <1>1, CardsAtWork
<1>3. archive' = [archive EXCEPT ![Slug(r)] = lot[Slug(r)]]
  BY DEF Copies, Moves
<1>4. archive' \in [Slugs -> Card \cup {Gone}] /\ IsCard(archive'[Slug(r)], Slug(r)) /\ ArchiveGrows
  BY <1>2, <1>3 DEF LotInv, IsCard, ArchiveGrows
<1>5. PICK y : y = Onward(r) /\ Then(r, y)
  BY DEF Copies, Moves
<1>6. OnItsCard(y)'
  BY <1>1, <1>4, <1>5, GoesOnItsCard
<1>7. lot' = lot \/ lot' = [lot EXCEPT ![Slug(r)] = Gone]
  BY DEF Copies, Moves
<1>8. lot' \in [Slugs -> Card \cup {Gone}] /\ \A s \in Slugs : lot'[s] # Gone => IsCard(lot'[s], s)
  BY <1>2, <1>7 DEF LotInv
<1>9. \A s \in Slugs : s # Slug(r) => lot'[s] = lot[s]
  BY <1>7 DEF LotInv
<1>10. \A s \in Slugs : Under(s) # {} /\ Under(s) \cap deleted' = {} => IsCard(lot'[s], s) \/ IsCard(archive'[s], s)
  BY <1>1, <1>4, <1>9 DEF LotInv, OneIsKept, ArchiveGrows
<1> QED BY <1>1, <1>4, <1>5, <1>6, <1>8, <1>10, RouteKeepsLot

\* A card is dropped by a deletion, which is Leo's, or after it was copied.
LEMMA DropKeepsLot == ASSUME LotInv, NEW r \in Requests, Drops(r) PROVE LotInv'
<1>1. ArchiveGrows /\ UNCHANGED <<captureVars, archive, job>>
  BY DEF Drops, ArchiveGrows
<1>2. route[r] # NoWork /\ Head(route[r].todo) = "drop"
  BY DEF Drops, Does
<1>3. PICK y : y = Onward(r) /\ Then(r, y)
  BY DEF Drops
<1>4. OnItsCard(y)'
  BY <1>1, <1>2, <1>3, GoesOnItsCard
<1>5. Slug(r) \in Slugs /\ lot' = [lot EXCEPT ![Slug(r)] = Gone]
  BY <1>2, CardsAtWork DEF Drops
<1>6. /\ lot' \in [Slugs -> Card \cup {Gone}] /\ \A s \in Slugs : lot'[s] # Gone => IsCard(lot'[s], s)
      /\ \A s \in Slugs : s # Slug(r) => lot'[s] = lot[s]
  BY <1>5 DEF LotInv
<1>7. deleted \subseteq deleted'
  BY DEF Drops
<1>8. Under(Slug(r)) # {} /\ Under(Slug(r)) \cap deleted' = {} => IsCard(archive[Slug(r)], Slug(r))
  <2>1. CASE route[r].op = "delete"
    <3>1. Present(r) => lot[Slug(r)].text \in Under(Slug(r)) \cap deleted'
      BY <1>2, <2>1, CardsAtWork DEF Drops, IsCard
    <3>2. ~Present(r) => ~IsCard(lot[Slug(r)], Slug(r))
      BY CardsAreThere DEF Present, IsCard
    <3>3. OneIsKept(Slug(r))
      BY <1>5 DEF LotInv
    <3> QED BY <1>7, <3>1, <3>2, <3>3 DEF OneIsKept
  <2>2. CASE route[r].op = "routed" /\ Len(route[r].todo) = 1
    BY <1>2, <2>2 DEF LotInv, OnItsCard, Slug
  <2> QED BY <1>2, <2>1, <2>2, CardsAtWork, AtHead
<1>9. \A s \in Slugs : Under(s) # {} /\ Under(s) \cap deleted' = {} => IsCard(lot'[s], s) \/ IsCard(archive'[s], s)
  BY <1>1, <1>6, <1>7, <1>8 DEF LotInv, OneIsKept
<1>10. archive' \in [Slugs -> Card \cup {Gone}]
  BY <1>1 DEF LotInv
<1> QED BY <1>1, <1>3, <1>4, <1>6, <1>9, <1>10, RouteKeepsLot

LEMMA FailKeepsLot == ASSUME LotInv, NEW r \in Requests, RouteFails(r) PROVE LotInv'
<1>1. /\ ArchiveGrows /\ OnItsCard(NoWork)' /\ Then(r, NoWork)
      /\ UNCHANGED <<captureVars, lot, archive, job, deleted>>
  BY DEF RouteFails, ArchiveGrows, OnItsCard
<1> QED BY <1>1, RouteKeepsLot DEF LotInv, OneIsKept

\* What a capture, the jobs and the restarts leave: the archive, the requests and the names of
\* what is saved.
LEMMA LotKept ==
    ASSUME LotInv, NamesInv', archive' = archive, deleted' = deleted, saved \subseteq saved',
           \A t \in saved : slug'[t] = slug[t],
           route' = [r \in Requests |-> route'[r]],
           \A r \in Requests : route'[r] = route[r] \/ OnItsCard(route'[r]),
           job' = [t \in Cards |-> job'[t]], \A t \in Cards : JobOnItsCard(t, job[t])',
           lot' \in [Slugs -> Card \cup {Gone}],
           \A s \in Slugs : lot'[s] = lot[s] \/ IsCard(lot[s], s)',
           \A t \in saved' \ saved : IsCard(lot[slug[t]], slug[t])'
    PROVE  LotInv'
<1>1. \A s, c : IsCard(c, s) => IsCard(c, s)'
  BY DEF IsCard, Under
<1>2. ASSUME NEW r \in Requests PROVE OnItsCard(route[r])'
  <2>1. PICK w : w = route'[r]
    OBVIOUS
  <2>2. OnItsCard(w)
    BY <2>1 DEF LotInv
  <2>3. IsCard(archive[w.slug], w.slug) => IsCard(archive[w.slug], w.slug)'
    BY <1>1
  <2>4. w.text \in Under(w.slug) => w.text \in Under(w.slug)'
    BY DEF Under, LotInv, NamesInv
  <2>5. OnItsCard(w)'
    BY <2>2, <2>3, <2>4 DEF OnItsCard
  <2> QED BY <2>1, <2>5
<1>3. ASSUME NEW s \in Slugs PROVE (lot[s] # Gone => IsCard(lot[s], s))'
  BY <1>1 DEF LotInv
<1>4. ASSUME NEW s \in Slugs PROVE OneIsKept(s)'
  <2> SUFFICES ASSUME Under(s)' # {}, Under(s)' \cap deleted = {}
               PROVE  IsCard(lot[s], s)' \/ IsCard(archive[s], s)'
    BY DEF OneIsKept
  <2>1. CASE \E t \in saved' \ saved : slug'[t] = s
    BY <2>1
  <2>2. CASE \A t \in saved' \ saved : slug'[t] # s
    <3>1. Under(s)' = Under(s)
      BY <2>2 DEF Under
    <3>2. IsCard(lot[s], s) \/ IsCard(archive[s], s)
      BY <3>1 DEF LotInv, OneIsKept
    <3>3. lot'[s] = lot[s] \/ IsCard(lot[s], s)'
      OBVIOUS
    <3> QED BY <1>1, <3>2, <3>3
  <2> QED BY <2>1, <2>2
<1>5. archive' \in [Slugs -> Card \cup {Gone}]
  BY DEF LotInv
<1> QED BY <1>2, <1>3, <1>4, <1>5 DEF LotInv

LEMMA NamedKeepsLot == ASSUME LotInv, NEW t \in Cards, CaptureNamed(t) PROVE LotInv'
<1>1. PICK s \in Slugs : slug' = [u \in taken' |-> IF u = t THEN s ELSE slug[u]]
  BY DEF CaptureNamed
<1>2. t \notin taken /\ taken' = taken \cup {t}
  BY LotAssumption DEF CaptureNamed, Cards
<1>3. NamesInv' /\ \A u \in saved : slug'[u] = slug[u]
  BY <1>1, <1>2 DEF CaptureNamed, LotInv, NamesInv
<1>4. UNCHANGED <<saved, lot, archive, job, route, deleted>>
  BY DEF CaptureNamed
<1>5. \A u \in Cards : JobOnItsCard(u, job[u])'
  BY <1>3, <1>4 DEF LotInv, JobOnItsCard, IsCard, Under
<1> QED BY <1>3, <1>4, <1>5, LotKept DEF LotInv

LEMMA WrittenKeepsLot == ASSUME LotInv, NEW t \in Cards, CaptureWritten(t) PROVE LotInv'
<1>1. /\ t \in taken /\ slug[t] \in Slugs /\ saved' = saved \cup {t} /\ slug' = slug
      /\ UNCHANGED <<archive, route, deleted>>
  BY DEF CaptureWritten, LotInv, NamesInv
<1>2. PICK c : c = [text |-> t, words |-> TRUE, status |-> "new"]
  OBVIOUS
<1>3. c \in Card /\ IsCard(c, slug[t])'
  BY <1>1, <1>2 DEF IsCard, Card, Statuses, Under
<1>4. lot' = [lot EXCEPT ![slug[t]] = c]
  BY <1>2 DEF CaptureWritten
<1>5. /\ lot' \in [Slugs -> Card \cup {Gone}]
      /\ \A s \in Slugs : lot'[s] = IF s = slug[t] THEN c ELSE lot[s]
  BY <1>1, <1>3, <1>4 DEF LotInv
<1>6. \A s \in Slugs : lot'[s] = lot[s] \/ IsCard(lot[s], s)'
  BY <1>1, <1>3, <1>5 DEF IsCard
<1>7. \A u \in saved' \ saved : IsCard(lot[slug[u]], slug[u])'
  BY <1>1, <1>3, <1>5 DEF IsCard
<1>8. PICK j \in {[at |-> "model"], NoWork} : job' = [job EXCEPT ![t] = j]
  BY DEF CaptureWritten
<1>9. job' = [u \in Cards |-> job'[u]] /\ \A u \in Cards : job'[u] = IF u = t THEN j ELSE job[u]
  BY <1>8 DEF LotInv
<1>10. ASSUME NEW u \in Cards PROVE JobOnItsCard(u, job[u])'
  <2>1. CASE u = t
    BY <1>1, <1>8, <1>9, <2>1 DEF JobOnItsCard
  <2>2. CASE u # t
    <3>1. JobOnItsCard(u, job[u]) /\ job'[u] = job[u]
      BY <1>9, <2>2 DEF LotInv
    <3> QED BY <1>1, <3>1 DEF JobOnItsCard, IsCard, Under
  <2> QED BY <2>1, <2>2
<1>11. NamesInv'
  BY <1>1 DEF CaptureWritten, LotInv, NamesInv
<1> QED BY <1>1, <1>5, <1>6, <1>7, <1>9, <1>10, <1>11, LotKept DEF LotInv

\* A job is queued, reads its card, ends or dies.
LEMMA JobQueued ==
    ASSUME LotInv, NEW t \in Cards, NEW j, job' = [job EXCEPT ![t] = j], JobOnItsCard(t, j),
           UNCHANGED <<captureVars, lot, archive, route, deleted>>
    PROVE  LotInv'
<1>1. UNCHANGED <<taken, slug, unwritten, saved>>
  BY DEF captureVars
<1>2. job' = [u \in Cards |-> job'[u]] /\ \A u \in Cards : job'[u] = IF u = t THEN j ELSE job[u]
  BY DEF LotInv
<1>3. \A u \in Cards : JobOnItsCard(u, job[u])'
  BY <1>1, <1>2 DEF LotInv, JobOnItsCard, IsCard, Under
<1>4. NamesInv'
  BY <1>1 DEF LotInv, NamesInv
<1> QED BY <1>1, <1>2, <1>3, <1>4, LotKept DEF LotInv

LEMMA JobKeepsLot ==
    ASSUME LotInv, NEW t \in Cards, JobAgain(t) \/ JobReads(t) \/ JobWrites(t) PROVE LotInv'
<1>1. UNCHANGED <<taken, slug, unwritten, saved, archive, route, deleted>>
  BY DEF JobAgain, JobReads, JobWrites
<1>2. job[t] # NoWork => t \in saved
  BY DEF LotInv, JobOnItsCard
<1>3. t \in saved => slug[t] \in Slugs
  BY DEF LotInv, NamesInv
<1>4. ASSUME t \in saved, CardAt(t) # Gone, NEW words \in {CardAt(t).words, FALSE}
      PROVE  /\ JobOnItsCard(t, [at |-> "write", held |-> CardAt(t)])
             /\ JobOnItsCard(t, [at |-> "write", held |-> Summarized(CardAt(t), words)])
  <2>1. IsCard(CardAt(t), slug[t])
    BY <1>3, <1>4 DEF LotInv, CardAt
  <2>2. PICK c : c = Summarized(CardAt(t), words)
    OBVIOUS
  <2>3. IsCard(c, slug[t])
    BY <1>4, <2>1, <2>2 DEF Summarized, IsCard, Card
  <2> QED BY <1>4, <2>1, <2>2, <2>3 DEF JobOnItsCard, IsCard
<1>5. JobOnItsCard(t, NoWork) /\ (t \in saved => JobOnItsCard(t, [at |-> "model"]))
  BY DEF JobOnItsCard
<1>6. CASE JobAgain(t)
  BY <1>1, <1>4, <1>5, <1>6, JobQueued DEF JobAgain, captureVars
<1>7. CASE JobReads(t)
  <2>1. t \in saved
    BY <1>2, <1>7 DEF JobReads, NoWork
  <2> QED BY <1>1, <1>4, <1>5, <1>7, <2>1, JobQueued DEF JobReads, captureVars
<1>8. CASE JobWrites(t)
  <2>1. PICK c \in Card : t \in saved /\ IsCard(c, slug[t]) /\ job[t] = [at |-> "write", held |-> c]
    BY <1>8 DEF JobWrites, LotInv, JobOnItsCard, NoWork
  <2>2. lot' = [lot EXCEPT ![slug[t]] = c]
    BY <1>8, <2>1 DEF JobWrites
  <2>3. /\ lot' \in [Slugs -> Card \cup {Gone}]
        /\ \A s \in Slugs : lot'[s] = IF s = slug[t] THEN c ELSE lot[s]
    BY <1>3, <2>1, <2>2 DEF LotInv
  <2>4. \A s \in Slugs : lot'[s] = lot[s] \/ IsCard(lot[s], s)'
    BY <1>1, <2>1, <2>3 DEF IsCard, Under
  <2>5. job' = [u \in Cards |-> job'[u]] /\ \A u \in Cards : job'[u] = IF u = t THEN NoWork ELSE job[u]
    BY <1>8 DEF JobWrites, LotInv
  <2>6. \A u \in Cards : JobOnItsCard(u, job[u])'
    BY <1>1, <2>5 DEF LotInv, JobOnItsCard, IsCard, Under
  <2>7. NamesInv'
    BY <1>1 DEF LotInv, NamesInv
  <2> QED BY <1>1, <2>3, <2>4, <2>5, <2>6, <2>7, LotKept DEF LotInv
<1> QED BY <1>6, <1>7, <1>8

LEMMA WorkerRestartsKeepsLot == ASSUME LotInv, WorkerRestarts PROVE LotInv'
<1>1. UNCHANGED <<taken, slug, saved, lot, archive, deleted>> /\ unwritten' = {}
  BY DEF WorkerRestarts
<1>2. /\ job' = [t \in Cards |-> job'[t]] /\ \A t \in Cards : JobOnItsCard(t, job[t])'
      /\ route' = [r \in Requests |-> route'[r]] /\ \A r \in Requests : OnItsCard(route'[r])
  BY DEF WorkerRestarts, JobOnItsCard, OnItsCard
<1>3. NamesInv'
  BY <1>1 DEF LotInv, NamesInv
<1> QED BY <1>1, <1>2, <1>3, LotKept DEF LotInv

LEMMA RequestKeepsLot ==
    ASSUME LotInv, NEW r \in Requests, NEW s \in Slugs, NEW op \in Ops, Request(r, s, op)
    PROVE  LotInv'
<1>1. lot[s] # Gone /\ IsCard(lot[s], s)
  BY DEF Request, LotInv
<1>2. PICK w : w = [op |-> op, slug |-> s, text |-> lot[s].text, words |-> lot[s].words,
                    todo |-> Program(op)]
  OBVIOUS
<1>3. w \in RouteState /\ w.text \in Under(w.slug) /\ w.op = op /\ w.todo = Program(op)
  BY <1>1, <1>2, StartsWhole DEF RouteState, IsCard, Card
<1>4. EndOfProgram(w)
  <2>1. PICK p : p = Program(op)
    OBVIOUS
  <2>2. Len(p) \in Nat /\ Len(p) >= 1
    BY <2>1, StartsWhole
  <2>3. Len(p) \in 1..Len(p) /\ \A i \in 1..Len(p) : p[i] = p[Len(p) - Len(p) + i]
    BY <2>2
  <2> QED BY <1>3, <2>1, <2>3 DEF EndOfProgram
<1>5. OnItsCard(w)
  BY <1>3, <1>4, StartsWhole DEF OnItsCard
<1>6. route' = [route EXCEPT ![r] = w]
  BY <1>2 DEF Request
<1>7. /\ route' = [q \in Requests |-> route'[q]]
      /\ \A q \in Requests : route'[q] = route[q] \/ OnItsCard(route'[q])
  BY <1>5, <1>6 DEF LotInv
<1>8. UNCHANGED <<taken, slug, unwritten, saved, lot, archive, job, deleted>>
  BY DEF Request, captureVars
<1>9. NamesInv' /\ \A t \in Cards : JobOnItsCard(t, job[t])'
  BY <1>8 DEF LotInv, NamesInv, JobOnItsCard, IsCard, Under
<1> QED BY <1>7, <1>8, <1>9, LotKept DEF LotInv

LEMMA LotStays == LotInv /\ [LotNext]_lotVars => LotInv'
<1> SUFFICES ASSUME LotInv, [LotNext]_lotVars PROVE LotInv'
  OBVIOUS
<1>1. CASE UNCHANGED lotVars
  <2>1. UNCHANGED <<taken, slug, unwritten, saved, lot, archive, job, route, deleted>>
    BY <1>1 DEF lotVars, captureVars
  <2>2. NamesInv' /\ \A t \in Cards : JobOnItsCard(t, job[t])'
    BY <2>1 DEF LotInv, NamesInv, JobOnItsCard, IsCard, Under
  <2> QED BY <2>1, <2>2, LotKept DEF LotInv
<1>2. CASE LotNext
  BY <1>2, NamedKeepsLot, WrittenKeepsLot, JobKeepsLot, WorkerRestartsKeepsLot, RequestKeepsLot,
     ExitKeepsLot, ReadKeepsLot, WriteKeepsLot, CopyKeepsLot, DropKeepsLot, FailKeepsLot
     DEF LotNext, JobStep, RouteStep
<1> QED BY <1>1, <1>2

LEMMA LotStarts == LotInit => LotInv
BY DEF LotInit, LotInv, NamesInv, OneIsKept, Under, JobOnItsCard, OnItsCard

\* No rewrite, move, copy, failure or restart (parking_lot.py, routes/parking_lot.py) loses the
\* last card of a name under which Leo was told captures are saved and deleted none, for any
\* number of captures, names, requests and jobs at work together; a capture whose name no other
\* has is never lost.
THEOREM Saved == LotSpec => []SavedIsKept
<1>1. LotInv => SavedIsKept
  <2>1. \A s \in Slugs : \A c : IsCard(c, s) => IsUnder(c, s)
    BY CardsAreThere DEF IsCard, IsUnder
  <2> QED BY <2>1 DEF LotInv, OneIsKept, SavedIsKept
<1> QED BY <1>1, LotStarts, LotStays, PTL DEF LotSpec

\* A card that says it was handed on has its way out behind it, wherever the card is: in the
\* lot, in the archive, in the hands of a job.  A request past its first step has made it.
Handed(s) == \E t \in exits : t \in Under(s)
Honest(c, s) == c # Gone /\ c.status = "handed" => Handed(s)
PastExit(w) == w # NoWork /\ w.op = "handed" /\ Len(w.todo) # 4 => Handed(w.slug)

HandedInv ==
    /\ LotInv
    /\ \A s \in Slugs : Honest(lot[s], s) /\ Honest(archive[s], s)
    /\ \A t \in Cards : job[t].at = "write" => Honest(job[t].held, slug[t])
    /\ \A r \in Requests : PastExit(route[r])

\* The first step of handing a card on is its way out.
LEMMA ExitFirst ==
    ASSUME NEW w \in RouteState, EndOfProgram(w), w.op = "handed", Head(w.todo) # "exit"
    PROVE  Len(w.todo) # 4
<1> SUFFICES ASSUME Len(w.todo) = 4 PROVE FALSE
  OBVIOUS
<1>1. w.todo[1] = "exit"
  <2>1. Len(Program(w.op)) = 4 /\ Program(w.op)[1] = "exit"
    BY Programs
  <2>2. \A i \in 1..4 : w.todo[i] = Program(w.op)[4 - 4 + i]
    BY <2>1 DEF EndOfProgram
  <2>3. w.todo[1] = Program(w.op)[4 - 4 + 1]
    BY <2>2
  <2> QED BY <2>1, <2>3
<1>2. Head(w.todo) = w.todo[1]
  BY DEF RouteState
<1> QED BY <1>1, <1>2

\* Nothing is taken back, and what is new is honest.
LEMMA HandedKept ==
    ASSUME HandedInv, LotInv', exits \subseteq exits', saved \subseteq saved',
           \A t \in saved : slug'[t] = slug[t],
           \A s \in Slugs : lot'[s] = lot[s] \/ Honest(lot[s], s)',
           \A s \in Slugs : archive'[s] = archive[s] \/ Honest(archive[s], s)',
           \A t \in Cards : job'[t] = job[t] \/ (job[t].at = "write" => Honest(job[t].held, slug[t]))',
           \A r \in Requests : route'[r] = route[r] \/ PastExit(route[r])'
    PROVE  HandedInv'
<1>1. \A s : Handed(s) => Handed(s)'
  BY DEF Handed, Under
<1>2. \A s \in Slugs : Honest(lot[s], s)' /\ Honest(archive[s], s)'
  BY <1>1 DEF HandedInv, Honest
<1>3. ASSUME NEW t \in Cards PROVE (job[t].at = "write" => Honest(job[t].held, slug[t]))'
  <2>1. CASE job'[t] = job[t] /\ job[t].at = "write"
    <3>1. t \in saved
      BY <2>1 DEF HandedInv, LotInv, JobOnItsCard, NoWork
    <3> QED BY <1>1, <2>1, <3>1 DEF HandedInv, Honest
  <2> QED BY <2>1
<1>4. \A r \in Requests : PastExit(route[r])'
  BY <1>1 DEF HandedInv, PastExit
<1> QED BY <1>2, <1>3, <1>4 DEF HandedInv

\* A request takes a step that is not its way out: it goes on past it, or ends.
LEMMA GoesOnPastExit ==
    ASSUME HandedInv, NEW r \in Requests, route[r] # NoWork, Head(route[r].todo) # "exit",
           UNCHANGED <<captureVars, exits>>, NEW y, Then(r, y),
           y # NoWork => /\ Onward(r) # NoWork
                         /\ y.op = Onward(r).op /\ y.slug = Onward(r).slug
    PROVE  \A q \in Requests : route'[q] = route[q] \/ PastExit(route[q])'
<1>1. LotInv /\ PastExit(route[r])
  BY DEF HandedInv
<1>2. route[r].op = "handed" => Handed(route[r].slug)
  BY <1>1, CardsAtWork, ExitFirst DEF PastExit
<1>3. \A s : Handed(s) => Handed(s)'
  BY DEF Handed, Under, captureVars
<1>4. PastExit(y)'
  <2> SUFFICES ASSUME y # NoWork PROVE PastExit(y)'
    BY DEF PastExit
  <2>1. y.op = route[r].op /\ y.slug = route[r].slug
    BY <1>1, OnwardIsItsCard DEF LotInv
  <2> QED BY <1>2, <1>3, <2>1 DEF PastExit
<1>5. \A q \in Requests : route'[q] = IF q = r THEN y ELSE route[q]
  BY <1>1 DEF Then, LotInv
<1> QED BY <1>4, <1>5 DEF PastExit

LEMMA RouteKeepsHanded == ASSUME HandedInv, LotInv', NEW r \in Requests, RouteStep(r) PROVE HandedInv'
<1>1. LotInv
  BY DEF HandedInv
<1>2. route[r] # NoWork
  BY DEF RouteStep, MakesExit, RouteReads, RouteWrites, Moves, Copies, Drops, RouteFails, Does
<1>3. route[r] \in RouteState /\ Slug(r) \in Slugs /\ route[r].text \in Under(Slug(r)) /\ EndOfProgram(route[r])
  BY <1>1, <1>2, CardsAtWork
<1>4. \A s : Honest(Gone, s)'
  BY DEF Honest
<1>5. UNCHANGED captureVars /\ job' = job
  BY DEF RouteStep, MakesExit, RouteReads, RouteWrites, Moves, Copies, Drops, RouteFails
<1>6. UNCHANGED <<taken, slug, unwritten, saved>> /\ \A s : Handed(s) /\ exits' = exits => Handed(s)'
  BY <1>5 DEF captureVars, Handed, Under
<1>7. ASSUME exits' = exits, Head(route[r].todo) # "exit", NEW y, Then(r, y),
             y # NoWork => Onward(r) # NoWork /\ y.op = Onward(r).op /\ y.slug = Onward(r).slug,
             \A s \in Slugs : lot'[s] = lot[s] \/ Honest(lot[s], s)',
             \A s \in Slugs : archive'[s] = archive[s] \/ Honest(archive[s], s)'
      PROVE  HandedInv'
  <2>1. \A q \in Requests : route'[q] = route[q] \/ PastExit(route[q])'
    BY <1>2, <1>5, <1>7, GoesOnPastExit
  <2> QED BY <1>5, <1>6, <1>7, <2>1, HandedKept
<1>8. CASE MakesExit(r)
  <2>1. PICK y : /\ Then(r, y) /\ exits \subseteq exits'
                 /\ y # NoWork => y = Onward(r) /\ route[r].text \in exits'
    <3>1. CASE Then(r, NoWork) /\ exits' = exits
      BY <3>1
    <3>2. CASE Then(r, Onward(r)) /\ exits' = exits \cup {route[r].text}
      BY <3>2
    <3> QED BY <1>8, <3>1, <3>2 DEF MakesExit
  <2>2. PastExit(y)'
    <3> SUFFICES ASSUME y # NoWork PROVE Handed(y.slug)'
      BY DEF PastExit
    <3>1. y.slug = Slug(r)
      BY <1>1, <1>2, <2>1, OnwardIsItsCard DEF LotInv, Slug
    <3>2. PICK t : t = route[r].text
      OBVIOUS
    <3>3. t \in Under(y.slug)
      BY <1>3, <3>1, <3>2
    <3>4. t \in Under(y.slug)'
      BY <1>6, <3>3 DEF Under
    <3> QED BY <2>1, <3>2, <3>4 DEF Handed
  <2>3. \A q \in Requests : route'[q] = IF q = r THEN y ELSE route[q]
    BY <1>1, <2>1 DEF Then, LotInv
  <2>4. \A q \in Requests : route'[q] = route[q] \/ PastExit(route[q])'
    BY <2>2, <2>3 DEF PastExit
  <2>5. lot' = lot /\ archive' = archive
    BY <1>8 DEF MakesExit
  <2> QED BY <1>5, <1>6, <2>1, <2>4, <2>5, HandedKept
<1>9. CASE RouteReads(r)
  <2>1. Head(route[r].todo) = "read" /\ UNCHANGED <<lot, archive, exits>>
    BY <1>9 DEF RouteReads, Does
  <2>2. CASE ~Present(r)
    BY <1>7, <1>9, <2>1, <2>2 DEF RouteReads
  <2>3. CASE Present(r)
    <3>1. PICK y : y = Reread(r)
      OBVIOUS
    <3>2. Onward(r) # NoWork /\ y.op = Onward(r).op /\ y.slug = Slug(r)
      BY <1>1, <1>2, <2>1, <2>3, <3>1, RereadIsItsCard
    <3>3. Onward(r).slug = Slug(r)
      BY <1>1, <1>2, <3>2, OnwardIsItsCard DEF LotInv, Slug
    <3>4. Then(r, y)
      BY <1>9, <2>3, <3>1 DEF RouteReads
    <3> QED BY <1>7, <2>1, <3>2, <3>3, <3>4
  <2> QED BY <2>2, <2>3
<1>10. CASE RouteWrites(r)
  <2>1. PICK c : c = [text |-> route[r].text, words |-> route[r].words, status |-> StatusOf[route[r].op]]
    OBVIOUS
  <2>2. exits' = exits /\ archive' = archive /\ Then(r, Onward(r)) /\ Head(route[r].todo) = "write"
    BY <1>10 DEF RouteWrites, Does
  <2>3. PICK z : z = Slug(r)
    OBVIOUS
  <2>4. Honest(c, z)'
    <3> SUFFICES ASSUME StatusOf[route[r].op] = "handed" PROVE Handed(z)'
      BY <2>1 DEF Honest
    <3>1. route[r].op \in {"edit", "archive", "routed", "handed"}
      BY <1>3, <2>2, AtHead
    <3>2. route[r].op = "handed"
      BY <3>1 DEF StatusOf
    <3>3. Len(route[r].todo) # 4
      BY <1>3, <2>2, <3>2, ExitFirst
    <3>4. Handed(z)
      BY <1>2, <2>3, <3>2, <3>3 DEF HandedInv, PastExit, Slug
    <3> QED BY <1>6, <2>2, <3>4
  <2>5. lot' = [lot EXCEPT ![z] = c]
    BY <1>10, <2>1, <2>3 DEF RouteWrites
  <2>6. \A s \in Slugs : lot'[s] = IF s = z THEN c ELSE lot[s]
    BY <1>1, <1>3, <2>3, <2>5 DEF LotInv
  <2>7. \A s \in Slugs : lot'[s] = lot[s] \/ Honest(lot[s], s)'
    BY <2>4, <2>6 DEF Honest
  <2> QED BY <1>7, <2>2, <2>7
<1>11. CASE Moves(r) \/ Copies(r)
  <2>1. /\ exits' = exits /\ Then(r, Onward(r)) /\ Head(route[r].todo) # "exit"
        /\ archive' = [archive EXCEPT ![Slug(r)] = lot[Slug(r)]]
        /\ lot' = lot \/ lot' = [lot EXCEPT ![Slug(r)] = Gone]
    BY <1>11 DEF Moves, Copies, Does
  <2>2. Honest(lot[Slug(r)], Slug(r))
    BY <1>3 DEF HandedInv
  <2>3. \A s \in Slugs : archive'[s] = archive[s] \/ Honest(archive[s], s)'
    BY <1>1, <1>3, <1>6, <2>1, <2>2 DEF LotInv, Honest
  <2>4. \A s \in Slugs : lot'[s] = lot[s] \/ Honest(lot[s], s)'
    BY <1>1, <1>3, <2>1 DEF LotInv, Honest
  <2> QED BY <1>7, <2>1, <2>3, <2>4
<1>12. CASE Drops(r)
  <2>1. /\ exits' = exits /\ archive' = archive /\ Then(r, Onward(r)) /\ Head(route[r].todo) # "exit"
        /\ lot' = [lot EXCEPT ![Slug(r)] = Gone]
    BY <1>12 DEF Drops, Does
  <2>2. \A s \in Slugs : lot'[s] = lot[s] \/ Honest(lot[s], s)'
    BY <1>1, <1>3, <2>1 DEF LotInv, Honest
  <2> QED BY <1>7, <2>1, <2>2
<1>13. CASE RouteFails(r)
  <2>1. /\ UNCHANGED <<exits, lot, archive>> /\ Then(r, NoWork) /\ Head(route[r].todo) # "exit"
    BY <1>13 DEF RouteFails, Does
  <2> QED BY <1>7, <2>1
<1> QED BY <1>8, <1>9, <1>10, <1>11, <1>12, <1>13 DEF RouteStep

LEMMA NamedKeepsHanded == ASSUME HandedInv, LotInv', NEW t \in Cards, CaptureNamed(t) PROVE HandedInv'
<1>1. UNCHANGED <<saved, lot, archive, job, route, exits>> /\ saved \subseteq taken /\ t \notin taken
  BY LotAssumption DEF CaptureNamed, Cards, HandedInv, LotInv, NamesInv
<1>2. \A u \in saved : slug'[u] = slug[u]
  BY <1>1 DEF CaptureNamed
<1> QED BY <1>1, <1>2, HandedKept

LEMMA WrittenKeepsHanded == ASSUME HandedInv, LotInv', NEW t \in Cards, CaptureWritten(t) PROVE HandedInv'
<1>1. /\ UNCHANGED <<slug, archive, route, exits>> /\ saved \subseteq saved'
      /\ lot \in [Slugs -> Card \cup {Gone}] /\ job = [u \in Cards |-> job[u]]
  BY DEF CaptureWritten, HandedInv, LotInv
<1>2. PICK c : c.status = "new" /\ lot' = [lot EXCEPT ![slug[t]] = c]
  BY DEF CaptureWritten
<1>3. \A s \in Slugs : lot'[s] = lot[s] \/ Honest(lot[s], s)'
  BY <1>1, <1>2 DEF Honest
<1>4. PICK j \in {[at |-> "model"], NoWork} : job' = [job EXCEPT ![t] = j]
  BY DEF CaptureWritten
<1>5. j.at # "write" /\ \A u \in Cards : job'[u] = IF u = t THEN j ELSE job[u]
  BY <1>1, <1>4 DEF NoWork
<1> QED BY <1>1, <1>3, <1>5, HandedKept

LEMMA JobKeepsHanded ==
    ASSUME HandedInv, LotInv', NEW t \in Cards, JobAgain(t) \/ JobReads(t) \/ JobWrites(t)
    PROVE  HandedInv'
<1>1. /\ UNCHANGED <<taken, slug, unwritten, saved, archive, route, exits>>
      /\ lot \in [Slugs -> Card \cup {Gone}] /\ job = [u \in Cards |-> job[u]]
  BY DEF JobAgain, JobReads, JobWrites, HandedInv, LotInv
<1>2. \A s, c : Honest(c, s) => Honest(c, s)'
  BY <1>1 DEF Honest, Handed, Under
<1>3. job[t] # NoWork => t \in saved
  BY DEF HandedInv, LotInv, JobOnItsCard
<1>4. t \in saved => slug[t] \in Slugs
  BY DEF HandedInv, LotInv, NamesInv
<1>5. t \in saved => Honest(CardAt(t), slug[t])
  BY <1>4 DEF HandedInv, CardAt
<1>6. ASSUME lot' = lot, NEW j, job' = [job EXCEPT ![t] = j], j.at = "write" => Honest(j.held, slug[t])
      PROVE  HandedInv'
  <2>1. \A u \in Cards : job'[u] = IF u = t THEN j ELSE job[u]
    BY <1>1, <1>6
  <2>2. \A u \in Cards : job'[u] = job[u] \/ (job[u].at = "write" => Honest(job[u].held, slug[u]))'
    BY <1>1, <1>2, <1>6, <2>1 DEF Honest
  <2> QED BY <1>1, <1>6, <2>2, HandedKept
<1>7. CASE JobAgain(t)
  <2>1. PICK j \in {[at |-> "model"], [at |-> "write", held |-> CardAt(t)]} : job' = [job EXCEPT ![t] = j]
    BY <1>7 DEF JobAgain
  <2>2. j.at = "write" => j.held = CardAt(t)
    BY <2>1
  <2>3. lot' = lot /\ t \in saved
    BY <1>7 DEF JobAgain
  <2> QED BY <1>5, <1>6, <2>1, <2>2, <2>3
<1>8. CASE JobReads(t)
  <2>1. lot' = lot /\ t \in saved
    BY <1>3, <1>8 DEF JobReads, NoWork
  <2>2. CASE job' = [job EXCEPT ![t] = NoWork]
    BY <1>6, <2>1, <2>2 DEF NoWork
  <2>3. CASE CardAt(t) # Gone
    <3>1. CardAt(t) \in Card
      BY <1>1, <1>4, <2>1, <2>3 DEF CardAt
    <3>2. CASE job' # [job EXCEPT ![t] = NoWork]
      <4>1. PICK words : job' = [job EXCEPT ![t] = [at |-> "write", held |-> Summarized(CardAt(t), words)]]
        BY <1>8, <3>2 DEF JobReads
      <4>2. PICK c : c = Summarized(CardAt(t), words)
        OBVIOUS
      <4>3. c.status = CardAt(t).status
        BY <3>1, <4>2 DEF Summarized, Card
      <4>4. Honest(c, slug[t])
        BY <1>5, <2>1, <2>3, <4>3 DEF Honest
      <4>5. PICK j : j = [at |-> "write", held |-> c]
        OBVIOUS
      <4>6. job' = [job EXCEPT ![t] = j] /\ j.held = c
        BY <4>1, <4>2, <4>5
      <4> QED BY <1>6, <2>1, <4>4, <4>6
    <3> QED BY <2>2, <3>2
  <2> QED BY <1>8, <2>2, <2>3 DEF JobReads
<1>9. CASE JobWrites(t)
  <2>1. PICK c : /\ job[t].at = "write" /\ c = job[t].held /\ lot' = [lot EXCEPT ![slug[t]] = c]
                 /\ job' = [job EXCEPT ![t] = NoWork]
    BY <1>9 DEF JobWrites
  <2>2. Honest(c, slug[t])'
    BY <1>1, <1>2, <2>1 DEF HandedInv, Honest
  <2>3. \A s \in Slugs : lot'[s] = IF s = slug[t] THEN c ELSE lot[s]
    BY <1>1, <2>1
  <2>4. \A s \in Slugs : lot'[s] = lot[s] \/ Honest(lot[s], s)'
    BY <1>1, <2>2, <2>3 DEF Honest
  <2>5. \A u \in Cards : job'[u] = job[u] \/ (job[u].at = "write" => Honest(job[u].held, slug[u]))'
    BY <1>1, <2>1 DEF NoWork
  <2> QED BY <1>1, <2>4, <2>5, HandedKept
<1> QED BY <1>7, <1>8, <1>9

\* Where a card is archived as handed on, a capture of its name was handed on first
\* (parking_lot_triage): a failed call, a restart, another request for it, a late rewrite or a
\* name that is used again never leaves it in the archive without a task, inbox file or project.
THEOREM HandedFirst == LotSpec => []HandedOnFirst
<1>1. LotInit => HandedInv
  BY LotStarts DEF LotInit, HandedInv, Honest, PastExit, NoWork
<1>2. HandedInv => HandedOnFirst
  BY DEF HandedInv, Honest, Handed, HandedOnFirst
<1>3. HandedInv /\ [LotNext]_lotVars => HandedInv'
  <2> SUFFICES ASSUME HandedInv, [LotNext]_lotVars PROVE HandedInv'
    OBVIOUS
  <2>1. LotInv'
    BY LotStays DEF HandedInv
  <2>2. CASE UNCHANGED lotVars
    BY <2>1, <2>2, HandedKept DEF lotVars, captureVars
  <2>3. CASE WorkerRestarts
    BY <2>1, <2>3, HandedKept DEF WorkerRestarts, NoWork, PastExit
  <2>4. ASSUME NEW t \in Cards, JobAgain(t) \/ JobReads(t) \/ JobWrites(t) PROVE HandedInv'
    BY <2>1, <2>4, JobKeepsHanded
  <2>5. ASSUME NEW r \in Requests, RouteStep(r) PROVE HandedInv'
    BY <2>1, <2>5, RouteKeepsHanded
  <2>6. ASSUME NEW r \in Requests, NEW s \in Slugs, NEW op \in Ops, Request(r, s, op) PROVE HandedInv'
    <3>1. PICK w : /\ w.op = op /\ w.todo = Program(op) /\ route' = [route EXCEPT ![r] = w]
      BY <2>6 DEF Request
    <3>2. PastExit(w)'
      BY <3>1, Programs DEF PastExit
    <3>3. \A q \in Requests : route'[q] = IF q = r THEN w ELSE route[q]
      BY <3>1 DEF HandedInv, LotInv
    <3>4. \A q \in Requests : route'[q] = route[q] \/ PastExit(route[q])'
      BY <3>2, <3>3 DEF PastExit
    <3>5. UNCHANGED <<slug, saved, lot, archive, job, exits>>
      BY <2>6 DEF Request, captureVars
    <3> QED BY <2>1, <3>4, <3>5, HandedKept
  <2> QED BY <2>1, <2>2, <2>3, <2>4, <2>5, <2>6, NamedKeepsHanded, WrittenKeepsHanded DEF LotNext, JobStep
<1> QED BY <1>1, <1>2, <1>3, PTL DEF LotSpec

-----------------------------------------------------------------------------
(* Publishing a homepage.  One job of a kind is live at a time under one     *)
(* name of the site, so nobody but a job on another name changes the         *)
(* homepage between its check and the write, however many steps, retries,    *)
(* gates, overrides and restarts lie between.                                *)

\* The steps that matter, by number: the check is the one before the write.
LEMMA PublishSteps ==
    /\ Len(Steps("publish")) = 14
    /\ \A n \in 1..14 : /\ (Steps("publish")[n] = "complete" <=> n = 14)
                        /\ (Steps("publish")[n] = "precheck_homepage_overwrite" <=> n = 8)
                        /\ (Steps("publish")[n] = "set_as_homepage" <=> n = 9)
                        /\ (Steps("publish")[n] = "create_page_draft" <=> n = 6)
                        /\ Steps("publish")[n] # "update_page_draft"
<1>1. /\ Len(Steps("publish")) = 14
      /\ \A n \in 1..14 : Steps("publish")[n] =
           <<"load_site_config", "check_credentials", "load_brief", "dev_gate", "creative_brief",
             "create_page_draft", "disable_coming_soon", "precheck_homepage_overwrite",
             "set_as_homepage", "publish_page", "purge_cache", "verify_live", "devops_review", "complete">>[n]
    BY DEF Steps, Approvals
<1>. QED BY <1>1

LEMMA OtherSteps ==
    /\ Len(Steps("build")) = 8 /\ Len(Steps("edit")) = 7
    /\ \A n \in 1..8 : /\ (Steps("build")[n] = "complete" <=> n = 8)
                       /\ Steps("build")[n] \notin {"precheck_homepage_overwrite", "set_as_homepage", "update_page_draft"}
    /\ \A n \in 1..7 : /\ (Steps("edit")[n] = "complete" <=> n = 7)
                       /\ Steps("edit")[n] \notin {"precheck_homepage_overwrite", "set_as_homepage"}
<1>1. /\ Len(Steps("build")) = 8
      /\ \A n \in 1..8 : Steps("build")[n] =
           <<"load_site_config", "check_credentials", "load_brief", "dev_gate", "creative_brief",
             "generate_page", "create_page_draft", "complete">>[n]
    BY DEF Steps, Approvals
<1>2. /\ Len(Steps("edit")) = 7
      /\ \A n \in 1..7 : Steps("edit")[n] =
           <<"load_site_config", "check_credentials", "load_brief", "dev_gate", "creative_brief",
             "update_page_draft", "complete">>[n]
    BY DEF Steps, Approvals
<1>. QED BY <1>1, <1>2

Over(j) == mode[j] \in {"new", "succeeded", "failed"}
Asked == {"dev_gate", "creative_gate", "devops_gate", "homepage_overwrite"}

JobTypes ==
    /\ kind \in [Jobs -> {"publish", "build", "edit"}] /\ site \in [Jobs -> Spellings]
    /\ page_id \in [Jobs -> Pages \cup {NoPage}]
    /\ at \in [Jobs -> Nat] /\ retry_count \in [Jobs -> Nat]
    /\ mode \in [Jobs -> {"new", "ready", "writing", "parked", "succeeded", "failed"} \cup Asked]
    /\ id \in [Jobs -> Pages \cup {NoPage}] /\ page_on_front \in [Jobs -> Pages \cup {NoPage}]
    /\ show_on_front \in Pages \cup {NoPage}

\* A live job is at one of its steps; a gate, a write under way or a step that raised is never
\* its last, and the check does not raise.
AtStep(j) ==
    /\ ~Over(j) => at[j] \in 1..Len(Steps(kind[j]))
    /\ Waits(j) \/ mode[j] = "writing" => Step(j) # "complete"
    /\ mode[j] = "writing" => kind[j] = "edit"
    /\ mode[j] = "new" => at[j] = 0
    /\ mode[j] = "parked" => Step(j) \notin {"complete", "precheck_homepage_overwrite"}

\* The check of the homepage was passed, or a person is asked about what it found.
Checked(j) == kind[j] = "publish" /\ ~Over(j) /\ (at[j] = 9 \/ (at[j] = 8 /\ Waits(j)))
\* The homepage is the page of a job that names the site differently.
OtherName(j) == \E i \in Jobs : site[i] # site[j] /\ kind[i] = "publish" /\ at[i] >= 9 /\ show_on_front = id[i]
Expected(j) == show_on_front \in {NoPage, expected[j], page_on_front[j], id[j]} \/ OtherName(j)

\* One live job of a kind and a name; what it checked is what is there, or another name's page.
PublishInv ==
    /\ JobTypes
    /\ \A i, j \in Jobs : SameBuild(i, j) /\ ~Over(i) /\ ~Over(j) => i = j
    /\ \A j \in Jobs : AtStep(j) /\ (Checked(j) => Expected(j))

\* A live job knows from its step where it is.
LEMMA StepTells ==
    ASSUME JobTypes, NEW j \in Jobs, at[j] \in 1..Len(Steps(kind[j]))
    PROVE  /\ Len(Steps(kind[j])) \in Nat /\ (Step(j) # "complete" => at[j] # Len(Steps(kind[j])))
           /\ kind[j] = "publish" =>
                                    /\ (at[j] = 8 <=> Step(j) = "precheck_homepage_overwrite")
                                    /\ (at[j] = 9 <=> Step(j) = "set_as_homepage")
                                    /\ (at[j] = 6 <=> Step(j) = "create_page_draft")
                                    /\ Step(j) # "update_page_draft"
           /\ Step(j) \in {"precheck_homepage_overwrite", "set_as_homepage"} => kind[j] = "publish"
           /\ Step(j) = "update_page_draft" => kind[j] = "edit"
<1>1. CASE kind[j] = "publish"
    <2>1. Len(Steps(kind[j])) = 14 /\ at[j] \in 1..14 /\ Step(j) = Steps("publish")[at[j]]
        BY <1>1, PublishSteps DEF Step
    <2>2. /\ (Step(j) = "complete" <=> at[j] = 14)
          /\ (Step(j) = "precheck_homepage_overwrite" <=> at[j] = 8)
          /\ (Step(j) = "set_as_homepage" <=> at[j] = 9)
          /\ (Step(j) = "create_page_draft" <=> at[j] = 6)
          /\ Step(j) # "update_page_draft"
        BY <2>1, PublishSteps
    <2>3. Len(Steps(kind[j])) \in Nat /\ (Step(j) # "complete" => at[j] # Len(Steps(kind[j])))
        BY <2>1, <2>2
    <2>. QED BY <1>1, <2>2, <2>3, Zenon
<1>2. CASE kind[j] = "build"
    <2>1. Len(Steps(kind[j])) = 8 /\ at[j] \in 1..8 /\ Step(j) = Steps("build")[at[j]]
        BY <1>2, OtherSteps DEF Step
    <2>2. /\ (Step(j) = "complete" <=> at[j] = 8)
          /\ Step(j) \notin {"precheck_homepage_overwrite", "set_as_homepage"}
          /\ Step(j) # "update_page_draft" /\ kind[j] # "publish"
        BY <1>2, <2>1, OtherSteps
    <2>3. Len(Steps(kind[j])) \in Nat /\ (Step(j) # "complete" => at[j] # Len(Steps(kind[j])))
        BY <2>1, <2>2
    <2>. QED BY <2>2, <2>3, Zenon
<1>3. CASE kind[j] = "edit"
    <2>1. Len(Steps(kind[j])) = 7 /\ at[j] \in 1..7 /\ Step(j) = Steps("edit")[at[j]]
        BY <1>3, OtherSteps DEF Step
    <2>2. /\ (Step(j) = "complete" <=> at[j] = 7)
          /\ Step(j) \notin {"precheck_homepage_overwrite", "set_as_homepage"} /\ kind[j] # "publish"
        BY <1>3, <2>1, OtherSteps
    <2>3. Len(Steps(kind[j])) \in Nat /\ (Step(j) # "complete" => at[j] # Len(Steps(kind[j])))
        BY <2>1, <2>2
    <2>. QED BY <1>3, <2>2, <2>3, Zenon
<1>. QED BY <1>1, <1>2, <1>3 DEF JobTypes

\* A job that names the site differently keeps its page on the front.
LEMMA OtherNameStays ==
    ASSUME NEW j \in Jobs, kind' = kind, site' = site, show_on_front' = show_on_front,
           \A i \in Jobs \ {j} : at'[i] = at[i] /\ id'[i] = id[i],
           OtherName(j)
    PROVE  OtherName(j)'
<1>1. PICK i \in Jobs : site[i] # site[j] /\ kind[i] = "publish" /\ at[i] >= 9 /\ show_on_front = id[i]
    BY DEF OtherName
<1>. QED BY <1>1 DEF OtherName

\* What one job does leaves the others' checks as they are.
LEMMA OneMoves ==
    ASSUME PublishInv, JobTypes', NEW j \in Jobs, kind' = kind, site' = site, expected' = expected,
           \A i \in Jobs \ {j} : /\ at'[i] = at[i] /\ mode'[i] = mode[i]
                                 /\ id'[i] = id[i] /\ page_on_front'[i] = page_on_front[i],
           Over(j)' \/ \A i \in Jobs \ {j} : SameBuild(i, j) => Over(i),
           \/ show_on_front' = show_on_front
           \/ kind[j] = "publish" /\ ~Over(j) /\ at'[j] >= 9 /\ show_on_front' = id'[j],
           kind[j] = "publish" /\ at[j] >= 9 => at'[j] >= 9 /\ id'[j] = id[j],
           AtStep(j)', Checked(j)' => Expected(j)'
    PROVE  PublishInv'
<1>1. ASSUME NEW i \in Jobs \ {j} PROVE AtStep(i)' /\ (Checked(i)' => Expected(i)')
    <2>1. AtStep(i)'
        BY <1>1 DEF PublishInv, AtStep, Over, Waits, Step
    <2>2. Checked(i)' => Checked(i) /\ Expected(i)
        BY <1>1 DEF PublishInv, Checked, Over, Waits
    <2>3. CASE show_on_front' = show_on_front
        <3>1. CASE show_on_front \in {NoPage, expected[i], page_on_front[i], id[i]}
            BY <1>1, <2>1, <2>3, <3>1 DEF Expected
        <3>2. CASE OtherName(i)
            <4>1. PICK h \in Jobs : site[h] # site[i] /\ kind[h] = "publish" /\ at[h] >= 9 /\ show_on_front = id[h]
                BY <3>2 DEF OtherName
            <4>2. at'[h] >= 9 /\ id'[h] = id[h]
                BY <4>1
            <4>3. OtherName(i)'
                BY <2>3, <4>1, <4>2 DEF OtherName
            <4>. QED BY <2>1, <4>3 DEF Expected
        <3>. QED BY <2>1, <2>2, <3>1, <3>2 DEF Expected
    <2>4. CASE kind[j] = "publish" /\ ~Over(j) /\ at'[j] >= 9 /\ show_on_front' = id'[j]
        <3>1. Checked(i) => site[j] # site[i]
            BY <1>1, <2>4 DEF PublishInv, Checked, SameBuild
        <3>2. site[j] # site[i] => OtherName(i)'
            BY <2>4 DEF OtherName
        <3>. QED BY <2>1, <2>2, <3>1, <3>2 DEF Expected
    <2>. QED BY <2>1, <2>3, <2>4
<1>2. ASSUME NEW h \in Jobs, NEW i \in Jobs, SameBuild(h, i)', ~Over(h)', ~Over(i)' PROVE h = i
    <2>1. \A g \in Jobs \ {j} : Over(g)' <=> Over(g)
        BY DEF Over
    <2>. QED BY <1>2, <2>1 DEF PublishInv, SameBuild
<1>. QED BY <1>1, <1>2 DEF PublishInv

\* A step that is run and succeeds, fails or raises.
LEMMA StepMoves ==
    ASSUME PublishInv, NEW j \in Jobs, mode[j] = "ready",
           Step(j) \notin {"complete", "precheck_homepage_overwrite"},
           Succeeds(j) \/ Fails(j) \/ Raises(j),
           UNCHANGED <<jobVars, page_on_front>>, id' \in [Jobs -> Pages \cup {NoPage}],
           \A i \in Jobs \ {j} : id'[i] = id[i],
           id' = id \/ Step(j) = "create_page_draft",
           \/ show_on_front' = show_on_front
           \/ show_on_front' = id[j] /\ id' = id /\ Step(j) = "set_as_homepage"
    PROVE  PublishInv'
<1>1. /\ JobTypes /\ AtStep(j) /\ (Checked(j) => Expected(j)) /\ ~Over(j)
      /\ \A i \in Jobs \ {j} : SameBuild(i, j) => Over(i)
    BY DEF PublishInv, Over, SameBuild
<1>2. /\ at[j] \in 1..Len(Steps(kind[j])) /\ at[j] # Len(Steps(kind[j]))
      /\ kind[j] = "publish" => /\ at[j] # 8 /\ (at[j] = 9 <=> Step(j) = "set_as_homepage")
                                /\ (at[j] >= 9 => id' = id)
      /\ Step(j) = "set_as_homepage" => kind[j] = "publish"
      /\ Len(Steps(kind[j])) \in Nat
    BY <1>1, StepTells DEF AtStep
<1>3. /\ kind' = kind /\ site' = site /\ expected' = expected /\ page_on_front' = page_on_front /\ page_id' = page_id
    BY DEF jobVars
<1>4. /\ at' \in [Jobs -> Nat] /\ retry_count' \in [Jobs -> Nat]
      /\ mode' \in [Jobs -> {"new", "ready", "writing", "parked", "succeeded", "failed"} \cup Asked]
      /\ \A i \in Jobs \ {j} : at'[i] = at[i] /\ mode'[i] = mode[i]
      /\ \/ at'[j] = at[j] + 1 /\ mode'[j] = "ready"
         \/ at'[j] = at[j] /\ mode'[j] \in {"ready", "failed", "parked"}
    BY <1>1 DEF JobTypes, Succeeds, Fails, Raises
<1>5. JobTypes'
    BY <1>1, <1>3, <1>4 DEF JobTypes
<1>6. AtStep(j)'
    BY <1>2, <1>3, <1>4 DEF AtStep, Over, Waits, Step
<1>7. Checked(j)' => Expected(j)'
    <2>1. Checked(j)' => kind[j] = "publish" /\ at'[j] = 9
        BY <1>3, <1>4 DEF Checked, Waits
    <2>2. kind[j] = "publish" /\ at'[j] = 9 => at[j] = 9
        BY <1>1, <1>2, <1>4 DEF JobTypes
    <2>3. kind[j] = "publish" /\ at[j] = 9 => Checked(j) /\ Step(j) = "set_as_homepage"
        BY <1>1, <1>2 DEF Checked
    <2>4. CASE show_on_front' = show_on_front
        BY <1>1, <1>3, <1>4, <2>1, <2>2, <2>3, <2>4, OtherNameStays DEF Expected
    <2>5. CASE show_on_front' = id[j] /\ id' = id
        BY <2>5 DEF Expected
    <2>. QED BY <2>4, <2>5
<1>8. kind[j] = "publish" /\ at[j] >= 9 => at'[j] >= 9 /\ id'[j] = id[j]
    BY <1>1, <1>2, <1>4 DEF JobTypes
<1>9. \/ show_on_front' = show_on_front
      \/ kind[j] = "publish" /\ ~Over(j) /\ at'[j] >= 9 /\ show_on_front' = id'[j]
    BY <1>1, <1>2, <1>4 DEF JobTypes
<1>. QED BY <1>1, <1>3, <1>4, <1>5, <1>6, <1>7, <1>8, <1>9, OneMoves

\* The steps that no person answers and that check nothing.
LEMMA PlainRuns ==
    ASSUME PublishInv, NEW j \in Jobs,
           \/ Prepare(j) \/ CreatePage(j) \/ DisableComingSoon(j) \/ SetHomepage(j)
           \/ Publish(j) \/ PurgeCache(j) \/ VerifyLive(j)
    PROVE  PublishInv'
<1>1. JobTypes
    BY DEF PublishInv
<1>2. CASE Prepare(j) \/ PurgeCache(j) \/ VerifyLive(j)
    BY <1>1, <1>2, StepMoves DEF Prepare, PurgeCache, VerifyLive, Ready, siteVars, JobTypes
<1>3. CASE CreatePage(j)
    <2>1. Fresh \subseteq Pages
        BY DEF Fresh, Unused
    <2>2. /\ id' \in [Jobs -> Pages \cup {NoPage}] /\ \A i \in Jobs \ {j} : id'[i] = id[i]
          /\ Succeeds(j) \/ Fails(j) \/ Raises(j)
          /\ show_on_front' = show_on_front
        BY <1>1, <1>3, <2>1 DEF CreatePage, NotWritten, WrittenUnseen, siteVars, JobTypes
    <2>. QED BY <1>3, <2>2, StepMoves DEF CreatePage, Ready
<1>4. CASE DisableComingSoon(j) \/ Publish(j)
    BY <1>1, <1>4, StepMoves DEF DisableComingSoon, Publish, NotWritten, WrittenUnseen, Ready, siteVars, JobTypes
<1>5. CASE SetHomepage(j)
    BY <1>1, <1>5, StepMoves DEF SetHomepage, NotWritten, WrittenUnseen, Ready, ContextId, siteVars, JobTypes
<1>. QED BY <1>2, <1>3, <1>4, <1>5

\* The check takes down what is there before it passes or asks.
LEMMA PrecheckKeeps == ASSUME PublishInv, NEW j \in Jobs, Precheck(j) PROVE PublishInv'
<1>1. /\ JobTypes /\ AtStep(j) /\ ~Over(j) /\ mode[j] = "ready" /\ Step(j) = "precheck_homepage_overwrite"
      /\ \A i \in Jobs \ {j} : SameBuild(i, j) => Over(i)
      /\ UNCHANGED <<kind, site, expected, page_id, id, show_on_front>>
    BY DEF PublishInv, Over, SameBuild, Precheck, Ready, jobVars, siteVars
<1>2. kind[j] = "publish" /\ at[j] = 8 /\ Len(Steps(kind[j])) = 14
    BY <1>1, StepTells, PublishSteps DEF AtStep
<1>3. CASE Fails(j) /\ UNCHANGED page_on_front
    <2>1. /\ JobTypes' /\ at'[j] = 8 /\ mode'[j] \in {"ready", "failed"}
          /\ \A i \in Jobs \ {j} : at'[i] = at[i] /\ mode'[i] = mode[i]
        BY <1>1, <1>2, <1>3 DEF JobTypes, Fails
    <2>2. AtStep(j)' /\ ~Checked(j)'
        BY <1>1, <1>2, <2>1 DEF AtStep, Checked, Over, Waits
    <2>. QED BY <1>1, <1>2, <1>3, <2>1, <2>2, OneMoves
<1>4. CASE ~(Fails(j) /\ UNCHANGED page_on_front)
    <2>1. /\ page_on_front' = [page_on_front EXCEPT ![j] = show_on_front]
          /\ \/ Succeeds(j)
             \/ mode' = [mode EXCEPT ![j] = "homepage_overwrite"] /\ UNCHANGED <<at, retry_count>>
        BY <1>1, <1>4 DEF Precheck, gate_type_map
    <2>2. /\ JobTypes'
          /\ \/ at'[j] = 9 /\ mode'[j] = "ready"
             \/ at'[j] = 8 /\ mode'[j] = "homepage_overwrite"
          /\ page_on_front'[j] = show_on_front
          /\ \A i \in Jobs \ {j} : /\ at'[i] = at[i] /\ mode'[i] = mode[i]
                                  /\ page_on_front'[i] = page_on_front[i]
        BY <1>1, <1>2, <2>1 DEF JobTypes, Succeeds, Asked
    <2>3. AtStep(j)'
        BY <1>1, <1>2, <2>2, PublishSteps DEF AtStep, Over, Waits, Step
    <2>4. Expected(j)'
        BY <1>1, <2>2 DEF Expected
    <2>. QED BY <1>1, <1>2, <2>2, <2>3, <2>4, OneMoves
<1>. QED BY <1>3, <1>4

\* A person is asked, or answers, or vouches for a step; a page is edited; a job ends.
LEMMA AskedKeeps ==
    ASSUME PublishInv, NEW j \in Jobs,
           RunGate(j) \/ GateAnswered(j) \/ Override(j) \/ Complete(j) \/ UpdateReads(j) \/ UpdateWrites(j)
    PROVE  PublishInv'
<1>1. /\ JobTypes /\ AtStep(j) /\ (Checked(j) => Expected(j)) /\ ~Over(j)
      /\ \A i \in Jobs \ {j} : SameBuild(i, j) => Over(i)
      /\ UNCHANGED <<kind, site, expected, page_id, page_on_front, show_on_front>>
    BY DEF PublishInv, Over, SameBuild, RunGate, GateAnswered, Override, Complete, UpdateReads, UpdateWrites, Ready, Waits,
           NotWritten, WrittenUnseen, jobVars, siteVars
<1>2. /\ at[j] \in 1..Len(Steps(kind[j])) /\ Len(Steps(kind[j])) \in Nat
      /\ Step(j) # "complete" => at[j] + 1 \in 1..Len(Steps(kind[j]))
    BY <1>1, StepTells DEF AtStep
<1>0. id' = id => (Expected(j) /\ (\A i \in Jobs \ {j} : at'[i] = at[i]) => Expected(j)')
    BY <1>1, OtherNameStays DEF Expected
<1>3. CASE RunGate(j)
    <2>1. /\ Step(j) \in {"dev_gate", "creative_brief", "devops_review"} /\ mode[j] = "ready"
          /\ id' = id
        BY <1>3 DEF RunGate
    <2>2. CASE Fails(j)
        BY <1>1, <2>1, <2>2, <1>3, StepMoves DEF RunGate, siteVars, JobTypes
    <2>3. CASE mode' = [mode EXCEPT ![j] = gate_type_map(Step(j))] /\ UNCHANGED <<at, retry_count>>
        <3>1. gate_type_map(Step(j)) \in Asked
            BY <2>1 DEF gate_type_map, Asked
        <3>2. /\ JobTypes' /\ mode'[j] \in Asked /\ at'[j] = at[j]
              /\ \A i \in Jobs \ {j} : mode'[i] = mode[i]
            BY <1>1, <2>1, <2>3, <3>1 DEF JobTypes
        <3>3. AtStep(j)'
            BY <1>1, <1>2, <2>1, <3>2 DEF AtStep, Step, Asked
        <3>4. kind[j] = "publish" => at[j] \notin {8, 9}
            BY <1>1, <1>2, <2>1, StepTells
        <3>5. ~Checked(j)'
            BY <1>1, <3>2, <3>4 DEF Checked
        <3>. QED BY <1>1, <2>1, <2>3, <3>2, <3>3, <3>5, OneMoves
    <2>. QED BY <1>3, <2>2, <2>3 DEF RunGate
<1>4. CASE GateAnswered(j) \/ Override(j)
    <2>1. /\ Waits(j) \/ mode[j] = "parked"
          /\ kind[j] \in {"publish", "build", "edit"}
          /\ Step(j) # "complete" /\ (mode[j] = "parked" => Step(j) # "precheck_homepage_overwrite") /\ id' = id
        BY <1>1, <1>4 DEF GateAnswered, Override, AtStep, JobTypes
    <2>2. /\ JobTypes' /\ \A i \in Jobs \ {j} : at'[i] = at[i] /\ mode'[i] = mode[i]
          /\ \/ at'[j] = at[j] + 1 /\ mode'[j] = "ready"
             \/ at'[j] = at[j] /\ mode'[j] = "failed"
        BY <1>1, <1>4, <2>1 DEF GateAnswered, Override, JobTypes
    <2>3. AtStep(j)'
        BY <1>1, <1>2, <2>1, <2>2 DEF AtStep, Over, Waits
    <2>4. Checked(j)' => Checked(j)
        <3>1. kind[j] = "publish" /\ at[j] = 8 => Waits(j)
            BY <1>1, <1>2, <2>1, StepTells
        <3>. QED BY <1>1, <1>2, <2>1, <2>2, <3>1 DEF Checked, Over, Waits, JobTypes
    <2>5. Checked(j)' => Expected(j)'
        BY <1>0, <1>1, <2>1, <2>2, <2>4
    <2>6. kind[j] = "publish" /\ at[j] >= 9 => at'[j] >= 9 /\ id'[j] = id[j]
        BY <1>2, <2>1, <2>2
    <2>. QED BY <1>1, <2>1, <2>2, <2>3, <2>5, <2>6, OneMoves
<1>5. CASE Complete(j)
    <2>1. /\ JobTypes' /\ mode'[j] = "succeeded" /\ at' = at /\ id' = id
          /\ \A i \in Jobs \ {j} : mode'[i] = mode[i]
        BY <1>1, <1>5 DEF Complete, JobTypes
    <2>2. AtStep(j)' /\ ~Checked(j)'
        BY <2>1 DEF AtStep, Checked, Over, Waits
    <2>. QED BY <1>1, <2>1, <2>2, OneMoves
<1>6. CASE UpdateReads(j)
    <2>1. mode[j] = "ready" /\ Step(j) = "update_page_draft" /\ id' = id
        BY <1>6 DEF UpdateReads, Ready
    <2>2. CASE Raises(j) \/ Fails(j)
        BY <1>1, <1>6, <2>1, <2>2, StepMoves DEF UpdateReads, JobTypes, siteVars
    <2>3. CASE mode' = [mode EXCEPT ![j] = "writing"] /\ UNCHANGED <<at, retry_count>>
        <3>1. /\ JobTypes' /\ mode'[j] = "writing" /\ \A i \in Jobs \ {j} : mode'[i] = mode[i]
            BY <1>1, <2>1, <2>3 DEF JobTypes
        <3>2. kind[j] = "edit"
            BY <1>1, <1>2, <2>1, StepTells
        <3>3. AtStep(j)' /\ ~Checked(j)'
            BY <1>1, <1>2, <2>1, <2>3, <3>1, <3>2 DEF AtStep, Step, Checked
        <3>. QED BY <1>1, <2>1, <2>3, <3>1, <3>3, OneMoves
    <2>. QED BY <1>6, <2>2, <2>3 DEF UpdateReads
<1>7. CASE UpdateWrites(j)
    <2>1. /\ mode[j] = "writing" /\ kind[j] = "edit" /\ Step(j) # "complete"
          /\ Step(j) # "precheck_homepage_overwrite"
        <3>1. mode[j] = "writing" /\ kind[j] = "edit" /\ Step(j) # "complete"
            BY <1>1, <1>7 DEF UpdateWrites, AtStep
        <3>2. kind[j] # "publish"
            BY <3>1
        <3>. QED BY <1>1, <1>2, <3>1, <3>2, StepTells, Zenon
    <2>2. /\ JobTypes' /\ \A i \in Jobs \ {j} : at'[i] = at[i] /\ mode'[i] = mode[i] /\ id'[i] = id[i]
          /\ \/ at'[j] = at[j] + 1 /\ mode'[j] = "ready"
             \/ at'[j] = at[j] /\ mode'[j] \in {"ready", "failed", "parked"}
        BY <1>1, <1>7, <2>1 DEF UpdateWrites, NotWritten, WrittenUnseen, Raises, Fails, JobTypes, siteVars
    <2>3. AtStep(j)' /\ ~Checked(j)'
        BY <1>1, <1>2, <2>1, <2>2 DEF AtStep, Checked, Over, Waits, Step
    <2>. QED BY <1>1, <2>1, <2>2, <2>3, OneMoves
<1>. QED BY <1>3, <1>4, <1>5, <1>6, <1>7

\* A job starts at its first step, alone of its kind under its name of the site.
LEMMA LaunchKeeps == ASSUME PublishInv, NEW j \in Jobs, Launch(j) PROVE PublishInv'
<1>1. /\ JobTypes /\ mode[j] = "new" /\ at[j] = 0 /\ (\A i \in Jobs \ {j} : SameBuild(i, j) => Over(i))
      /\ UNCHANGED <<kind, site, expected, retry_count, id, page_on_front, show_on_front>>
      /\ page_id' \in [Jobs -> Pages \cup {NoPage}]
    BY DEF PublishInv, AtStep, Launch, OneActiveBuild, Over, siteVars, JobTypes
<1>2. /\ at'[j] = 1 /\ mode'[j] = "ready" /\ at' \in [Jobs -> Nat]
      /\ mode' \in [Jobs -> {"new", "ready", "writing", "parked", "succeeded", "failed"} \cup Asked]
      /\ \A i \in Jobs \ {j} : at'[i] = at[i] /\ mode'[i] = mode[i]
    BY <1>1 DEF Launch, JobTypes
<1>3. JobTypes'
    BY <1>1, <1>2 DEF JobTypes
<1>4. 1 \in 1..Len(Steps(kind[j]))
    <2>1. kind[j] \in {"publish", "build", "edit"}
        BY <1>1 DEF JobTypes
    <2>2. CASE kind[j] = "publish"
        BY <2>2, PublishSteps
    <2>3. CASE kind[j] = "build"
        BY <2>3, OtherSteps
    <2>4. CASE kind[j] = "edit"
        BY <2>4, OtherSteps
    <2>. QED BY <2>1, <2>2, <2>3, <2>4
<1>5. AtStep(j)' /\ ~Checked(j)'
    <2>1. at'[j] \in 1..Len(Steps(kind'[j])) /\ kind'[j] = kind[j]
        BY <1>1, <1>2, <1>4
    <2>2. ~Waits(j)'
        BY <1>2 DEF Waits
    <2>. QED BY <1>2, <2>1, <2>2 DEF AtStep, Checked, Over
<1>. QED BY <1>1, <1>2, <1>3, <1>5, OneMoves

\* What had raised or was being written is run again, at the step it was at.
LEMMA RestartKeeps == ASSUME PublishInv, Restart PROVE PublishInv'
<1>1. /\ UNCHANGED <<kind, site, expected, page_id, at, retry_count, id, page_on_front, show_on_front>>
    BY DEF Restart, jobVars, siteVars
<1>2. \A j \in Jobs : mode'[j] = IF mode[j] \in {"parked", "writing"} THEN "ready" ELSE mode[j]
    BY DEF Restart
<1>3. JobTypes'
    <2>1. mode' \in [Jobs -> {"new", "ready", "writing", "parked", "succeeded", "failed"} \cup Asked]
        BY DEF PublishInv, JobTypes, Restart
    <2>. QED BY <1>1, <2>1 DEF PublishInv, JobTypes
<1>4. \A j \in Jobs : /\ (Over(j)' <=> Over(j)) /\ (Waits(j)' <=> Waits(j))
                      /\ mode'[j] \notin {"writing", "parked"} /\ (mode'[j] = "new" => mode[j] = "new")
    BY <1>2 DEF Over, Waits
<1>5. \A j \in Jobs : AtStep(j)' /\ (Checked(j)' => Expected(j)')
    BY <1>1, <1>4 DEF PublishInv, AtStep, Checked, Expected, OtherName, Step
<1>. QED BY <1>1, <1>3, <1>4, <1>5 DEF PublishInv, SameBuild

LEMMA PublishStarts == WPInit => PublishInv
<1>. SUFFICES ASSUME WPInit PROVE PublishInv
    OBVIOUS
<1>1. JobTypes
    BY LiveAssumption DEF WPInit, JobTypes
<1>2. \A j \in Jobs : Over(j) /\ ~Waits(j) /\ mode[j] \notin {"writing", "parked"} /\ at[j] = 0
    BY DEF WPInit, Over, Waits
<1>. QED BY <1>1, <1>2 DEF PublishInv, AtStep, Checked

LEMMA PublishKeeps == PublishInv /\ [WPNext]_wpVars => PublishInv'
<1>. SUFFICES ASSUME PublishInv, [WPNext]_wpVars PROVE PublishInv'
    OBVIOUS
<1>1. CASE UNCHANGED wpVars
    BY <1>1 DEF wpVars, jobVars, siteVars, PublishInv, JobTypes, AtStep, Checked, Expected, OtherName,
           SameBuild, Over, Waits, Step
<1>2. CASE Restart
    BY <1>2, RestartKeeps
<1>3. ASSUME NEW j \in Jobs, Launch(j) \/ GateAnswered(j) \/ Override(j) \/ Runs(j) PROVE PublishInv'
    BY <1>3, LaunchKeeps, AskedKeeps, PlainRuns, PrecheckKeeps DEF Runs
<1>. QED BY <1>1, <1>2, <1>3 DEF WPNext

\* The homepage a job replaces is the one its caller expects or a person was asked about, or is
\* its own, or there is none, or it is that of a job on another name of the site: the check lies
\* steps, retries, gates, overrides and restarts before the write (wordpress_publish_homepage.py:
\* 360, wordpress.py set_homepage; db.py:104).
THEOREM HomepageAsExpected == WPSpec => FailsClosed
<1>1. PublishInv /\ [WPNext]_wpVars =>
        [\A j \in Jobs : SetHomepage(j) =>
            \/ show_on_front \in {NoPage, expected[j], page_on_front[j], id[j]}
            \/ \E i \in Jobs : site[i] # site[j] /\ show_on_front = id[i]]_wpVars
    <2>. SUFFICES ASSUME PublishInv, NEW j \in Jobs, SetHomepage(j)
                  PROVE  \/ show_on_front \in {NoPage, expected[j], page_on_front[j], id[j]}
                         \/ \E i \in Jobs : site[i] # site[j] /\ show_on_front = id[i]
        OBVIOUS
    <2>1. JobTypes /\ AtStep(j) /\ ~Over(j) /\ Step(j) = "set_as_homepage" /\ (Checked(j) => Expected(j))
        BY DEF PublishInv, SetHomepage, Ready, Over
    <2>2. kind[j] = "publish" /\ at[j] = 9
        BY <2>1, StepTells DEF AtStep
    <2>3. Expected(j)
        BY <2>1, <2>2 DEF Checked
    <2>. QED BY <2>3 DEF Expected, OtherName
<1>. QED BY <1>1, PublishStarts, PublishKeeps, PTL DEF WPSpec, FailsClosed

-----------------------------------------------------------------------------
(* Changes to KAI's own source.  What is in the tree was verified, whoever   *)
(* applied it; and a job that goes on to the ticket has its diff committed,  *)
(* by itself or by another that staged everything.                           *)

Phases == {"new", "ready", "staged", "patching", "parked", "failed", "succeeded"}

\* What a job's place in the workflow says of the repository.
DiffInv(j) ==
    /\ phase[j] # "new" => step[j] >= 1
    /\ step[j] >= 3 => j \in passed
    /\ step[j] >= 4 => Body(j) \subseteq tree
    /\ step[j] = 5 => Body(j) \subseteq head
    /\ phase[j] = "staged" => step[j] = 4 /\ Body(j) \subseteq index \cup head
    /\ phase[j] \in {"patching", "succeeded"} => step[j] = 5
    /\ touched_files[j] # Unknown => touched_files[j] = Body(j) /\ Body(j) \subseteq tree

SourceInv ==
    /\ step \in [Diffs -> 0..5] /\ phase \in [Diffs -> Phases]
    /\ touched_files \in [Diffs -> {Unknown} \cup SUBSET (Diffs \X Paths)]
    /\ passed \subseteq Diffs /\ tree \subseteq passed \X Paths
    /\ index \subseteq tree /\ head \subseteq tree
    /\ \A j \in Diffs : DiffInv(j)

\* One job has moved.
Moved(j, s, p) ==
    /\ step' = [step EXCEPT ![j] = s] /\ step'[j] = s
    /\ phase' = [phase EXCEPT ![j] = p] /\ phase'[j] = p

\* Nothing leaves the tree, what is staged is committed at last, and one job has moved.
LEMMA SourceKept ==
    ASSUME SourceInv, NEW j \in Diffs, NEW s \in 0..5, NEW p \in Phases, Moved(j, s, p),
           touched_files' = [touched_files EXCEPT ![j] = touched_files'[j]],
           touched_files'[j] \in {touched_files[j], Body(j)},
           passed \subseteq passed', passed' \subseteq Diffs, tree \subseteq tree', tree' \subseteq passed' \X Paths,
           head \subseteq head', index \cup head \subseteq index' \cup head', index' \cup head' \subseteq tree',
           DiffInv(j)'
    PROVE  SourceInv'
<1>1. touched_files' \in [Diffs -> {Unknown} \cup SUBSET (Diffs \X Paths)]
    BY DEF SourceInv, Body
<1>2. ASSUME NEW i \in Diffs, i # j PROVE DiffInv(i)'
    <2>1. step'[i] = step[i] /\ phase'[i] = phase[i] /\ touched_files'[i] = touched_files[i]
        BY <1>2 DEF SourceInv, Moved
    <2>2. DiffInv(i)
        BY DEF SourceInv
    <2>. QED BY <2>1, <2>2 DEF DiffInv, Body, Unknown
<1>3. step' \in [Diffs -> 0..5] /\ phase' \in [Diffs -> Phases]
    BY DEF SourceInv, Moved
<1>. QED BY <1>1, <1>2, <1>3 DEF SourceInv

\* The name of a step tells its number.
LEMMA StepNumbers ==
    ASSUME SourceInv, NEW j \in Diffs, NEW name, At(j, name)
    PROVE  /\ phase[j] = "ready" /\ step[j] \in 1..5
           /\ name = "log_proposal" => step[j] = 1
           /\ name = "verify_semantic" => step[j] = 2
           /\ name = "apply_diff" => step[j] = 3
           /\ name = "commit" => step[j] = 4
           /\ name = "update_plane" => step[j] = 5
<1>1. phase[j] = "ready" /\ step[j] \in 1..5 /\ steps[step[j]] = name
    BY DEF At, SourceInv, DiffInv
<1>2. /\ steps[1] = "log_proposal" /\ steps[2] = "verify_semantic" /\ steps[3] = "apply_diff"
      /\ steps[4] = "commit" /\ steps[5] = "update_plane"
    BY DEF steps
<1>. QED BY <1>1, <1>2

\* What the invariant says of the repository, and of where the jobs are.
LEMMA SourceTypes ==
    ASSUME SourceInv
    PROVE  /\ passed \subseteq Diffs /\ tree \subseteq passed \X Paths /\ index \subseteq tree /\ head \subseteq tree
           /\ step \in [Diffs -> 0..5] /\ phase \in [Diffs -> Phases]
BY DEF SourceInv

\* Where a step that fails or raises leaves its job.
LEMMA FailingEnds ==
    ASSUME SourceInv, NEW j \in Diffs, StepFails(j) \/ StepRaises(j)
    PROVE  \E p \in {phase[j], "failed", "parked"} : Moved(j, step[j], p)
<1>1. CASE StepFails(j)
    <2>1. Moved(j, step[j], phase[j]) \/ Moved(j, step[j], "failed")
        BY <1>1, SourceTypes DEF StepFails, Moved
    <2>. QED BY <2>1
<1>2. CASE StepRaises(j)
    <2>1. Moved(j, step[j], "parked")
        BY <1>2, SourceTypes DEF StepRaises, Moved
    <2>. QED BY <2>1
<1>. QED BY <1>1, <1>2

\* A step that fails or raises, whatever it has left in the repository.
LEMMA FailingKeeps ==
    ASSUME SourceInv, NEW j \in Diffs, step[j] \in 1..5, StepFails(j) \/ StepRaises(j),
           phase[j] \in {"ready", "staged"} \/ (phase[j] = "patching" /\ step[j] = 5),
           UNCHANGED <<touched_files, passed>>, tree \subseteq tree', tree' \subseteq passed \X Paths,
           head \subseteq head', index \cup head \subseteq index' \cup head', index' \cup head' \subseteq tree'
    PROVE  SourceInv'
<1>1. PICK p \in {phase[j], "failed", "parked"} : Moved(j, step[j], p)
    BY FailingEnds
<1>2. p \in Phases /\ step[j] \in 0..5
    BY <1>1, SourceTypes DEF Phases
<1>3. DiffInv(j)'
    <2>1. DiffInv(j)
        BY DEF SourceInv
    <2>. QED BY <1>1, <1>2, <2>1 DEF DiffInv, Moved, Body, Unknown
<1>4. passed' \subseteq Diffs /\ touched_files' = [touched_files EXCEPT ![j] = touched_files'[j]]
    BY DEF SourceInv
<1>. QED BY <1>1, <1>2, <1>3, <1>4, SourceKept

LEMMA SourceStarts == SMInit => SourceInv
BY DEF SMInit, SourceInv, DiffInv, Phases, Unknown

\* Whatever step is taken, by whichever job.
LEMMA SourceStep == SourceInv /\ [SMNext]_smVars => SourceInv'
<1>. SUFFICES ASSUME SourceInv, [SMNext]_smVars PROVE SourceInv'
    OBVIOUS
<1>. USE DEF repoVars, ticketVars
<1>1. CASE UNCHANGED smVars
    BY <1>1 DEF smVars, SourceInv, DiffInv, Body, Unknown
<1>2. CASE OrchestratorRestarts
    <2>1. phase' \in [Diffs -> Phases] /\ touched_files' \in [Diffs -> {Unknown} \cup SUBSET (Diffs \X Paths)]
        BY <1>2 DEF OrchestratorRestarts, SourceInv, Phases
    <2>2. ASSUME NEW j \in Diffs PROVE DiffInv(j)'
        <3>1. DiffInv(j) /\ phase[j] \in Phases
            BY DEF SourceInv
        <3>. QED BY <1>2, <3>1 DEF OrchestratorRestarts, DiffInv, Body, Phases
    <2>. QED BY <1>2, <2>1, <2>2 DEF OrchestratorRestarts, SourceInv
<1>3. ASSUME NEW j \in Diffs, Starts(j) PROVE SourceInv'
    <2>1. Moved(j, 1, "ready")
        BY <1>3, SourceTypes DEF Starts, Moved
    <2>2. DiffInv(j)' /\ touched_files' = [touched_files EXCEPT ![j] = touched_files'[j]]
        BY <1>3, <2>1 DEF Starts, Moved, SourceInv, DiffInv, Body, Unknown, Phases
    <2>. QED BY <1>3, <2>1, <2>2, SourceKept, SourceTypes DEF Starts, Phases
<1>4. ASSUME NEW j \in Diffs, Propose(j) PROVE SourceInv'
    <2>1. step[j] = 1 /\ phase[j] = "ready"
        BY <1>4, StepNumbers DEF Propose
    <2>2. CASE StepSucceeds(j)
        <3>1. Moved(j, 2, "ready")
            BY <2>1, <2>2, SourceTypes DEF StepSucceeds, Moved
        <3>2. DiffInv(j)' /\ touched_files' = [touched_files EXCEPT ![j] = touched_files'[j]]
            BY <1>4, <2>1, <3>1 DEF Propose, SourceInv, DiffInv, Moved, Body, Unknown
        <3>. QED BY <1>4, <3>1, <3>2, SourceKept, SourceTypes DEF Propose, Phases
    <2>3. CASE StepFails(j)
        BY <1>4, <2>1, <2>3, FailingKeeps DEF Propose, SourceInv
    <2>. QED BY <1>4, <2>2, <2>3 DEF Propose
<1>5. ASSUME NEW j \in Diffs, VerifySemantic(j) PROVE SourceInv'
    <2>1. step[j] = 2 /\ phase[j] = "ready"
        BY <1>5, StepNumbers DEF VerifySemantic
    <2>2. CASE StepSucceeds(j) /\ passed' = passed \cup {j}
        <3>1. Moved(j, 3, "ready")
            BY <2>1, <2>2, SourceTypes DEF StepSucceeds, Moved
        <3>2. DiffInv(j)' /\ touched_files' = [touched_files EXCEPT ![j] = touched_files'[j]]
            BY <1>5, <2>1, <2>2, <3>1 DEF VerifySemantic, SourceInv, DiffInv, Moved, Body, Unknown
        <3>. QED BY <1>5, <2>2, <3>1, <3>2, SourceKept, SourceTypes DEF VerifySemantic, Phases
    <2>3. CASE (StepFails(j) \/ StepRaises(j)) /\ UNCHANGED passed
        BY <1>5, <2>1, <2>3, FailingKeeps DEF VerifySemantic, SourceInv
    <2>. QED BY <1>5, <2>2, <2>3 DEF VerifySemantic
<1>6. ASSUME NEW j \in Diffs, Apply(j) PROVE SourceInv'
    <2>1. step[j] = 3 /\ phase[j] = "ready" /\ j \in passed /\ Body(j) \subseteq passed \X Paths
        BY <1>6, StepNumbers DEF Apply, SourceInv, DiffInv, Body
    <2>2. CASE StepSucceeds(j) /\ tree' = tree \cup Body(j) /\ touched_files' = [touched_files EXCEPT ![j] = Body(j)]
        <3>1. Moved(j, 4, "ready")
            BY <2>1, <2>2, SourceTypes DEF StepSucceeds, Moved
        <3>2. touched_files' = [touched_files EXCEPT ![j] = touched_files'[j]] /\ touched_files'[j] = Body(j)
            BY <2>2 DEF SourceInv
        <3>3. DiffInv(j)'
            BY <1>6, <2>1, <2>2, <3>1, <3>2 DEF Apply, SourceInv, DiffInv, Moved, Body, Unknown
        <3>4. /\ tree \subseteq tree' /\ tree' \subseteq passed' \X Paths /\ passed' = passed
              /\ head' = head /\ index' = index
            BY <1>6, <2>1, <2>2, SourceTypes DEF Apply
        <3>5. passed' \subseteq Diffs /\ index' \cup head' \subseteq tree'
            BY <3>4, SourceTypes
        <3>. QED BY <3>1, <3>2, <3>3, <3>4, <3>5, SourceKept DEF Phases
    <2>3. ASSUME StepFails(j), UNCHANGED touched_files, NEW some \in SUBSET Body(j), tree' = tree \cup some
          PROVE  SourceInv'
        BY <1>6, <2>1, <2>3, FailingKeeps DEF Apply, SourceInv
    <2>. QED BY <1>6, <2>2, <2>3 DEF Apply
<1>7. ASSUME NEW j \in Diffs, Stage(j) PROVE SourceInv'
    <2>1. step[j] = 4 /\ phase[j] = "ready" /\ Body(j) \subseteq tree
        BY <1>7, StepNumbers DEF Stage, SourceInv, DiffInv
    <2>2. Staged(j) \subseteq tree /\ index \subseteq Staged(j) /\ Body(j) \subseteq Staged(j) \cup head
        BY <2>1 DEF Staged, SourceInv, DiffInv
    <2>3. index' = index \/ index' = Staged(j)
        BY <1>7 DEF Stage
    <2>4. CASE StepFails(j) \/ StepRaises(j)
        BY <1>7, <2>1, <2>2, <2>3, <2>4, FailingKeeps DEF Stage, SourceInv
    <2>5. CASE index' = Staged(j) /\ phase' = [phase EXCEPT ![j] = "staged"] /\ UNCHANGED <<step, tries>>
        <3>1. Moved(j, 4, "staged") /\ touched_files' = [touched_files EXCEPT ![j] = touched_files'[j]]
            BY <1>7, <2>1, <2>5 DEF Stage, SourceInv, Moved
        <3>2. DiffInv(j)'
            BY <1>7, <2>1, <2>2, <2>5, <3>1 DEF Stage, SourceInv, DiffInv, Moved, Body, Unknown
        <3>. QED BY <1>7, <2>1, <2>2, <2>5, <3>1, <3>2, SourceKept, SourceTypes DEF Stage, Phases
    <2>. QED BY <1>7, <2>4, <2>5 DEF Stage
<1>8. ASSUME NEW j \in Diffs, Commit(j) PROVE SourceInv'
    <2>1. step[j] = 4 /\ phase[j] = "staged" /\ Body(j) \subseteq index \cup head
        BY <1>8 DEF Commit, SourceInv, DiffInv
    <2>2. head \subseteq head' /\ index \cup head = index' \cup head'
        BY <1>8 DEF Commit
    <2>3. CASE StepFails(j) \/ StepRaises(j)
        BY <1>8, <2>1, <2>2, <2>3, FailingKeeps DEF Commit, SourceInv
    <2>4. CASE StepSucceeds(j) /\ head' = head \cup index
        <3>1. Moved(j, 5, "ready")
            BY <2>1, <2>4, SourceTypes DEF StepSucceeds, Moved
        <3>2. DiffInv(j)' /\ touched_files' = [touched_files EXCEPT ![j] = touched_files'[j]]
            BY <1>8, <2>1, <2>4, <3>1 DEF Commit, SourceInv, DiffInv, Moved, Body, Unknown
        <3>. QED BY <1>8, <2>2, <3>1, <3>2, SourceKept, SourceTypes DEF Commit, Phases
    <2>. QED BY <1>8, <2>3, <2>4 DEF Commit
<1>9. ASSUME NEW j \in Diffs, ReadTicket(j) PROVE SourceInv'
    <2>1. step[j] = 5 /\ phase[j] = "ready"
        BY <1>9, StepNumbers DEF ReadTicket
    <2>2. CASE StepFails(j) \/ StepRaises(j)
        BY <1>9, <2>1, <2>2, FailingKeeps DEF ReadTicket, SourceInv
    <2>3. CASE phase' = [phase EXCEPT ![j] = "patching"] /\ UNCHANGED step
        <3>1. Moved(j, 5, "patching") /\ touched_files' = [touched_files EXCEPT ![j] = touched_files'[j]]
            BY <1>9, <2>1, <2>3 DEF ReadTicket, SourceInv, Moved
        <3>2. DiffInv(j)'
            BY <1>9, <2>1, <2>3, <3>1 DEF ReadTicket, SourceInv, DiffInv, Moved, Body, Unknown
        <3>. QED BY <1>9, <2>3, <3>1, <3>2, SourceKept, SourceTypes DEF ReadTicket, Phases
    <2>. QED BY <1>9, <2>2, <2>3 DEF ReadTicket
<1>10. ASSUME NEW j \in Diffs, PatchTicket(j) PROVE SourceInv'
    <2>1. step[j] = 5 /\ phase[j] = "patching"
        BY <1>10 DEF PatchTicket, SourceInv, DiffInv
    <2>2. CASE StepFails(j) \/ StepRaises(j)
        BY <1>10, <2>1, <2>2, FailingKeeps DEF PatchTicket, SourceInv
    <2>3. CASE StepSucceeds(j)
        <3>1. Moved(j, 5, "succeeded")
            BY <2>1, <2>3, SourceTypes DEF StepSucceeds, Moved
        <3>2. DiffInv(j)' /\ touched_files' = [touched_files EXCEPT ![j] = touched_files'[j]]
            BY <1>10, <2>1, <3>1 DEF PatchTicket, SourceInv, DiffInv, Moved, Body, Unknown
        <3>. QED BY <1>10, <3>1, <3>2, SourceKept, SourceTypes DEF PatchTicket, Phases
    <2>. QED BY <1>10, <2>2, <2>3 DEF PatchTicket
<1>. QED BY <1>1, <1>2, <1>3, <1>4, <1>5, <1>6, <1>7, <1>8, <1>9, <1>10 DEF SMNext

\* "This is the verifier-gates-apply contract" (devops_self_modify.py:87): nothing is in the
\* tree, staged or committed of a diff the verifier did not pass, whichever job put it there.
THEOREM VerifiedLands == SMSpec => []OnlyVerifiedLands
<1>1. SourceInv => OnlyVerifiedLands
    BY DEF SourceInv, OnlyVerifiedLands
<1>. QED BY <1>1, SourceStarts, SourceStep, PTL DEF SMSpec

\* A job that succeeded has its whole diff in the history: what a job stages is taken by the
\* first commit of any job, and nothing that was applied leaves the tree.
THEOREM SuccessCommitted == SMSpec => []SuccessIsCommitted
<1>1. SourceInv => SuccessIsCommitted
    BY DEF SourceInv, SuccessIsCommitted, DiffInv
<1>. QED BY <1>1, SourceStarts, SourceStep, PTL DEF SMSpec

-----------------------------------------------------------------------------
(* The investigation of a bug.  Its rounds are counted where they begin, and *)
(* the marks of the reviewers are those of the round it is in.               *)

\* A thread's record, whatever bug it is about.
InRound(r) ==
    /\ r = [issue |-> r.issue, node |-> r.node, iteration |-> r.iteration, lse_approved |-> r.lse_approved,
            architect_approved |-> r.architect_approved, kai_approved |-> r.kai_approved]
    /\ r.iteration \in 0..MAX_ITERATIONS

\* What a thread at its node has behind it.
Reviewed(r) ==
    /\ r.node = "support_diagnosis" => r.iteration < MAX_ITERATIONS
    /\ r.node \in {"kai_validation", "leo_notify", "awaiting_leo"} =>
          BothApproved(r) \/ r.iteration = MAX_ITERATIONS
    /\ r.node \in {"leo_notify", "awaiting_leo"} => r.kai_approved \/ r.iteration = MAX_ITERATIONS

ReviewInv == \A t \in Threads : thread[t].node # "free" => InRound(thread[t]) /\ Reviewed(thread[t])
ThreadsInv == DOMAIN thread = Threads /\ ReviewInv

LEMMA FreeIsFree == Free.node = "free"
BY DEF Free

LEMMA ThreadsStart == BWInit => ThreadsInv
BY DEF BWInit, ThreadsInv, ReviewInv, Free

\* One thread goes on to a node it has earned, or is gone.
LEMMA OneBecomes ==
    ASSUME ThreadsInv, NEW t \in Threads, NEW r, thread' = [thread EXCEPT ![t] = r],
           r.node = "free" \/ (InRound(r) /\ Reviewed(r))
    PROVE  ThreadsInv'
BY DEF ThreadsInv, ReviewInv

LEMMA ThreadsKeep == ThreadsInv /\ [BWNext]_bugVars => ThreadsInv'
<1>. SUFFICES ASSUME ThreadsInv, [BWNext]_bugVars PROVE ThreadsInv'
    OBVIOUS
<1>1. ASSUME UNCHANGED thread PROVE ThreadsInv'
    BY <1>1 DEF ThreadsInv, ReviewInv
<1>2. ASSUME NEW t \in Threads, thread' = [thread EXCEPT ![t] = Free] PROVE ThreadsInv'
    BY <1>2, OneBecomes, FreeIsFree
<1>3. ASSUME NEW f \in Finders, StartsThread(f) PROVE ThreadsInv'
    <2>1. PICK t \in Threads :
              thread' = [thread EXCEPT ![t] = [Free EXCEPT !.issue = writing[f].mark, !.node = "support_diagnosis"]]
        BY <1>3 DEF StartsThread
    <2>2. PICK r : r = [Free EXCEPT !.issue = writing[f].mark, !.node = "support_diagnosis"]
        OBVIOUS
    <2>3. r = [issue |-> writing[f].mark, node |-> "support_diagnosis", iteration |-> 0, lse_approved |-> FALSE,
               architect_approved |-> FALSE, kai_approved |-> FALSE]
        BY <2>2 DEF Free
    <2>4. InRound(r)
        BY <2>3 DEF InRound, MAX_ITERATIONS
    <2>5. Reviewed(r)
        BY <2>3 DEF Reviewed, MAX_ITERATIONS
    <2>. QED BY <2>1, <2>2, <2>4, <2>5, OneBecomes
<1>4. ASSUME NEW t \in Threads, NEW n, Node(t, n), n # "free"
      PROVE  InRound(thread[t]) /\ Reviewed(thread[t]) /\ thread[t].node = n
    BY <1>4 DEF Node, ThreadsInv, ReviewInv
<1>5. ASSUME NEW t \in Threads, support_diagnosis(t) PROVE ThreadsInv'
    <2>1. PICK r : r = [thread[t] EXCEPT !.iteration = @ + 1, !.node = "lse_review"]
        OBVIOUS
    <2>2. InRound(thread[t]) /\ Reviewed(thread[t]) /\ thread[t].node = "support_diagnosis"
        BY <1>4, <1>5 DEF support_diagnosis
    <2>3. thread[t].iteration \in 0..2
        BY <2>2 DEF InRound, Reviewed, MAX_ITERATIONS
    <2>4. r = [issue |-> thread[t].issue, node |-> "lse_review", iteration |-> thread[t].iteration + 1,
               lse_approved |-> thread[t].lse_approved, architect_approved |-> thread[t].architect_approved,
               kai_approved |-> thread[t].kai_approved]
        BY <2>1, <2>2 DEF InRound
    <2>5. InRound(r)
        BY <2>3, <2>4 DEF InRound, MAX_ITERATIONS
    <2>6. Reviewed(r)
        BY <2>4 DEF Reviewed
    <2>. QED BY <1>5, <2>1, <2>5, <2>6, OneBecomes DEF support_diagnosis, Becomes
<1>6. ASSUME NEW t \in Threads, lse_review(t) PROVE ThreadsInv'
    <2>1. PICK ok \in BOOLEAN : Becomes(t, [thread[t] EXCEPT !.lse_approved = ok, !.node = "architect_review"])
        BY <1>6 DEF lse_review
    <2>2. PICK r : r = [thread[t] EXCEPT !.lse_approved = ok, !.node = "architect_review"]
        OBVIOUS
    <2>3. InRound(thread[t])
        BY <1>4, <1>6 DEF lse_review
    <2>4. InRound(r) /\ Reviewed(r)
        BY <2>2, <2>3 DEF InRound, Reviewed
    <2>. QED BY <2>1, <2>2, <2>4, OneBecomes DEF Becomes
<1>7. ASSUME NEW t \in Threads, architect_review(t) PROVE ThreadsInv'
    <2>1. PICK ok \in BOOLEAN : LET q == [thread[t] EXCEPT !.architect_approved = ok]
                                IN  Becomes(t, [q EXCEPT !.node = peer_review_decision(q)])
        BY <1>7 DEF architect_review
    <2>2. PICK r : r = [thread[t] EXCEPT !.architect_approved = ok]
        OBVIOUS
    <2>3. InRound(thread[t])
        BY <1>4, <1>7 DEF architect_review
    <2>4. InRound(r)
        BY <2>2, <2>3 DEF InRound
    <2>5. PICK z : z = [r EXCEPT !.node = peer_review_decision(r)]
        OBVIOUS
    <2>6. InRound(z) /\ Reviewed(z)
        BY <2>4, <2>5 DEF InRound, Reviewed, peer_review_decision, BothApproved, MAX_ITERATIONS
    <2>. QED BY <2>1, <2>2, <2>5, <2>6, OneBecomes DEF Becomes
<1>8. ASSUME NEW t \in Threads, kai_validation(t) PROVE ThreadsInv'
    <2>1. PICK ok \in BOOLEAN : LET q == [thread[t] EXCEPT !.kai_approved = ok]
                                IN  Becomes(t, [q EXCEPT !.node = kai_decision(q)])
        BY <1>8 DEF kai_validation
    <2>2. PICK r : r = [thread[t] EXCEPT !.kai_approved = ok]
        OBVIOUS
    <2>3. InRound(thread[t]) /\ Reviewed(thread[t]) /\ thread[t].node = "kai_validation"
        BY <1>4, <1>8 DEF kai_validation
    <2>4. InRound(r) /\ (BothApproved(r) \/ r.iteration = MAX_ITERATIONS)
        BY <2>2, <2>3 DEF InRound, Reviewed, BothApproved
    <2>5. PICK z : z = [r EXCEPT !.node = kai_decision(r)]
        OBVIOUS
    <2>6. InRound(z) /\ Reviewed(z)
        BY <2>4, <2>5 DEF InRound, Reviewed, kai_decision, BothApproved, MAX_ITERATIONS
    <2>. QED BY <2>1, <2>2, <2>5, <2>6, OneBecomes DEF Becomes
<1>9. ASSUME NEW t \in Threads, leo_notify(t) PROVE ThreadsInv'
    <2>1. PICK r : r = [thread[t] EXCEPT !.node = "awaiting_leo"]
        OBVIOUS
    <2>2. InRound(thread[t]) /\ Reviewed(thread[t]) /\ thread[t].node = "leo_notify"
        BY <1>4, <1>9 DEF leo_notify
    <2>3. InRound(r) /\ Reviewed(r)
        BY <2>1, <2>2 DEF InRound, Reviewed, BothApproved
    <2>. QED BY <1>9, <2>1, <2>3, OneBecomes DEF leo_notify, Becomes
<1>10. ASSUME NEW t \in Threads, MarksAgain(t) \/ Ends(t) \/ NodeRaises(t) PROVE ThreadsInv'
    BY <1>1, <1>2, <1>10 DEF MarksAgain, Ends, NodeRaises, Becomes
<1>11. ASSUME NEW f \in Finders, NEW i \in Issues, Skips(f, i) \/ Finds(f, i) PROVE ThreadsInv'
    BY <1>1, <1>11 DEF Skips, Finds
<1>. QED
    BY <1>1, <1>3, <1>5, <1>6, <1>7, <1>8, <1>9, <1>10, <1>11
    DEF BWNext, FinderStep, Investigates, Reported, Looks, bugVars

\* What reaches the end of the graph was approved by both reviewers and by KAI in its last
\* round, or went all the rounds there are (peer_review_decision and kai_decision of
\* bug_nodes.py), however many investigations of whatever bugs run at once.
THEOREM AwaitingEarned == BWSpec => []AwaitingIsEarned
<1>1. ThreadsInv => AwaitingIsEarned
    BY DEF ThreadsInv, ReviewInv, Reviewed, BothApproved, AwaitingIsEarned
<1>. QED BY <1>1, ThreadsStart, ThreadsKeep, PTL DEF BWSpec

-----------------------------------------------------------------------------
(* The long poll of Telegram.  Both the server and the loop remember how far *)
(* the loop has come; the further of the two is the update to serve next,    *)
(* and what is before it is done with.                                       *)

Turn == Highest(acked, offset)

LoopInv ==
    /\ arrived \in 0..MaxUpdate /\ acked \in 1..arrived + 1 /\ offset \in 0..arrived + 1
    /\ batch \in Seq(Updates) /\ loopDeaths \in Nat
    /\ served \in [Updates -> Nat] /\ failed \subseteq Updates
    /\ Turn + Len(batch) <= arrived + 1
    /\ \A i \in 1..Len(batch) : batch[i] = Turn + i - 1
    /\ \A v \in 1..Turn - 1 : served[v] > 0 \/ v \in failed
    /\ \A u \in Updates : u >= Turn => served[u] <= loopDeaths
    /\ ServedInOrder

LEMMA TurnStays == LoopInv => Turn \in 1..arrived + 1 /\ Turn >= acked /\ Turn >= offset
BY LoopAssumption DEF LoopInv, Turn, Highest

\* The first of a batch is the update whose turn it is, and the rest follow it.
LEMMA HeadsTurn ==
    ASSUME LoopInv, batch # <<>>
    PROVE  /\ Head(batch) = Turn /\ Turn \in 1..arrived /\ Turn \in Updates
           /\ Tail(batch) \in Seq(Updates) /\ Len(Tail(batch)) = Len(batch) - 1
           /\ \A i \in 1..Len(Tail(batch)) : Tail(batch)[i] = Turn + i
<1>1. /\ Len(batch) \in Nat \ {0} /\ Head(batch) = batch[1]
      /\ Tail(batch) \in Seq(Updates) /\ Len(Tail(batch)) = Len(batch) - 1
      /\ \A i \in 1..Len(Tail(batch)) : Tail(batch)[i] = batch[i + 1]
    BY HeadTailProperties, EmptySeq, LenProperties DEF LoopInv
<1>2. Turn \in Nat /\ Turn >= 1 /\ arrived \in 0..MaxUpdate /\ Turn + Len(batch) <= arrived + 1
    BY TurnStays DEF LoopInv
<1>3. batch[1] = Turn
    BY <1>1, <1>2 DEF LoopInv
<1>4. \A i \in 1..Len(Tail(batch)) : Tail(batch)[i] = Turn + i
    BY <1>1, <1>2 DEF LoopInv
<1>. QED BY <1>1, <1>2, <1>3, <1>4, LoopAssumption DEF Updates

LEMMA LoopStarts == LoopInit => LoopInv
<1>. SUFFICES ASSUME LoopInit PROVE LoopInv
    OBVIOUS
<1>1. Turn = 1 /\ batch \in Seq(Updates) /\ Len(batch) = 0
    BY EmptySeq DEF LoopInit, Turn, Highest
<1>. QED BY <1>1, LoopAssumption DEF LoopInit, LoopInv, ServedInOrder, Updates

\* An update is done with: the loop goes on with the one after it, if the batch has it.
LEMMA LoopGoesOn ==
    ASSUME LoopInv, batch # <<>>, offset' = Turn + 1, batch' \in {Tail(batch), <<>>},
           UNCHANGED <<arrived, acked, loopDeaths>>,
           \/ served' = [served EXCEPT ![Turn] = @ + 1] /\ failed' = failed
           \/ served' = served /\ failed' = failed \cup {Turn}
    PROVE  LoopInv'
<1>1. /\ Turn \in 1..arrived /\ Turn \in Updates /\ Turn >= acked
      /\ Tail(batch) \in Seq(Updates) /\ Len(Tail(batch)) = Len(batch) - 1
      /\ \A i \in 1..Len(Tail(batch)) : Tail(batch)[i] = Turn + i
    BY HeadsTurn, TurnStays
<1>2. /\ arrived \in Nat /\ acked \in Nat /\ arrived <= MaxUpdate /\ Len(batch) \in Nat
      /\ Turn + Len(batch) <= arrived + 1
    BY LenProperties, LoopAssumption DEF LoopInv
<1>3. Turn' = Turn + 1
    BY <1>1, <1>2 DEF Turn, Highest
<1>4. /\ batch' \in Seq(Updates) /\ Len(batch') \in Nat /\ Turn' + Len(batch') <= arrived' + 1
      /\ \A i \in 1..Len(batch') : batch'[i] = Turn' + i - 1
    <2>1. CASE batch' = Tail(batch)
        BY <1>1, <1>2, <1>3, <2>1
    <2>2. CASE batch' = <<>>
        <3>1. batch' \in Seq(Updates) /\ Len(batch') = 0
            BY <2>2, EmptySeq
        <3>. QED BY <1>1, <1>2, <1>3, <3>1
    <2>. QED BY <2>1, <2>2
<1>5. /\ served' \in [Updates -> Nat] /\ failed' \subseteq Updates
      /\ served'[Turn] > 0 \/ Turn \in failed'
      /\ served'[Turn] <= 1 + loopDeaths
      /\ \A u \in Updates : u # Turn => served'[u] = served[u]
      /\ \A u \in Updates : served'[u] >= served[u] /\ (u \in failed => u \in failed')
    <2>1. /\ served \in [Updates -> Nat] /\ failed \subseteq Updates /\ loopDeaths \in Nat
          /\ Turn \in Updates /\ Turn >= Turn /\ served[Turn] \in Nat /\ served[Turn] <= loopDeaths
        BY <1>1 DEF LoopInv
    <2>2. CASE served' = [served EXCEPT ![Turn] = @ + 1] /\ failed' = failed
        BY <2>1, <2>2
    <2>3. CASE served' = served /\ failed' = failed \cup {Turn}
        BY <2>1, <2>3
    <2>. QED BY <2>2, <2>3
<1>6. \A v \in 1..Turn' - 1 : served'[v] > 0 \/ v \in failed'
    <2>1. ASSUME NEW v \in 1..Turn' - 1 PROVE served'[v] > 0 \/ v \in failed'
        <3>1. v \in Updates /\ (v = Turn \/ v \in 1..Turn - 1)
            BY <1>1, <1>2, <1>3, <2>1, LoopAssumption DEF Updates
        <3>. QED BY <1>5, <3>1 DEF LoopInv
    <2>. QED BY <2>1
<1>7. \A u \in Updates : u >= Turn' => served'[u] <= loopDeaths'
    BY <1>1, <1>3, <1>5 DEF LoopInv, Updates
<1>8. ASSUME NEW u \in Updates
      PROVE  /\ served'[u] > 0 => \A v \in 1..u - 1 : served'[v] > 0 \/ v \in failed'
             /\ served'[u] <= 1 + loopDeaths
    <2>1. CASE u = Turn
        BY <1>1, <1>3, <1>5, <1>6, <2>1 DEF Updates
    <2>2. CASE u # Turn
        <3>1. served'[u] = served[u] /\ served[u] <= 1 + loopDeaths
            BY <1>5, <2>2 DEF LoopInv, ServedInOrder
        <3>2. ASSUME served[u] > 0, NEW v \in 1..u - 1 PROVE served'[v] > 0 \/ v \in failed'
            <4>1. v \in Updates
                BY <3>2, LoopAssumption DEF Updates
            <4>2. served[v] > 0 \/ v \in failed
                BY <3>2 DEF LoopInv, ServedInOrder
            <4>. QED BY <1>5, <4>1, <4>2 DEF LoopInv
        <3>. QED BY <3>1, <3>2
    <2>. QED BY <2>1, <2>2
<1>9. /\ arrived' \in 0..MaxUpdate /\ acked' \in 1..arrived' + 1 /\ offset' \in 0..arrived' + 1
      /\ loopDeaths' \in Nat
    BY <1>1 DEF LoopInv
<1>. QED BY <1>4, <1>5, <1>6, <1>7, <1>8, <1>9 DEF LoopInv, ServedInOrder

\* The loop is the same as before, as far as the order goes.
LEMMA LoopRests ==
    ASSUME LoopInv, UNCHANGED <<arrived, acked, offset, batch, loopDeaths, served, failed>>
    PROVE  LoopInv'
BY DEF LoopInv, ServedInOrder, Turn, Highest

LEMMA LoopKeeps == LoopInv /\ [LoopNext]_loopVars => LoopInv'
<1>. SUFFICES ASSUME LoopInv, [LoopNext]_loopVars PROVE LoopInv'
    OBVIOUS
<1>1. CASE UNCHANGED loopVars
    BY <1>1, LoopRests DEF loopVars
<1>2. CASE RemoteFlips
    BY <1>2, LoopRests DEF RemoteFlips
<1>3. CASE DecidedOnBuzz
    BY <1>3, LoopRests DEF DecidedOnBuzz
<1>4. CASE Arrive
    <2>1. /\ arrived \in Nat /\ arrived' = arrived + 1 /\ arrived' \in 0..MaxUpdate
          /\ UNCHANGED <<acked, offset, batch, loopDeaths, served, failed>>
        BY <1>4, LoopAssumption DEF Arrive, LoopInv
    <2>2. Turn' = Turn /\ Turn \in Nat /\ Len(batch) \in Nat
        BY <2>1, TurnStays, LenProperties DEF Turn, Highest, LoopInv
    <2>3. acked' \in 1..arrived' + 1 /\ offset' \in 0..arrived' + 1 /\ Turn' + Len(batch') <= arrived' + 1
        BY <2>1, <2>2 DEF LoopInv
    <2>. QED BY <2>1, <2>2, <2>3 DEF LoopInv, ServedInOrder
<1>5. CASE GetUpdates
    <2>1. /\ arrived \in Nat /\ arrived <= MaxUpdate /\ Turn \in 1..arrived + 1 /\ offset \in 0..Turn
          /\ acked' = Turn /\ UNCHANGED <<arrived, offset, loopDeaths, served, failed>>
        BY <1>5, TurnStays, LoopAssumption DEF GetUpdates, LoopInv, Turn
    <2>2. Turn' = Turn
        BY <2>1 DEF Turn, Highest
    <2>3. arrived + 1 - Turn \in Nat /\ batch' = [i \in 1..(arrived + 1 - Turn) |-> Turn + i - 1]
        BY <1>5, <2>1 DEF GetUpdates
    <2>4. \A i \in 1..(arrived + 1 - Turn) : Turn + i - 1 \in Updates
        BY <2>1, LoopAssumption DEF Updates
    <2>5. batch' \in Seq(Updates) /\ Len(batch') = arrived + 1 - Turn
        BY <2>3, <2>4, SeqDef, LenProperties
    <2>6. \A i \in 1..Len(batch') : batch'[i] = Turn' + i - 1
        BY <2>2, <2>3, <2>5
    <2>7. Turn' + Len(batch') <= arrived' + 1
        BY <2>1, <2>2, <2>5
    <2>. QED BY <2>1, <2>2, <2>5, <2>6, <2>7 DEF LoopInv, ServedInOrder
<1>6. CASE Serve
    BY <1>6, HeadsTurn, LoopGoesOn DEF Serve
<1>7. CASE HandlerRaises
    BY <1>7, HeadsTurn, LoopGoesOn DEF HandlerRaises
<1>8. CASE LoopDies
    <2>1. /\ offset' = 0 /\ batch' = <<>> /\ loopDeaths' = loopDeaths + 1
          /\ UNCHANGED <<arrived, acked, served, failed>>
        BY <1>8 DEF LoopDies
    <2>2. Turn' = acked /\ acked \in 1..arrived + 1 /\ Turn >= acked /\ Turn \in Nat
        BY <2>1, TurnStays, LoopAssumption DEF Turn, Highest, LoopInv
    <2>3. batch' \in Seq(Updates) /\ Len(batch') = 0
        BY <2>1, EmptySeq
    <2>4. \A v \in 1..Turn' - 1 : served[v] > 0 \/ v \in failed
        BY <2>2, LoopAssumption DEF LoopInv
    <2>5. \A u \in Updates : served[u] <= loopDeaths'
        BY <2>1 DEF LoopInv, ServedInOrder
    <2>6. ServedInOrder'
        BY <2>1, <2>5 DEF LoopInv, ServedInOrder
    <2>. QED BY <2>1, <2>2, <2>3, <2>4, <2>5, <2>6, LoopAssumption DEF LoopInv
<1>. QED BY <1>1, <1>2, <1>3, <1>4, <1>5, <1>6, <1>7, <1>8 DEF LoopNext, LoopStep

\* Updates are served in their order, none is skipped but one whose handler raised, and one
\* is served again only when the loop has died since: the offset is in memory, and moves
\* before its update is served (telegram_poll_loop, scheduler.py:398).
THEOREM UpdatesInOrder == LoopSpec => []ServedInOrder
<1>1. LoopInv => ServedInOrder
    BY DEF LoopInv
<1>. QED BY <1>1, LoopStarts, LoopKeeps, PTL DEF LoopSpec
=============================================================================
