------------------------------ MODULE InboxScan ------------------------------
(***************************************************************************)
(* The vault's inbox (kai-worker-api/routes/inbox.py): every minute the    *)
(* scheduler asks for a scan, which hands each file to an advisor, writes  *)
(* the answer into the advisor's knowledge and files the original.  Scans  *)
(* run in the background and nothing keeps two of them apart.              *)
(***************************************************************************)
EXTENDS Naturals, FiniteSets

CONSTANTS
    MaxFiles,  \* names of files that may arrive, in the order in which a scan sorts them
    Scans,     \* scans that may run at the same time
    MaxDeaths  \* bound on restarts of the worker

ASSUME InboxAssumption == MaxFiles \in Nat /\ MaxDeaths \in Nat /\ IsFiniteSet(Scans)

VARIABLES
    inbox,     \* inbox[f]: the directories that hold a file of that name
    scan,      \* scan[i]: the file at work and the files still to do
    noted,     \* files with an answer in the advisor's knowledge
    deaths     \* restarts of the worker so far

inboxVars == <<inbox, scan, noted, deaths>>

Names == 1..MaxFiles
NoScan == [at |-> "idle", todo |-> {}]

InboxTypeOK ==
    /\ inbox \in [Names -> SUBSET {"inbox", "pending", "processed", "failed"}]
    /\ scan \in [Scans -> [at : {"idle", "read", "asks", "noted"}, todo : SUBSET Names]]
    /\ \A i \in Scans : scan[i].at = "idle" <=> scan[i].todo = {}
    /\ noted \subseteq Names /\ deaths \in 0..MaxDeaths

InboxInit ==
    /\ inbox = [f \in Names |-> {}]
    /\ scan = [i \in Scans |-> NoScan]
    /\ noted = {} /\ deaths = 0

InDirectory(d) == {f \in Names : d \in inbox[f]}
AtWork(i) == CHOOSE f \in scan[i].todo : \A g \in scan[i].todo : f <= g
NextFile(i) ==
    IF Cardinality(scan[i].todo) = 1 THEN NoScan
    ELSE [at |-> "read", todo |-> scan[i].todo \ {AtWork(i)}]
Files(f, d) == inbox' = [inbox EXCEPT ![f] = (@ \ {"inbox"}) \cup {d}]

-----------------------------------------------------------------------------
\* A file is dropped into the inbox, by Leo or by parking_lot_triage; an earlier one of
\* that name is replaced.
Arrives(f) ==
    /\ inbox' = [inbox EXCEPT ![f] = @ \cup {"inbox"}]
    /\ UNCHANGED <<scan, noted, deaths>>

\* _scan_inbox: the files there are now.
ScanStarts(i) ==
    /\ scan[i] = NoScan /\ InDirectory("inbox") # {}
    /\ scan' = [scan EXCEPT ![i] = [at |-> "read", todo |-> InDirectory("inbox")]]
    /\ UNCHANGED <<inbox, noted, deaths>>

\* A file that another scan has moved can be neither read nor renamed: the second exception,
\* raised on the way to failed/, ends the scan.
ScanDies(i) ==
    /\ scan[i].at \in {"read", "noted"} /\ "inbox" \notin inbox[AtWork(i)]
    /\ scan' = [scan EXCEPT ![i] = NoScan]
    /\ UNCHANGED <<inbox, noted, deaths>>

\* _process_file: a file without a valid route waits in pending/ for Leo, one that cannot be
\* read goes to failed/.
ScanReads(i) ==
    /\ scan[i].at = "read" /\ "inbox" \in inbox[AtWork(i)]
    /\ \/ scan' = [scan EXCEPT ![i].at = "asks"] /\ UNCHANGED inbox
       \/ /\ \E d \in {"pending", "failed"} : Files(AtWork(i), d)
          /\ scan' = [scan EXCEPT ![i] = NextFile(i)]
    /\ UNCHANGED <<noted, deaths>>

\* Mutant of Asks: the file is filed before the answer is written.
AsksFilesFirst(i) ==
    /\ scan[i].at = "asks" /\ "inbox" \in inbox[AtWork(i)]
    /\ Files(AtWork(i), "processed")
    /\ scan' = [scan EXCEPT ![i] = NextFile(i)] /\ UNCHANGED <<noted, deaths>>

\* The council answers, with an answer or an error status, and that is noted; or the call
\* fails, and the file goes to failed/ if it is still there.
Asks(i) ==
    /\ scan[i].at = "asks"
    /\ \/ /\ noted' = noted \cup {AtWork(i)} /\ scan' = [scan EXCEPT ![i].at = "noted"]
          /\ UNCHANGED inbox
       \/ /\ "inbox" \in inbox[AtWork(i)] /\ Files(AtWork(i), "failed")
          /\ scan' = [scan EXCEPT ![i] = NextFile(i)] /\ UNCHANGED noted
       \/ /\ "inbox" \notin inbox[AtWork(i)]
          /\ scan' = [scan EXCEPT ![i] = NoScan] /\ UNCHANGED <<inbox, noted>>
    /\ UNCHANGED deaths

ScanFinishes(i) ==
    /\ scan[i].at = "noted" /\ "inbox" \in inbox[AtWork(i)]
    /\ Files(AtWork(i), "processed")
    /\ scan' = [scan EXCEPT ![i] = NextFile(i)]
    /\ UNCHANGED <<noted, deaths>>

\* POST /inbox/reprocess: back into the inbox with the route Leo gave, and a scan at once.
Reprocess(f, i) ==
    /\ "pending" \in inbox[f] /\ scan[i] = NoScan
    /\ inbox' = [inbox EXCEPT ![f] = (@ \ {"pending"}) \cup {"inbox"}]
    /\ scan' = [scan EXCEPT ![i] = [at |-> "read", todo |-> InDirectory("inbox") \cup {f}]]
    /\ UNCHANGED <<noted, deaths>>

\* The worker restarts in the middle of its scans.
ScansLost ==
    /\ deaths < MaxDeaths /\ deaths' = deaths + 1
    /\ scan' = [i \in Scans |-> NoScan] /\ UNCHANGED <<inbox, noted>>

ScanStep(i) == ScanStarts(i) \/ ScanReads(i) \/ Asks(i) \/ ScanFinishes(i) \/ ScanDies(i)
InboxStep == \E i \in Scans : ScanStep(i)

InboxNext ==
    \/ InboxStep
    \/ ScansLost
    \/ \E f \in Names : Arrives(f) \/ \E i \in Scans : Reprocess(f, i)

InboxSpec == InboxInit /\ [][InboxNext]_inboxVars

-----------------------------------------------------------------------------
\* A file is filed as processed only when the advisor's knowledge holds an answer for a file
\* of its name, however many scans work on it (_process_file writes first, then renames).
ProcessedIsNoted == \A f \in Names : "processed" \in inbox[f] => f \in noted

\* Every file leaves the inbox, though overlapping scans stumble over one another and the
\* first that stumbles gives up all the files it had left (_scan_inbox has no handler).
InboxDrains == \A f \in Names : ("inbox" \in inbox[f]) ~> ("inbox" \notin inbox[f])
=============================================================================
