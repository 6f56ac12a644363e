------------------------------ MODULE Catalog ------------------------------
(***************************************************************************)
(* The table actionable_package_available_versions under everything that   *)
(* writes it at the same time: the cron jobs that fetch, tag and scan      *)
(* versions (cli/actionable.py), and the web requests that scan a version  *)
(* again or onboard a package (api/actionable.py, api/onboard_package.py). *)
(*                                                                         *)
(* A scan works for minutes on a copy of its row and writes back only the  *)
(* columns that differ from the copy: that is all an UPDATE of SQLAlchemy  *)
(* names.  The job populate_next_safe_versions is SafeVersionSearch.tla.   *)
(***************************************************************************)
EXTENDS VersionRow, FiniteSets, Sequences

CONSTANTS
    Packages,    \* the packages of safe_actionable
    MaxVersion,  \* the versions of a package are 1 .. MaxVersion
    Published,   \* the versions PurlDB knows, a set of ids
    InUse,       \* is_version_in_use, a set of ids
    Counts,      \* the vulnerability counts ScanCode.io may find
    Scanners,    \* threads of scanning jobs, and rescan requests
    Fetchers,    \* processes that fetch versions
    Markers,     \* processes that tag the latest versions
    MaxScans     \* bound: projects ScanCode.io creates

Versions == 1 .. MaxVersion
Ids == Packages \X Versions
OfPackage(p) == {p} \X Versions

ASSUME CatalogAssumption ==
    /\ MaxVersion \in Nat \ {0}
    /\ Published \subseteq Ids
    /\ InUse \subseteq Ids
    /\ Counts \subseteq Nat
    /\ MaxScans \in Nat

VARIABLES
    stored,    \* the ids that have a row
    rows,      \* scan state of the rows (NewRow where there is none)
    latest,    \* the ids with is_latest
    projects,  \* ScanCode.io: the version and the count of each project
    task,      \* what each scanner is at
    fetch,     \* what each fetcher is at
    mark       \* what each marker is at

vars == <<stored, rows, latest, projects, task, fetch, mark>>

NoId == <<>>
Projects == 1 .. MaxScans
Rows == RowType(Projects, Counts)

\* id: the row being scanned; copy: the row as it was loaded; held: whether
\* the job holds another copy of the row in its session.
Idle == [id |-> NoId, copy |-> NewRow, held |-> FALSE]

\* answer: the versions PurlDB named; pending: those not looked at yet; at:
\* the one about to be inserted; first: none of the answer was stored before.
NoFetch == [pc |-> "idle", answer |-> {}, pending |-> {}, at |-> NoId,
            first |-> FALSE]

\* todo: packages not tagged yet; seen: the rows loaded of the current one;
\* old: those of them that were the latest.
NoMark == [pc |-> "idle", todo |-> {}, seen |-> {}, old |-> {}]

TypeOK ==
    /\ stored \subseteq Ids
    /\ rows \in [Ids -> Rows]
    /\ latest \subseteq stored
    /\ projects \in Seq([of: Ids, count: Counts])
    /\ Len(projects) <= MaxScans
    /\ task \in [Scanners -> [id: stored \union {NoId}, copy: Rows,
                              held: BOOLEAN]]
    /\ fetch \in [Fetchers -> [pc: {"idle", "loop", "insert"},
                               answer: SUBSET Ids, pending: SUBSET Ids,
                               at: Ids \union {NoId}, first: BOOLEAN]]
    /\ mark \in [Markers -> [pc: {"idle", "next", "write"},
                             todo: SUBSET Packages, seen: SUBSET stored,
                             old: SUBSET stored]]

\* Some versions were fetched before; none has been scanned or tagged.
Init ==
    /\ stored \in SUBSET Published
    /\ rows = [id \in Ids |-> NewRow]
    /\ latest = {}
    /\ projects = <<>>
    /\ task = [s \in Scanners |-> Idle]
    /\ fetch = [f \in Fetchers |-> NoFetch]
    /\ mark = [k \in Markers |-> NoMark]

-----------------------------------------------------------------------------
(* Scanning.                                                               *)

\* A scanner takes the row id up with a copy of it; scan_and_update_results
\* returns at once when that copy is not to be scanned.
TakeUp(s, id, isRescan, held) ==
    /\ task[s] = Idle
    /\ Scans(rows[id], isRescan)
    /\ task' = [task EXCEPT ![s] =
                   [id |-> id, copy |-> rows[id], held |-> held]]
    /\ UNCHANGED <<stored, rows, latest, projects, fetch, mark>>

\* scan_versions_in_use: unless vulnerabilities are known already.
ScanInUse(s) ==
    \E id \in stored \intersect InUse :
        /\ ~(rows[id].count > 0)
        /\ TakeUp(s, id, FALSE, FALSE)

\* rescan_failed_packages
RescanFailed(s) ==
    \E id \in stored :
        /\ rows[id].status = "FAILED"
        /\ rows[id].count = NoCount
        /\ TakeUp(s, id, FALSE, FALSE)

SafeUpgradeKnown(u) ==
    \E v \in u[2] .. MaxVersion :
        <<u[1], v>> \in stored /\ KnownSafe(rows[<<u[1], v>>])

\* scan_latest_versions: for a version in use that is not safe and has no
\* safe upgrade.  The job holds the rows in use in its session `conn`.
ScanLatest(s) ==
    \E u \in stored \intersect InUse :
        /\ ~IsSafe(rows[u])
        /\ ~SafeUpgradeKnown(u)
        /\ \E id \in latest :
            /\ latest \intersect OfPackage(u[1]) = {id}
            /\ TakeUp(s, id, FALSE, id \in InUse)

\* request_package_scan
RequestScan(s) == \E id \in stored : TakeUp(s, id, TRUE, FALSE)

\* The scan ends, one way or another, and the row is updated.
Record(s) ==
    LET id == task[s].id
        project == Len(projects) + 1
    IN  /\ id # NoId
        /\ ~task[s].held
        /\ \E outcome \in Outcomes, count \in Counts :
            /\ rows' = [rows EXCEPT ![id] =
                    Updated(@, task[s].copy,
                            Scanned(task[s].copy, outcome, project, count))]
            /\ IF outcome = "refused"
               THEN UNCHANGED projects
               ELSE /\ project <= MaxScans
                    /\ projects' = Append(projects,
                                          [of |-> id, count |-> count])
        /\ task' = [task EXCEPT ![s] = Idle]
        /\ UNCHANGED <<stored, latest, fetch, mark>>

\* The result is lost: the process is killed, the commit raises, or conn.add
\* refuses a second copy of a row the job holds.
Lose(s) ==
    /\ task[s] # Idle
    /\ task' = [task EXCEPT ![s] = Idle]
    /\ UNCHANGED <<stored, rows, latest, projects, fetch, mark>>

-----------------------------------------------------------------------------
(* Actionable.fetch_and_store_versions.                                    *)

\* PurlDB answers with versions of a package (with none, nothing happens).
FetchAnswer(f) ==
    /\ fetch[f].pc = "idle"
    /\ \E p \in Packages :
       \E answer \in SUBSET (Published \intersect OfPackage(p)) :
        /\ answer # {}
        /\ fetch' = [fetch EXCEPT ![f] =
               [pc |-> "loop", answer |-> answer, pending |-> answer,
                at |-> NoId, first |-> answer \intersect stored = {}]]
    /\ UNCHANGED <<stored, rows, latest, projects, task, mark>>

\* get_or_create looks for a row equal to the new one in every column.
Found(id) == id \in stored /\ rows[id] = NewRow /\ id \notin latest

\* The query of get_or_create, for the versions in any order.
Lookup(f) ==
    /\ fetch[f].pc = "loop"
    /\ \E id \in fetch[f].pending :
        IF Found(id)
        THEN fetch' = [fetch EXCEPT ![f].pending = @ \ {id}]
        ELSE fetch' = [fetch EXCEPT ![f].pc = "insert", ![f].at = id,
                                    ![f].pending = @ \ {id}]
    /\ UNCHANGED <<stored, rows, latest, projects, task, mark>>

\* (mutant) The function left after the first row it stores.
InsertOnlyOne(f) ==
    /\ fetch[f].pc = "insert"
    /\ stored' = stored \union {fetch[f].at}
    /\ fetch' = [fetch EXCEPT ![f].pc = "loop", ![f].at = NoId,
                              ![f].pending = {}]
    /\ UNCHANGED <<rows, latest, projects, task, mark>>

\* The INSERT.  With a row of the version there already, uq_package_version
\* is violated and the exception ends the loop; it is logged only.
Insert(f) ==
    /\ fetch[f].pc = "insert"
    /\ IF fetch[f].at \in stored
       THEN /\ fetch' = [fetch EXCEPT ![f].pc = "loop", ![f].at = NoId,
                                      ![f].pending = {}]
            /\ UNCHANGED stored
       ELSE /\ fetch' = [fetch EXCEPT ![f].pc = "loop", ![f].at = NoId]
            /\ stored' = stored \union {fetch[f].at}
    /\ UNCHANGED <<rows, latest, projects, task, mark>>

FetchOver(f) == fetch[f].pc = "loop" /\ fetch[f].pending = {}

\* The fetcher is over, or killed by the scheduler when it takes too long.
FetchStops(f) ==
    /\ fetch[f].pc # "idle"
    /\ fetch' = [fetch EXCEPT ![f] = NoFetch]
    /\ UNCHANGED <<stored, rows, latest, projects, task, mark>>

-----------------------------------------------------------------------------
(* update_latest_version_tag and Actionable.mark_latest_version.           *)

MarkStart(k) ==
    /\ mark[k].pc = "idle"
    /\ mark' = [mark EXCEPT ![k].pc = "next", ![k].todo = Packages]
    /\ UNCHANGED <<stored, rows, latest, projects, task, fetch>>

\* (mutant) The newest version PurlDB knows, stored or not.
MarkReadPublished(k) ==
    /\ mark[k].pc = "next"
    /\ \E p \in mark[k].todo :
        mark' = [mark EXCEPT ![k] =
                    [pc |-> "write", todo |-> @.todo \ {p},
                     seen |-> Published \intersect OfPackage(p),
                     old |-> latest \intersect OfPackage(p)]]
    /\ UNCHANGED <<stored, rows, latest, projects, task, fetch>>

\* Load the rows of the next package; max() of none raises and ends the job.
MarkRead(k) ==
    /\ mark[k].pc = "next"
    /\ \E p \in mark[k].todo :
        LET seen == stored \intersect OfPackage(p)
        IN  IF seen = {}
            THEN mark' = [mark EXCEPT ![k].todo = {}]
            ELSE mark' = [mark EXCEPT ![k] =
                    [pc |-> "write", todo |-> @.todo \ {p}, seen |-> seen,
                     old |-> latest \intersect seen]]
    /\ UNCHANGED <<stored, rows, latest, projects, task, fetch>>

\* max(versions), in the order of MavenVersion
IsNewest(id, ids) == id \in ids /\ \A other \in ids : other[2] <= id[2]

\* (mutant) The flags of the other versions left alone.
MarkedToo(old, newest) == latest \union {newest}

\* Only flags that changed are written: the newest version gains its flag and
\* the others that had one lose it.
Marked(old, newest) == (latest \ (old \ {newest})) \union ({newest} \ old)

MarkWrite(k) ==
    /\ mark[k].pc = "write"
    /\ \E newest \in mark[k].seen :
        /\ IsNewest(newest, mark[k].seen)
        /\ latest' = Marked(mark[k].old, newest)
    /\ mark' = [mark EXCEPT ![k].pc = "next", ![k].seen = {}, ![k].old = {}]
    /\ UNCHANGED <<stored, rows, projects, task, fetch>>

MarkOver(k) == mark[k].pc = "next" /\ mark[k].todo = {}

\* The job is over, or killed by the scheduler when it takes too long.
MarkStops(k) ==
    /\ mark[k].pc # "idle"
    /\ mark' = [mark EXCEPT ![k] = NoMark]
    /\ UNCHANGED <<stored, rows, latest, projects, task, fetch>>

-----------------------------------------------------------------------------
Scan(s) ==
    \/ ScanInUse(s) \/ RescanFailed(s) \/ ScanLatest(s) \/ RequestScan(s)
    \/ Record(s) \/ Lose(s)

Fetch(f) ==
    FetchAnswer(f) \/ Lookup(f) \/ Insert(f) \/ FetchStops(f)

Mark(k) ==
    MarkStart(k) \/ MarkRead(k) \/ MarkWrite(k) \/ MarkStops(k)

Next ==
    \/ \E s \in Scanners : Scan(s)
    \/ \E f \in Fetchers : Fetch(f)
    \/ \E k \in Markers : Mark(k)

Spec == Init /\ [][Next]_vars

-----------------------------------------------------------------------------
(* Properties.                                                             *)

\* A row that says SUCCESS has a project and a count, however scans of the row
\* overlap, fail or are lost: the columns come from different scans, but
\* never from none.
SuccessIsCounted ==
    \A id \in Ids : rows[id].status = "SUCCESS" =>
        rows[id].project # NoProject /\ rows[id].count # NoCount

\* What a row shows was found for its own version: its project is one of the
\* version, and its count that of one of the version's projects.
CountsAreGenuine ==
    \A id \in Ids :
        /\ rows[id].project # NoProject =>
              /\ rows[id].project \in DOMAIN projects
              /\ projects[rows[id].project].of = id
        /\ rows[id].count # NoCount =>
              \E p \in DOMAIN projects :
                  projects[p] = [of |-> id, count |-> rows[id].count]

\* No job or request takes a row, its project or its count away: a scan that
\* fails on an old copy does not erase what another one found meanwhile.
ResultsAreKept ==
    [][/\ stored \subseteq stored'
       /\ \A id \in Ids :
            /\ rows[id].project # NoProject => rows'[id].project # NoProject
            /\ rows[id].count # NoCount => rows'[id].count # NoCount]_vars

\* While a single process tags versions, get_latest (one_or_none) finds at
\* most one latest version of a package, whatever is inserted meanwhile.
AtMostOneLatest ==
    (\A j, k \in Markers : j = k) =>
        \A a, b \in latest : a[1] = b[1] => a = b

\* A fetch of a package of which nothing was stored before stores all it was
\* answered, when no other process fetches: onboarding is complete.
FirstFetchIsComplete ==
    (\A e, f \in Fetchers : e = f) =>
        \A f \in Fetchers : FetchOver(f) /\ fetch[f].first =>
            fetch[f].answer \subseteq stored

\* models.py, ActionablePackageAvailableVersion: "Stores all available
\* versions of an actionable package".  So after a fetch that PurlDB
\* answered, every version of the answer has a row.
StoresAllVersions ==
    \A f \in Fetchers :
        FetchOver(f) => fetch[f].answer \subseteq stored
=============================================================================
