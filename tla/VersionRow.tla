----------------------------- MODULE VersionRow -----------------------------
(***************************************************************************)
(* One row of actionable_package_available_versions: the scan state of one *)
(* version of a package, and what scan_and_update_results (models.py) does *)
(* to it.  Versions are numbers in the order MavenVersion gives them.      *)
(***************************************************************************)
EXTENDS Integers

NoCount == -1          \* vulns_count IS NULL
NoProject == 0         \* scancode_project_uuid IS NULL

\* scan_status; TRIGGERED is set in memory only and replaced by the commit.
Statuses == {"ADDED", "SUCCESS", "FAILED"}

RowType(projects, counts) ==
    [status: Statuses,
     project: projects \union {NoProject},
     count: counts \union {NoCount}]

NewRow == [status |-> "ADDED", project |-> NoProject, count |-> NoCount]

\* is_safe
IsSafe(row) == row.count = 0

\* get_safe_versions: the filter on vulns_count and scan_status.
KnownSafe(row) == row.status = "SUCCESS" /\ row.count = 0

\* _get_vulnerabilities_count: without a project there is nothing to count,
\* and the answer is 0.
LiveCount(row, reported) ==
    IF row.project = NoProject THEN 0 ELSE reported[row.project]

\* (mutant) The early return forgotten.
AlwaysScans(row, isRescan) == TRUE

\* The early return: a finished scan is repeated only on demand.
Scans(row, isRescan) == row.status # "SUCCESS" \/ isRescan

\* How the body of scan_and_update_results can go.
\*   counted    ScanCode.io answered with a project and it was counted
\*   uncounted  the project was noted, then counting it raised
\*   refused    no project: the request raised, or its answer had no uuid
Outcomes == {"counted", "uncounted", "refused"}

\* (mutant) The exception handler forgets the status.
ScannedUnchecked(row, outcome, project, count) ==
    [status |-> "SUCCESS",
     project |-> IF outcome = "refused" THEN row.project ELSE project,
     count |-> IF outcome = "counted" THEN count ELSE row.count]

\* (mutant) A scan that failed leaves nothing found.
ScannedAsZero(row, outcome, project, count) ==
    [status |-> IF outcome = "counted" THEN "SUCCESS" ELSE "FAILED",
     project |-> IF outcome = "refused" THEN row.project ELSE project,
     count |-> IF outcome = "counted" THEN count ELSE 0]

\* The object at the end of the scan: what was assigned before an exception
\* stays, so a failed scan keeps the count of an earlier one.
Scanned(row, outcome, project, count) ==
    [status |-> IF outcome = "counted" THEN "SUCCESS" ELSE "FAILED",
     project |-> IF outcome = "refused" THEN row.project ELSE project,
     count |-> IF outcome = "counted" THEN count ELSE row.count]

\* (mutant) The whole object written back.
WholeRow(row, copy, new) == new

\* The row after the UPDATE for an object loaded as copy and now new.
Updated(row, copy, new) ==
    [status |-> IF new.status # copy.status THEN new.status ELSE row.status,
     project |-> IF new.project # copy.project THEN new.project
                                               ELSE row.project,
     count |-> IF new.count # copy.count THEN new.count ELSE row.count]
=============================================================================
