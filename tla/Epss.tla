-------------------------------- MODULE Epss --------------------------------
(***************************************************************************)
(* The scores of the Exploit Prediction Scoring System: epss-update keeps  *)
(* the table epss up to date with a public API, and                        *)
(* calculate-package-epss gives each version whose last scan was a success *)
(* the greatest score of its CVEs.  The scheduler runs one job after the   *)
(* other, and a job may stop anywhere.  Meanwhile versions are scanned     *)
(* again, by scans that may overlap, fail, or get lost (VersionRow): this  *)
(* is Catalog for the versions that repositories use.                      *)
(***************************************************************************)
EXTENDS VersionRow, FiniteSets, FiniteSetsExt, Sequences

CONSTANTS
    Packages,      \* the versions in use
    Cves, NoCve,   \* and a vulnerability that has no CVE among its aliases
    Findings,      \* external: the results a scan of each version may have
    Published,     \* external: the scores of the API
    BatchSize,     \* 100 in both jobs
    MaxScans,      \* bound: the scans of versions
    NoScore

ASSUME EpssAssumption ==
    /\ IsFiniteSet(Cves) /\ NoCve \notin Cves
    /\ Findings \in [Packages -> SUBSET SUBSET (Cves \union {NoCve})]
    /\ NoScore \notin Nat
    /\ Published \in [Cves -> Nat \union {NoScore}]
    /\ BatchSize \in Nat \ {0} /\ MaxScans \in Nat

VARIABLES
    rows,       \* scan state of each version
    projects,   \* ScanCode.io: the vulnerabilities found in each project
    loaded,     \* the rows each version has had, each may be a scan's copy
    scans,      \* the scans that ended, up to MaxScans
    score,      \* epss_score of each version
    epss,       \* the table epss
    fresh,      \* the CVEs updated in the last thirty days
    cron        \* the job that runs

scanVars == <<rows, projects, loaded, scans>>
epssVars == <<rows, projects, loaded, scans, score, epss, fresh, cron>>

Scores == Nat \union {NoScore}

\* cves, packages: what is left to the job; broken: its session needs a
\* rollback that nobody makes; exact: history, what the last job calculated
\* is still what the tables say.
NoJob == [pc |-> "idle", cves |-> {}, packages |-> {}, broken |-> FALSE,
          exact |-> FALSE]

Rows == RowType(DOMAIN projects, Nat)

EpssTypeOK ==
    /\ projects \in Seq(SUBSET (Cves \union {NoCve}))
    /\ scans \in 0..MaxScans
    /\ rows \in [Packages -> Rows]
    /\ loaded \in [Packages -> SUBSET Rows]
    /\ score \in [Packages -> Scores]
    /\ epss \in [Cves -> Scores]
    /\ fresh \subseteq {c \in Cves : epss[c] # NoScore}
    /\ cron \in [pc: {"idle", "refresh", "calculate"}, cves: SUBSET Cves,
                 packages: SUBSET Packages, broken: BOOLEAN, exact: BOOLEAN]
    /\ cron.cves \intersect fresh = {} \/ cron.pc # "refresh"

EpssInit ==
    /\ rows = [p \in Packages |-> NewRow]
    /\ projects = <<>> /\ scans = 0
    /\ loaded = [p \in Packages |-> {NewRow}]
    /\ score = [p \in Packages |-> NoScore]
    /\ epss = [c \in Cves |-> NoScore]
    /\ fresh = {} /\ cron = NoJob

-----------------------------------------------------------------------------
\* What the project of a version lists, none without a project.
Found(p) == IF rows[p].project = NoProject THEN {} ELSE projects[rows[p].project]

\* With a vulns_count of NULL or 0 the version is left out of reports.
Vulnerable == {p \in Packages : rows[p].count \notin {NoCount, 0}}

\* The versions that calculate-package-epss takes.
Scored == {p \in Packages : /\ rows[p].status = "SUCCESS"
                            /\ rows[p].project # NoProject}

\* get_cves, as far as the table epss has them.
Known(p) == {epss[c] : c \in Found(p) \ {NoCve}} \ {NoScore}

Batches(todo) ==
    {batch \in SUBSET todo :
        Cardinality(batch) = IF Cardinality(todo) < BatchSize
                             THEN Cardinality(todo) ELSE BatchSize}

\* Of all versions with a project, whatever became of their last scan.
AllFound == (UNION {Found(p) : p \in Packages}) \ {NoCve}

\* get_stale_or_missing_cves
ToFetch == AllFound \ fresh

\* epss-update --all-actionable-cves
StartRefresh ==
    /\ cron.pc = "idle"
    /\ cron' = [NoJob EXCEPT !.pc = "refresh", !.cves = ToFetch]
    /\ UNCHANGED <<scanVars, score, epss, fresh>>

\* One batch of refresh_cves: the scores of the answer are stored, or the API
\* gives no answer, or the commit of update_epss_scores fails, for instance
\* because another run inserts the same CVE.  After that nothing works in
\* this session, and every batch left is counted as failed.
Refresh ==
    /\ cron.pc = "refresh"
    /\ cron.cves # {}
    /\ \E batch \in Batches(cron.cves) :
        LET answer == {c \in batch : Published[c] # NoScore}
        IN  \/ /\ ~cron.broken
               /\ epss' = [c \in Cves |-> IF c \in answer THEN Published[c] ELSE epss[c]]
               /\ fresh' = fresh \union answer
               /\ cron' = [cron EXCEPT !.cves = @ \ batch]
            \/ /\ cron' = [cron EXCEPT !.cves = @ \ batch]
               /\ UNCHANGED <<epss, fresh>>
            \/ /\ cron' = [cron EXCEPT !.cves = @ \ batch, !.broken = TRUE]
               /\ UNCHANGED <<epss, fresh>>
    /\ UNCHANGED <<scanVars, score>>

StartCalculate ==
    /\ cron.pc = "idle"
    /\ cron' = [NoJob EXCEPT !.pc = "calculate", !.packages = Scored,
                             !.exact = TRUE]
    /\ UNCHANGED <<scanVars, score, epss, fresh>>

\* (mutant) Any score that is known.
AnyScore(p) == IF Known(p) = {} THEN score[p] ELSE CHOOSE x \in Known(p) : TRUE

\* Without a CVE, or without a score of it, the version keeps what it had.
NewScore(p) == IF Known(p) = {} THEN score[p] ELSE Max(Known(p))

\* One batch of calculate-package-epss: a version that raises is left out, a
\* commit that fails is rolled back, and the job goes on.
Calculate ==
    /\ cron.pc = "calculate"
    /\ cron.packages # {}
    /\ \E batch \in Batches(cron.packages) : \E done \in SUBSET batch :
        /\ score' = [p \in Packages |-> IF p \in done THEN NewScore(p) ELSE score[p]]
        /\ cron' = [cron EXCEPT !.packages = @ \ batch,
                                !.exact = @ /\ done = batch]
    /\ UNCHANGED <<scanVars, epss, fresh>>

\* The job is done, fails, or is killed.
EndJob ==
    /\ cron.pc # "idle"
    /\ cron' = [NoJob EXCEPT !.exact = cron.exact /\ cron.packages = {}]
    /\ UNCHANGED <<scanVars, score, epss, fresh>>

\* Thirty days pass.
Age ==
    /\ \E c \in fresh : fresh' = fresh \ {c}
    /\ UNCHANGED <<scanVars, score, epss, cron>>

-----------------------------------------------------------------------------
\* A scan of a version ends, one way or another, and the columns in which the
\* object differs from the row as it was loaded are written.  Any number of
\* scans and rescans may be going on, so the copy is one of any row there was.
\* After a failure the version keeps its count, its score and, if none was
\* created, its project.  A scan that is killed, or whose commit raises, leaves
\* no trace.
Record(p) ==
    /\ scans < MaxScans /\ scans' = scans + 1
    /\ \E copy \in loaded[p], outcome \in Outcomes, result \in Findings[p] :
        /\ rows' = [rows EXCEPT ![p] =
               Updated(@, copy, Scanned(copy, outcome, Len(projects) + 1,
                                        Cardinality(result)))]
        /\ projects' = IF outcome = "refused" THEN projects
                                              ELSE Append(projects, result)
    /\ loaded' = [loaded EXCEPT ![p] = @ \union {rows'[p]}]
    /\ cron' = [cron EXCEPT !.exact = FALSE]
    /\ UNCHANGED <<score, epss, fresh>>

EpssNext ==
    \/ StartRefresh \/ Refresh \/ StartCalculate \/ Calculate \/ EndJob
    \/ Age
    \/ \E p \in Packages : Record(p)
=============================================================================
