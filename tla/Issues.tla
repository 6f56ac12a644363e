------------------------------- MODULE Issues -------------------------------
(***************************************************************************)
(* raise-sca-as-git-issue: the vulnerable versions that a repository uses  *)
(* are kept in one labelled issue on GitHub, with those of a high score    *)
(* (Epss) on top, and the issue is closed when there are none.  Commands   *)
(* are run by hand and may overlap; people open and close issues too.      *)
(***************************************************************************)
EXTENDS Epss

CONSTANTS
    Runs,          \* the runs of the command that may be going on at once
    Critical,      \* a score above it makes a version P0
    PageSize,      \* the issues of the answer of GitHub
    MaxRuns,       \* bound: the runs of the command
    MaxIssues,     \* bound: the issues that are opened
    NoBody

ASSUME IssuesAssumption ==
    /\ Critical \in Nat /\ PageSize \in Nat \ {0}
    /\ MaxRuns \in Nat /\ MaxIssues \in Nat

VARIABLES
    issues,       \* external: the issues of the repository, as they were opened
    run,          \* what each run is at
    started,      \* the runs started, up to MaxRuns
    overlapped,   \* history: two runs went on at the same time
    hidden        \* history: a run did not see the open issue on the first page

vars == <<epssVars, issues, run, started, overlapped, hidden>>

Bodies == [p0: SUBSET Packages, other: SUBSET Packages]

ASSUME BodyAssumption == NoBody \notin Bodies

\* read: the results, versions with their scores; issue: the one found, or 0;
\* steady: history, nothing it depends on changed since it was read.
NoRun == [pc |-> "idle", read |-> {}, issue |-> 0, steady |-> FALSE]

TypeOK ==
    /\ EpssTypeOK
    /\ issues \in Seq([labelled: BOOLEAN, open: BOOLEAN, body: Bodies \union {NoBody}])
    /\ \A i \in DOMAIN issues : issues[i].labelled <=> issues[i].body # NoBody
    /\ run \in [Runs -> [pc: {"idle", "ended", "find", "write"},
                         read: SUBSET (Packages \X Scores),
                         issue: 0..Len(issues), steady: BOOLEAN]]
    /\ \A r \in Runs : run[r].issue # 0 => issues[run[r].issue].labelled
    /\ started \in 0..MaxRuns
    /\ overlapped \in BOOLEAN /\ hidden \in BOOLEAN

Init ==
    /\ EpssInit
    /\ issues = <<>> /\ run = [r \in Runs |-> NoRun] /\ started = 0
    /\ overlapped = FALSE /\ hidden = FALSE

-----------------------------------------------------------------------------
Busy(r) == run[r].pc \notin {"idle", "ended"}

\* What a run did last is remembered as long as nothing changes.
Unsettled == [r \in Runs |-> IF Busy(r) THEN [run[r] EXCEPT !.steady = FALSE]
                                       ELSE NoRun]

Results == {<<p, score[p]>> : p \in Vulnerable}

\* get_actionable_and_secure_versions
Read(r) ==
    /\ ~Busy(r)
    /\ started < MaxRuns /\ started' = started + 1
    /\ run' = [run EXCEPT ![r] = [NoRun EXCEPT !.pc = "find", !.read = Results,
                                               !.steady = TRUE]]
    /\ overlapped' = (overlapped \/ \E e \in Runs : Busy(e))
    /\ UNCHANGED <<epssVars, issues, hidden>>

Open == {i \in DOMAIN issues : issues[i].open}

\* The page of get_issues: the newest open ones.
Page == {i \in Open : Cardinality({j \in Open : j > i}) < PageSize}

Labelled(set) == {i \in set : issues[i].labelled}

\* (mutant) The label looked for is not spelt as the one that is set.
FindMisspelt(r) ==
    /\ run[r].pc = "find"
    /\ run' = [run EXCEPT ![r].pc = "write"]
    /\ UNCHANGED <<epssVars, issues, started, overlapped, hidden>>

\* get_actionables_issue: the first with the label.
Find(r) ==
    /\ run[r].pc = "find"
    /\ run' = [run EXCEPT ![r].pc = "write",
                          ![r].issue = IF Labelled(Page) = {} THEN 0
                                       ELSE Max(Labelled(Page))]
    /\ hidden' = (hidden \/ (Labelled(Page) = {} /\ Labelled(Open) # {}))
    /\ UNCHANGED <<epssVars, issues, started, overlapped>>

\* sorted() compares the scores of two results or more, and None with nothing.
Sortable(read) == Cardinality(read) <= 1 \/ \A x \in read : x[2] # NoScore

\* prepare_git_issue_content
Content(read) ==
    LET first == {x[1] : x \in {y \in read : y[2] # NoScore /\ y[2] > Critical}}
    IN  [p0 |-> first, other |-> {x[1] : x \in read} \ first]

Ended(r) ==
    [run EXCEPT ![r] = IF @.steady THEN [NoRun EXCEPT !.pc = "ended", !.steady = TRUE]
                                   ELSE NoRun]

Unsorted(r) ==
    /\ run[r].pc = "write"
    /\ ~Sortable(run[r].read)
    /\ run' = [run EXCEPT ![r] = NoRun]
    /\ UNCHANGED <<epssVars, issues, started, overlapped, hidden>>

Create(r) ==
    /\ run[r].pc = "write"
    /\ run[r].read # {} /\ Sortable(run[r].read)
    /\ run[r].issue = 0
    /\ Len(issues) < MaxIssues
    /\ issues' = Append(issues, [labelled |-> TRUE, open |-> TRUE,
                                 body |-> Content(run[r].read)])
    /\ run' = Ended(r)
    /\ UNCHANGED <<epssVars, started, overlapped, hidden>>

\* It stays closed if somebody closed it meanwhile.
Update(r) ==
    /\ run[r].pc = "write"
    /\ run[r].read # {} /\ Sortable(run[r].read)
    /\ run[r].issue # 0
    /\ issues' = [issues EXCEPT ![run[r].issue].body = Content(run[r].read)]
    /\ run' = Ended(r)
    /\ UNCHANGED <<epssVars, started, overlapped, hidden>>

\* close_sca_issue, which only logs that there is no issue.
Close(r) ==
    /\ run[r].pc = "write"
    /\ run[r].read = {}
    /\ issues' = IF run[r].issue = 0 THEN issues
                 ELSE [issues EXCEPT ![run[r].issue].open = FALSE]
    /\ run' = Ended(r)
    /\ UNCHANGED <<epssVars, started, overlapped, hidden>>

\* GitHub does not answer as asserted, or the process dies.
Fail(r) ==
    /\ Busy(r)
    /\ run' = [run EXCEPT ![r] = NoRun]
    /\ UNCHANGED <<epssVars, issues, started, overlapped, hidden>>

\* Somebody opens an issue without the label, or closes one.
People ==
    /\ \/ /\ Len(issues) < MaxIssues
          /\ issues' = Append(issues, [labelled |-> FALSE, open |-> TRUE,
                                       body |-> NoBody])
          /\ UNCHANGED run
       \/ /\ \E i \in Open : issues' = [issues EXCEPT ![i].open = FALSE]
          /\ run' = Unsettled
    /\ UNCHANGED <<epssVars, started, overlapped, hidden>>

Scoring ==
    /\ EpssNext
    /\ run' = IF <<rows', score'>> = <<rows, score>> THEN run ELSE Unsettled
    /\ UNCHANGED <<issues, started, overlapped, hidden>>

Next ==
    \/ Scoring \/ People
    \/ \E r \in Runs : \/ Read(r) \/ Find(r) \/ Unsorted(r)
                       \/ Create(r) \/ Update(r) \/ Close(r) \/ Fail(r)

Spec == Init /\ [][Next]_vars

-----------------------------------------------------------------------------
(* Properties.                                                             *)

\* As long as no two runs overlapped and the issue was always on the first
\* page, there is one open labelled issue at most, while people close issues
\* and open others without the label, and however runs failed.
OneOpenIssue ==
    ~overlapped /\ ~hidden => Cardinality(Labelled(Open)) <= 1

\* And after a run that ended, unless something changed since it began, the
\* issue is open only if a version is vulnerable, and then lists all that
\* are.  If the scores were calculated before, of the tables as they are, then
\* of the versions whose last scan was a success and with a CVE that has a
\* score, those on top are the ones with a CVE scored above the threshold.  Of
\* a version whose last scan failed nothing more is said: it is listed with
\* its old count, but the calculation leaves out its score.
ReportIsCurrent ==
    \A r \in Runs :
        run[r].pc = "ended" /\ run[r].steady /\ ~overlapped /\ ~hidden =>
            /\ Labelled(Open) = {} <=> Vulnerable = {}
            /\ \A i \in Labelled(Open) :
                LET body == issues[i].body
                IN  /\ body.p0 \union body.other = Vulnerable
                    /\ cron.exact /\ cron.pc = "idle" =>
                        \A p \in Vulnerable \intersect Scored : Known(p) # {} =>
                            (p \in body.p0 <=> \E x \in Known(p) : x > Critical)
=============================================================================
