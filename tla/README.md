# SupplyShield (libinv) in TLA+

This directory models the core logic of `libinv`, the Python program behind
SupplyShield, in TLA+; checks it with TLC on small instances; and proves every
safety and action property of those runs with TLAPS for every instance.

## 1. The system

SupplyShield keeps an inventory of what an organisation deploys and of what is
vulnerable in it. Build systems send one *deployment message* per build to an
SQS queue; daemons take the messages, connect container images to repositories,
make an SBOM and hand it to ScanCode.io; cron jobs find for every package in use
a version without known vulnerabilities; a web application shows the result.
All of it shares one PostgreSQL database, without table or row locks, at READ
COMMITTED, through one module-level SQLAlchemy session per process
(`base.py: conn`).

### Components, their state and their operations

| Component | Code (under `src/libinv/`) | State | Operations | What makes it correct |
| --- | --- | --- | --- | --- |
| Queue daemon | `cli/daemon.py`, `sqs.py`, `main.py` | the SQS queue, the polled batch | poll, handle, delete | nothing is deleted before it was handed over; every attempt ends |
| Wasp (one attempt at one message) | `models.py: Wasp` | row of `wasps`, project directory | eat, throw, `__exit__` | a clean row means a complete attempt; rows are final; nothing is left behind |
| Bridge | `scanners/repository_scanner/bridge.py`, `cli/bridge.py`, `models.py: update_safely, Account` | rows of `images`, `accounts` | connect an image to wasp, commit and repository; connect by hand | an image is never switched from one repository to another; its columns tell one story |
| Repository table | `models.py: Repository, get_or_create` | rows of `repositories` | get or create | one row per repository |
| Actionables: version catalog | `models.py: Actionable, ActionablePackageAvailableVersion` | rows of `actionable_package_available_versions` | populate, fetch versions, mark latest, scan, rescan | one latest version per package; a row's count belongs to its project; a failed scan is not "safe" |
| Safe version search | `models.py: find_safe_version_in, get_safe_upgrade` | the interval of a binary search | probe a version | the version it settles on is safe, and the least such |
| Cron scheduler | `cron_scheduler.py` | the job list, the child process | run all once, run due jobs | a job is killed at its timeout; every job gets its turn |
| Image scanner | `scanners/image_scanner/` | image rows, tarballs, SBOM files | pull, SBOM, SCA, base image | an image row is filled from its own tarball, and completely when the scan ends well |
| Retry helper | `helpers.py: retry_on_exception` | attempt counter | call, retry | bounded attempts, also when decorators nest |
| Secbug sync | `jira_integration.py`, `cli/secbugs.py` | rows of `secbugs` | upsert, soft delete | after a run that ends, a bug is active exactly if Jira has it open; the table catches up |
| GitHub issue sync | `models.py: raise_or_update_sca_issues`, `vcs.py` | issues of a repository | create, update, close | at most one open SCA issue per repository, and it lists what is vulnerable |
| EPSS | `models.py: EPSS`, `cli/epss.py` | rows of `epss`, scores per version | refresh, calculate | a version's score is the greatest of its CVEs |
| SAST results | `scanners/repository_scanner/sast/`, `api/app.py` | rows of `sast_result` | import, triage | a triaged result is not overwritten |
| Deployment checkpoints | `models.py: DeploymentCheckpoint, LatestImage`, `cli/checkpoint.py` | the active checkpoint | set | at most one active checkpoint |
| Metapod import, base image update, query | `cli/*.py` | the tables above | one-shot commands | - |
| Web application | `api/*.py` | none of its own | read-only views; package rescan; triage; onboarding | - |

### How they interact

Processes share nothing but the database, the queue, ScanCode.io, GitHub, Jira
and S3. A message flows queue -> daemon -> wasp -> bridge -> cdxgen -> S3 ->
ScanCode.io -> deletion -> semgrep. Cron jobs read what ScanCode.io stored and
write the version catalog; the web application's rescan button writes the same
rows at the same time. No component calls another one in process except the
daemon's handler.

### What is hard

* **Redelivery.** SQS delivers at least once and the daemon sets no visibility
  timeout: two processes work on one message.
* **Check-then-act on shared rows.** `get_or_create`, `update_safely`,
  `fetch_and_store_versions`, `mark_latest_version` and the scans read, then
  write, without a lock or a constraint.
* **Swallowed failures.** `Wasp.__exit__` returns True, `upload_to_s3` returns
  False, thread-pool results are not collected.
* **A session that outlives its failure.** What was assigned before an exception
  is still dirty and goes out with the next commit.
* **Death in the middle.** Rows are committed optimistically ("ate
  successfully") before the work.
* **Non-monotone data.** A binary search over versions relies on fixes not being
  undone by later versions.

PROJECT.json lists each hazard with its line and the properties that cover it.

## 2. The modules

| Module | Models | State | Role |
| --- | --- | --- | --- |
| `Delivery` | what the queue consumer promises | messages handed over, messages settled | abstract specification |
| `Daemon` | `cli/daemon.py`, `sqs.py`, `main.py`, `Wasp` | SQS, each process, wasp rows, effects of each attempt | implements `Delivery` |
| `VersionRow` | one row of the version catalog under `scan_and_update_results` | (operators only) | shared by `SafeVersionSearch`, `Catalog` and `Epss` |
| `SafeVersionSearch` | `populate_next_safe_versions` on one package | the rows, the interval of the search | sequential algorithm under failures |
| `Catalog` | everything else that writes the version catalog | table, ScanCode.io projects, scanners, fetchers, taggers | concurrent table |
| `Bridge` | `connect_using_queue_message_agreement`, `cli/bridge.py: connect` | table `images`, daemons' loaded copies | concurrent table |
| `ImageScan` | `scan_image_index` and what it calls, `retry_on_exception`, `update-all-images-with-base-images` | tarballs and SBOM of each scanner, image rows with packages, layers and base | concurrent table with files that outlive failures |
| `Secbugs` | `secbugs-connect`, creation of repositories | Jira, tables `secbugs` and `repositories`, the runs | a mirror that is refreshed by runs that may end early |
| `Epss` | `epss-update`, `calculate-package-epss`, scans of the versions in use | the rows and projects of those versions, scores, table `epss`, the job | composed with `Issues` |
| `Issues` | `raise-sca-as-git-issue` | the issues of a repository, the runs | extends `Epss`: the report is made of its scores |
| `DaemonProofs`, `SearchProofs`, `CatalogProofs`, `BridgeProofs`, `ImageScanProofs`, `SecbugsProofs`, `IssuesProofs` | | | theorems |
| `MCDaemon`, `MCSearch`, `MCCatalog`, `MCBridge`, `MCImageScan`, `MCSecbugs`, `MCIssues` | | | instances for TLC |

In every module one action stands for what the code does between two points at
which another process or a failure can matter: a commit, a read that is used
later, a call that may fail. A comment at each action names its function.
`PROJECT.json` maps every definition to its lines.

**Daemon.** The handler is a `pc` per process, one label per stage of the `with`
block of `process_sqs_message`: `clone`, `bridge`, `cdxgen`, `upload`, `post`,
`delete`, `semgrep`; then `exit`/`raise` (the commit of `Wasp.__exit__`) and
`cleanup` (its `rmtree`). `Java` is the messages of which the commit is written
mostly in Java: for the others `run_cicd` returns at once, and `Semgrep` gets
nothing done. A stage of which the code ignores the result goes on
(`upload`), one that returns early goes to `exit`, one that raises to `raise`.
An attempt is known by the receipt it was started for, because every delivery
makes a wasp of its own. `Kind` says what the handler can tell apart about a
message, so the parser and the JSON schema are modelled by their verdict.
`mem` is the complaint list of the wasp in the session, `complaints` what
`__exit__` committed: `ExitFails` is a commit that raises, `CleanupFails` an
`rmtree` that does. Whatever escapes the
`with` ends the process (`Die`), as `cli/daemon.py` re-raises or returns.

**Safe version search.** Versions are `1 .. MaxVersion` in the order of
`MavenVersion`; the searched list is the interval `first .. last`, so the
indices of the code are versions minus `first`. A probe is a scan followed by
the decision on the *live* count, which is 0 for a row without a project.
`reported` is what ScanCode.io finds, fixed but arbitrary; `Init` takes every
combination of histories of the rows. The rows a job holds in the session
`conn` cannot be added a second time (`Clash`), which ends the work on the
package, as the thread's exception is not collected.

**Catalog.** A row is an id `<<package, version>>`. A scanner takes a copy
(`TakeUp`), works, and `Record` writes back the columns that differ from the
copy, as an UPDATE of SQLAlchemy does; `Lose` is a scan whose write never comes.
A fetcher looks versions up and inserts them one by one; a row that no longer
looks freshly added is not found and its INSERT violates `uq_package_version`,
which ends the answer. A marker reads the versions of a package and then writes
the flags that changed.

**Bridge.** An image is known by its key (name, account, digest, platform), and
nothing makes the key unique. Each daemon holds the row it loaded with the
commit and repository it read: `update_safely` compares with those, not with
the table. `overlapped` is a history variable; it becomes true when two daemons
connect at the same time, and says for which behaviours a property is promised.
`Inventory` is the row that an image scanner adds. `Manual` is the command
`connect`: it sets the repository of every row of a name and tag and looks at
nothing they got meanwhile; it sets `overlapped` too.

**ImageScan.** A scanner (a daemon or a command, in a directory of its own) goes
through `scan_image_index` for two platforms: `pull`, `sbom`, `look` and
`insert` (`get_or_create` of the row), `artifacts` (one step per package),
`layers`, `base`, `matches` (SCA), `delete`. Its directory is state because it
outlives the scan: `Fails` rolls back what is not committed and leaves the
files, and `Reuse` takes any tarball of the right name. `FileOf` says when two
platforms have the same name. `pending` are the associations of the pass that
wait for a commit; creating a package or a license commits them on the way.
`integrity` and `operational` are the two counters of the nested decorators,
and `restarts`, a history variable, counts what both did together. `cut` marks
half a tarball. `raced` and `failed` remember the images for which a property
is no longer promised.

**Secbugs.** A run is `delete` (after the first query), `second` (the second
query), then `next` and `save` for each issue of its answer. What Jira says is
changed by `Change` at any time. `fields` of an issue says what the code can
trip over: a missing field raises (`Resolve`), a text longer than its column
raises for a new bug (`Create`) and is swallowed for a known one (`Update`).
`Meet` and `Insert` are `get_or_create(Repository)` by other processes.
`steady` and `known` are history: for which bugs, and with which repositories,
this run can be held to what it found.

**Epss and Issues.** A cron job works through its batches; each may succeed, get
no answer, or fail to commit (`broken`: the session stays unusable, as nobody
rolls it back); a batch of `calculate-package-epss` is one step. Only the
versions of which the last scan was a success are calculated (`Scored`), while a
report goes by the stored count alone (`Vulnerable`). `Record` is the end of a
scan or rescan, by the operators of `VersionRow` that `Catalog` uses too: it is
counted, or fails with or without a project, and the columns that differ from
the copy it had loaded are written. `Catalog` gives each scanner one copy at a
time; here the scanners are left out and the copy may be any row the version has
had (`loaded`), which is what any number of overlapping scans could hold. A run of the command reads the
results (`Read`), looks for the labelled issue on the first page (`Find`), and
creates, updates or closes it; each of the three is one request. `steady` says
that nothing the run depends on changed since it read.

## 3. Checking

A run stops when there is nothing left to do (a drained queue, a finished job,
deliveries or rows used up), so all runs say `CHECK_DEADLOCK FALSE`.

| Run | Configuration | Shows |
| --- | --- | --- |
| `daemon_faults` | `MCDaemonFaults.cfg` | two daemons, one message delivered up to twice, every stage may fail, one death anywhere: all safety properties |
| `daemon_mixed` | `MCDaemonMixed.cfg` | one message per way through the handler, in batches of two: the refinement of `Delivery` |
| `daemon_live` | `MCDaemonLive.cfg` | attempts end; a message nobody failed at is deleted |
| `search` | `MCSearch.cfg` | all histories of four versions, all sets in use, any scan failing |
| `catalog` | `MCCatalog.cfg` | two scanners, a fetcher and a tagger on one package |
| `bridge` | `MCBridge.cfg` | two daemons, two messages that share an image, scanners, connections by hand |
| `image_scan` | `MCImageScan.cfg` | two scanners, an application and its base image, three scans with cut pulls, left files, retries and deaths |
| `secbugs` | `MCSecbugs.cfg` | two overlapping runs, two bugs that change, two creators of a repository: ended runs mirror Jira, and the table catches up |
| `issues` | `MCIssues.cfg` | two overlapping runs, people, rescans and score jobs that fail anywhere: one issue, and a true one |

Three more runs show disagreements between code and documentation (section 6).

### Bounds

* `MaxReceives = 2` (`daemon_faults`, `daemon_live`): a second delivery is
  enough for two attempts to overlap, for a stale receipt and for a retry; a
  third adds no kind of step. The second receipt is never stale here, but
  `BridgeMessagesAreDeleted` does not depend on that: it excuses a message once
  an attempt asked for its deletion with an overtaken receipt, so the first
  attempt that gets as far as the deletion decides. `MaxCrashes = 1`: a death in either attempt, with
  the other one surviving. `daemon_mixed` takes the six kinds of message with
  one delivery each and one daemon; that the refinement also holds when
  deliveries race is proved (`DaemonImplementsDelivery`).
* `BatchMax = 2` instead of 10: a batch left behind by a death holds a message.
* `MaxVersion = 4`: lists of two to four versions, with odd and even lengths and
  searches of three probes; two counts, because only zero or not is looked at.
  `probes` stops at `MaxVersion + 1`, more than any correct search takes.
* `MaxScans = 2` projects and two versions in `catalog`: two scans of one row
  overlap, and a fetch meets a row that was scanned.
* Two rows (`RowIds`) in `bridge`: an image with two rows, or two images with
  one. That a second count meets two rows where the first met none, and a third
  is created, needs three rows and is covered by the proofs only.
* `image_scan`: `MaxScans = 3` (a scan that fails, one that meets its files, and
  a third at the same time), `MaxRows = 3` (two platforms and a row too many).
  Both counts of the decorators are 2 instead of 3 and 6: the inner counter
  starts anew once. The base image is offered for both platforms with different
  contents, the application for one; the application is named by the digest of
  its index, the base by tag.
* `secbugs`: two bugs (one deleted while the other is at hand), one repository
  with two creators and `MaxRows = 2` (a duplicate), two changes (open and
  close, or open and edit) and one failed run. Runs themselves are unbounded.
* `issues`: `PageSize = 1` instead of 30, so that one newer issue hides the
  other; `MaxIssues = 2`, `MaxRuns = 2` (two that overlap, or one after the
  other), `MaxScans = 2` (a version is found vulnerable and its rescan, from the
  new row or from an old copy, fails or finds something else). One version has
  no vulnerabilities or two CVEs, one critical and one not, the other a
  vulnerability without a CVE. `BatchSize = 1` instead of 100, so that jobs stop
  between batches.

### Fairness

Safety runs state none. `Daemon!Fairness` is weak fairness of each process's own
steps - a call returns in the end, with any outcome (git, cdxgen, S3,
ScanCode.io, semgrep and the database answer or fail), and the operating system
schedules the process - and of SQS's visibility timeout. Neither deaths nor
restarts are assumed. `BridgeMessagesAreDeleted` therefore excuses a message
when a process died, an attempt complained, or an attempt asked for the deletion
with a receipt that a new delivery had overtaken: `sqs.py` sets no visibility
timeout, scans outlast the default one, and SQS may ignore an old receipt. That
a message which is delivered again during every attempt is ever deleted, nothing
promises, and the property does not claim it.
`SafeVersionSearch!FairSpec` is weak fairness of the job's thread; a failure
(`Break`) never has to occur.
`Secbugs!FairSpec` is weak fairness of `Start` and of `Work` of each run: the
command is scheduled again and again, and a call to Jira or the database
returns. Failures are bounded by `MaxFailures` in the instance, and
`CatchesUp` assumes that Jira and the repositories become manageable for good,
because one bug without an environment ends every run.

### Mutants

Each property of a passing run has a mutation of the code under which TLC finds
it violated: definitions commented `(mutant)`, placed before the definition they
change. They are used nowhere else.

## 4. What is proved

Every invariant and every action property that a passing run checks is stated by
a theorem; what is left to TLC is liveness. All theorems hold for every value of
the constants under the named assumptions (`DaemonAssumption`,
`SearchAssumption`, `CatalogAssumption`, `BridgeAssumption`,
`ImageScanAssumption`, `SecbugsAssumption`, `EpssAssumption`,
`IssuesAssumption`, `BodyAssumption`), which only say what kind of value each
constant is and which of the markers for "nothing" differ from real values. Of
sizes they say only that the CVEs are finitely many, as a table stores them, so
that a version has a greatest score.

| Theorem | Statement |
| --- | --- |
| `TypeCorrect` | `Daemon`: types; a process inside the `with` has a receipt |
| `DeletedOnlyWhenHandedOver` | some attempt at a deleted message bridged its images, made its SBOM and was answered by ScanCode.io (legacy: scanned its image) |
| `CleanWaspsAreComplete` | a closed wasp without complaint went through every stage, SAST included if its commit is Java; its message is deleted, or was delivered again before the attempt asked for that |
| `ReceiptsAreExclusive` | no attempt is in the hands of two processes |
| `NothingLeftBehind` | open wasps and project directories are left only by a death |
| `ClosedRowsStay` | closed wasps never change |
| `DaemonImplementsDelivery` | `Spec => Delivery!DSpec` under the refinement mapping |
| `SearchSettlesOnBoundary` | the version settled on has no live vulnerabilities, the one below it has |
| `SearchFindsLeast` | if fixes last and no scan failed, it is the least such version |
| `SearchKeepsOffers` | the job never takes an upgrade away |
| `SearchTypes` | `SafeVersionSearch`: types; the interval stays within the list |
| `SearchIsLogarithmic` | a search takes at most log2 of the list's length and one scans |
| `JobOffersClosest` | after all searches of the job a version in use is offered the closest safe one, if fixes last and no scan is left failed |
| `CatalogTypeCorrect` | `Catalog`: types |
| `SuccessIsAlwaysCounted`, `CountsAreAlwaysGenuine`, `ResultsAreAlwaysKept` | what a row shows was found for it, and is not lost |
| `OneLatestVersion` | one tagger: at most one latest version per package |
| `FirstFetchIsAlwaysComplete` | one fetcher: a first fetch stores its whole answer |
| `BridgeTypeCorrect` | `Bridge`: types |
| `AlwaysBridgedInOrder` | commit implies repository, wasp implies commit, also under overlap |
| `RepositoryIsAlwaysKept`, `WaspIsAlwaysOfRepository`, `BridgedAlwaysMeansConnected` | without overlap or manual connect: no switch, wasps agree with repositories, connected means shown |
| `ImageScanTypes` | `ImageScan`: types |
| `PassesAreBounded` | nested retries of a pass multiply to no more than the product of their counts |
| `PlatformsHaveOneRow` | one row per image and platform until two scanners picked the image at once |
| `RowsShowTheirOwn` | a row has packages and layers of its own platform only, whatever files earlier scans left |
| `ScansEndInventoried` | a scan that ends well has stored each platform that is offered, completely |
| `BasesAreAncestors` | the base of an image is a base image whose layers are its first ones |
| `SecbugsTypes` | `Secbugs`: types; a run that saves has an issue at hand |
| `EndedRunsMirror` | after a run that ended, the issues it can be held to are mirrored, whatever runs overlapped or failed |
| `RepositoriesAreUnique` | a repository that no two creators met at once has one row at most |
| `IssuesTypes` | `Epss`, `Issues`: types; only labelled issues have what a run writes |
| `ReportsAreCurrent` | after an undisturbed run the open issue lists what is vulnerable; if scores were calculated of the tables as they are, then of the versions whose last scan was a success and with a scored CVE, those with one above the threshold are on top |
| `OneOpenIssueAtMost` | while people close issues and open unlabelled ones, no second labelled issue is open until runs overlap or one misses it on the page |

### The arguments

**Daemon.** `TInv` adds to the types that a process inside the `with` holds a
receipt. `SInv` adds `StageReached` - being at a stage means that the effects of
the stages before it were achieved by this very receipt - and
`NormalExitIsAccounted`: whoever leaves without an exception has done everything
or has a complaint in memory. The latter is what makes `CleanWaspIsComplete`
inductive, as the row alone does not know how the attempt ended. That the
message is gone then comes from `AckedIsGone`: a deletion that SQS accepted is
done, unless the receipt had been overtaken, and both are for good
(`GoneStays`). `OInv` is about
identity: receipts in a batch are fresh, the current one is open, and whatever
has left a trace was issued before (`Issued`), so a new delivery meets no trace
of its own receipt. For the refinement, effects only grow (`EffectsGrow`), so
handed-over messages stay so, and a deletion comes after its hand-over by
`SInv` of the state before and after.

**Search.** `LoopInv` is the loop invariant: everything below `left` next to it
has live vulnerabilities, `right + 1` is `safe` or the end of the list, and the
end of the list is known to be safe - which `get_safe_upgrade` guarantees at the
start and `Scans` (a SUCCESS is not scanned again) afterwards. `RowsAreOwn`
says that a row's project is of its own version. `ScanInv` adds `Halved`: what
remains of the list, times two to the number of probes, is no more than its
length. The powers of two that this needs (`TwoToNext`) are proved without
induction: `2 ^ n` is the number of subsets of `1 .. n` (`FS_SUBSET`), and those
of `1 .. n + 1` are these and these with `n + 1`.

`ClosestWhenDone` relates the end of the job to searches long past. A search may
have settled on a version whose scan *failed*; a later search may scan it again
and find vulnerabilities. `Served` says what is true of a version from the moment
it was taken from `todo`: it is safe, or nothing above it is known to be, or
there is a version with vulnerabilities right below it that is known to be safe
or failed, or the search under way has gone past it and will end on one. When a
failed version turns out vulnerable, the third case becomes the fourth, and
`Finish` turns it back, because the version a search settles on was probed
(`LoopInv`). With no scan left failed the third case is the closest upgrade. In
the second case nothing changes, since a search ends on a version known to be
safe and scans none above that.

**Catalog.** `RInv` joins the types, `SuccessIsCounted`, `CountsAreGenuine`
and `CopiesAreOld`: a scanner's copy may lag behind its row, but a column that
has a value in the copy has one in the row. Without it a partial write could
join a SUCCESS to an absent count. `MarkInv` (with one tagger: between its read
and its write nobody else changes the flags of the package) and `FetchInv` (with
one fetcher: what it was answered is stored or still pending, and what is
pending is not stored) are relative to it.

**Bridge.** `BInv` holds under any overlap: the row a daemon has loaded is of
its image, and what the daemon saw set is still set (`Sound`), as commits and
repositories are replaced and never cleared (`Grow`). Hence `BridgedInOrder`.
`Alone` holds until the first overlap: what the daemon at work knows of its row
is exact, the images it has done are shown in its repository (`Progress`), and
so are those of the messages before (`BridgedShown`). The implication
`~overlapped => Alone` is inductive because `overlapped` never becomes false.

**ImageScan.** Five invariants build on `TypeInv`, the types with `Placed`: at
each `pc` the tarball, the SBOM and the row it needs are there.
`PassesAreBounded` rests on `Counted`: `restarts` is at most
`integrity * OperationalTries + operational`, since each catch of the outer
decorator starts the inner one anew. `PlatformsHaveOneRow` rests on `Alone`
(outside `raced` one scanner is busy with an image) and `NoRowYet` (a scanner at
`insert` still has no row to find). `RowsShowTheirOwn` follows the data on its
way: a tarball in the directory is of the platform its name is taken for
(`OwnTars`; with the name of the index, only while that platform is scanned), so
is the SBOM made of it (`OwnSbom`), so is what waits to be stored (`OwnTodo`),
and therefore the rows (`OwnRows`, which adds that layers are stored all at
once). `ScansEndInventoried` follows completeness along the same way: what the
SBOM lists is in the row, left, or pending (`Listed`), the layers and the
vulnerabilities are there once their stage is passed (`Stored`), and the first
platform stays covered while the second is scanned (`Behind`). A retry forgets
what was pending, but starts over at `look` with the whole SBOM left again, and
so keeps `Listed`. `Ancestors` compares rows that both exist; since layers never change
after they are stored, a base found stays one.

**Secbugs, what is mirrored.** `EndedRunMirrors` alone is not inductive: nothing
in the row of a bug says why it is right. `MirrorInv` says it for each run on its
way. `Heard`: for a bug steady for *any* run, what *every* run at work has heard
of it, in its first or its second answer, is what Jira still says - this is what
a run that overlaps must not spoil. `Found`: the repository at hand has the name
of the issue, and if there was none, no run goes by that name (`AllKnown`).
`Mirrored`: after the deletion no closed bug that is steady is active, and what
is not left in `todo` is as Jira has it; when the run ends that is all.

**Secbugs, repositories.** `OriginInv`: a repository outside `raced` has one row or one creator
about to insert it, and never both. The rows alone are not inductive, because
`Insert` looks at nothing; that no other creator is on its way is what `Meet`
establishes, or else it puts the repository into `raced`.

**Issues.** `IssueInv`: without an overlap one run is at work (`Alone`), and a run
at `write` that found nothing knows that no labelled issue is open (`OneIssue`).
Only a run opens one, so what `Find` saw is still so at `Create`. No type of the
scores is needed, and `Page` matters only as a part of the open issues: with one
labelled issue, the greatest of those on the page is that one or there is none.

`ReportIsCurrent` joins two invariants. `EpssInv` is the types of the tables with
`ScoresExact`: as long as `cron.exact` is true, the score of each version that
is `Scored` and not left to the job is the greatest of its known CVEs - which exists
(`GreatestIsMax`), because the finite subsets of the scores are well-founded and
so some score has the least set of greater ones. `Reports` is about the runs: an
undisturbed run has read what the tables say (`ReadsResults`), the issue it found
is the one open labelled one (`FoundIssue`), and if some run is remembered as
ended, the run at work is undisturbed as well (`SteadyTogether`) - without this a
late run could overwrite a true issue with what it read before a scan. Then
`Current`: what is open is the content made of the results.

All the strengthened invariants were first checked by TLC on the instances of
section 3, where the wrong guesses showed: `Served`, for instance, says nothing of
a job that was abandoned.

### Only model-checked

* Liveness: `AttemptsEnd`, `BridgeMessagesAreDeleted`, `JobEnds` and
  `CatchesUp`. Liveness under fairness is beyond the prover.
* The three properties that do not hold (section 6), by their counterexamples.

The induction theorems of the library take an operator as a parameter, which the
provers cannot instantiate. Where a proof needs an induction over data it goes by
a theorem without one: the number of subsets of a set, the well-foundedness of
finite subsets, a bijection that counts.

## 5. What is not modelled

`PROJECT.json` lists each component with its status. Three have no module:

* the cron scheduler, one loop around a child process without state of its own.
  That jobs run one after the other is assumed in `Catalog` (one tagger) and in
  `Epss`; that a silent job is never killed, and that `kill()` reaches the shell
  but not what it started, break that assumption;
* SAST results, which one command only adds and triage marks in one column;
* deployment checkpoints: `set` binds the `DeploymentCheckpoint` object itself
  as a query parameter, which the driver cannot adapt, so it always raises after
  `get_or_create` has committed; there is no further behaviour to relate.

Left out as well: HTML views and queries that write nothing, command lines of
cdxgen, syft, crane and semgrep, credentials, logging, configuration.

Inside the modelled components these are abstracted: the contents of SBOMs,
SARIF files and issues; the text of complaints (only its cause is kept); SQS
long polling and retention; `Account.ensure_exists`, which can only fail the
attempt of one of two daemons that create the same account (`Fail` in
`Bridge`); the repository of a wasp, taken from the message; the columns `pod`
and `subpod`; licenses of packages beyond the commit their creation makes; the
third decorator of the SCA pass and the file `sca.json`; percentiles, dates and
printed counters of EPSS (`failed` starts at the number of *fresh* CVEs, which
`skipped` should); suggested versions in an issue; populating the actionables
and `get_versions_in_use`, which are inputs of `Catalog`. What
ScanCode.io lists in a project is taken to be complete when it answers (the code
counts the vulnerabilities at once, although the pipeline may still be running)
and not to change afterwards; the detection of the language of a commit is an
input of `Daemon`.

## 6. Where code and documentation disagree

| Run | Said | Done |
| --- | --- | --- |
| `daemon_tag_optional` | README.rst: `repository.tag` is optional | a message without it raises `KeyError` outside the `with` and ends the daemon |
| `search_closest` | README.rst: finds closest safe versions | a vulnerability that came back hides the closer safe version from the binary search |
| `catalog_fetch` | models.py: stores all available versions | a version scanned since the last fetch violates the unique constraint and drops those after it |

Observed while modelling, without a run of their own:

* README.rst calls `ecr_image` optional, too: a message without it always leaves
  a complaint and is never handed over (kind `noEcrImage` of `Daemon`).
* A failed scan without a project counts as no vulnerabilities, so the search
  may settle on a version that was never scanned; the properties of
  `SafeVersionSearch` that say more assume that no scan failed.
* A version whose rescan failed keeps its count and its score.
  `calculate-package-epss` passes it over, so a CVE that became critical since
  does not bring it to the top of the issue, in which it is still listed
  (`Scored` and `Vulnerable` in `Epss`).
* A build that is not mostly Java gets no SAST scan and its wasp no complaint
  (`Semgrep` in `Daemon`): a clean wasp does not say which.
* No visibility timeout is set, so a message may be delivered again during every
  attempt, and each deletion ignored (`Overtaken`, `AfterDelete` in `Daemon`).
* An `rmtree` that fails leaves the directory of a wasp that is closed, and ends
  the daemon (`CleanupFails` in `Daemon`).
* `mark_latest_version` of a package without versions raises and ends the job.
* `update_safely` leaves the commit of the refused message on the image
  (`Refuse` in `Bridge`), because `Wasp.__exit__` commits what is dirty.
* Two overlapping rescans can leave the project of one with the count of the
  other.
* `process-message` passes an empty receipt, so a good scan ends with a
  deletion that fails and a complaint.
* The uniqueness of a repository (`models.py:278`) is declared in the class body
  and never attached to the table (`Meet`, `Insert` in `Secbugs`).
* A tarball left by a failed scan is taken for another platform
  (`FileOf` in `ImageScan`), and half a tarball is never removed.

Each of them is in the models as the code does it; the properties say where it
ends what they promise, by a history variable or a condition.

## 7. Plan

Done, in this order: `Delivery`, `Daemon` and its proofs; `VersionRow`,
`SafeVersionSearch` and its proofs; `Catalog` and its proofs; `Bridge` and its
proofs, extended by the manual connect; `ImageScan`; `Secbugs`, `Epss` and
`Issues`; then the proofs of `ImageScan`, of the mirror of `Secbugs`, of the
whole job of `SafeVersionSearch` and of the report of `Issues`. To come:

1. Composition of `Daemon` with `Bridge`: the action `BridgeImages` as an
   abstract step of what `Bridge` does in several, shown by refinement.
2. An abstract specification of the issue (what is reported is a set of versions
   that is replaced as a whole) that `Issues` implements without overlaps.
