------------------------- MODULE SafeVersionSearch -------------------------
(***************************************************************************)
(* The job populate_next_safe_versions (cli/actionable.py) on one package: *)
(* for each version in use that is not safe, a binary search               *)
(* (Actionable.find_safe_version_in, models.py) between it and the nearest *)
(* upgrade known to be safe, scanning the versions it probes.              *)
(*                                                                         *)
(* The list searched is the interval first .. last of the sorted versions, *)
(* so its index i is the version first + i, and left, right and mid are    *)
(* kept as versions: (left + right) // 2 commutes with the shift.          *)
(***************************************************************************)
EXTENDS VersionRow

CONSTANTS
    MaxVersion,  \* the package has the versions 1 .. MaxVersion
    Counts,      \* the vulnerability counts ScanCode.io may find
    MayFail,     \* whether scans and the database may fail
    OnlyMonotone \* whether only histories in which fixes last are considered

ASSUME SearchAssumption ==
    /\ MaxVersion \in Nat \ {0}
    /\ Counts \subseteq Nat
    /\ MayFail \in BOOLEAN
    /\ OnlyMonotone \in BOOLEAN

Versions == 1 .. MaxVersion
None == 0

VARIABLES
    reported,  \* what ScanCode.io finds in each version (external, fixed)
    inUse,     \* is_version_in_use (written by no one here)
    rows,      \* the rows of the versions; version v has project v
    todo,      \* versions in use not yet looked at
    pc,        \* "next", "search", "done" or "abandoned"
    first,     \* first version of the list searched
    last,      \* last version of the list searched
    left,
    right,
    safe,      \* safe_version_obj
    probes     \* iterations of the current search, counted to MaxVersion + 1

fixed == <<reported, inUse>>
vars == <<reported, inUse, rows, todo, pc, first, last, left, right, safe, probes>>
bounds == <<first, last, left, right, safe, probes>>

\* Once a version has no vulnerabilities, no later one has any.
Monotone ==
    \A v, w \in Versions : v < w /\ reported[v] = 0 => reported[w] = 0

\* The rows a version may have when the job starts: never scanned, scanned,
\* failed before or after its project was noted, failed after a success.
Histories(v) ==
    {NewRow,
     [status |-> "SUCCESS", project |-> v, count |-> reported[v]],
     [status |-> "FAILED", project |-> NoProject, count |-> NoCount],
     [status |-> "FAILED", project |-> v, count |-> NoCount],
     [status |-> "FAILED", project |-> v, count |-> reported[v]]}

TypeOK ==
    /\ reported \in [Versions -> Counts]
    /\ rows \in [Versions -> RowType(Versions, Counts)]
    /\ inUse \subseteq Versions
    /\ todo \subseteq inUse
    /\ pc \in {"next", "search", "done", "abandoned"}
    /\ first \in Versions /\ last \in Versions
    /\ left \in 1 .. MaxVersion + 1
    /\ right \in 0 .. MaxVersion
    /\ safe \in Versions \union {None}
    /\ probes \in 0 .. MaxVersion + 1

Init ==
    /\ reported \in [Versions -> Counts]
    /\ OnlyMonotone => Monotone
    /\ rows \in [Versions -> UNION {Histories(v) : v \in Versions}]
    /\ \A v \in Versions : rows[v] \in Histories(v)
    /\ inUse \in SUBSET Versions
    /\ todo = inUse
    /\ pc = "next"
    /\ first = 1 /\ last = 1 /\ left = 1 /\ right = 0
    /\ safe = None
    /\ probes = 0

-----------------------------------------------------------------------------
\* (mutant) Only upgrades above the first safe one.
OffersSkippingFirst(v) ==
    {u \in Versions : KnownSafe(rows[u]) /\ \E w \in Versions :
                          KnownSafe(rows[w]) /\ v <= w /\ w < u}

\* The versions get_safe_upgrade chooses from: safe ones from v upwards.
Offers(v) == {u \in Versions : KnownSafe(rows[u]) /\ u >= v}

\* get_safe_upgrade
IsSafeUpgrade(v, u) == u \in Offers(v) /\ \A w \in Offers(v) : u <= w

\* A version in use for which there is nothing to search: it is safe, or no
\* safe upgrade is known.  (An upgrade other than v itself makes a list of
\* two at least.)
Pass(v) ==
    /\ pc = "next"
    /\ v \in todo
    /\ IsSafe(rows[v]) \/ Offers(v) = {} \/ IsSafeUpgrade(v, v)
    /\ todo' = todo \ {v}
    /\ UNCHANGED <<fixed, rows, pc, bounds>>

\* find_safe_version_in(get_versions_between(v, upgrade)), up to the loop.
Start(v) ==
    /\ pc = "next"
    /\ v \in todo
    /\ ~IsSafe(rows[v])
    /\ \E u \in Versions :
        /\ IsSafeUpgrade(v, u)
        /\ u > v
        /\ last' = u
        /\ right' = u
    /\ first' = v
    /\ left' = v
    /\ safe' = None
    /\ probes' = 0
    /\ todo' = todo \ {v}
    /\ pc' = "search"
    /\ UNCHANGED <<fixed, rows>>

Mid == (left + right) \div 2

\* scan_and_update_results on the version probed.
ScanResults(v) ==
    IF Scans(rows[v], FALSE)
    THEN {Scanned(rows[v], o, v, reported[v]) :
             o \in IF MayFail THEN Outcomes ELSE {"counted"}}
    ELSE {rows[v]}

\* (mutants) The interval kept from shrinking past mid; the two halves swapped;
\* the version after mid remembered; the interval shrunk by one only.
NarrowKeepingMid(count) ==
    IF count = 0
    THEN safe' = Mid /\ right' = Mid /\ UNCHANGED left
    ELSE left' = Mid + 1 /\ UNCHANGED <<right, safe>>

NarrowUpwards(count) ==
    IF count = 0
    THEN safe' = Mid /\ left' = Mid + 1 /\ UNCHANGED right
    ELSE right' = Mid - 1 /\ UNCHANGED <<left, safe>>

NarrowBeyond(count) ==
    IF count = 0
    THEN safe' = Mid + 1 /\ right' = Mid - 1 /\ UNCHANGED left
    ELSE left' = Mid + 1 /\ UNCHANGED <<right, safe>>

NarrowByOne(count) ==
    IF count = 0
    THEN safe' = Mid /\ right' = right - 1 /\ UNCHANGED left
    ELSE left' = left + 1 /\ UNCHANGED <<right, safe>>

\* What the loop does with the number of vulnerabilities at mid.
Narrow(count) ==
    IF count = 0
    THEN safe' = Mid /\ right' = Mid - 1 /\ UNCHANGED left
    ELSE left' = Mid + 1 /\ UNCHANGED <<right, safe>>

\* The job holds the rows in use in the session `conn`, so that conn.add
\* refuses a second copy of one of them after it was scanned.
Clashes(v) == v \in inUse /\ Scans(rows[v], FALSE)

\* One iteration of the loop: scan mid, then decide on its live count.
Probe ==
    /\ pc = "search"
    /\ left <= right
    /\ ~Clashes(Mid)
    /\ \E new \in ScanResults(Mid) :
        /\ rows' = [rows EXCEPT ![Mid] = new]
        /\ Narrow(LiveCount(new, reported))
    /\ probes' = IF probes > MaxVersion THEN probes ELSE probes + 1
    /\ UNCHANGED <<fixed, todo, pc, first, last>>

\* An exception ends the work on the package: nobody reads the result of the
\* thread it ends.
Abandon == pc' = "abandoned" /\ UNCHANGED <<fixed, rows, todo, bounds>>

Clash ==
    /\ pc = "search"
    /\ left <= right
    /\ Clashes(Mid)
    /\ Abandon

\* A call fails; the session `conn` is shared with the threads of the other
\* packages, so that its calls may fail for that alone.
Break ==
    /\ MayFail
    /\ pc \in {"next", "search"}
    /\ Abandon

SearchOver == pc = "search" /\ left > right

Finish ==
    /\ SearchOver
    /\ pc' = "next"
    /\ UNCHANGED <<fixed, rows, todo, bounds>>

Done ==
    /\ pc = "next"
    /\ todo = {}
    /\ pc' = "done"
    /\ UNCHANGED <<fixed, rows, todo, bounds>>

Work ==
    \/ \E v \in Versions : Pass(v) \/ Start(v)
    \/ Probe \/ Clash \/ Finish \/ Done

Next == Work \/ Break

Spec == Init /\ [][Next]_vars

\* The job's thread is scheduled and its calls return; none has to fail.
FairSpec == Spec /\ WF_vars(Work)

-----------------------------------------------------------------------------
(* Properties.                                                             *)

LiveAt(v) == LiveCount(rows[v], reported)

\* The version settled on has no live vulnerabilities, and the version below
\* it, unless it begins the list, was probed and has some; a search that
\* settles on none has found vulnerabilities in the last version.
SettlesOnBoundary ==
    SearchOver =>
        IF safe = None
        THEN LiveAt(last) > 0
        ELSE /\ LiveAt(safe) = 0
             /\ safe = first \/ LiveAt(safe - 1) > 0

NoneFailed(versions) == \A v \in versions : rows[v].status # "FAILED"

\* When fixes last and no scan of the list failed, the version settled on is
\* the least of the list without vulnerabilities.
MonotoneFindsLeast ==
    SearchOver /\ Monotone /\ NoneFailed(first .. last) =>
        /\ safe # None
        /\ reported[safe] = 0
        /\ \A v \in first .. last : v < safe => reported[v] > 0

\* The same of what the job leaves in the database for the dashboard: a
\* version in use that is not safe itself is offered the closest safe one.
ClosestWhenDone ==
    pc = "done" /\ Monotone /\ NoneFailed(Versions) =>
        \A v \in inUse : \A u \in Versions :
            IsSafeUpgrade(v, u) =>
                IsSafe(rows[v]) \/ \A w \in v .. (u - 1) : reported[w] > 0

\* A safe upgrade once known is never lost to the job: it can only find closer
\* ones.
OffersOnlyGrow ==
    [][\A v, u \in Versions : u \in Offers(v) => u \in Offers(v)']_vars

\* A search takes at most log2 of the list's length and one scans.
ScansAreLogarithmic ==
    probes > 0 => 2 ^ (probes - 1) <= last - first + 1

\* The work on a package ends.
JobEnds == <>(pc \in {"done", "abandoned"})

\* README.rst: "populate_next_safe_versions: Finds closest safe versions".
FindsClosest ==
    SearchOver => \A v \in first .. last :
                      reported[v] = 0 => safe # None /\ safe <= v
=============================================================================
