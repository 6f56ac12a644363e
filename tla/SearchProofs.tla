---------------------------- MODULE SearchProofs ----------------------------
(***************************************************************************)
(* Proofs about SafeVersionSearch for packages with any number of versions *)
(* and any scan history.                                                   *)
(***************************************************************************)
EXTENDS SafeVersionSearch, FiniteSetTheorems, TLAPS

\* What is known of the rows: a successful scan was counted from the version's
\* own project, and no row has another version's project.
RowsAreOwn ==
    \A v \in Versions :
        /\ rows[v].project \in {NoProject, v}
        /\ rows[v].status = "SUCCESS" =>
              rows[v].project = v /\ rows[v].count = reported[v]

\* The loop invariant of find_safe_version_in.
LoopInv ==
    pc = "search" =>
        /\ first <= left /\ left <= right + 1 /\ right <= last
        /\ first <= last
        /\ KnownSafe(rows[last])
        /\ safe = None => right = last
        /\ safe # None => safe = right + 1 /\ safe <= last /\ LiveAt(safe) = 0
        /\ left > first => LiveAt(left - 1) > 0
        /\ safe # None => rows[safe].status # "ADDED"

\* The part of TypeOK the proofs rest on.
SearchType ==
    /\ reported \in [Versions -> Counts]
    /\ rows \in [Versions -> RowType(Versions, Counts)]
    /\ todo \subseteq Versions
    /\ pc \in {"next", "search", "done", "abandoned"}
    /\ first \in Versions /\ last \in Versions
    /\ left \in Int /\ right \in Int /\ safe \in Int

LInv == SearchType /\ RowsAreOwn /\ LoopInv

USE SearchAssumption

LEMMA HistoriesAreOwn ==
    ASSUME NEW v \in Versions, reported \in [Versions -> Counts],
           NEW r \in Histories(v)
    PROVE  /\ r \in RowType(Versions, Counts)
           /\ r.project \in {NoProject, v}
           /\ r.status = "SUCCESS" => r.project = v /\ r.count = reported[v]
BY DEF Histories, RowType, NewRow, Statuses, NoProject, NoCount, Versions

LEMMA LInvInit == Init => LInv
<1> SUFFICES ASSUME Init PROVE LInv
  OBVIOUS
<1>1. 1 \in Versions
  BY DEF Versions
<1>2. \A v \in Versions : rows[v] \in Histories(v)
  BY DEF Init
<1>3. rows \in [Versions -> RowType(Versions, Counts)]
  BY <1>2, HistoriesAreOwn DEF Init
<1>4. SearchType
  BY <1>1, <1>3 DEF Init, SearchType, None
<1>5. RowsAreOwn
  BY <1>2, HistoriesAreOwn DEF Init, RowsAreOwn
<1>6. LoopInv
  BY DEF Init, LoopInv
<1>7. QED
  BY <1>4, <1>5, <1>6 DEF LInv

\* A scan leaves a row of the version's own, counted if it succeeded; a known
\* safe row is left alone.
LEMMA ScanResultsAreOwn ==
    ASSUME SearchType, RowsAreOwn, NEW v \in Versions, NEW r \in ScanResults(v)
    PROVE  /\ r \in RowType(Versions, Counts)
           /\ r.project \in {NoProject, v}
           /\ r.status = "SUCCESS" => r.project = v /\ r.count = reported[v]
           /\ KnownSafe(rows[v]) => r = rows[v]
           /\ r.status # "ADDED"
BY DEF SearchType, RowsAreOwn, ScanResults, Scans, Scanned, Outcomes,
   RowType, Statuses, KnownSafe

\* The element probed lies within the interval.
LEMMA MidBetween ==
    ASSUME left \in Int, right \in Int, left <= right
    PROVE  Mid \in Int /\ left <= Mid /\ Mid <= right
BY DEF Mid

LEMMA ProbeStep ==
    ASSUME LInv, Probe
    PROVE  LInv'
<1> USE DEF LInv
<1>1. PICK new \in ScanResults(Mid) :
        /\ rows' = [rows EXCEPT ![Mid] = new]
        /\ Narrow(LiveCount(new, reported))
  BY DEF Probe
<1>2. /\ pc = "search" /\ left <= right
      /\ UNCHANGED <<reported, todo, pc, first, last>>
  BY DEF Probe, fixed
<1>3. Mid \in Int /\ left <= Mid /\ Mid <= right
  BY <1>2, MidBetween DEF SearchType
<1>4. Mid \in Versions
  BY <1>2, <1>3 DEF LoopInv, SearchType, Versions
<1>5. /\ new \in RowType(Versions, Counts)
      /\ new.project \in {NoProject, Mid}
      /\ new.status = "SUCCESS" => new.project = Mid /\ new.count = reported[Mid]
      /\ KnownSafe(rows[Mid]) => new = rows[Mid]
      /\ new.status # "ADDED"
  BY <1>1, <1>4, ScanResultsAreOwn
<1>6. rows'[Mid] = new /\ \A v \in Versions \ {Mid} : rows'[v] = rows[v]
  BY <1>1, <1>4 DEF SearchType
<1>7. LiveCount(new, reported) \in Nat
  BY <1>4, <1>5 DEF LiveCount, SearchType, NoProject
<1>8. SearchType'
  BY <1>1, <1>2, <1>3, <1>4, <1>5 DEF SearchType, Narrow
<1>9. RowsAreOwn'
  BY <1>2, <1>5, <1>6 DEF RowsAreOwn
<1>10. \A v \in Versions \ {Mid} : LiveAt(v)' = LiveAt(v)
  BY <1>2, <1>6 DEF LiveAt, LiveCount
<1>11. ASSUME NEW v \in Versions, v = Mid
       PROVE  LiveAt(v)' = LiveCount(new, reported)
  BY <1>2, <1>6, <1>11 DEF LiveAt, LiveCount
<1>12. KnownSafe(rows[last])'
  BY <1>2, <1>5, <1>6 DEF LoopInv, SearchType
<1>13. /\ pc' = "search" /\ first' = first /\ last' = last
       /\ first <= Mid /\ Mid <= last /\ first <= last
       /\ first \in Int /\ last \in Int
  BY <1>2, <1>3 DEF LoopInv, SearchType, Versions
<1>14. CASE LiveCount(new, reported) = 0
  <2>1. safe' = Mid /\ right' = Mid - 1 /\ left' = left
    BY <1>1, <1>14 DEF Narrow
  <2>2. safe' # None /\ safe' = right' + 1 /\ safe' <= last'
    BY <1>3, <1>4, <1>13, <2>1 DEF Versions, None
  <2>3. LiveAt(safe)' = 0
    <3>1. PICK m \in Versions : m = Mid
      BY <1>4
    <3>2. LiveAt(m)' = 0
      BY <1>11, <1>14, <3>1
    <3>3. rows'[safe'] = rows'[m] /\ reported' = reported
      BY <1>2, <2>1, <3>1
    <3>4. QED
      BY <3>2, <3>3 DEF LiveAt, LiveCount
  <2>4. ASSUME left' > first' PROVE LiveAt(left - 1)' > 0
    <3>1. left - 1 \in Versions \ {Mid}
      BY <1>2, <1>3, <1>4, <1>13, <2>1, <2>4 DEF Versions, SearchType
    <3>2. LiveAt(left - 1) > 0
      BY <1>2, <1>13, <2>1, <2>4 DEF LoopInv
    <3>3. rows'[left' - 1] = rows[left - 1] /\ reported' = reported
      BY <1>2, <1>6, <2>1, <3>1
    <3>4. QED
      BY <3>2, <3>3 DEF LiveAt, LiveCount
  <2>5. rows'[safe'].status # "ADDED"
    BY <1>5, <1>6, <2>1
  <2>6. first' <= left' /\ left' <= right' + 1 /\ right' <= last'
    BY <1>2, <1>3, <1>13, <2>1 DEF LoopInv, SearchType
  <2>7. LoopInv'
    BY <1>12, <1>13, <2>2, <2>3, <2>4, <2>5, <2>6 DEF LoopInv
  <2>8. QED
    BY <1>8, <1>9, <2>7
<1>15. CASE LiveCount(new, reported) # 0
  <2>1. left' = Mid + 1 /\ right' = right /\ safe' = safe
    BY <1>1, <1>15 DEF Narrow
  <2>2. safe' = None => right' = last'
    BY <1>2, <1>13, <2>1 DEF LoopInv
  <2>3. ASSUME safe' # None
        PROVE  /\ safe' = right' + 1 /\ safe' <= last'
               /\ LiveAt(safe)' = 0
               /\ rows'[safe'].status # "ADDED"
    <3>1. /\ safe = right + 1 /\ safe <= last /\ LiveAt(safe) = 0
          /\ rows[safe].status # "ADDED"
      BY <1>2, <2>1, <2>3 DEF LoopInv
    <3>2. safe \in Versions \ {Mid}
      BY <1>2, <1>3, <1>4, <1>13, <3>1 DEF SearchType, Versions
    <3>3. rows'[safe'] = rows[safe] /\ reported' = reported
      BY <1>2, <1>6, <2>1, <3>2
    <3>4. LiveAt(safe)' = 0
      BY <3>1, <3>3 DEF LiveAt, LiveCount
    <3>5. QED
      BY <1>13, <2>1, <3>1, <3>3, <3>4
  <2>4. LiveAt(left - 1)' > 0
    <3>1. PICK m \in Versions : m = Mid
      BY <1>4
    <3>2. LiveAt(m)' > 0
      BY <1>7, <1>11, <1>15, <3>1
    <3>3. left' - 1 = m
      BY <1>3, <2>1, <3>1
    <3>4. QED
      BY <3>2, <3>3 DEF LiveAt
  <2>5. first' <= left' /\ left' <= right' + 1 /\ right' <= last'
    BY <1>2, <1>3, <1>13, <2>1 DEF LoopInv, SearchType
  <2>6. LoopInv'
    BY <1>12, <1>13, <2>2, <2>3, <2>4, <2>5 DEF LoopInv
  <2>7. QED
    BY <1>8, <1>9, <2>6
<1>16. QED
  BY <1>14, <1>15

LEMMA StartStep ==
    ASSUME LInv, NEW v \in Versions, Start(v)
    PROVE  LInv'
<1> USE DEF LInv
<1>1. PICK u \in Versions : IsSafeUpgrade(v, u) /\ u > v /\ last' = u /\ right' = u
  BY DEF Start
<1>2. /\ first' = v /\ left' = v /\ safe' = None /\ pc' = "search"
      /\ todo' = todo \ {v}
      /\ UNCHANGED <<reported, rows>>
  BY DEF Start, fixed
<1>3. KnownSafe(rows[u])
  BY <1>1 DEF IsSafeUpgrade, Offers
<1>4. u \in Int /\ v \in Int
  BY DEF Versions
<1>5. SearchType'
  BY <1>1, <1>2, <1>4 DEF SearchType, None
<1>6. RowsAreOwn'
  BY <1>2 DEF RowsAreOwn
<1>7. LoopInv'
  BY <1>1, <1>2, <1>3, <1>4 DEF LoopInv, None
<1>8. QED
  BY <1>5, <1>6, <1>7

LEMMA LInvStep == LInv /\ [Next]_vars => LInv'
<1> SUFFICES ASSUME LInv, [Next]_vars PROVE LInv'
  OBVIOUS
<1>1. ASSUME NEW v \in Versions, Pass(v) PROVE LInv'
  BY <1>1 DEF LInv, SearchType, RowsAreOwn, LoopInv, Pass, fixed, bounds
<1>2. ASSUME NEW v \in Versions, Start(v) PROVE LInv'
  BY <1>2, StartStep
<1>3. CASE Probe
  BY <1>3, ProbeStep
<1>4. CASE Finish
  BY <1>4 DEF LInv, SearchType, RowsAreOwn, LoopInv, Finish, fixed, bounds
<1>5. CASE Done
  BY <1>5 DEF LInv, SearchType, RowsAreOwn, LoopInv, Done, fixed, bounds
<1>6. CASE Clash \/ Break
  BY <1>6 DEF LInv, SearchType, RowsAreOwn, LoopInv, Clash, Break, Abandon,
              fixed, bounds
<1>7. CASE UNCHANGED vars
  <2>1. UNCHANGED <<reported, rows, todo, pc, first, last, left, right, safe>>
    BY <1>7 DEF vars
  <2>2. SearchType' /\ RowsAreOwn'
    BY <2>1 DEF LInv, SearchType, RowsAreOwn
  <2>3. LoopInv'
    BY <2>1 DEF LInv, LoopInv, LiveAt
  <2>4. QED
    BY <2>2, <2>3 DEF LInv
<1>8. QED
  BY <1>1, <1>2, <1>3, <1>4, <1>5, <1>6, <1>7 DEF Next, Work

LEMMA LInvHolds == Spec => []LInv
BY LInvInit, LInvStep, PTL DEF Spec

\* When the loop ends the interval is empty, and what was probed lies on either
\* side of the boundary it closed on.
LEMMA BoundaryWhenOver == LInv => SettlesOnBoundary
<1> SUFFICES ASSUME LInv, SearchOver
             PROVE  IF safe = None
                    THEN LiveAt(last) > 0
                    ELSE LiveAt(safe) = 0 /\ (safe = first \/ LiveAt(safe - 1) > 0)
  BY DEF SettlesOnBoundary
<1>1. pc = "search" /\ left > right
  BY DEF SearchOver
<1>2. /\ first <= left /\ left <= right + 1 /\ right <= last
      /\ first <= last
      /\ safe = None => right = last
      /\ safe # None => safe = right + 1 /\ LiveAt(safe) = 0
      /\ left > first => LiveAt(left - 1) > 0
  BY <1>1 DEF LInv, LoopInv
<1>3. /\ left \in Int /\ right \in Int /\ safe \in Int
      /\ first \in Int /\ last \in Int
  BY DEF LInv, SearchType, Versions
<1>4. left = right + 1
  BY <1>1, <1>2, <1>3
<1>5. CASE safe = None
  <2>1. left > first /\ left - 1 = last
    BY <1>2, <1>3, <1>4, <1>5
  <2>2. LiveAt(left - 1) > 0
    BY <1>2, <2>1
  <2>3. QED
    BY <1>5, <2>1, <2>2
<1>6. CASE safe # None
  <2>1. safe = left /\ LiveAt(safe) = 0
    BY <1>2, <1>4, <1>6
  <2>2. safe = first \/ left > first
    BY <1>2, <1>3, <2>1
  <2>3. QED
    BY <1>2, <1>6, <2>1, <2>2
<1>7. QED
  BY <1>5, <1>6

\* Whatever the history, the version find_safe_version_in settles on has no
\* live vulnerabilities and the one below it has, or begins the list.
THEOREM SearchSettlesOnBoundary == Spec => []SettlesOnBoundary
BY LInvHolds, BoundaryWhenOver, PTL

\* A version whose scan succeeded counts what ScanCode.io reports of it.
LEMMA LiveWhenScanned ==
    ASSUME LInv, NEW v \in Versions, rows[v].status = "SUCCESS"
    PROVE  LiveAt(v) = reported[v]
BY DEF LInv, RowsAreOwn, LiveAt, LiveCount, NoProject, Versions

\* Vulnerabilities counted live were reported.
LEMMA LiveWasReported ==
    ASSUME LInv, NEW v \in Versions, LiveAt(v) > 0
    PROVE  reported[v] > 0
BY DEF LInv, RowsAreOwn, LiveAt, LiveCount, NoProject, Versions

LEMMA LeastWhenOver == LInv => MonotoneFindsLeast
<1> SUFFICES ASSUME LInv, SearchOver, Monotone, NoneFailed(first .. last)
             PROVE  /\ safe # None
                    /\ reported[safe] = 0
                    /\ \A v \in first .. last : v < safe => reported[v] > 0
  BY DEF MonotoneFindsLeast
<1>1. /\ IF safe = None
         THEN LiveAt(last) > 0
         ELSE LiveAt(safe) = 0 /\ (safe = first \/ LiveAt(safe - 1) > 0)
  BY BoundaryWhenOver DEF SettlesOnBoundary
<1>2. /\ KnownSafe(rows[last])
      /\ first <= left /\ left <= right + 1
      /\ safe # None => /\ safe = right + 1 /\ safe <= last
                        /\ rows[safe].status # "ADDED"
  BY DEF SearchOver, LInv, LoopInv
<1>3. /\ first \in Versions /\ last \in Versions
      /\ left \in Int /\ right \in Int /\ safe \in Int
      /\ reported \in [Versions -> Nat]
  BY DEF LInv, SearchType
<1>4. LiveAt(last) = 0
  BY <1>2, <1>3, LiveWhenScanned DEF KnownSafe, LInv, RowsAreOwn
<1>5. safe # None
  BY <1>1, <1>4
<1>6. first <= safe /\ safe \in Versions
  BY <1>2, <1>3, <1>5 DEF Versions
<1>7. reported[safe] = 0
  <2>1. safe \in first .. last
    BY <1>2, <1>3, <1>5, <1>6 DEF Versions
  <2>2. rows[safe].status = "SUCCESS"
    BY <1>2, <1>5, <1>6, <2>1
       DEF NoneFailed, LInv, SearchType, RowType, Statuses
  <2>3. QED
    BY <1>1, <1>5, <1>6, <2>2, LiveWhenScanned
<1>8. ASSUME NEW v \in first .. last, v < safe
      PROVE  reported[v] > 0
  <2>1. safe - 1 \in Versions /\ v \in Versions /\ v <= safe - 1 /\ safe # first
    BY <1>3, <1>6, <1>8 DEF Versions
  <2>2. reported[safe - 1] > 0
    BY <1>1, <1>5, <2>1, LiveWasReported
  <2>3. CASE v = safe - 1
    BY <2>2, <2>3
  <2>4. CASE v < safe - 1
    BY <1>3, <2>1, <2>2, <2>4 DEF Monotone
  <2>5. QED
    BY <1>3, <2>1, <2>3, <2>4 DEF Versions
<1>9. QED
  BY <1>5, <1>7, <1>8

\* When fixes last and no scan of the list failed, find_safe_version_in
\* settles on the least of the list without vulnerabilities.
THEOREM SearchFindsLeast == Spec => []MonotoneFindsLeast
BY LInvHolds, LeastWhenOver, PTL

LEMMA OffersStep ==
    ASSUME LInv, [Next]_vars, NEW v \in Versions, NEW u \in Versions,
           u \in Offers(v)
    PROVE  u \in Offers(v)'
<1>1. CASE Probe
  <2>1. KnownSafe(rows[u])
    BY DEF Offers
  <2>2. Mid \in Versions
    BY <1>1, MidBetween DEF LInv, LoopInv, SearchType, Probe, Versions
  <2>3. PICK new \in ScanResults(Mid) : rows' = [rows EXCEPT ![Mid] = new]
    BY <1>1 DEF Probe
  <2>4. KnownSafe(rows[Mid]) => new = rows[Mid]
    BY <2>2, <2>3, ScanResultsAreOwn DEF LInv
  <2>5. rows'[u] = rows[u]
    BY <2>1, <2>2, <2>3, <2>4 DEF LInv, SearchType
  <2>6. QED
    BY <2>5 DEF Offers, KnownSafe
<1>2. CASE ~Probe
  <2>1. rows' = rows
    BY <1>2 DEF Next, Work, Pass, Start, Clash, Break, Abandon, Finish, Done, vars
  <2>2. QED
    BY <2>1 DEF Offers, KnownSafe
<1>3. QED
  BY <1>1, <1>2

\* A row known to be safe is never scanned again by the job, so that a scan
\* that fails cannot take away an upgrade already on offer.
THEOREM SearchKeepsOffers == Spec => OffersOnlyGrow
<1>1. LInv /\ [Next]_vars
        => [\A v, u \in Versions : u \in Offers(v) => u \in Offers(v)']_vars
  BY OffersStep
<1>2. QED
  BY <1>1, LInvHolds, PTL DEF Spec, OffersOnlyGrow

-----------------------------------------------------------------------------
(* Types and the number of scans.                                          *)

\* The powers of two, which count the subsets of intervals.
LEMMA TwoToZero == 2 ^ 0 = 1
<1>1. SUBSET {} = {{}} /\ IsFiniteSet({}) /\ Cardinality({}) = 0
  BY FS_EmptySet
<1>2. Cardinality({{}}) = 1
  BY FS_Singleton
<1>3. Cardinality(SUBSET {}) = 2 ^ Cardinality({})
  BY <1>1, FS_SUBSET
<1> QED
  BY <1>1, <1>2, <1>3

LEMMA TwoToNext ==
    ASSUME NEW n \in Nat
    PROVE  2 ^ n \in Nat /\ 2 ^ (n + 1) = 2 * 2 ^ n
<1> DEFINE S == 1 .. n
           T == SUBSET S
           U == {A \union {n + 1} : A \in T}
           f == [A \in T |-> A \union {n + 1}]
<1>1. /\ IsFiniteSet(S) /\ Cardinality(S) = n
      /\ IsFiniteSet(1 .. n + 1) /\ Cardinality(1 .. n + 1) = n + 1
  BY FS_Interval
<1>2. IsFiniteSet(T) /\ Cardinality(T) = 2 ^ n /\ Cardinality(T) \in Nat
  BY <1>1, FS_SUBSET, FS_CardinalityType
<1>3. Cardinality(SUBSET (1 .. n + 1)) = 2 ^ (n + 1)
  BY <1>1, FS_SUBSET
<1>4. f \in Bijection(T, U)
  <2>1. f \in [T -> U]
    OBVIOUS
  <2>2. \A A, B \in T : f[A] = f[B] => A = B
    <3> SUFFICES ASSUME NEW A \in T, NEW B \in T, f[A] = f[B] PROVE A = B
      OBVIOUS
    <3>1. n + 1 \notin A /\ n + 1 \notin B
      OBVIOUS
    <3>2. A \union {n + 1} = B \union {n + 1}
      OBVIOUS
    <3> HIDE DEF f
    <3> QED
      BY <3>1, <3>2
  <2>3. \A b \in U : \E A \in T : f[A] = b
    OBVIOUS
  <2> QED
    BY <2>1, <2>2, <2>3 DEF Bijection, Injection, Surjection, IsInjective
<1>5. IsFiniteSet(U) /\ Cardinality(U) = Cardinality(T)
  <2>1. ExistsBijection(T, U)
    BY <1>4 DEF ExistsBijection
  <2> HIDE DEF T, U
  <2> QED
    BY <1>2, <2>1, FS_Bijection
<1>6. T \intersect U = {}
  OBVIOUS
<1>7. SUBSET (1 .. n + 1) = T \union U
  <2>1. ASSUME NEW A \in SUBSET (1 .. n + 1) PROVE A \in T \union U
    <3>1. CASE n + 1 \notin A
      BY <3>1
    <3>2. CASE n + 1 \in A
      <4>1. A \ {n + 1} \in T
        OBVIOUS
      <4>2. A = (A \ {n + 1}) \union {n + 1}
        BY <3>2
      <4> QED
        BY <4>1, <4>2
    <3> QED
      BY <3>1, <3>2
  <2>2. T \subseteq SUBSET (1 .. n + 1) /\ U \subseteq SUBSET (1 .. n + 1)
    <3>1. S \subseteq 1 .. n + 1 /\ n + 1 \in 1 .. n + 1
      OBVIOUS
    <3> QED
      BY <3>1
  <2> QED
    BY <2>1, <2>2
<1>8. Cardinality({}) = 0
  BY FS_EmptySet
<1>9. Cardinality(T \union U) = Cardinality(T) + Cardinality(U) - Cardinality(T \intersect U)
  BY <1>2, <1>5, FS_Union
<1> HIDE DEF S, T, U
<1>10. 2 ^ (n + 1) = 2 * 2 ^ n
  <2> DEFINE c == Cardinality(T)
             d == 2 ^ (n + 1)
             e == 2 ^ n
  <2>1. Cardinality(T \union U) = d
    BY <1>3, <1>7
  <2>2. c \in Nat /\ Cardinality(U) = c /\ Cardinality(T \intersect U) = 0 /\ c = e
    BY <1>2, <1>5, <1>6, <1>8
  <2>3. Cardinality(T \union U) = c + c - 0
    BY <1>9, <2>2
  <2> HIDE DEF c, d, e
  <2>4. d = 2 * e
    BY <2>1, <2>2, <2>3
  <2> QED
    BY <2>4 DEF d, e
<1> QED
  BY <1>2, <1>10

\* What is left of the list, and its length when the search began.
Remaining == right - left + 1
Length == last - first + 1

\* Each scan leaves half of what there was, or less.
Halved ==
    /\ probes \in Nat
    /\ pc = "search" => /\ probes + Remaining <= Length
                        /\ Remaining * 2 ^ probes <= Length
    /\ probes > 0 => 2 ^ (probes - 1) <= Length

ScanInv == LInv /\ TypeOK /\ Halved

LEMMA InitialScans == Init => ScanInv
<1> SUFFICES ASSUME Init PROVE ScanInv
  OBVIOUS
<1>1. LInv
  BY LInvInit
<1>2. TypeOK
  BY <1>1 DEF Init, TypeOK, LInv, SearchType, None, Versions
<1>3. Halved
  BY DEF Init, Halved
<1> QED
  BY <1>1, <1>2, <1>3 DEF ScanInv

\* Half of a number is taken twice as often.
LEMMA HalfTwice ==
    ASSUME NEW s \in Nat, NEW t \in Nat, NEW a \in Nat, 2 * t <= s
    PROVE  t * (2 * a) <= s * a
<1>1. (2 * t) * a <= s * a
  <2>1. PICK d \in Nat : s = 2 * t + d
    <3>1. s - 2 * t \in Nat /\ s = 2 * t + (s - 2 * t)
      OBVIOUS
    <3> QED
      BY <3>1
  <2>2. s * a = (2 * t) * a + d * a
    BY <2>1
  <2>3. d * a >= 0 /\ d * a \in Nat /\ (2 * t) * a \in Nat
    OBVIOUS
  <2> QED
    BY <2>2, <2>3
<1> QED
  BY <1>1

\* The element probed halves the interval.
LEMMA ProbeHalves ==
    ASSUME LInv, Probe
    PROVE  /\ Remaining \in Nat \ {0} /\ Remaining' \in Nat
           /\ 2 * Remaining' <= Remaining
           /\ Length' = Length /\ Length \in Nat \ {0}
           /\ left' \in Int /\ right' \in Int
<1>1. /\ pc = "search" /\ left <= right
      /\ first' = first /\ last' = last
      /\ \E new : Narrow(LiveCount(new, reported))
  BY DEF Probe
<1>2. /\ left \in Int /\ right \in Int /\ first \in Int /\ last \in Int
      /\ first <= last
  BY <1>1 DEF LInv, SearchType, LoopInv, Versions
<1>3. /\ Mid \in Int /\ left <= Mid /\ Mid <= right
      /\ 2 * Mid <= left + right /\ left + right <= 2 * Mid + 1
  BY <1>1, <1>2, MidBetween DEF Mid
<1>4. \/ right' = Mid - 1 /\ left' = left
      \/ left' = Mid + 1 /\ right' = right
  BY <1>1 DEF Narrow
<1> QED
  BY <1>1, <1>2, <1>3, <1>4 DEF Remaining, Length

\* What lies within the list lies within the versions.
LEMMA WithinVersions ==
    ASSUME NEW f \in Int, NEW l \in Int, NEW r \in Int, NEW e \in Int,
           1 <= f, f <= l, l <= r + 1, r <= e, e <= MaxVersion
    PROVE  l \in 1 .. MaxVersion + 1 /\ r \in 0 .. MaxVersion
OBVIOUS

LEMMA AfterRight ==
    ASSUME NEW r \in 0 .. MaxVersion, NEW e \in Int, e <= MaxVersion,
           NEW s \in Int, s = r + 1, s <= e
    PROVE  s >= 1 /\ s <= MaxVersion
OBVIOUS

LEMMA ProbeScans ==
    ASSUME ScanInv, Probe
    PROVE  ScanInv'
<1> USE DEF ScanInv
<1>1. LInv'
  BY ProbeStep
<1>2. /\ pc = "search" /\ left <= right /\ pc' = pc
      /\ first' = first /\ last' = last
      /\ probes' = IF probes > MaxVersion THEN probes ELSE probes + 1
      /\ UNCHANGED <<reported, inUse, todo>>
  BY DEF Probe, fixed
<1>3. /\ Remaining \in Nat \ {0} /\ Remaining' \in Nat
      /\ 2 * Remaining' <= Remaining
      /\ Length' = Length /\ Length \in Nat \ {0}
  BY ProbeHalves
<1>4. Length <= MaxVersion
  BY DEF LInv, SearchType, Length, Versions
<1>5. probes < MaxVersion /\ probes' = probes + 1 /\ probes \in Nat
  BY <1>2, <1>3, <1>4 DEF Halved
<1>6. Halved'
  <2> DEFINE a == 2 ^ probes
  <2>1. a \in Nat /\ 2 ^ probes' = 2 * a
    BY <1>5, TwoToNext
  <2>2. Remaining * a <= Length /\ probes + Remaining <= Length
    BY <1>2 DEF Halved
  <2>3. 2 ^ (probes' - 1) = a
    BY <1>5
  <2> HIDE DEF a
  <2>4. Remaining' * (2 * a) <= Remaining * a
    BY <1>3, <2>1, HalfTwice
  <2>5. a <= Remaining * a
    <3>1. PICK d \in Nat : Remaining = d + 1
      <4>1. Remaining - 1 \in Nat /\ Remaining = (Remaining - 1) + 1
        BY <1>3
      <4> QED
        BY <4>1
    <3>2. Remaining * a = d * a + a /\ d * a \in Nat
      BY <2>1, <3>1
    <3> QED
      BY <2>1, <3>2
  <2>6. \A n, m \in Nat : n * m \in Nat /\ n * (2 * m) \in Nat
    OBVIOUS
  <2>7. Remaining' * 2 ^ probes' <= Length'
    <3>1. Remaining * a \in Nat /\ Remaining' * (2 * a) \in Nat
      BY <1>3, <2>1, <2>6
    <3>2. Remaining' * (2 * a) <= Length'
      BY <1>3, <2>2, <2>4, <3>1
    <3> QED
      BY <2>1, <3>2
  <2>8. probes' + Remaining' <= Length'
    <3> DEFINE x == Remaining
               y == Remaining'
    <3>1. x \in Nat \ {0} /\ y \in Nat /\ 2 * y <= x
      BY <1>3
    <3>2. probes + x <= Length /\ Length' = Length /\ Length \in Nat
      BY <1>3, <2>2
    <3> HIDE DEF x, y
    <3>3. probes' + y <= Length'
      BY <1>5, <3>1, <3>2
    <3> QED
      BY <3>3 DEF y
  <2>9. 2 ^ (probes' - 1) <= Length'
    <3>1. Remaining * a \in Nat
      BY <1>3, <2>1, <2>6
    <3> QED
      BY <1>3, <2>1, <2>2, <2>3, <2>5, <3>1
  <2> QED
    BY <1>2, <1>5, <2>7, <2>8, <2>9 DEF Halved
<1>7. TypeOK'
  <2>1. /\ reported' \in [Versions -> Counts]
        /\ rows' \in [Versions -> RowType(Versions, Counts)]
        /\ pc' \in {"next", "search", "done", "abandoned"}
        /\ first' \in Versions /\ last' \in Versions
        /\ left' \in Int /\ right' \in Int /\ safe' \in Int
    BY <1>1 DEF LInv, SearchType
  <2>2. inUse' \subseteq Versions /\ todo' \subseteq inUse'
    BY <1>2 DEF TypeOK
  <2>3. /\ first' <= left' /\ left' <= right' + 1 /\ right' <= last'
        /\ safe' # None => safe' = right' + 1 /\ safe' <= last'
    BY <1>1, <1>2 DEF LInv, LoopInv
  <2>4. left' \in 1 .. MaxVersion + 1 /\ right' \in 0 .. MaxVersion
    <3>1. /\ first' \in Int /\ last' \in Int
          /\ 1 <= first' /\ last' <= MaxVersion
      BY <2>1 DEF Versions
    <3> QED
      BY <2>1, <2>3, <3>1, WithinVersions
  <2>5. safe' \in Versions \union {None}
    <3>1. last' <= MaxVersion /\ last' \in Int
      BY <2>1 DEF Versions
    <3>2. safe' # None => safe' >= 1 /\ safe' <= MaxVersion
      BY <2>1, <2>3, <2>4, <3>1, AfterRight DEF None
    <3> QED
      BY <2>1, <3>2 DEF Versions
  <2> QED
    BY <1>5, <2>1, <2>2, <2>4, <2>5 DEF TypeOK
<1> QED
  BY <1>1, <1>6, <1>7

LEMMA ScansStep == ScanInv /\ [Next]_vars => ScanInv'
<1> SUFFICES ASSUME ScanInv, [Next]_vars PROVE ScanInv'
  OBVIOUS
<1>1. LInv'
  BY LInvStep DEF ScanInv
<1>2. CASE Probe
  BY <1>2, ProbeScans
<1>3. CASE \E v \in Versions : Start(v)
  <2>1. PICK v \in Versions : Start(v)
    BY <1>3
  <2>2. PICK u \in Versions : u > v /\ last' = u /\ right' = u
    BY <2>1 DEF Start
  <2>3. /\ first' = v /\ left' = v /\ safe' = None /\ probes' = 0
        /\ pc' = "search" /\ todo' = todo \ {v}
        /\ UNCHANGED <<reported, inUse, rows>>
    BY <2>1 DEF Start, fixed
  <2>4. TypeOK'
    BY <2>2, <2>3 DEF ScanInv, TypeOK, Versions
  <2>5. Halved'
    <3>1. u \in Int /\ v \in Int /\ u > v
      BY <2>2 DEF Versions
    <3>2. Remaining' = u - v + 1 /\ Length' = u - v + 1
      BY <2>2, <2>3 DEF Remaining, Length
    <3>3. Remaining' * 2 ^ probes' = Remaining'
      BY <2>3, <3>1, <3>2, TwoToZero
    <3> QED
      BY <2>3, <3>1, <3>2, <3>3 DEF Halved
  <2> QED
    BY <1>1, <2>4, <2>5 DEF ScanInv
<1>4. CASE ~Probe /\ ~\E v \in Versions : Start(v)
  <2>1. /\ UNCHANGED <<reported, inUse, rows, first, last, left, right, safe, probes>>
        /\ todo' \subseteq todo
        /\ pc' \in {"next", "search", "done", "abandoned"}
        /\ pc' = "search" => pc = "search"
    BY <1>4 DEF Next, Work, Pass, Clash, Break, Abandon, Finish, Done, vars,
                fixed, bounds, ScanInv, TypeOK
  <2>2. TypeOK'
    BY <2>1 DEF ScanInv, TypeOK
  <2>3. Halved'
    BY <2>1 DEF ScanInv, Halved, Remaining, Length
  <2> QED
    BY <1>1, <2>2, <2>3 DEF ScanInv
<1> QED
  BY <1>2, <1>3, <1>4

LEMMA ScansHold == Spec => []ScanInv
BY InitialScans, ScansStep, PTL DEF Spec

\* The rows of the versions, the interval find_safe_version_in narrows and the
\* version it settles on stay within the list it was given.
THEOREM SearchTypes == Spec => []TypeOK
<1>1. ScanInv => TypeOK
  BY DEF ScanInv
<1> QED
  BY <1>1, ScansHold, PTL

\* A package of any number of versions takes at most log2 of the list's length
\* and one scans of find_safe_version_in.
THEOREM SearchIsLogarithmic == Spec => []ScansAreLogarithmic
<1>1. ScanInv => ScansAreLogarithmic
  BY DEF ScanInv, Halved, ScansAreLogarithmic, Length
<1> QED
  BY <1>1, ScansHold, PTL

-----------------------------------------------------------------------------
(* What the job leaves for the dashboard.                                  *)

\* A version that was dealt with is safe, or above every version known to be
\* so; or it has a version w known to be safe, with vulnerabilities right
\* below it.  A scan of w that failed may be repeated by a later search, which
\* then ends on such a version, or on one whose scan failed again.
Boundary(v, w) ==
    /\ v <= w
    /\ w = v \/ reported[w - 1] > 0
    /\ KnownSafe(rows[w]) \/ rows[w].status = "FAILED"

Searched(v) == pc = "search" /\ (v = first \/ (first < left /\ v < left))

Served(v) ==
    \/ IsSafe(rows[v])
    \/ Offers(v) = {}
    \/ \E w \in Versions : Boundary(v, w)
    \/ Searched(v)

\* As long as the job goes on, every version that was taken from todo is served.
AllServed ==
    /\ todo \subseteq inUse /\ inUse \subseteq Versions
    /\ pc = "done" => todo = {}
    /\ pc # "abandoned" => \A v \in inUse \ todo : Served(v)

ServedInv == LInv /\ AllServed

LEMMA CountsAreNatural == LInv => reported \in [Versions -> Nat]
BY DEF LInv, SearchType

LEMMA InitialServed == Init => ServedInv
<1>1. Init => AllServed
  BY DEF Init, AllServed
<1> QED
  BY <1>1, LInvInit DEF ServedInv

\* What was known of a version that nothing is scanned for stays.
LEMMA ServedStays ==
    ASSUME UNCHANGED <<reported, rows>>, NEW v \in Versions, Served(v),
           Searched(v) => Searched(v)'
    PROVE  Served(v)'
<1>1. \A w \in Versions : Boundary(v, w)' = Boundary(v, w)
  BY DEF Boundary, KnownSafe
<1>2. IsSafe(rows[v])' = IsSafe(rows[v]) /\ Offers(v)' = Offers(v)
  BY DEF IsSafe, Offers, KnownSafe
<1> QED
  BY <1>1, <1>2 DEF Served

LEMMA PassServes ==
    ASSUME ServedInv, NEW v \in Versions, Pass(v)
    PROVE  AllServed'
<1>1. /\ UNCHANGED <<reported, inUse, rows, pc, first, left>>
      /\ pc = "next" /\ v \in todo /\ todo' = todo \ {v}
      /\ IsSafe(rows[v]) \/ Offers(v) = {} \/ IsSafeUpgrade(v, v)
  BY DEF Pass, fixed, bounds
<1>2. Served(v)
  <2>1. ASSUME IsSafeUpgrade(v, v) PROVE Boundary(v, v)
    BY <2>1 DEF IsSafeUpgrade, Offers, Boundary, Versions
  <2> QED
    BY <1>1, <2>1 DEF Served
<1>3. ASSUME NEW u \in inUse' \ todo' PROVE Served(u)'
  <2>1. u \in Versions /\ Served(u)
    BY <1>1, <1>2, <1>3 DEF ServedInv, AllServed
  <2>2. Searched(u)' = Searched(u)
    BY <1>1 DEF Searched
  <2> QED
    BY <1>1, <2>1, <2>2, ServedStays
<1> QED
  BY <1>1, <1>3 DEF ServedInv, AllServed

LEMMA StartServes ==
    ASSUME ServedInv, NEW v \in Versions, Start(v)
    PROVE  AllServed'
<1>1. /\ UNCHANGED <<reported, inUse, rows>>
      /\ pc = "next" /\ todo' = todo \ {v}
      /\ pc' = "search" /\ first' = v
  BY DEF Start, fixed
<1>2. Served(v)'
  BY <1>1 DEF Served, Searched
<1>3. ASSUME NEW u \in inUse' \ todo', u # v PROVE Served(u)'
  <2>1. u \in Versions /\ Served(u) /\ ~Searched(u)
    BY <1>1, <1>3 DEF ServedInv, AllServed, Searched
  <2> QED
    BY <1>1, <2>1, ServedStays
<1> QED
  BY <1>1, <1>2, <1>3 DEF ServedInv, AllServed

\* A scan of the list leaves versions above it without offers, and a version
\* whose scan had failed is known to be safe, fails again, or has
\* vulnerabilities and the search goes on above it.
LEMMA ProbeServes ==
    ASSUME ServedInv, Probe
    PROVE  AllServed'
<1>1. PICK new \in ScanResults(Mid) :
        /\ rows' = [rows EXCEPT ![Mid] = new]
        /\ Narrow(LiveCount(new, reported))
  BY DEF Probe
<1>2. /\ pc = "search" /\ left <= right /\ ~Clashes(Mid)
      /\ UNCHANGED <<reported, inUse, todo, pc, first, last>>
  BY DEF Probe, fixed
<1>3. /\ first <= left /\ right <= last /\ first <= last
      /\ left \in Int /\ right \in Int
      /\ first \in Versions /\ last \in Versions
      /\ KnownSafe(rows[last])
      /\ reported \in [Versions -> Counts]
      /\ rows \in [Versions -> RowType(Versions, Counts)]
  BY <1>2 DEF ServedInv, LInv, SearchType, LoopInv
<1>4. /\ Mid \in Int /\ left <= Mid /\ Mid <= right /\ Mid \in Versions
  <2>1. Mid \in Int /\ left <= Mid /\ Mid <= right
    BY <1>2, <1>3, MidBetween
  <2> QED
    BY <1>3, <2>1 DEF Versions
<1>5. /\ new.status # "ADDED" /\ new.status \in Statuses
      /\ new.project \in {NoProject, Mid}
      /\ new.status = "SUCCESS" => new.project = Mid /\ new.count = reported[Mid]
      /\ KnownSafe(rows[Mid]) => new = rows[Mid]
  BY <1>1, <1>4, ScanResultsAreOwn DEF ServedInv, LInv, RowType
<1>6. rows'[Mid] = new /\ \A v \in Versions \ {Mid} : rows'[v] = rows[v]
  BY <1>1, <1>3, <1>4
<1>7. Mid \in inUse => new = rows[Mid]
  BY <1>1, <1>2 DEF Clashes, ScanResults
<1>8. left' \in {left, Mid + 1}
  BY <1>1 DEF Narrow
<1>9. ASSUME NEW v \in inUse', v \notin todo' PROVE Served(v)'
  <2>1. v \in Versions /\ v \in Int /\ Served(v)
    BY <1>2, <1>9 DEF ServedInv, AllServed, Versions
  <2>2. CASE IsSafe(rows[v])
    <3>1. rows'[v] = rows[v]
      BY <1>2, <1>6, <1>7, <1>9, <2>1
    <3> QED
      BY <2>2, <3>1 DEF Served, IsSafe
  <2>3. CASE Offers(v) = {}
    <3>1. last < v
      BY <1>3, <2>1, <2>3 DEF Offers, Versions
    <3>2. ASSUME NEW u \in Versions, u >= v PROVE ~KnownSafe(rows'[u])
      <4>1. u # Mid
        BY <1>3, <1>4, <2>1, <3>1, <3>2 DEF Versions
      <4> QED
        BY <1>6, <2>3, <3>2, <4>1 DEF Offers
    <3>3. Offers(v)' = {}
      BY <3>2 DEF Offers
    <3> QED
      BY <3>3 DEF Served
  <2>4. ASSUME NEW w \in Versions, Boundary(v, w) PROVE Served(v)'
    <3>1. w \in Int /\ v <= w /\ (w = v \/ reported[w - 1] > 0)
      BY <2>4 DEF Boundary, Versions
    <3>2. CASE w # Mid
      <4>1. rows'[w] = rows[w]
        BY <1>6, <3>2
      <4>2. Boundary(v, w)'
        BY <1>2, <2>4, <4>1 DEF Boundary
      <4> QED
        BY <4>2 DEF Served
    <3>3. CASE w = Mid /\ new.status = "FAILED"
      <4>1. Boundary(v, w)'
        BY <1>2, <1>6, <3>1, <3>3 DEF Boundary
      <4> QED
        BY <4>1 DEF Served
    <3>4. CASE w = Mid /\ new.status = "SUCCESS" /\ reported[Mid] = 0
      <4>1. KnownSafe(rows'[w])
        BY <1>5, <1>6, <3>4 DEF KnownSafe
      <4>2. Boundary(v, w)'
        BY <1>2, <3>1, <4>1 DEF Boundary
      <4> QED
        BY <4>2 DEF Served
    <3>5. CASE w = Mid /\ new.status = "SUCCESS" /\ reported[Mid] # 0
      <4>1. LiveCount(new, reported) = reported[Mid]
        BY <1>4, <1>5, <3>5 DEF LiveCount, NoProject, Versions
      <4>2. left' = Mid + 1
        BY <1>1, <3>5, <4>1 DEF Narrow
      <4>3. first' < left' /\ v < left' /\ pc' = "search"
        BY <1>2, <1>3, <1>4, <2>1, <3>1, <3>5, <4>2 DEF Versions
      <4> QED
        BY <4>3 DEF Served, Searched
    <3> QED
      BY <1>5, <3>2, <3>3, <3>4, <3>5 DEF Statuses
  <2>5. CASE Searched(v)
    <3>1. left <= left' /\ left' \in Int
      BY <1>3, <1>4, <1>8
    <3>2. Searched(v)'
      BY <1>2, <1>3, <2>1, <2>5, <3>1 DEF Searched, Versions
    <3> QED
      BY <3>2 DEF Served
  <2> QED
    BY <2>1, <2>2, <2>3, <2>4, <2>5 DEF Served
<1> QED
  BY <1>2, <1>9 DEF ServedInv, AllServed

\* A search that is over has settled on a version for all it was searching for.
LEMMA FinishServes ==
    ASSUME ServedInv, Finish
    PROVE  AllServed'
<1>1. /\ SearchOver /\ pc = "search" /\ left > right /\ pc' = "next"
      /\ UNCHANGED <<reported, inUse, rows, todo, first, left>>
  BY DEF Finish, SearchOver, fixed, bounds
<1>2. /\ first <= left /\ left <= right + 1 /\ right <= last
      /\ KnownSafe(rows[last])
      /\ safe # None => /\ safe = right + 1 /\ safe <= last
                        /\ rows[safe].status # "ADDED"
      /\ left > first => LiveAt(left - 1) > 0
  BY <1>1 DEF ServedInv, LInv, LoopInv
<1>3. /\ left \in Int /\ right \in Int /\ safe \in Int
      /\ first \in Versions /\ last \in Versions
      /\ first \in Int /\ last \in Int
      /\ rows \in [Versions -> RowType(Versions, Counts)]
      /\ reported \in [Versions -> Nat]
  <2>1. first \in Int /\ last \in Int
    BY DEF ServedInv, LInv, SearchType, Versions
  <2> QED
    BY <2>1, CountsAreNatural DEF ServedInv, LInv, SearchType
<1>4. IF safe = None THEN LiveAt(last) > 0
                     ELSE LiveAt(safe) = 0 /\ (safe = first \/ LiveAt(safe - 1) > 0)
  BY <1>1, BoundaryWhenOver DEF ServedInv, SettlesOnBoundary
<1>5. LiveAt(last) = 0
  BY <1>2, <1>3, LiveWhenScanned DEF KnownSafe, ServedInv, LInv, RowsAreOwn
<1>6. safe = left /\ LiveAt(safe) = 0
  BY <1>1, <1>2, <1>3, <1>4, <1>5
<1>7. safe \in Versions
  BY <1>2, <1>3, <1>4, <1>5, <1>6 DEF Versions
<1>8. KnownSafe(rows[safe]) \/ rows[safe].status = "FAILED"
  <2>1. rows[safe].status \in {"SUCCESS", "FAILED"}
    BY <1>2, <1>3, <1>4, <1>5, <1>7 DEF RowType, Statuses
  <2>2. ASSUME rows[safe].status = "SUCCESS" PROVE KnownSafe(rows[safe])
    <3>1. rows[safe].count = reported[safe]
      BY <1>7, <2>2 DEF ServedInv, LInv, RowsAreOwn
    <3>2. reported[safe] = 0
      BY <1>6, <1>7, <2>2, LiveWhenScanned DEF ServedInv
    <3> QED
      BY <2>2, <3>1, <3>2 DEF KnownSafe
  <2> QED
    BY <2>1, <2>2
<1>9. left > first => reported[safe - 1] > 0
  <2> SUFFICES ASSUME left > first PROVE reported[safe - 1] > 0
    OBVIOUS
  <2>1. safe - 1 \in Versions
    BY <1>3, <1>6, <1>7 DEF Versions
  <2>2. LiveAt(safe - 1) > 0
    BY <1>2, <1>6
  <2> QED
    BY <2>1, <2>2, LiveWasReported DEF ServedInv
<1>10. ASSUME NEW v \in inUse', v \notin todo' PROVE Served(v)'
  <2>1. v \in Versions /\ v \in Int /\ Served(v)
    BY <1>1, <1>10 DEF ServedInv, AllServed, Versions
  <2>2. CASE ~Searched(v)
    BY <1>1, <2>1, <2>2, ServedStays
  <2>3. CASE Searched(v)
    <3>1. v <= safe /\ (safe = v \/ reported[safe - 1] > 0)
      BY <1>2, <1>3, <1>6, <1>9, <2>1, <2>3 DEF Searched
    <3>2. Boundary(v, safe)
      BY <1>8, <3>1 DEF Boundary
    <3>3. \E w \in Versions : Boundary(v, w)'
      BY <1>1, <1>7, <3>2 DEF Boundary, KnownSafe
    <3> QED
      BY <3>3 DEF Served
  <2> QED
    BY <2>2, <2>3
<1> QED
  BY <1>1, <1>10 DEF ServedInv, AllServed

LEMMA ServedStep == ServedInv /\ [Next]_vars => ServedInv'
<1> SUFFICES ASSUME ServedInv, [Next]_vars PROVE ServedInv'
  OBVIOUS
<1>1. LInv'
  BY LInvStep DEF ServedInv
<1>2. ASSUME NEW v \in Versions, Pass(v) PROVE AllServed'
  BY <1>2, PassServes
<1>3. ASSUME NEW v \in Versions, Start(v) PROVE AllServed'
  BY <1>3, StartServes
<1>4. ASSUME Probe PROVE AllServed'
  BY <1>4, ProbeServes
<1>5. ASSUME Finish PROVE AllServed'
  BY <1>5, FinishServes
<1>6. ASSUME Clash \/ Break PROVE AllServed'
  BY <1>6 DEF ServedInv, AllServed, Clash, Break, Abandon, fixed
<1>7. ASSUME Done \/ UNCHANGED vars PROVE AllServed'
  <2>1. /\ UNCHANGED <<reported, inUse, rows, todo, first, left>>
        /\ pc' = pc \/ (pc = "next" /\ pc' = "done" /\ todo = {})
    BY <1>7 DEF Done, vars, fixed, bounds
  <2>2. ASSUME pc' # "abandoned", NEW v \in inUse' \ todo' PROVE Served(v)'
    <3>1. v \in Versions /\ Served(v)
      BY <2>1, <2>2 DEF ServedInv, AllServed
    <3>2. Searched(v) => Searched(v)'
      BY <2>1 DEF Searched
    <3> QED
      BY <2>1, <3>1, <3>2, ServedStays
  <2> QED
    BY <2>1, <2>2 DEF ServedInv, AllServed
<1> QED
  BY <1>1, <1>2, <1>3, <1>4, <1>5, <1>6, <1>7 DEF ServedInv, Next, Work

LEMMA ClosestOfServed == ServedInv => ClosestWhenDone
<1> SUFFICES ASSUME ServedInv, pc = "done", Monotone, NoneFailed(Versions),
                    NEW v \in inUse, NEW u \in Versions, IsSafeUpgrade(v, u),
                    ~IsSafe(rows[v])
             PROVE  \A x \in v .. (u - 1) : reported[x] > 0
  BY DEF ClosestWhenDone
<1>1. v \in Versions /\ Served(v) /\ ~Searched(v)
  BY DEF ServedInv, AllServed, Searched
<1>2. PICK w \in Versions : Boundary(v, w)
  BY <1>1 DEF Served, IsSafeUpgrade
<1>3. /\ v <= w /\ KnownSafe(rows[w])
      /\ w = v \/ reported[w - 1] > 0
  BY <1>2 DEF Boundary, NoneFailed
<1>4. u <= w
  BY <1>3 DEF IsSafeUpgrade, Offers
<1>5. v \in Int /\ u \in Int /\ w \in Int /\ reported \in [Versions -> Nat]
  BY <1>1, CountsAreNatural DEF Versions, ServedInv
<1>6. ASSUME NEW x \in v .. (u - 1) PROVE reported[x] > 0
  <2>1. x \in Versions /\ w - 1 \in Versions /\ x <= w - 1 /\ w # v
    BY <1>1, <1>3, <1>4, <1>5 DEF Versions
  <2>2. CASE x = w - 1
    BY <1>3, <2>1, <2>2
  <2>3. CASE x < w - 1
    BY <1>3, <1>5, <2>1, <2>3 DEF Monotone
  <2> QED
    BY <1>5, <2>1, <2>2, <2>3 DEF Versions
<1> QED
  BY <1>6

\* What populate_next_safe_versions leaves in the database: when fixes last and
\* no scan is left failed, whatever failed and was repeated on the way, a
\* version in use is offered the closest safe one.
THEOREM JobOffersClosest == Spec => []ClosestWhenDone
<1>1. Spec => []ServedInv
  BY InitialServed, ServedStep, PTL DEF Spec
<1> QED
  BY <1>1, ClosestOfServed, PTL
===============================================================================
