--------------------------- MODULE CatalogProofs ---------------------------
(***************************************************************************)
(* Proofs about Catalog for any packages, versions, scanners, fetchers and *)
(* markers.                                                                *)
(***************************************************************************)
EXTENDS Catalog, TLAPS

\* What is known of a scanner's copy: its project is one of the version, and
\* the row has not lost what the copy shows.
CopiesAreOld ==
    \A s \in Scanners : task[s].id # NoId =>
        /\ task[s].copy.project # NoProject =>
              /\ task[s].copy.project \in DOMAIN projects
              /\ rows[task[s].id].project # NoProject
        /\ task[s].copy.count # NoCount => rows[task[s].id].count # NoCount

\* A version about to be inserted is one that was answered.
InsertsHaveIds ==
    \A f \in Fetchers : fetch[f].pc = "insert" => fetch[f].at \in Ids

RInv ==
    /\ TypeOK
    /\ InsertsHaveIds
    /\ SuccessIsCounted
    /\ CountsAreGenuine
    /\ CopiesAreOld

USE CatalogAssumption

LEMMA AppendFacts ==
    ASSUME NEW S, NEW q \in Seq(S), NEW e \in S
    PROVE  /\ Append(q, e) \in Seq(S)
           /\ Len(Append(q, e)) = Len(q) + 1
           /\ Len(q) \in Nat
           /\ DOMAIN q = 1 .. Len(q)
           /\ DOMAIN Append(q, e) = 1 .. Len(q) + 1
           /\ \A i \in 1 .. Len(q) : Append(q, e)[i] = q[i]
           /\ Append(q, e)[Len(q) + 1] = e
OBVIOUS

LEMMA NewRowType == NewRow \in Rows /\ NoId \notin Ids
BY DEF NewRow, Rows, RowType, Statuses, NoProject, NoCount, NoId, Ids

LEMMA RInvInit == Init => RInv
<1> SUFFICES ASSUME Init PROVE RInv
  OBVIOUS
<1>1. rows \in [Ids -> Rows] /\ stored \subseteq Ids /\ latest \subseteq stored
  BY NewRowType DEF Init
<1>2. projects \in Seq([of: Ids, count: Counts]) /\ Len(projects) <= MaxScans
  BY DEF Init
<1>3. task \in [Scanners -> [id: stored \union {NoId}, copy: Rows, held: BOOLEAN]]
  BY NewRowType DEF Init, Idle
<1>4. TypeOK
  BY <1>1, <1>2, <1>3 DEF Init, TypeOK, NoFetch, NoMark
<1>5. SuccessIsCounted /\ CountsAreGenuine
  BY DEF Init, SuccessIsCounted, CountsAreGenuine, NewRow
<1>6. CopiesAreOld
  BY DEF Init, CopiesAreOld, Idle
<1>7. InsertsHaveIds
  BY DEF Init, InsertsHaveIds, NoFetch
<1>8. QED
  BY <1>4, <1>5, <1>6, <1>7 DEF RInv

\* The row a scan leaves: its project is the old or the new one, its count the
\* old one or the one just found, and nothing found before is gone.
LEMMA RecordedRow ==
    ASSUME NEW row \in Rows, NEW copy \in Rows, NEW outcome \in Outcomes,
           NEW count \in Counts, NEW project \in Nat \ {0},
           outcome # "refused" => project \in Projects,
           copy.project # project,
           copy.project # NoProject => row.project # NoProject,
           copy.count # NoCount => row.count # NoCount,
           row.status = "SUCCESS" =>
               row.project # NoProject /\ row.count # NoCount,
           NEW new,
           new = Updated(row, copy, Scanned(copy, outcome, project, count))
    PROVE  /\ new \in Rows
           /\ \/ new.project = row.project
              \/ outcome # "refused" /\ new.project = project
           /\ \/ new.count = row.count
              \/ outcome = "counted" /\ new.count = count
           /\ row.project # NoProject => new.project # NoProject
           /\ row.count # NoCount => new.count # NoCount
           /\ new.status = "SUCCESS" =>
                  new.project # NoProject /\ new.count # NoCount
<1>1. count # NoCount /\ project # NoProject
  BY DEF NoCount, NoProject
<1>2. /\ row = [status |-> row.status, project |-> row.project, count |-> row.count]
      /\ row.status \in Statuses /\ row.project \in Projects \union {NoProject}
      /\ row.count \in Counts \union {NoCount}
  BY DEF Rows, RowType
<1>3. /\ copy.status \in Statuses /\ copy.project \in Projects \union {NoProject}
      /\ copy.count \in Counts \union {NoCount}
  BY DEF Rows, RowType
<1>4. CASE outcome = "counted"
  <2>1. /\ new.project = project
        /\ new.count = IF count # copy.count THEN count ELSE row.count
        /\ new = [status |-> new.status, project |-> new.project,
                  count |-> new.count]
        /\ new.status \in Statuses
    BY <1>2, <1>3, <1>4 DEF Updated, Scanned, Statuses
  <2>2. QED
    BY <1>1, <1>2, <1>3, <1>4, <2>1 DEF Rows, RowType
<1>5. CASE outcome = "uncounted"
  <2>1. /\ new.project = project
        /\ new.count = row.count
        /\ new.status = IF "FAILED" # copy.status THEN "FAILED" ELSE row.status
        /\ new = [status |-> new.status, project |-> new.project,
                  count |-> new.count]
    BY <1>5 DEF Updated, Scanned
  <2>2. QED
    BY <1>1, <1>2, <1>3, <1>5, <2>1 DEF Rows, RowType, Statuses
<1>6. CASE outcome = "refused"
  <2>1. /\ new.project = row.project
        /\ new.count = row.count
        /\ new.status = IF "FAILED" # copy.status THEN "FAILED" ELSE row.status
        /\ new = [status |-> new.status, project |-> new.project,
                  count |-> new.count]
    BY <1>6 DEF Updated, Scanned
  <2>2. QED
    BY <1>1, <1>2, <1>3, <1>6, <2>1 DEF Rows, RowType, Statuses
<1>7. QED
  BY <1>4, <1>5, <1>6 DEF Outcomes

\* What Record does, with its choices named.
LEMMA RecordStep ==
    ASSUME RInv, NEW s \in Scanners, Record(s)
    PROVE  /\ RInv'
           /\ \A id \in Ids :
                /\ rows[id].project # NoProject => rows'[id].project # NoProject
                /\ rows[id].count # NoCount => rows'[id].count # NoCount
<1> DEFINE at == task[s].id
           copy == task[s].copy
           project == Len(projects) + 1
<1>1. PICK outcome \in Outcomes, count \in Counts :
        /\ rows' = [rows EXCEPT ![at] =
               Updated(@, copy, Scanned(copy, outcome, project, count))]
        /\ IF outcome = "refused"
           THEN UNCHANGED projects
           ELSE /\ project <= MaxScans
                /\ projects' = Append(projects, [of |-> at, count |-> count])
  BY DEF Record
<1>2. /\ at # NoId /\ task' = [task EXCEPT ![s] = Idle]
      /\ UNCHANGED <<stored, latest, fetch, mark>>
  BY DEF Record
<1>3. /\ at \in stored /\ at \in Ids /\ copy \in Rows /\ rows \in [Ids -> Rows]
      /\ stored \subseteq Ids
  BY <1>2 DEF RInv, TypeOK
<1>4. /\ Len(projects) \in Nat /\ DOMAIN projects = 1 .. Len(projects)
      /\ projects \in Seq([of: Ids, count: Counts])
      /\ Len(projects) <= MaxScans
  BY DEF RInv, TypeOK
<1>5. /\ copy.project # NoProject =>
            copy.project \in DOMAIN projects /\ rows[at].project # NoProject
      /\ copy.count # NoCount => rows[at].count # NoCount
  BY <1>2 DEF RInv, CopiesAreOld
<1>6. copy.project # project /\ project \in Nat \ {0}
  BY <1>4, <1>5 DEF NoProject
<1>7. outcome # "refused" => project \in Projects
  BY <1>1, <1>4 DEF Projects
<1>8. rows[at].status = "SUCCESS" =>
        rows[at].project # NoProject /\ rows[at].count # NoCount
  BY <1>3 DEF RInv, SuccessIsCounted
<1> DEFINE new == Updated(rows[at], copy, Scanned(copy, outcome, project, count))
<1>9. rows' = [rows EXCEPT ![at] = new]
  BY <1>1
<1>10. /\ new \in Rows
       /\ \/ new.project = rows[at].project
          \/ outcome # "refused" /\ new.project = project
       /\ \/ new.count = rows[at].count
          \/ outcome = "counted" /\ new.count = count
       /\ rows[at].project # NoProject => new.project # NoProject
       /\ rows[at].count # NoCount => new.count # NoCount
       /\ new.status = "SUCCESS" =>
              new.project # NoProject /\ new.count # NoCount
  <2>1. rows[at] \in Rows
    BY <1>3
  <2> HIDE DEF at, copy, project, new
  <2>2. QED
    BY <1>3, <1>5, <1>6, <1>7, <1>8, <2>1, RecordedRow DEF new
<1> HIDE DEF new
<1>11. rows'[at] = new /\ \A id \in Ids \ {at} : rows'[id] = rows[id]
  BY <1>3, <1>9
<1>12. /\ projects' \in Seq([of: Ids, count: Counts])
       /\ Len(projects') <= MaxScans
       /\ DOMAIN projects \subseteq DOMAIN projects'
       /\ \A i \in DOMAIN projects : projects'[i] = projects[i]
       /\ outcome # "refused" =>
             project \in DOMAIN projects'
             /\ projects'[project] = [of |-> at, count |-> count]
  <2>1. CASE outcome = "refused"
    BY <1>1, <1>4, <2>1
  <2>2. CASE outcome # "refused"
    <3>1. [of |-> at, count |-> count] \in [of: Ids, count: Counts]
      BY <1>3
    <3>2. projects' = Append(projects, [of |-> at, count |-> count])
          /\ project <= MaxScans
      BY <1>1, <2>2
    <3> HIDE DEF at
    <3>3. QED
      BY <1>4, <3>1, <3>2, AppendFacts
  <2>3. QED
    BY <2>1, <2>2
<1>13. \A id \in Ids :
         /\ rows[id].project # NoProject => rows'[id].project # NoProject
         /\ rows[id].count # NoCount => rows'[id].count # NoCount
  BY <1>10, <1>11
<1>14. TypeOK'
  <2>1. rows' \in [Ids -> Rows]
    BY <1>3, <1>9, <1>10
  <2>2. task' \in [Scanners -> [id: stored' \union {NoId}, copy: Rows,
                                held: BOOLEAN]]
    BY <1>2, NewRowType DEF RInv, TypeOK, Idle
  <2>3. QED
    BY <1>2, <1>12, <2>1, <2>2 DEF RInv, TypeOK
<1>15. SuccessIsCounted'
  BY <1>10, <1>11 DEF RInv, SuccessIsCounted
<1>16. CountsAreGenuine'
  <2> SUFFICES ASSUME NEW id \in Ids
      PROVE  /\ rows'[id].project # NoProject =>
                   /\ rows'[id].project \in DOMAIN projects'
                   /\ projects'[rows'[id].project].of = id
             /\ rows'[id].count # NoCount =>
                   \E p \in DOMAIN projects' :
                       projects'[p] = [of |-> id, count |-> rows'[id].count]
    BY DEF CountsAreGenuine
  <2>1. /\ rows[id].project # NoProject =>
              /\ rows[id].project \in DOMAIN projects
              /\ projects[rows[id].project].of = id
        /\ rows[id].count # NoCount =>
              \E p \in DOMAIN projects :
                  projects[p] = [of |-> id, count |-> rows[id].count]
    BY DEF RInv, CountsAreGenuine
  <2>2. CASE id # at
    BY <1>11, <1>12, <2>1, <2>2
  <2>3. CASE id = at
    <3>1. rows'[id].project # NoProject =>
             /\ rows'[id].project \in DOMAIN projects'
             /\ projects'[rows'[id].project].of = id
      BY <1>10, <1>11, <1>12, <2>1, <2>3
    <3>2. rows'[id].count # NoCount =>
             \E p \in DOMAIN projects' :
                 projects'[p] = [of |-> id, count |-> rows'[id].count]
      BY <1>10, <1>11, <1>12, <2>1, <2>3
    <3>3. QED
      BY <3>1, <3>2
  <2>4. QED
    BY <2>2, <2>3
<1>17. CopiesAreOld'
  <2> SUFFICES ASSUME NEW t \in Scanners, task'[t].id # NoId
      PROVE  /\ task'[t].copy.project # NoProject =>
                   /\ task'[t].copy.project \in DOMAIN projects'
                   /\ rows'[task'[t].id].project # NoProject
             /\ task'[t].copy.count # NoCount =>
                   rows'[task'[t].id].count # NoCount
    BY DEF CopiesAreOld
  <2>1. t # s
    BY <1>2 DEF RInv, TypeOK, Idle
  <2>2. task'[t] = task[t] /\ task[t].id \in Ids
    BY <1>2, <1>3, <2>1 DEF RInv, TypeOK
  <2>3. QED
    BY <1>12, <1>13, <2>2 DEF RInv, CopiesAreOld
<1>18. InsertsHaveIds'
  BY <1>2 DEF RInv, InsertsHaveIds
<1>19. QED
  BY <1>13, <1>14, <1>15, <1>16, <1>17, <1>18 DEF RInv

\* A step that records nothing keeps the invariant when the copies it makes are
\* copies of the rows.
LEMMA QuietStep ==
    ASSUME RInv, TypeOK', InsertsHaveIds', UNCHANGED <<rows, projects>>,
           \A t \in Scanners :
               \/ task'[t] = task[t]
               \/ task'[t].id = NoId
               \/ task'[t].id \in Ids /\ task'[t].copy = rows[task'[t].id]
    PROVE  RInv'
<1>1. SuccessIsCounted' /\ CountsAreGenuine'
  BY DEF RInv, SuccessIsCounted, CountsAreGenuine
<1>2. CopiesAreOld'
  BY DEF RInv, CopiesAreOld, CountsAreGenuine
<1>3. QED
  BY <1>1, <1>2 DEF RInv

LEMMA TakeUpStep ==
    ASSUME RInv, NEW s \in Scanners, NEW id \in stored, NEW isRescan \in BOOLEAN,
           NEW held \in BOOLEAN, TakeUp(s, id, isRescan, held)
    PROVE  RInv'
<1>1. /\ task' = [task EXCEPT ![s] = [id |-> id, copy |-> rows[id], held |-> held]]
      /\ UNCHANGED <<stored, rows, latest, projects, fetch, mark>>
      /\ id \in Ids /\ rows[id] \in Rows
  BY DEF TakeUp, RInv, TypeOK
<1>2. TypeOK'
  <2>1. task' \in [Scanners -> [id: stored \union {NoId}, copy: Rows,
                                held: BOOLEAN]]
    BY <1>1 DEF RInv, TypeOK
  <2>2. QED
    BY <1>1, <2>1 DEF RInv, TypeOK
<1>3. \A t \in Scanners :
          \/ task'[t] = task[t]
          \/ task'[t].id \in Ids /\ task'[t].copy = rows[task'[t].id]
  BY <1>1 DEF RInv, TypeOK
<1>4. InsertsHaveIds'
  BY <1>1 DEF RInv, InsertsHaveIds
<1>5. QED
  BY <1>1, <1>2, <1>3, <1>4, QuietStep

\* Every step of a scanner either records a result or leaves the rows alone.
LEMMA ScanStep ==
    ASSUME RInv, NEW s \in Scanners, Scan(s)
    PROVE  RInv' /\ (Record(s) \/ UNCHANGED <<stored, rows, latest>>)
<1>1. CASE ScanInUse(s)
  <2>1. PICK id \in stored : TakeUp(s, id, FALSE, FALSE)
    BY <1>1 DEF ScanInUse
  <2>2. QED
    BY <2>1, TakeUpStep DEF TakeUp
<1>2. CASE RescanFailed(s)
  <2>1. PICK id \in stored : TakeUp(s, id, FALSE, FALSE)
    BY <1>2 DEF RescanFailed
  <2>2. QED
    BY <2>1, TakeUpStep DEF TakeUp
<1>3. CASE ScanLatest(s)
  <2>1. PICK id \in latest : TakeUp(s, id, FALSE, id \in InUse)
    BY <1>3 DEF ScanLatest
  <2>2. id \in stored /\ (id \in InUse) \in BOOLEAN
    BY DEF RInv, TypeOK
  <2>3. QED
    BY <2>1, <2>2, TakeUpStep DEF TakeUp
<1>4. CASE RequestScan(s)
  <2>1. PICK id \in stored : TakeUp(s, id, TRUE, FALSE)
    BY <1>4 DEF RequestScan
  <2>2. QED
    BY <2>1, TakeUpStep DEF TakeUp
<1>5. CASE Record(s)
  BY <1>5, RecordStep
<1>6. CASE Lose(s)
  <2>1. task' = [task EXCEPT ![s] = Idle]
        /\ UNCHANGED <<stored, rows, latest, projects, fetch, mark>>
    BY <1>6 DEF Lose
  <2>2. TypeOK'
    BY <2>1, NewRowType DEF RInv, TypeOK, Idle
  <2>3. \A t \in Scanners : task'[t] = task[t] \/ task'[t].id = NoId
    BY <2>1 DEF RInv, TypeOK, Idle
  <2>4. InsertsHaveIds'
    BY <2>1 DEF RInv, InsertsHaveIds
  <2>5. QED
    BY <2>1, <2>2, <2>3, <2>4, QuietStep
<1>7. QED
  BY <1>1, <1>2, <1>3, <1>4, <1>5, <1>6 DEF Scan

LEMMA FetchStep ==
    ASSUME RInv, NEW f \in Fetchers, Fetch(f)
    PROVE  /\ RInv'
           /\ stored \subseteq stored'
           /\ UNCHANGED <<rows, latest, projects, task, mark>>
<1>1. UNCHANGED <<rows, latest, projects, task, mark>>
  BY DEF Fetch, FetchAnswer, Lookup, Insert, FetchStops
<1> DEFINE Fetches == [pc: {"idle", "loop", "insert"}, answer: SUBSET Ids,
                       pending: SUBSET Ids, at: Ids \union {NoId},
                       first: BOOLEAN]
<1>2. fetch \in [Fetchers -> Fetches] /\ stored \subseteq Ids
  BY DEF RInv, TypeOK
<1> DEFINE Good == /\ fetch' \in [Fetchers -> Fetches]
                  /\ stored \subseteq stored' /\ stored' \subseteq Ids
                  /\ InsertsHaveIds'
<1>3. ASSUME FetchAnswer(f) PROVE Good
  <2>1. PICK p \in Packages :
        \E answer \in SUBSET (Published \intersect OfPackage(p)) :
            fetch' = [fetch EXCEPT ![f] =
               [pc |-> "loop", answer |-> answer, pending |-> answer,
                at |-> NoId, first |-> answer \intersect stored = {}]]
    BY <1>3 DEF FetchAnswer
  <2>2. PICK answer \in SUBSET Ids :
            fetch' = [fetch EXCEPT ![f] =
               [pc |-> "loop", answer |-> answer, pending |-> answer,
                at |-> NoId, first |-> answer \intersect stored = {}]]
    BY <2>1
  <2>3. [pc |-> "loop", answer |-> answer, pending |-> answer, at |-> NoId,
         first |-> answer \intersect stored = {}] \in Fetches
    OBVIOUS
  <2>4. QED
    BY <1>2, <1>3, <2>2, <2>3 DEF FetchAnswer, RInv, InsertsHaveIds
<1>4. ASSUME Lookup(f) PROVE Good
  <2>1. PICK id \in fetch[f].pending :
        \/ fetch' = [fetch EXCEPT ![f].pending = @ \ {id}]
        \/ fetch' = [fetch EXCEPT ![f].pc = "insert", ![f].at = id,
                                  ![f].pending = @ \ {id}]
    BY <1>4 DEF Lookup
  <2>2. id \in Ids
    BY <1>2
  <2>3. QED
    BY <1>2, <1>4, <2>1, <2>2 DEF Lookup, RInv, InsertsHaveIds
<1>5. ASSUME Insert(f) PROVE Good
  <2>1. fetch[f].at \in Ids
    BY <1>5 DEF Insert, RInv, InsertsHaveIds
  <2>2. CASE fetch[f].at \in stored
    BY <1>2, <1>5, <2>2 DEF Insert, RInv, InsertsHaveIds
  <2>3. CASE fetch[f].at \notin stored
    BY <1>2, <1>5, <2>1, <2>3 DEF Insert, RInv, InsertsHaveIds
  <2>4. QED
    BY <2>2, <2>3
<1>6. ASSUME FetchStops(f) PROVE Good
  <2>1. NoFetch \in Fetches
    BY DEF NoFetch
  <2>2. QED
    BY <1>2, <1>6, <2>1 DEF FetchStops, RInv, InsertsHaveIds, NoFetch
<1>7. Good
  BY <1>3, <1>4, <1>5, <1>6 DEF Fetch
<1>8. TypeOK'
  BY <1>1, <1>7 DEF RInv, TypeOK
<1>9. RInv'
  BY <1>1, <1>7, <1>8, QuietStep
<1>10. QED
  BY <1>1, <1>7, <1>9

LEMMA MarkStep ==
    ASSUME RInv, NEW k \in Markers, Mark(k)
    PROVE  /\ RInv'
           /\ UNCHANGED <<stored, rows, projects, task, fetch>>
           /\ MarkWrite(k) \/ UNCHANGED latest
<1>1. /\ UNCHANGED <<stored, rows, projects, task, fetch>>
      /\ MarkWrite(k) \/ UNCHANGED latest
  BY DEF Mark, MarkStart, MarkRead, MarkWrite, MarkStops
<1> DEFINE Places == [pc: {"idle", "next", "write"}, todo: SUBSET Packages,
                      seen: SUBSET stored, old: SUBSET stored]
<1>2. mark \in [Markers -> Places] /\ latest \subseteq stored
  BY DEF RInv, TypeOK
<1> DEFINE Good == mark' \in [Markers -> Places] /\ latest' \subseteq stored
<1>3. ASSUME MarkStart(k) PROVE Good
  BY <1>2, <1>3 DEF MarkStart
<1>4. ASSUME MarkRead(k) PROVE Good
  <2>1. PICK p \in mark[k].todo :
        LET seen == stored \intersect OfPackage(p)
        IN  IF seen = {}
            THEN mark' = [mark EXCEPT ![k].todo = {}]
            ELSE mark' = [mark EXCEPT ![k] =
                    [pc |-> "write", todo |-> @.todo \ {p}, seen |-> seen,
                     old |-> latest \intersect seen]]
    BY <1>4 DEF MarkRead
  <2>2. QED
    BY <1>2, <1>4, <2>1 DEF MarkRead
<1>5. ASSUME MarkWrite(k) PROVE Good
  BY <1>2, <1>5 DEF MarkWrite, Marked
<1>6. ASSUME MarkStops(k) PROVE Good
  BY <1>2, <1>6 DEF MarkStops, NoMark
<1>7. Good
  BY <1>3, <1>4, <1>5, <1>6 DEF Mark
<1>8. TypeOK'
  BY <1>1, <1>7 DEF RInv, TypeOK
<1>9. InsertsHaveIds'
  BY <1>1 DEF RInv, InsertsHaveIds
<1>10. RInv'
  BY <1>1, <1>8, <1>9, QuietStep
<1>11. QED
  BY <1>1, <1>10

\* The steps of the system, as far as the results of scans are concerned.
Kept ==
    /\ stored \subseteq stored'
    /\ \A id \in Ids :
         /\ rows[id].project # NoProject => rows'[id].project # NoProject
         /\ rows[id].count # NoCount => rows'[id].count # NoCount

LEMMA RInvStep == RInv /\ [Next]_vars => RInv' /\ Kept
<1> SUFFICES ASSUME RInv, [Next]_vars PROVE RInv' /\ Kept
  OBVIOUS
<1>1. CASE UNCHANGED vars
  <2>1. /\ UNCHANGED <<rows, projects, stored, task>>
        /\ TypeOK' /\ InsertsHaveIds'
    BY <1>1 DEF vars, RInv, TypeOK, InsertsHaveIds
  <2>2. QED
    BY <2>1, QuietStep DEF Kept
<1>2. ASSUME NEW s \in Scanners, Scan(s) PROVE RInv' /\ Kept
  <2>1. CASE Record(s)
    <3>1. UNCHANGED stored
      BY <2>1 DEF Record
    <3>2. QED
      BY <2>1, <3>1, RecordStep DEF Kept
  <2>2. CASE ~Record(s)
    BY <1>2, <2>2, ScanStep DEF Kept
  <2>3. QED
    BY <2>1, <2>2
<1>3. ASSUME NEW f \in Fetchers, Fetch(f) PROVE RInv' /\ Kept
  BY <1>3, FetchStep DEF Kept
<1>4. ASSUME NEW k \in Markers, Mark(k) PROVE RInv' /\ Kept
  BY <1>4, MarkStep DEF Kept
<1>5. QED
  BY <1>1, <1>2, <1>3, <1>4 DEF Next

LEMMA RInvAlways == Spec => []RInv
BY RInvInit, RInvStep, PTL DEF Spec

\* The types of the state, with any number of processes on the table.
THEOREM CatalogTypeCorrect == Spec => []TypeOK
BY RInvAlways, PTL DEF RInv

\* A row that says SUCCESS has a project and a count, for any number of
\* overlapping scans (scan_and_update_results).
THEOREM SuccessIsAlwaysCounted == Spec => []SuccessIsCounted
BY RInvAlways, PTL DEF RInv

\* The project and the count of a row were found for its own version.
THEOREM CountsAreAlwaysGenuine == Spec => []CountsAreGenuine
BY RInvAlways, PTL DEF RInv

\* No job or request takes a row, its project or its count away.
THEOREM ResultsAreAlwaysKept == Spec => ResultsAreKept
<1>1. RInv /\ [Next]_vars => [Kept]_vars
  BY RInvStep
<1>2. QED
  BY <1>1, RInvAlways, PTL DEF Spec, ResultsAreKept, Kept

-----------------------------------------------------------------------------
\* One marker: what it is about to write is about one package, whose latest
\* versions are those it has seen.
OneMarker == \A j, k \in Markers : j = k

MarkInv ==
    OneMarker =>
        /\ \A a, b \in latest : a[1] = b[1] => a = b
        /\ \A k \in Markers : mark[k].pc = "write" =>
            \E p \in Packages :
                /\ mark[k].seen \subseteq OfPackage(p)
                /\ latest \intersect OfPackage(p) = mark[k].old

LEMMA MarkInvInit == Init => MarkInv
BY DEF Init, MarkInv, NoMark

LEMMA MarkInvStep == RInv /\ MarkInv /\ [Next]_vars => MarkInv'
<1> SUFFICES ASSUME RInv, MarkInv, [Next]_vars, OneMarker PROVE MarkInv'
  BY DEF MarkInv, OneMarker
<1> DEFINE Places == [pc: {"idle", "next", "write"}, todo: SUBSET Packages,
                      seen: SUBSET stored, old: SUBSET stored]
<1>1. /\ mark \in [Markers -> Places]
      /\ latest \subseteq stored /\ stored \subseteq Ids
  BY DEF RInv, TypeOK
<1>2. CASE UNCHANGED <<latest, mark>>
  BY <1>2 DEF MarkInv, OneMarker
<1>3. CASE \E k \in Markers : Mark(k)
  <2>1. PICK k \in Markers : Mark(k)
    BY <1>3
  <2>2. \A j \in Markers : j = k
    BY DEF OneMarker
  <2>3. /\ \A a, b \in latest : a[1] = b[1] => a = b
        /\ mark[k].pc = "write" =>
            \E p \in Packages :
                /\ mark[k].seen \subseteq OfPackage(p)
                /\ latest \intersect OfPackage(p) = mark[k].old
    BY DEF MarkInv, OneMarker
  <2>4. CASE MarkStart(k)
    <3>1. mark'[k].pc = "next" /\ latest' = latest
      BY <1>1, <2>4 DEF MarkStart
    <3>2. QED
      BY <2>2, <2>3, <3>1 DEF MarkInv
  <2>5. CASE MarkRead(k)
    <3>1. latest' = latest
      BY <2>5 DEF MarkRead
    <3>2. PICK p \in mark[k].todo :
          LET seen == stored \intersect OfPackage(p)
          IN  IF seen = {}
              THEN mark' = [mark EXCEPT ![k].todo = {}]
              ELSE mark' = [mark EXCEPT ![k] =
                      [pc |-> "write", todo |-> @.todo \ {p}, seen |-> seen,
                       old |-> latest \intersect seen]]
      BY <2>5 DEF MarkRead
    <3>3. p \in Packages
      BY <1>1
    <3>4. CASE stored \intersect OfPackage(p) = {}
      <4>1. mark'[k].pc = "next"
        BY <1>1, <2>5, <3>2, <3>4 DEF MarkRead
      <4>2. QED
        BY <2>2, <2>3, <3>1, <4>1 DEF MarkInv
    <3>5. CASE stored \intersect OfPackage(p) # {}
      <4>1. /\ mark'[k].seen = stored \intersect OfPackage(p)
            /\ mark'[k].old = latest \intersect (stored \intersect OfPackage(p))
        BY <1>1, <3>2, <3>5
      <4>2. mark'[k].old = latest \intersect OfPackage(p)
        BY <1>1, <4>1
      <4>3. QED
        BY <2>2, <2>3, <3>1, <3>3, <4>1, <4>2 DEF MarkInv
    <3>6. QED
      BY <3>4, <3>5
  <2>6. CASE MarkWrite(k)
    <3>1. mark[k].pc = "write" /\ mark'[k].pc = "next"
      BY <1>1, <2>6 DEF MarkWrite
    <3>2. PICK newest \in mark[k].seen : latest' = Marked(mark[k].old, newest)
      BY <2>6 DEF MarkWrite
    <3>3. PICK p \in Packages :
            /\ mark[k].seen \subseteq OfPackage(p)
            /\ latest \intersect OfPackage(p) = mark[k].old
      BY <2>3, <3>1
    <3>4. newest[1] = p
      BY <3>2, <3>3 DEF OfPackage
    <3>5. \A c \in latest' \ {newest} : c \in latest /\ c \notin mark[k].old
      BY <3>2 DEF Marked
    <3>6. \A c \in latest : c[1] = p => c \in mark[k].old
      BY <1>1, <3>3 DEF Ids, OfPackage
    <3>7. \A a, b \in latest' : a[1] = b[1] => a = b
      BY <2>3, <3>4, <3>5, <3>6
    <3>8. QED
      BY <2>2, <3>1, <3>7 DEF MarkInv
  <2>7. CASE MarkStops(k)
    <3>1. mark'[k].pc = "idle" /\ latest' = latest
      BY <1>1, <2>7 DEF MarkStops, NoMark
    <3>2. QED
      BY <2>2, <2>3, <3>1 DEF MarkInv
  <2>8. QED
    BY <2>1, <2>4, <2>5, <2>6, <2>7 DEF Mark
<1>4. CASE \E f \in Fetchers : Fetch(f)
  BY <1>2, <1>4, FetchStep
<1>5. CASE \E s \in Scanners : Scan(s)
  BY <1>2, <1>5 DEF Scan, ScanInUse, RescanFailed, ScanLatest, RequestScan,
                    TakeUp, Record, Lose
<1>6. QED
  BY <1>2, <1>3, <1>4, <1>5 DEF Next, vars

\* With one process tagging versions there is at most one latest version of a
\* package, so one_or_none in get_latest does not raise.
THEOREM OneLatestVersion == Spec => []AtMostOneLatest
<1>1. MarkInv => AtMostOneLatest
  BY DEF MarkInv, OneMarker, AtMostOneLatest
<1>2. QED
  BY <1>1, RInvAlways, MarkInvInit, MarkInvStep, PTL DEF Spec

-----------------------------------------------------------------------------
\* One fetcher, none of whose versions was stored before: each is stored by
\* now, or pending, or about to be inserted, and only one of these.
OneFetcher == \A e, f \in Fetchers : e = f

FetchInv ==
    OneFetcher =>
        \A f \in Fetchers : fetch[f].pc # "idle" /\ fetch[f].first =>
            /\ fetch[f].pending \intersect stored = {}
            /\ fetch[f].pc = "loop" =>
                 fetch[f].answer \subseteq stored \union fetch[f].pending
            /\ fetch[f].pc = "insert" =>
                 /\ fetch[f].at \notin stored \union fetch[f].pending
                 /\ fetch[f].answer \subseteq
                        stored \union fetch[f].pending \union {fetch[f].at}

LEMMA FetchInvInit == Init => FetchInv
BY DEF Init, FetchInv, NoFetch

LEMMA FetchInvStep == RInv /\ FetchInv /\ [Next]_vars => FetchInv'
<1> SUFFICES ASSUME RInv, FetchInv, [Next]_vars, OneFetcher PROVE FetchInv'
  BY DEF FetchInv, OneFetcher
<1> DEFINE Fetches == [pc: {"idle", "loop", "insert"}, answer: SUBSET Ids,
                       pending: SUBSET Ids, at: Ids \union {NoId},
                       first: BOOLEAN]
<1>1. fetch \in [Fetchers -> Fetches]
  BY DEF RInv, TypeOK
<1>2. CASE UNCHANGED <<stored, fetch>>
  BY <1>2 DEF FetchInv, OneFetcher
<1>3. CASE \E f \in Fetchers : Fetch(f)
  <2>1. PICK f \in Fetchers : Fetch(f)
    BY <1>3
  <2>2. \A e \in Fetchers : e = f
    BY DEF OneFetcher
  <2> DEFINE Complete ==
        fetch[f].pc # "idle" /\ fetch[f].first =>
            /\ fetch[f].pending \intersect stored = {}
            /\ fetch[f].pc = "loop" =>
                 fetch[f].answer \subseteq stored \union fetch[f].pending
            /\ fetch[f].pc = "insert" =>
                 /\ fetch[f].at \notin stored \union fetch[f].pending
                 /\ fetch[f].answer \subseteq
                        stored \union fetch[f].pending \union {fetch[f].at}
  <2>3. Complete
    BY DEF FetchInv, OneFetcher
  <2>4. ASSUME FetchAnswer(f) PROVE Complete'
    <3>1. PICK p \in Packages :
          \E answer \in SUBSET (Published \intersect OfPackage(p)) :
              fetch' = [fetch EXCEPT ![f] =
                 [pc |-> "loop", answer |-> answer, pending |-> answer,
                  at |-> NoId, first |-> answer \intersect stored = {}]]
      BY <2>4 DEF FetchAnswer
    <3>2. PICK answer \in SUBSET Ids :
              fetch' = [fetch EXCEPT ![f] =
                 [pc |-> "loop", answer |-> answer, pending |-> answer,
                  at |-> NoId, first |-> answer \intersect stored = {}]]
      BY <3>1
    <3>3. /\ fetch'[f].pc = "loop"
          /\ fetch'[f].answer = answer /\ fetch'[f].pending = answer
          /\ fetch'[f].first = (answer \intersect stored = {})
          /\ stored' = stored
      BY <1>1, <2>4, <3>2 DEF FetchAnswer
    <3>4. QED
      BY <3>3
  <2>5. ASSUME Lookup(f) PROVE Complete'
    <3>1. fetch[f].pc = "loop" /\ stored' = stored
      BY <2>5 DEF Lookup
    <3>2. PICK id \in fetch[f].pending :
            IF Found(id)
            THEN fetch' = [fetch EXCEPT ![f].pending = @ \ {id}]
            ELSE fetch' = [fetch EXCEPT ![f].pc = "insert", ![f].at = id,
                                        ![f].pending = @ \ {id}]
      BY <2>5 DEF Lookup
    <3>3. /\ fetch'[f].first = fetch[f].first
          /\ fetch'[f].answer = fetch[f].answer
          /\ fetch'[f].pending = fetch[f].pending \ {id}
          /\ ~Found(id) => fetch'[f].pc = "insert" /\ fetch'[f].at = id
      BY <1>1, <3>2
    <3>4. fetch[f].first => ~Found(id)
      BY <2>3, <3>1 DEF Found
    <3>5. QED
      BY <2>3, <3>1, <3>3, <3>4
  <2>6. ASSUME Insert(f) PROVE Complete'
    <3>1. /\ fetch[f].pc = "insert"
          /\ fetch'[f].pc = "loop"
          /\ fetch'[f].first = fetch[f].first
          /\ fetch'[f].answer = fetch[f].answer
      BY <1>1, <2>6 DEF Insert
    <3>2. fetch[f].at \notin stored =>
            /\ fetch'[f].pending = fetch[f].pending
            /\ stored' = stored \union {fetch[f].at}
      BY <1>1, <2>6 DEF Insert
    <3>3. QED
      BY <2>3, <3>1, <3>2
  <2>7. ASSUME FetchStops(f) PROVE Complete'
    BY <1>1, <2>7 DEF FetchStops, NoFetch
  <2>8. Complete'
    BY <2>1, <2>4, <2>5, <2>6, <2>7 DEF Fetch
  <2>9. QED
    BY <2>2, <2>8 DEF FetchInv
<1>4. CASE \E k \in Markers : Mark(k)
  BY <1>2, <1>4, MarkStep
<1>5. CASE \E s \in Scanners : Scan(s)
  BY <1>2, <1>5 DEF Scan, ScanInUse, RescanFailed, ScanLatest, RequestScan,
                    TakeUp, Record, Lose
<1>6. QED
  BY <1>2, <1>3, <1>4, <1>5 DEF Next, vars

\* A first fetch of a package, with no other fetch going on, stores every
\* version it was answered.
THEOREM FirstFetchIsAlwaysComplete == Spec => []FirstFetchIsComplete
<1>1. FetchInv => FirstFetchIsComplete
  BY DEF FetchInv, OneFetcher, FirstFetchIsComplete, FetchOver
<1>2. QED
  BY <1>1, RInvAlways, FetchInvInit, FetchInvStep, PTL DEF Spec
=============================================================================
