----------------------------- MODULE IssuesProofs -----------------------------
(***************************************************************************)
(* Proofs about Issues for any versions, CVEs, runs and page.              *)
(***************************************************************************)
EXTENDS Issues, FiniteSetTheorems, TLAPS

IssueRecords ==
    [labelled: BOOLEAN, open: BOOLEAN, body: Bodies \union {NoBody}]

\* As much of the types as the issues need: what is calculated of scores is
\* left open.
Shape ==
    /\ issues \in Seq(IssueRecords)
    /\ DOMAIN run = Runs
    /\ \A r \in Runs :
        /\ DOMAIN run[r] = {"pc", "read", "issue", "steady"}
        /\ run[r].pc \in {"idle", "ended", "find", "write"}
        /\ \A x \in run[r].read : x[1] \in Packages
    /\ overlapped \in BOOLEAN /\ hidden \in BOOLEAN

\* Without an overlap one run is at work.
Alone ==
    ~overlapped => \A r, q \in Runs : Busy(r) /\ Busy(q) => r = q

\* And a run that is about to raise an issue knows that there is none.
OneIssue ==
    ~overlapped /\ ~hidden =>
        /\ \A i, j \in Labelled(Open) : i = j
        /\ \A r \in Runs : run[r].pc = "write" /\ run[r].issue = 0 =>
               Labelled(Open) = {}

IssueInv == Shape /\ Alone /\ OneIssue

LEMMA NoRunShape ==
    /\ DOMAIN NoRun = {"pc", "read", "issue", "steady"}
    /\ NoRun.pc = "idle" /\ NoRun.read = {} /\ NoRun.issue = 0
BY DEF NoRun

LEMMA InitialIssues == Init => IssueInv
<1> SUFFICES ASSUME Init PROVE IssueInv
  OBVIOUS
<1>1. /\ issues = <<>> /\ run = [r \in Runs |-> NoRun]
      /\ overlapped = FALSE /\ hidden = FALSE
  BY DEF Init
<1>2. Shape
  <2>1. issues \in Seq(IssueRecords)
    BY <1>1
  <2>2. DOMAIN run = Runs /\ \A r \in Runs : run[r] = NoRun
    BY <1>1
  <2> QED
    BY <1>1, <2>1, <2>2, NoRunShape DEF Shape
<1>3. Alone
  BY <1>1 DEF Alone, NoRun, Busy
<1>4. Labelled(Open) = {}
  BY <1>1 DEF Labelled, Open
<1> QED
  BY <1>2, <1>3, <1>4 DEF IssueInv, OneIssue

\* What is written into an issue.
LEMMA ContentIsBody ==
    ASSUME NEW read, \A x \in read : x[1] \in Packages
    PROVE  Content(read) \in Bodies
BY DEF Content, Bodies

\* Forgetting what ended runs did keeps what runs are at.
LEMMA UnsettledShape ==
    ASSUME Shape, run' = Unsettled
    PROVE  /\ DOMAIN run' = Runs
           /\ \A r \in Runs :
               /\ DOMAIN run'[r] = {"pc", "read", "issue", "steady"}
               /\ run'[r].pc \in {"idle", "ended", "find", "write"}
               /\ \A x \in run'[r].read : x[1] \in Packages
               /\ Busy(r)' => Busy(r)
               /\ run'[r].pc = "write" =>
                    run[r].pc = "write" /\ run'[r].issue = run[r].issue
BY DEF Shape, Unsettled, NoRun, Busy

\* As does a run that is over, whatever became of it.
LEMMA EndedShape ==
    ASSUME Shape, NEW r \in Runs,
           run' = Ended(r) \/ run' = [run EXCEPT ![r] = NoRun]
    PROVE  /\ DOMAIN run' = Runs
           /\ \A q \in Runs :
               /\ DOMAIN run'[q] = {"pc", "read", "issue", "steady"}
               /\ run'[q].pc \in {"idle", "ended", "find", "write"}
               /\ \A x \in run'[q].read : x[1] \in Packages
               /\ q # r => run'[q] = run[q]
           /\ ~Busy(r)'
<1> DEFINE over == [NoRun EXCEPT !.pc = "ended", !.steady = TRUE]
<1>1. run' = [run EXCEPT ![r] = over] \/ run' = [run EXCEPT ![r] = NoRun]
  BY DEF Ended
<1>2. /\ DOMAIN run' = Runs
      /\ \A q \in Runs : q # r => run'[q] = run[q]
      /\ run'[r] \in {over, NoRun}
  BY <1>1 DEF Shape
<1>3. \A t \in {over, NoRun} :
          /\ DOMAIN t = {"pc", "read", "issue", "steady"}
          /\ t.pc \in {"idle", "ended"} /\ t.read = {}
  <2>1. DOMAIN over = DOMAIN NoRun /\ over.pc = "ended" /\ over.read = NoRun.read
    BY NoRunShape
  <2> HIDE DEF over
  <2> QED
    BY <2>1, NoRunShape
<1> HIDE DEF over
<1> QED
  BY <1>2, <1>3 DEF Shape, Busy

\* The issues after one of them is written, if there is such an issue.
LEMMA WrittenShape ==
    ASSUME NEW s \in Seq(IssueRecords), NEW k, NEW x,
           k \in DOMAIN s => x \in IssueRecords
    PROVE  /\ [s EXCEPT ![k] = x] \in Seq(IssueRecords)
           /\ DOMAIN [s EXCEPT ![k] = x] = DOMAIN s
           /\ \A i \in DOMAIN s :
                  [s EXCEPT ![k] = x][i] = IF i = k THEN x ELSE s[i]
<1>1. CASE k \in DOMAIN s
  BY <1>1
<1>2. CASE k \notin DOMAIN s
  <2>1. [s EXCEPT ![k] = x] = s
    BY <1>2
  <2> QED
    BY <1>2, <2>1
<1> QED
  BY <1>1, <1>2

\* And after one of them is closed.
LEMMA ClosedShape ==
    ASSUME issues \in Seq(IssueRecords), NEW k
    PROVE  issues' = [issues EXCEPT ![k].open = FALSE] =>
             /\ DOMAIN issues' = DOMAIN issues
             /\ issues' \in Seq(IssueRecords)
             /\ \A i \in DOMAIN issues :
                    /\ issues'[i].labelled = issues[i].labelled
                    /\ issues'[i].open => issues[i].open
<1> DEFINE x == [issues[k] EXCEPT !.open = FALSE]
           closed == [issues EXCEPT ![k] = x]
<1>1. \A i \in DOMAIN issues : issues[i] \in IssueRecords
  OBVIOUS
<1>2. k \in DOMAIN issues =>
          /\ x \in IssueRecords
          /\ x.labelled = issues[k].labelled /\ x.open = FALSE
  BY <1>1 DEF IssueRecords
<1>3. issues' = [issues EXCEPT ![k].open = FALSE] => issues' = closed
  OBVIOUS
<1> HIDE DEF x
<1>4. /\ closed \in Seq(IssueRecords)
      /\ DOMAIN closed = DOMAIN issues
      /\ \A i \in DOMAIN issues : closed[i] = IF i = k THEN x ELSE issues[i]
  BY <1>2, WrittenShape
<1> HIDE DEF closed
<1> QED
  BY <1>2, <1>3, <1>4

\* An action after which no more runs are at work, and no more issues open.
LEMMA FewerIssues ==
    ASSUME IssueInv, Shape',
           overlapped' = overlapped, hidden' = hidden,
           Labelled(Open)' \subseteq Labelled(Open),
           \A q \in Runs : /\ Busy(q)' => Busy(q)
                           /\ run'[q].pc = "write" /\ run'[q].issue = 0 =>
                                run[q].pc = "write" /\ run[q].issue = 0
    PROVE  IssueInv'
<1>1. Alone'
  BY DEF IssueInv, Alone
<1>2. OneIssue'
  BY DEF IssueInv, OneIssue
<1> QED
  BY <1>1, <1>2 DEF IssueInv

LEMMA ReadKeepsOne ==
    ASSUME IssueInv, NEW r \in Runs, Read(r)
    PROVE  IssueInv'
<1>1. /\ ~Busy(r) /\ issues' = issues /\ hidden' = hidden
      /\ run' = [run EXCEPT ![r] = [NoRun EXCEPT !.pc = "find", !.read = Results,
                                                 !.steady = TRUE]]
      /\ overlapped' = (overlapped \/ \E e \in Runs : Busy(e))
  BY DEF Read
<1>2. \A x \in Results : x[1] \in Packages
  BY DEF Results, Vulnerable
<1>3. Shape'
  BY <1>1, <1>2 DEF IssueInv, Shape, NoRun
<1>4. \A q \in Runs : q # r => run'[q] = run[q]
  BY <1>1 DEF IssueInv, Shape
<1>5. run'[r].pc = "find"
  BY <1>1 DEF IssueInv, Shape, NoRun
<1>6. Alone'
  BY <1>1, <1>4 DEF Alone, Busy
<1>7. OneIssue'
  BY <1>1, <1>4, <1>5 DEF IssueInv, OneIssue, Labelled, Open
<1> QED
  BY <1>3, <1>6, <1>7 DEF IssueInv

LEMMA FindKeepsOne ==
    ASSUME IssueInv, NEW r \in Runs, Find(r)
    PROVE  IssueInv'
<1>1. /\ run[r].pc = "find"
      /\ run' = [run EXCEPT ![r].pc = "write",
                            ![r].issue = IF Labelled(Page) = {} THEN 0
                                         ELSE Max(Labelled(Page))]
      /\ hidden' = (hidden \/ (Labelled(Page) = {} /\ Labelled(Open) # {}))
      /\ issues' = issues /\ overlapped' = overlapped
  BY DEF Find
<1>2. Shape'
  BY <1>1 DEF IssueInv, Shape
<1>3. \A q \in Runs : q # r => run'[q] = run[q]
  BY <1>1 DEF IssueInv, Shape
<1>4. \A q \in Runs : Busy(q)' => Busy(q)
  BY <1>1, <1>3 DEF Busy
<1>5. Alone'
  BY <1>1, <1>4 DEF IssueInv, Alone
<1>6. Labelled(Open)' = Labelled(Open)
  BY <1>1 DEF Labelled, Open
<1>7. ASSUME ~overlapped', ~hidden', run'[r].issue = 0
      PROVE  Labelled(Open) = {}
  <2>1. \A i, j \in Labelled(Open) : i = j
    BY <1>1, <1>7 DEF IssueInv, OneIssue
  <2>2. Labelled(Page) \subseteq Labelled(Open)
    BY DEF Labelled, Page
  <2>3. CASE Labelled(Page) = {}
    BY <1>1, <1>7, <2>3
  <2>4. CASE Labelled(Page) # {}
    <3>1. PICK k : Labelled(Page) = {k} /\ k \in Labelled(Open)
      BY <2>1, <2>2, <2>4
    <3>2. k \in Nat \ {0}
      BY <3>1 DEF IssueInv, Shape, Labelled, Open
    <3>3. Max(Labelled(Page)) = k
      BY <3>1, <3>2 DEF Max
    <3>4. run'[r].issue = k
      BY <1>1, <2>4, <3>3 DEF IssueInv, Shape
    <3> QED
      BY <1>7, <3>2, <3>4
  <2> QED
    BY <2>3, <2>4
<1>8. OneIssue'
  BY <1>1, <1>3, <1>6, <1>7 DEF IssueInv, OneIssue
<1> QED
  BY <1>2, <1>5, <1>8 DEF IssueInv

LEMMA CreateKeepsOne ==
    ASSUME IssueInv, NEW r \in Runs, Create(r)
    PROVE  IssueInv'
<1> DEFINE issue == [labelled |-> TRUE, open |-> TRUE,
                     body |-> Content(run[r].read)]
<1>1. /\ run[r].pc = "write" /\ run[r].issue = 0
      /\ issues' = Append(issues, issue)
      /\ run' = Ended(r) /\ overlapped' = overlapped /\ hidden' = hidden
  BY DEF Create
<1>2. issue \in IssueRecords
  BY ContentIsBody DEF IssueInv, Shape, IssueRecords
<1>3. Shape'
  BY <1>1, <1>2, EndedShape DEF IssueInv, Shape
<1>4. \A q \in Runs : q # r => run'[q] = run[q]
  BY <1>1, EndedShape DEF IssueInv
<1>5. ~Busy(r)'
  BY <1>1, EndedShape DEF IssueInv
<1>6. Alone'
  BY <1>1, <1>4, <1>5 DEF IssueInv, Alone, Busy
<1>7. ASSUME ~overlapped', ~hidden'
      PROVE  /\ \A i, j \in Labelled(Open)' : i = j
             /\ \A q \in Runs : run'[q].pc # "write"
  <2>1. Labelled(Open) = {}
    BY <1>1, <1>7 DEF IssueInv, OneIssue
  <2>2. issues \in Seq(IssueRecords)
    BY DEF IssueInv, Shape
  <2>3. Labelled(Open)' \subseteq {Len(issues) + 1}
    BY <1>1, <2>1, <2>2 DEF Labelled, Open
  <2>4. \A q \in Runs : Busy(q)' => FALSE
    BY <1>1, <1>4, <1>5, <1>7 DEF IssueInv, Alone, Busy
  <2> QED
    BY <2>3, <2>4 DEF Busy
<1>8. OneIssue'
  BY <1>7 DEF OneIssue
<1> QED
  BY <1>3, <1>6, <1>8 DEF IssueInv

LEMMA UpdateKeepsOne ==
    ASSUME IssueInv, NEW r \in Runs, Update(r)
    PROVE  IssueInv'
<1> DEFINE k == run[r].issue
<1>1. /\ issues' = [issues EXCEPT ![k].body = Content(run[r].read)]
      /\ run' = Ended(r) /\ overlapped' = overlapped /\ hidden' = hidden
  BY DEF Update
<1>2. Content(run[r].read) \in Bodies /\ issues \in Seq(IssueRecords)
  BY ContentIsBody DEF IssueInv, Shape
<1>3. /\ DOMAIN issues' = DOMAIN issues
      /\ issues' \in Seq(IssueRecords)
      /\ \A i \in DOMAIN issues : /\ issues'[i].labelled = issues[i].labelled
                                  /\ issues'[i].open = issues[i].open
  <2> DEFINE x == [issues[k] EXCEPT !.body = Content(run[r].read)]
  <2>1. \A i \in DOMAIN issues : issues[i] \in IssueRecords
    BY <1>2
  <2>2. k \in DOMAIN issues =>
            /\ x \in IssueRecords
            /\ x.labelled = issues[k].labelled /\ x.open = issues[k].open
    BY <1>2, <2>1 DEF IssueRecords
  <2>3. issues' = [issues EXCEPT ![k] = x]
    BY <1>1
  <2> HIDE DEF x, k
  <2> QED
    BY <1>2, <2>2, <2>3, WrittenShape
<1>4. Shape'
  BY <1>1, <1>3, EndedShape DEF IssueInv, Shape
<1>5. Labelled(Open)' \subseteq Labelled(Open)
  BY <1>3 DEF Labelled, Open
<1> QED
  BY <1>1, <1>4, <1>5, EndedShape, FewerIssues DEF IssueInv, Busy

LEMMA CloseKeepsOne ==
    ASSUME IssueInv, NEW r \in Runs, Close(r)
    PROVE  IssueInv'
<1>1. /\ \/ issues' = issues
         \/ issues' = [issues EXCEPT ![run[r].issue].open = FALSE]
      /\ run' = Ended(r) /\ overlapped' = overlapped /\ hidden' = hidden
  BY DEF Close
<1>2. issues \in Seq(IssueRecords)
  BY DEF IssueInv, Shape
<1>3. /\ DOMAIN issues' = DOMAIN issues
      /\ issues' \in Seq(IssueRecords)
      /\ \A i \in DOMAIN issues : /\ issues'[i].labelled = issues[i].labelled
                                  /\ issues'[i].open => issues[i].open
  <2>1. CASE issues' = issues
    BY <1>2, <2>1
  <2>2. CASE issues' = [issues EXCEPT ![run[r].issue].open = FALSE]
    BY <1>2, <2>2, ClosedShape
  <2> QED
    BY <1>1, <2>1, <2>2
<1>4. Shape'
  BY <1>1, <1>3, EndedShape DEF IssueInv, Shape
<1>5. Labelled(Open)' \subseteq Labelled(Open)
  BY <1>3 DEF Labelled, Open
<1> QED
  BY <1>1, <1>4, <1>5, EndedShape, FewerIssues DEF IssueInv, Busy

\* A run that raises, fails or is killed writes nothing.
LEMMA FailKeepsOne ==
    ASSUME IssueInv, NEW r \in Runs, Unsorted(r) \/ Fail(r)
    PROVE  IssueInv'
<1>1. /\ issues' = issues /\ run' = [run EXCEPT ![r] = NoRun]
      /\ overlapped' = overlapped /\ hidden' = hidden
  BY DEF Unsorted, Fail
<1>2. Shape'
  BY <1>1, EndedShape DEF IssueInv, Shape
<1>3. Labelled(Open)' = Labelled(Open)
  BY <1>1 DEF Labelled, Open
<1> QED
  BY <1>1, <1>2, <1>3, EndedShape, FewerIssues DEF IssueInv, Busy

\* People open issues without the label.
LEMMA PeopleKeepOne ==
    ASSUME IssuesAssumption, IssueInv, People
    PROVE  IssueInv'
<1> DEFINE issue == [labelled |-> FALSE, open |-> TRUE, body |-> NoBody]
<1>1. overlapped' = overlapped /\ hidden' = hidden
  BY DEF People
<1>2. issues \in Seq(IssueRecords)
  BY DEF IssueInv, Shape
<1>3. CASE issues' = Append(issues, issue) /\ run' = run
  <2>1. issue \in IssueRecords
    BY DEF IssueRecords
  <2>2. Shape'
    BY <1>1, <1>3, <2>1 DEF IssueInv, Shape
  <2>3. Labelled(Open)' \subseteq Labelled(Open)
    BY <1>2, <1>3 DEF Labelled, Open
  <2> QED
    BY <1>1, <1>3, <2>2, <2>3, FewerIssues DEF Busy
<1>4. CASE /\ \E i \in Open : issues' = [issues EXCEPT ![i].open = FALSE]
           /\ run' = Unsettled
  <2>1. /\ DOMAIN issues' = DOMAIN issues
        /\ issues' \in Seq(IssueRecords)
        /\ \A i \in DOMAIN issues : /\ issues'[i].labelled = issues[i].labelled
                                    /\ issues'[i].open => issues[i].open
    <3>1. PICK k \in Open : issues' = [issues EXCEPT ![k].open = FALSE]
      BY <1>4
    <3> QED
      BY <1>2, <3>1, ClosedShape
  <2>2. Shape'
    BY <1>1, <1>4, <2>1, UnsettledShape DEF IssueInv, Shape
  <2>3. Labelled(Open)' \subseteq Labelled(Open)
    BY <2>1 DEF Labelled, Open
  <2> QED
    BY <1>1, <1>4, <2>2, <2>3, UnsettledShape, FewerIssues DEF IssueInv
<1> QED
  BY <1>3, <1>4 DEF People

\* Whatever a job or a scan does.
LEMMA ScoringKeepsOne ==
    ASSUME IssueInv, Scoring
    PROVE  IssueInv'
<1>1. /\ issues' = issues /\ overlapped' = overlapped /\ hidden' = hidden
      /\ run' = run \/ run' = Unsettled
  BY DEF Scoring
<1>2. Shape'
  BY <1>1, UnsettledShape DEF IssueInv, Shape
<1>3. Labelled(Open)' = Labelled(Open)
  BY <1>1 DEF Labelled, Open
<1>4. \A q \in Runs : /\ Busy(q)' => Busy(q)
                      /\ run'[q].pc = "write" /\ run'[q].issue = 0 =>
                           run[q].pc = "write" /\ run[q].issue = 0
  BY <1>1, UnsettledShape DEF IssueInv, Busy
<1> QED
  BY <1>1, <1>2, <1>3, <1>4, FewerIssues

LEMMA IssueInvariant == Spec => []IssueInv
<1>1. IssueInv /\ [Next]_vars => IssueInv'
  <2> SUFFICES ASSUME IssueInv, [Next]_vars PROVE IssueInv'
    OBVIOUS
  <2>1. CASE Scoring
    BY <2>1, ScoringKeepsOne
  <2>2. CASE People
    BY <2>2, PeopleKeepOne, IssuesAssumption
  <2>3. CASE \E r \in Runs : Read(r)
    BY <2>3, ReadKeepsOne
  <2>4. CASE \E r \in Runs : Find(r)
    BY <2>4, FindKeepsOne
  <2>5. CASE \E r \in Runs : Create(r)
    BY <2>5, CreateKeepsOne
  <2>6. CASE \E r \in Runs : Update(r)
    BY <2>6, UpdateKeepsOne
  <2>7. CASE \E r \in Runs : Close(r)
    BY <2>7, CloseKeepsOne
  <2>8. CASE \E r \in Runs : Unsorted(r) \/ Fail(r)
    BY <2>8, FailKeepsOne
  <2>9. CASE UNCHANGED vars
    BY <2>9 DEF vars, IssueInv, Shape, Alone, OneIssue, Busy, Labelled, Open
  <2> QED
    BY <2>1, <2>2, <2>3, <2>4, <2>5, <2>6, <2>7, <2>8, <2>9 DEF Next
<1> QED
  BY <1>1, InitialIssues, PTL DEF Spec

\* raise-sca-as-git-issue: while people open issues without the label and close
\* any, however runs fail and whatever is found and scored meanwhile, there is
\* one open labelled issue at most, as long as no two runs overlapped and none
\* missed it on the page.
THEOREM OneOpenIssueAtMost == Spec => []OneOpenIssue
<1>1. IssueInv => OneOpenIssue
  <2> SUFFICES ASSUME IssueInv, ~overlapped, ~hidden
               PROVE  Cardinality(Labelled(Open)) <= 1
    BY DEF OneOpenIssue
  <2>1. \A i, j \in Labelled(Open) : i = j
    BY DEF IssueInv, OneIssue
  <2>2. CASE Labelled(Open) = {}
    BY <2>2, FS_EmptySet
  <2>3. CASE Labelled(Open) # {}
    <3>1. PICK i : Labelled(Open) = {i}
      BY <2>1, <2>3
    <3> QED
      BY <3>1, FS_Singleton
  <2> QED
    BY <2>2, <2>3
<1> QED
  BY <1>1, IssueInvariant, PTL

-----------------------------------------------------------------------------
(* Types: the greatest of some scores, the tables of scores and the issues.*)

\* A finite set of numbers has a greatest one: the numbers above it are the
\* least of the sets of those above one.
LEMMA GreatestIsMax ==
    ASSUME NEW S, S \subseteq Int, IsFiniteSet(S), S # {}
    PROVE  Max(S) \in S /\ \A x \in S : x <= Max(S)
<1> DEFINE Above(x) == {y \in S : y > x}
           T == {Above(x) : x \in S}
<1>1. T \subseteq FiniteSubsetsOf(S) /\ T # {}
  <2>1. \A A \in SUBSET S : A \in FiniteSubsetsOf(S)
    BY FS_Subset DEF FiniteSubsetsOf
  <2> QED
    BY <2>1
<1>2. \E A \in T : \A B \in T : <<B, A>> \notin StrictSubsetOrdering(S)
  BY <1>1, FS_StrictSubsetOrderingWellFounded, WFMin
<1>3. PICK x \in S : \A B \in T : <<B, Above(x)>> \notin StrictSubsetOrdering(S)
  BY <1>2
<1>4. ASSUME NEW y \in S, y > x PROVE FALSE
  <2>1. Above(y) \in T /\ Above(y) \subseteq S /\ Above(x) \subseteq S
    OBVIOUS
  <2>2. \A z \in S : z > y => z > x
    BY <1>4
  <2>3. y \in Above(x) /\ y \notin Above(y)
    BY <1>4
  <2>4. <<Above(y), Above(x)>> \in StrictSubsetOrdering(S)
    BY <2>1, <2>2, <2>3 DEF StrictSubsetOrdering
  <2> QED
    BY <1>3, <2>1, <2>4
<1>5. \A y \in S : x >= y
  BY <1>4
<1> QED
  BY <1>5 DEF Max

\* What is found in a version is of the findings of a scan, or nothing.
LEMMA FoundTypes ==
    ASSUME EpssTypeOK, NEW x \in Packages
    PROVE  Found(x) \subseteq Cves \union {NoCve}
<1>1. /\ rows[x].project \in DOMAIN projects \union {NoProject}
      /\ \A i \in DOMAIN projects : projects[i] \subseteq Cves \union {NoCve}
  BY DEF EpssTypeOK, Rows, RowType
<1> QED
  BY <1>1 DEF Found

LEMMA ScoredPackages == Scored \subseteq Packages
BY DEF Scored

\* As long as the rows and the projects are the same, so is what is found, and
\* with the table epss what is known of it.
LEMMA SameFound ==
    ASSUME UNCHANGED <<rows, projects>>
    PROVE  /\ \A x \in Packages : Found(x)' = Found(x)
           /\ Scored' = Scored /\ Rows' = Rows
           /\ epss' = epss => \A x \in Packages : Known(x)' = Known(x)
<1>1. \A x \in Packages : Found(x)' = Found(x)
  BY DEF Found
<1>2. epss' = epss => \A x \in Packages : Known(x)' = Known(x)
  BY <1>1 DEF Known
<1> QED
  BY <1>1, <1>2 DEF Scored, Rows

\* The CVEs of a version that have a score are finitely many.
LEMMA KnownScores ==
    ASSUME EpssAssumption, EpssTypeOK, NEW x \in Packages
    PROVE  Known(x) \subseteq Nat /\ IsFiniteSet(Known(x))
<1> DEFINE cves == Found(x) \ {NoCve}
<1>1. cves \subseteq Cves /\ IsFiniteSet(cves)
  BY FoundTypes, FS_Subset DEF EpssAssumption
<1>2. IsFiniteSet({epss[c] : c \in cves})
  <2> DEFINE scores == {epss[c] : c \in cves}
             f == [c \in cves |-> epss[c]]
  <2>1. f \in Surjection(cves, scores)
    BY DEF Surjection
  <2> HIDE DEF f, scores, cves
  <2>2. IsFiniteSet(scores)
    BY <1>1, <2>1, FS_Surjection
  <2> QED
    BY <2>2 DEF scores
<1>3. \A c \in cves : epss[c] \in Scores
  BY <1>1 DEF EpssTypeOK
<1>4. Known(x) \subseteq {epss[c] : c \in cves} /\ Known(x) \subseteq Nat
  BY <1>3 DEF Known, Scores
<1> QED
  BY <1>2, <1>4, FS_Subset

LEMMA NewScoreTypes ==
    ASSUME EpssAssumption, EpssTypeOK, NEW x \in Packages
    PROVE  /\ NewScore(x) \in Scores
           /\ Known(x) # {} => /\ NewScore(x) = Max(Known(x))
                               /\ Max(Known(x)) \in Known(x)
                               /\ Max(Known(x)) \in Nat
                               /\ \A y \in Known(x) : y <= Max(Known(x))
<1>1. Known(x) # {} => /\ Max(Known(x)) \in Known(x)
                       /\ \A y \in Known(x) : y <= Max(Known(x))
  BY KnownScores, GreatestIsMax
<1>2. Known(x) \subseteq Nat
  BY KnownScores
<1>3. score[x] \in Scores
  BY DEF EpssTypeOK
<1> QED
  BY <1>1, <1>2, <1>3 DEF NewScore, Scores

CronRecords ==
    [pc: {"idle", "refresh", "calculate"}, cves: SUBSET Cves,
     packages: SUBSET Packages, broken: BOOLEAN, exact: BOOLEAN]

\* What calculate-package-epss has been through is as the tables say, as long
\* as cron.exact says so.
ScoresExact ==
    /\ cron.pc = "idle" => cron.packages = {}
    /\ cron.exact =>
        /\ cron.pc # "refresh"
        /\ \A x \in Scored \ cron.packages :
               Known(x) # {} => score[x] = Max(Known(x))

EpssInv == EpssTypeOK /\ ScoresExact

LEMMA InitialScores == EpssAssumption /\ Init => EpssInv
<1> SUFFICES ASSUME EpssAssumption, Init PROVE EpssInv
  OBVIOUS
<1>1. NoJob \in CronRecords /\ NoJob.pc = "idle" /\ NoJob.packages = {}
      /\ NoJob.exact = FALSE
  BY DEF NoJob, CronRecords
<1>2. EpssInit
  BY DEF Init
<1>3. NewRow \in Rows
  BY DEF NewRow, Rows, RowType, Statuses
<1> HIDE DEF NoJob
<1>4. /\ rows \in [Packages -> Rows] /\ loaded \in [Packages -> SUBSET Rows]
      /\ projects \in Seq(SUBSET (Cves \union {NoCve}))
      /\ scans \in 0..MaxScans
  BY <1>2, <1>3 DEF EpssInit, EpssAssumption
<1> QED
  BY <1>1, <1>2, <1>4 DEF EpssInit, EpssInv, EpssTypeOK, ScoresExact,
                          CronRecords, Scores, EpssAssumption

LEMMA StartKeepsScores ==
    ASSUME EpssAssumption, EpssInv, StartRefresh \/ StartCalculate
    PROVE  EpssInv'
<1>1. UNCHANGED <<rows, projects, loaded, scans, score, epss, fresh>>
  BY DEF StartRefresh, StartCalculate, scanVars
<1>2. ToFetch \subseteq Cves /\ ToFetch \intersect fresh = {}
  <2>1. \A x \in Packages : Found(x) \subseteq Cves \union {NoCve}
    BY FoundTypes DEF EpssInv
  <2>2. ASSUME NEW c \in ToFetch PROVE c \in Cves /\ c \notin fresh
    <3>1. c # NoCve /\ c \notin fresh /\ c \in UNION {Found(x) : x \in Packages}
      BY DEF ToFetch, AllFound
    <3>2. PICK x \in Packages : c \in Found(x)
      BY <3>1
    <3> QED
      BY <2>1, <3>1, <3>2
  <2> QED
    BY <2>2
<1>3. /\ cron' \in CronRecords
      /\ cron'.cves \intersect fresh = {} \/ cron'.pc # "refresh"
      /\ cron'.pc # "idle"
      /\ cron'.exact => cron'.pc # "refresh" /\ cron'.packages = Scored
  <2>1. CASE StartRefresh
    BY <1>2, <2>1 DEF StartRefresh, NoJob, CronRecords
  <2>2. CASE StartCalculate
    BY <2>2, ScoredPackages DEF StartCalculate, NoJob, CronRecords
  <2> QED
    BY <2>1, <2>2
<1>4. EpssTypeOK'
  BY <1>1, <1>3, SameFound DEF EpssInv, EpssTypeOK, CronRecords
<1>5. ScoresExact'
  BY <1>1, <1>3, SameFound DEF ScoresExact
<1> QED
  BY <1>4, <1>5 DEF EpssInv

LEMMA RefreshKeepsScores ==
    ASSUME EpssAssumption, EpssInv, Refresh
    PROVE  EpssInv'
<1>1. /\ cron.pc = "refresh" /\ UNCHANGED <<rows, projects, loaded, scans, score>>
      /\ cron \in CronRecords /\ epss \in [Cves -> Scores]
      /\ fresh \subseteq {c \in Cves : epss[c] # NoScore}
      /\ cron.cves \intersect fresh = {}
      /\ cron.exact = FALSE
  BY DEF Refresh, EpssInv, EpssTypeOK, ScoresExact, CronRecords, scanVars
<1>2. PICK batch \in Batches(cron.cves) :
        LET answer == {c \in batch : Published[c] # NoScore}
        IN  \/ /\ ~cron.broken
               /\ epss' = [c \in Cves |-> IF c \in answer THEN Published[c] ELSE epss[c]]
               /\ fresh' = fresh \union answer
               /\ cron' = [cron EXCEPT !.cves = @ \ batch]
            \/ /\ cron' = [cron EXCEPT !.cves = @ \ batch]
               /\ UNCHANGED <<epss, fresh>>
            \/ /\ cron' = [cron EXCEPT !.cves = @ \ batch, !.broken = TRUE]
               /\ UNCHANGED <<epss, fresh>>
  BY DEF Refresh
<1>3. /\ cron' \in CronRecords /\ cron'.pc = "refresh" /\ cron'.exact = FALSE
      /\ cron'.cves = cron.cves \ batch
  <2> DEFINE left == cron.cves \ batch
  <2>1. \/ cron' = [cron EXCEPT !.cves = left]
        \/ cron' = [cron EXCEPT !.cves = left, !.broken = TRUE]
    BY <1>2
  <2>2. left \in SUBSET Cves
    BY <1>1 DEF CronRecords
  <2> HIDE DEF left
  <2>3. cron' \in CronRecords /\ cron'.pc = "refresh" /\ cron'.exact = FALSE
        /\ cron'.cves = left
    BY <1>1, <2>1, <2>2 DEF CronRecords
  <2> QED
    BY <2>3 DEF left
<1>4. batch \subseteq Cves
  BY <1>1 DEF Batches, CronRecords
<1>5. /\ epss' \in [Cves -> Scores]
      /\ fresh' \subseteq {c \in Cves : epss'[c] # NoScore}
      /\ fresh' \subseteq fresh \union batch
  <2> DEFINE answer == {c \in batch : Published[c] # NoScore}
  <2>1. CASE UNCHANGED <<epss, fresh>>
    BY <1>1, <2>1
  <2>2. CASE /\ epss' = [c \in Cves |-> IF c \in answer THEN Published[c] ELSE epss[c]]
             /\ fresh' = fresh \union answer
    <3>1. \A c \in Cves : Published[c] \in Scores
      BY DEF EpssAssumption, Scores
    <3>2. \A c \in answer : c \in batch /\ Published[c] # NoScore
      OBVIOUS
    <3> HIDE DEF answer
    <3> QED
      BY <1>1, <1>4, <2>2, <3>1, <3>2
  <2> QED
    BY <1>2, <2>1, <2>2
<1>6. cron'.cves \intersect fresh' = {}
  BY <1>1, <1>3, <1>5
<1>7. EpssTypeOK'
  BY <1>1, <1>3, <1>5, <1>6, SameFound DEF EpssInv, EpssTypeOK, CronRecords
<1>8. ScoresExact'
  BY <1>3 DEF ScoresExact
<1> QED
  BY <1>7, <1>8 DEF EpssInv

LEMMA CalculateKeepsScores ==
    ASSUME EpssAssumption, EpssInv, Calculate
    PROVE  EpssInv'
<1>1. /\ cron.pc = "calculate"
      /\ UNCHANGED <<rows, projects, loaded, scans, epss, fresh>>
      /\ cron \in CronRecords /\ score \in [Packages -> Scores]
  BY DEF Calculate, EpssInv, EpssTypeOK, CronRecords, scanVars
<1>2. PICK batch \in Batches(cron.packages) : \E done \in SUBSET batch :
        /\ score' = [x \in Packages |-> IF x \in done THEN NewScore(x) ELSE score[x]]
        /\ cron' = [cron EXCEPT !.packages = @ \ batch,
                                !.exact = @ /\ done = batch]
  BY DEF Calculate
<1>3. PICK done \in SUBSET batch :
        /\ score' = [x \in Packages |-> IF x \in done THEN NewScore(x) ELSE score[x]]
        /\ cron' = [cron EXCEPT !.packages = @ \ batch,
                                !.exact = @ /\ done = batch]
  BY <1>2
<1>4. batch \subseteq cron.packages
  BY DEF Batches
<1>5. /\ cron' \in CronRecords /\ cron'.pc = "calculate"
      /\ cron'.cves = cron.cves
      /\ cron'.packages = cron.packages \ batch
      /\ cron'.exact => cron.exact /\ done = batch
  BY <1>1, <1>3, Zenon DEF CronRecords
<1>6. score' \in [Packages -> Scores]
  BY <1>1, <1>3, NewScoreTypes DEF EpssInv
<1>7. EpssTypeOK'
  BY <1>1, <1>5, <1>6, SameFound DEF EpssInv, EpssTypeOK, CronRecords
<1>8. ScoresExact'
  <2>1. Scored' = Scored /\ \A x \in Packages : Known(x)' = Known(x)
    BY <1>1, SameFound
  <2>2. ASSUME cron'.exact, NEW x \in Scored \ cron'.packages, Known(x) # {}
        PROVE  score'[x] = Max(Known(x))
    <3> x \in Packages
      BY ScoredPackages
    <3>1. CASE x \in batch
      BY <1>3, <1>5, <2>2, <3>1, NewScoreTypes DEF EpssInv
    <3>2. CASE x \notin batch
      BY <1>3, <1>5, <2>2, <3>2 DEF EpssInv, ScoresExact
    <3> QED
      BY <3>1, <3>2
  <2> QED
    BY <1>5, <2>1, <2>2, ScoredPackages DEF ScoresExact
<1> QED
  BY <1>7, <1>8 DEF EpssInv

LEMMA EndJobKeepsScores ==
    ASSUME EpssAssumption, EpssInv, EndJob
    PROVE  EpssInv'
<1>1. /\ UNCHANGED <<rows, projects, loaded, scans, score, epss, fresh>>
      /\ cron \in CronRecords
      /\ cron' = [NoJob EXCEPT !.exact = cron.exact /\ cron.packages = {}]
  BY DEF EndJob, EpssInv, EpssTypeOK, CronRecords, scanVars
<1>2. /\ cron' \in CronRecords /\ cron'.pc = "idle" /\ cron'.packages = {}
      /\ cron'.exact => cron.exact /\ cron.packages = {}
  BY <1>1, Zenon DEF NoJob, CronRecords
<1>3. EpssTypeOK'
  BY <1>1, <1>2, SameFound DEF EpssInv, EpssTypeOK, CronRecords
<1>4. Scored' = Scored /\ \A x \in Packages : Known(x)' = Known(x)
  BY <1>1, SameFound
<1>5. ScoresExact'
  BY <1>1, <1>2, <1>4, ScoredPackages DEF EpssInv, ScoresExact
<1> QED
  BY <1>3, <1>5 DEF EpssInv

LEMMA AgeKeepsScores ==
    ASSUME EpssAssumption, EpssInv, Age
    PROVE  EpssInv'
<1>1. /\ fresh' \subseteq fresh
      /\ UNCHANGED <<rows, projects, loaded, scans, score, epss, cron>>
  BY DEF Age, scanVars
<1>2. EpssTypeOK'
  BY <1>1, SameFound DEF EpssInv, EpssTypeOK
<1>3. Scored' = Scored /\ \A x \in Packages : Known(x)' = Known(x)
  BY <1>1, SameFound
<1> QED
  BY <1>1, <1>2, <1>3, ScoredPackages DEF EpssInv, ScoresExact

\* Each column of a row written back is that of the row, or that of the scan.
LEMMA UpdatedType ==
    ASSUME NEW ps, NEW cs,
           NEW row \in RowType(ps, cs), NEW copy \in RowType(ps, cs),
           NEW outcome \in Outcomes, NEW project \in ps, NEW count \in cs
    PROVE  Updated(row, copy, Scanned(copy, outcome, project, count))
             \in RowType(ps, cs)
<1> DEFINE new == Scanned(copy, outcome, project, count)
<1>1. /\ new.status \in Statuses
      /\ new.project \in ps \union {NoProject}
      /\ new.count \in cs \union {NoCount}
  BY DEF Scanned, RowType, Statuses
<1> HIDE DEF new
<1>2. Updated(row, copy, new) \in RowType(ps, cs)
  BY <1>1 DEF Updated, RowType
<1> QED
  BY <1>2 DEF new

LEMMA RecordKeepsScores ==
    ASSUME EpssAssumption, EpssInv, NEW x \in Packages, Record(x)
    PROVE  EpssInv'
<1>1. /\ scans < MaxScans /\ scans' = scans + 1
      /\ loaded' = [loaded EXCEPT ![x] = @ \union {rows'[x]}]
      /\ cron' = [cron EXCEPT !.exact = FALSE]
      /\ UNCHANGED <<score, epss, fresh>>
      /\ cron \in CronRecords
  BY DEF Record, EpssInv, EpssTypeOK, CronRecords
<1>2. PICK copy \in loaded[x], outcome \in Outcomes, result \in Findings[x] :
        /\ rows' = [rows EXCEPT ![x] =
               Updated(@, copy, Scanned(copy, outcome, Len(projects) + 1,
                                        Cardinality(result)))]
        /\ projects' = IF outcome = "refused" THEN projects
                                              ELSE Append(projects, result)
  BY DEF Record
<1>3. result \subseteq Cves \union {NoCve}
  BY DEF EpssAssumption
<1>4. Cardinality(result) \in Nat
  <2>1. IsFiniteSet(Cves \union {NoCve})
    BY FS_AddElement DEF EpssAssumption
  <2> QED
    BY <1>3, <2>1, FS_Subset, FS_CardinalityType
<1>5. /\ projects \in Seq(SUBSET (Cves \union {NoCve}))
      /\ rows \in [Packages -> Rows] /\ loaded \in [Packages -> SUBSET Rows]
  BY DEF EpssInv, EpssTypeOK
<1>6. /\ projects' \in Seq(SUBSET (Cves \union {NoCve}))
      /\ DOMAIN projects \subseteq DOMAIN projects'
      /\ outcome # "refused" => Len(projects) + 1 \in DOMAIN projects'
  BY <1>2, <1>3, <1>5
<1>7. Rows \subseteq Rows'
  BY <1>6 DEF Rows, RowType
<1> DEFINE row == Updated(rows[x], copy, Scanned(copy, outcome,
                          Len(projects) + 1, Cardinality(result)))
<1>8. row \in Rows'
  <2>1. copy \in Rows' /\ rows[x] \in Rows'
    BY <1>5, <1>7
  <2>2. CASE outcome # "refused"
    BY <1>4, <1>6, <2>1, <2>2, UpdatedType DEF Rows
  <2>3. CASE outcome = "refused"
    BY <2>1, <2>3 DEF Updated, Scanned, Rows, RowType, Statuses
  <2> QED
    BY <2>2, <2>3
<1>9. rows' = [rows EXCEPT ![x] = row]
  BY <1>2
<1> HIDE DEF row
<1>10. rows' \in [Packages -> Rows']
  BY <1>5, <1>7, <1>8, <1>9
<1>11. loaded' \in [Packages -> SUBSET Rows']
  BY <1>1, <1>5, <1>7, <1>10
<1>12. /\ cron' \in CronRecords /\ cron'.exact = FALSE
       /\ cron'.pc = cron.pc /\ cron'.cves = cron.cves
       /\ cron'.packages = cron.packages
  BY <1>1 DEF CronRecords
<1>13. scans' \in 0 .. MaxScans
  BY <1>1 DEF EpssInv, EpssTypeOK, EpssAssumption
<1>14. EpssTypeOK'
  BY <1>1, <1>6, <1>10, <1>11, <1>12, <1>13 DEF EpssInv, EpssTypeOK, CronRecords
<1>15. ScoresExact'
  BY <1>12 DEF EpssInv, ScoresExact
<1> QED
  BY <1>14, <1>15 DEF EpssInv

\* Whatever a job or a scan does to the tables.
LEMMA ScoresStep ==
    ASSUME EpssAssumption, EpssInv, Next \/ UNCHANGED vars
    PROVE  EpssInv'
<1>1. CASE EpssNext
  BY <1>1, StartKeepsScores, RefreshKeepsScores, CalculateKeepsScores,
     EndJobKeepsScores, AgeKeepsScores, RecordKeepsScores DEF EpssNext
<1>2. CASE UNCHANGED epssVars
  <2>1. UNCHANGED <<rows, projects, loaded, scans, score, epss, fresh, cron>>
    BY <1>2 DEF epssVars
  <2>2. Scored' = Scored /\ \A x \in Packages : Known(x)' = Known(x)
    BY <2>1, SameFound
  <2>3. EpssTypeOK'
    BY <2>1, SameFound DEF EpssInv, EpssTypeOK
  <2> QED
    BY <2>1, <2>2, <2>3, ScoredPackages DEF EpssInv, ScoresExact
<1> QED
  BY <1>1, <1>2 DEF Next, Scoring, People, Read, Find, Unsorted, Create, Update,
                    Close, Fail, vars

RunRecords(n) ==
    [pc: {"idle", "ended", "find", "write"}, read: SUBSET (Packages \X Scores),
     issue: 0 .. n, steady: BOOLEAN]

\* The issues and the runs as TypeOK has them.
IssueTypes ==
    /\ issues \in Seq(IssueRecords)
    /\ \A i \in DOMAIN issues : issues[i].labelled <=> issues[i].body # NoBody

RunTypes ==
    /\ run \in [Runs -> RunRecords(Len(issues))]
    /\ \A r \in Runs : run[r].issue # 0 => issues[run[r].issue].labelled

OtherTypes ==
    started \in 0 .. MaxRuns /\ overlapped \in BOOLEAN /\ hidden \in BOOLEAN

LEMMA TypeParts ==
    TypeOK <=> EpssTypeOK /\ IssueTypes /\ RunTypes /\ OtherTypes
BY DEF TypeOK, IssueTypes, RunTypes, OtherTypes, IssueRecords, RunRecords

LEMMA NoRunTypes == ASSUME NEW n \in Nat PROVE NoRun \in RunRecords(n)
BY DEF NoRun, RunRecords

\* The runs when one is over, or what they did is forgotten.
LEMMA OverTypes ==
    ASSUME NEW n \in Nat, run \in [Runs -> RunRecords(n)], NEW after,
           \/ after = Unsettled
           \/ \E r \in Runs : after = Ended(r) \/ after = [run EXCEPT ![r] = NoRun]
    PROVE  /\ after \in [Runs -> RunRecords(n)]
           /\ \A q \in Runs : after[q].issue \in {0, run[q].issue}
<1> DEFINE over == [NoRun EXCEPT !.pc = "ended", !.steady = TRUE]
           unsteady(q) == [run[q] EXCEPT !.steady = FALSE]
<1>1. NoRun \in RunRecords(n) /\ NoRun.issue = 0
  BY NoRunTypes, NoRunShape
<1>2. over \in RunRecords(n) /\ over.issue = 0
  BY <1>1 DEF RunRecords
<1>3. \A q \in Runs : unsteady(q) \in RunRecords(n) /\ unsteady(q).issue = run[q].issue
  BY DEF RunRecords
<1> HIDE DEF over, unsteady
<1>4. CASE after = Unsettled
  <2>1. after = [q \in Runs |-> IF Busy(q) THEN unsteady(q) ELSE NoRun]
    BY <1>4 DEF Unsettled, unsteady
  <2> QED
    BY <1>1, <1>3, <2>1
<1>5. ASSUME NEW r \in Runs, after = Ended(r) \/ after = [run EXCEPT ![r] = NoRun]
      PROVE  /\ after \in [Runs -> RunRecords(n)]
             /\ \A q \in Runs : after[q].issue \in {0, run[q].issue}
  <2>1. after = [run EXCEPT ![r] = over] \/ after = [run EXCEPT ![r] = NoRun]
    BY <1>5 DEF Ended, over
  <2> QED
    BY <1>1, <1>2, <2>1
<1> QED
  BY <1>4, <1>5

\* Issues are added, and the labels of those there are stay.
Grown ==
    /\ Len(issues) <= Len(issues')
    /\ \A i \in DOMAIN issues : issues'[i].labelled = issues[i].labelled

\* Runs that point at no other issue than before.
LEMMA RunTypesKept ==
    ASSUME IssueTypes, RunTypes, Grown, issues' \in Seq(IssueRecords),
           run' \in [Runs -> RunRecords(Len(issues))],
           \A r \in Runs : run'[r].issue \in {0, run[r].issue}
    PROVE  RunTypes'
<1>1. Len(issues) \in Nat /\ Len(issues') \in Nat
  BY DEF IssueTypes
<1>2. RunRecords(Len(issues)) \subseteq RunRecords(Len(issues'))
  BY <1>1 DEF RunRecords, Grown
<1>3. run' \in [Runs -> RunRecords(Len(issues'))]
  BY <1>2
<1>4. ASSUME NEW r \in Runs, run'[r].issue # 0
      PROVE  issues'[run'[r].issue].labelled
  <2>1. run'[r].issue = run[r].issue /\ issues[run[r].issue].labelled
    BY <1>4 DEF RunTypes
  <2>2. run[r].issue \in DOMAIN issues
    <3>1. run[r].issue \in 0 .. Len(issues) /\ run[r].issue # 0
      BY <1>4, <2>1 DEF RunTypes, RunRecords
    <3> QED
      BY <3>1 DEF IssueTypes
  <2> QED
    BY <2>1, <2>2 DEF Grown
<1> QED
  BY <1>3, <1>4 DEF RunTypes

\* What is written, and what people open.
LEMMA AddedTypes ==
    ASSUME IssueTypes, NEW x \in IssueRecords, x.labelled <=> x.body # NoBody,
           issues' = Append(issues, x)
    PROVE  IssueTypes' /\ Grown
<1>1. issues \in Seq(IssueRecords)
  BY DEF IssueTypes
<1>2. /\ issues' \in Seq(IssueRecords) /\ Len(issues') = Len(issues) + 1
      /\ \A i \in DOMAIN issues' :
             issues'[i] = IF i = Len(issues) + 1 THEN x ELSE issues[i]
      /\ \A i \in DOMAIN issues' : i # Len(issues) + 1 => i \in DOMAIN issues
      /\ \A i \in DOMAIN issues : i \in DOMAIN issues' /\ i # Len(issues) + 1
  BY <1>1
<1>3. IssueTypes'
  BY <1>2 DEF IssueTypes
<1> QED
  BY <1>1, <1>2, <1>3 DEF Grown

LEMMA UpdatedTypes ==
    ASSUME IssuesAssumption, BodyAssumption, IssueTypes, RunTypes,
           NEW k, NEW body \in Bodies,
           k \in DOMAIN issues => issues[k].labelled,
           issues' = [issues EXCEPT ![k].body = body]
    PROVE  IssueTypes' /\ Grown
<1> DEFINE x == [issues[k] EXCEPT !.body = body]
<1>1. issues \in Seq(IssueRecords) /\ \A i \in DOMAIN issues : issues[i] \in IssueRecords
  BY DEF IssueTypes
<1>2. k \in DOMAIN issues => /\ x \in IssueRecords
                             /\ x.labelled = issues[k].labelled /\ x.body = body
  BY <1>1 DEF IssueRecords
<1>3. issues' = [issues EXCEPT ![k] = x]
  OBVIOUS
<1> HIDE DEF x
<1>4. /\ issues' \in Seq(IssueRecords) /\ DOMAIN issues' = DOMAIN issues
      /\ \A i \in DOMAIN issues : issues'[i] = IF i = k THEN x ELSE issues[i]
  BY <1>1, <1>2, <1>3, WrittenShape
<1>5. Len(issues') = Len(issues)
  BY <1>1, <1>4
<1>6. body # NoBody
  BY DEF BodyAssumption
<1>7. IssueTypes'
  BY <1>2, <1>4, <1>6 DEF IssueTypes
<1> QED
  BY <1>1, <1>2, <1>4, <1>5, <1>7 DEF Grown

LEMMA ClosedTypes ==
    ASSUME IssueTypes, NEW k, issues' = [issues EXCEPT ![k].open = FALSE]
    PROVE  /\ IssueTypes' /\ Grown /\ DOMAIN issues' = DOMAIN issues
           /\ \A i \in DOMAIN issues :
                  /\ i # k => issues'[i] = issues[i]
                  /\ i = k => issues'[i].open = FALSE
<1> DEFINE x == [issues[k] EXCEPT !.open = FALSE]
           closed == [issues EXCEPT ![k] = x]
<1>1. issues \in Seq(IssueRecords) /\ \A i \in DOMAIN issues : issues[i] \in IssueRecords
  BY DEF IssueTypes
<1>2. k \in DOMAIN issues => /\ x \in IssueRecords /\ x.open = FALSE
                             /\ x.labelled = issues[k].labelled
                             /\ x.body = issues[k].body
  BY <1>1 DEF IssueRecords
<1>3. issues' = closed
  OBVIOUS
<1> HIDE DEF x
<1>4. /\ closed \in Seq(IssueRecords) /\ DOMAIN closed = DOMAIN issues
      /\ \A i \in DOMAIN issues : closed[i] = IF i = k THEN x ELSE issues[i]
  BY <1>1, <1>2, WrittenShape
<1> HIDE DEF closed
<1>5. /\ issues' \in Seq(IssueRecords) /\ DOMAIN issues' = DOMAIN issues
      /\ \A i \in DOMAIN issues : issues'[i] = IF i = k THEN x ELSE issues[i]
  BY <1>3, <1>4
<1>6. Len(issues') = Len(issues)
  BY <1>1, <1>5
<1>7. IssueTypes'
  BY <1>2, <1>5 DEF IssueTypes
<1> QED
  BY <1>1, <1>2, <1>5, <1>6, <1>7 DEF Grown

\* get_actionables_issue finds one of the labelled issues of the page.
LEMMA FoundOnPage ==
    ASSUME IssueTypes, Labelled(Page) # {}
    PROVE  Max(Labelled(Page)) \in Labelled(Page)
<1>1. issues \in Seq(IssueRecords)
  BY DEF IssueTypes
<1>2. Labelled(Page) \subseteq 1 .. Len(issues)
  BY <1>1 DEF Labelled, Page, Open
<1>3. IsFiniteSet(1 .. Len(issues)) /\ 1 .. Len(issues) \subseteq Int
  BY <1>1, FS_Interval
<1>4. IsFiniteSet(Labelled(Page)) /\ Labelled(Page) \subseteq Int
  BY <1>2, <1>3, FS_Subset
<1> QED
  BY <1>4, GreatestIsMax

LEMMA ReadTypes ==
    ASSUME IssuesAssumption, EpssTypeOK, IssueTypes, RunTypes, OtherTypes,
           NEW r \in Runs, Read(r)
    PROVE  IssueTypes' /\ RunTypes' /\ OtherTypes'
<1> DEFINE begun == [NoRun EXCEPT !.pc = "find", !.read = Results, !.steady = TRUE]
           n == Len(issues)
<1>1. /\ started < MaxRuns /\ started' = started + 1
      /\ run' = [run EXCEPT ![r] = begun]
      /\ overlapped' = (overlapped \/ \E e \in Runs : Busy(e))
      /\ issues' = issues /\ hidden' = hidden
  BY DEF Read
<1>2. n \in Nat /\ run \in [Runs -> RunRecords(n)]
  BY DEF IssueTypes, RunTypes
<1>3. Results \subseteq Packages \X Scores
  BY DEF Results, Vulnerable, EpssTypeOK
<1>4. begun \in RunRecords(n) /\ begun.issue = 0
  BY <1>2, <1>3, NoRunTypes, NoRunShape DEF RunRecords
<1> HIDE DEF begun
<1>5. /\ run' \in [Runs -> RunRecords(n)]
      /\ \A q \in Runs : run'[q].issue \in {0, run[q].issue}
  BY <1>1, <1>2, <1>4
<1>6. IssueTypes' /\ Grown
  BY <1>1, <1>2 DEF IssueTypes, Grown
<1>7. RunTypes'
  BY <1>5, <1>6, RunTypesKept DEF IssueTypes
<1>8. OtherTypes'
  BY <1>1 DEF OtherTypes, IssuesAssumption
<1> QED
  BY <1>6, <1>7, <1>8

LEMMA FindTypes ==
    ASSUME IssueTypes, RunTypes, OtherTypes, NEW r \in Runs, Find(r)
    PROVE  IssueTypes' /\ RunTypes' /\ OtherTypes'
<1> DEFINE k == IF Labelled(Page) = {} THEN 0 ELSE Max(Labelled(Page))
           n == Len(issues)
<1>1. /\ run' = [run EXCEPT ![r].pc = "write", ![r].issue = k]
      /\ hidden' = (hidden \/ (Labelled(Page) = {} /\ Labelled(Open) # {}))
      /\ issues' = issues /\ started' = started /\ overlapped' = overlapped
  BY DEF Find
<1>2. n \in Nat /\ run \in [Runs -> RunRecords(n)] /\ issues \in Seq(IssueRecords)
  BY DEF IssueTypes, RunTypes
<1>3. k \in 0 .. n /\ (k # 0 => issues[k].labelled)
  <2>1. CASE Labelled(Page) = {}
    BY <1>2, <2>1
  <2>2. CASE Labelled(Page) # {}
    <3>1. k \in Labelled(Page)
      BY <2>2, FoundOnPage
    <3>2. k \in DOMAIN issues /\ issues[k].labelled
      BY <3>1 DEF Labelled, Page, Open
    <3> QED
      BY <1>2, <3>2
  <2> QED
    BY <2>1, <2>2
<1> HIDE DEF k
<1>4. /\ run' \in [Runs -> RunRecords(n)]
      /\ \A q \in Runs : run'[q].issue = IF q = r THEN k ELSE run[q].issue
  BY <1>1, <1>2, <1>3 DEF RunRecords
<1>5. IssueTypes' /\ OtherTypes'
  BY <1>1 DEF IssueTypes, OtherTypes
<1>6. RunTypes'
  BY <1>1, <1>3, <1>4 DEF RunTypes
<1> QED
  BY <1>5, <1>6

\* An action that ends a run, or unsettles them, and leaves the labels alone.
LEMMA OverKeepsTypes ==
    ASSUME IssueTypes, RunTypes, OtherTypes, IssueTypes', Grown,
           \/ run' = run \/ run' = Unsettled
           \/ \E r \in Runs : run' = Ended(r) \/ run' = [run EXCEPT ![r] = NoRun],
           UNCHANGED <<started, overlapped, hidden>>
    PROVE  IssueTypes' /\ RunTypes' /\ OtherTypes'
<1>1. Len(issues) \in Nat /\ run \in [Runs -> RunRecords(Len(issues))]
  BY DEF IssueTypes, RunTypes
<1>2. /\ run' \in [Runs -> RunRecords(Len(issues))]
      /\ \A q \in Runs : run'[q].issue \in {0, run[q].issue}
  BY <1>1, OverTypes
<1>3. RunTypes'
  BY <1>2, RunTypesKept DEF IssueTypes
<1>4. OtherTypes'
  BY DEF OtherTypes
<1> QED
  BY <1>3, <1>4

LEMMA WriteTypes ==
    ASSUME IssuesAssumption, BodyAssumption, IssueTypes, RunTypes, OtherTypes,
           NEW r \in Runs, Create(r) \/ Update(r) \/ Close(r)
    PROVE  IssueTypes' /\ RunTypes' /\ OtherTypes'
<1> DEFINE k == run[r].issue
           body == Content(run[r].read)
<1>1. run' = Ended(r) /\ UNCHANGED <<started, overlapped, hidden>>
  BY DEF Create, Update, Close
<1>2. \A x \in run[r].read : x[1] \in Packages
  BY DEF RunTypes, RunRecords
<1>3. body \in Bodies /\ body # NoBody
  BY <1>2, ContentIsBody DEF BodyAssumption
<1>4. CASE Create(r)
  <2> DEFINE x == [labelled |-> TRUE, open |-> TRUE, body |-> body]
  <2>1. issues' = Append(issues, x)
    BY <1>4 DEF Create
  <2>2. x \in IssueRecords /\ x.labelled /\ x.body # NoBody
    BY <1>3 DEF IssueRecords
  <2> HIDE DEF x
  <2>3. IssueTypes' /\ Grown
    BY <2>1, <2>2, AddedTypes
  <2> QED
    BY <1>1, <2>3, OverKeepsTypes
<1>5. CASE Update(r)
  <2>1. issues' = [issues EXCEPT ![k].body = body] /\ k # 0
    BY <1>5 DEF Update
  <2>2. issues[k].labelled
    BY <2>1 DEF RunTypes
  <2> HIDE DEF k, body
  <2>3. IssueTypes' /\ Grown
    BY <1>3, <2>1, <2>2, UpdatedTypes
  <2> QED
    BY <1>1, <2>3, OverKeepsTypes
<1>6. CASE Close(r)
  <2>1. issues' = issues \/ issues' = [issues EXCEPT ![k].open = FALSE]
    BY <1>6 DEF Close
  <2> HIDE DEF k
  <2>2. IssueTypes' /\ Grown
    <3>1. CASE issues' = issues
      BY <3>1 DEF IssueTypes, Grown
    <3>2. CASE issues' = [issues EXCEPT ![k].open = FALSE]
      BY <3>2, ClosedTypes
    <3> QED
      BY <2>1, <3>1, <3>2
  <2> QED
    BY <1>1, <2>2, OverKeepsTypes
<1> QED
  BY <1>4, <1>5, <1>6

LEMMA PeopleTypes ==
    ASSUME IssueTypes, RunTypes, OtherTypes, People
    PROVE  IssueTypes' /\ RunTypes' /\ OtherTypes'
<1> DEFINE x == [labelled |-> FALSE, open |-> TRUE, body |-> NoBody]
<1>1. UNCHANGED <<started, overlapped, hidden>>
  BY DEF People
<1>2. CASE issues' = Append(issues, x) /\ run' = run
  <2>1. x \in IssueRecords /\ ~x.labelled /\ x.body = NoBody
    BY DEF IssueRecords
  <2> HIDE DEF x
  <2>2. IssueTypes' /\ Grown
    BY <1>2, <2>1, AddedTypes
  <2> QED
    BY <1>1, <1>2, <2>2, OverKeepsTypes
<1>3. CASE /\ \E i \in Open : issues' = [issues EXCEPT ![i].open = FALSE]
           /\ run' = Unsettled
  <2>1. IssueTypes' /\ Grown
    BY <1>3, ClosedTypes
  <2> QED
    BY <1>1, <1>3, <2>1, OverKeepsTypes
<1> QED
  BY <1>2, <1>3 DEF People

LEMMA IssueTypesStep ==
    ASSUME EpssAssumption, IssuesAssumption, BodyAssumption,
           TypeOK, EpssInv, [Next]_vars
    PROVE  TypeOK' /\ EpssInv'
<1>1. EpssInv'
  BY ScoresStep
<1>2. IssueTypes /\ RunTypes /\ OtherTypes /\ EpssTypeOK
  BY TypeParts
<1>3. IssueTypes' /\ RunTypes' /\ OtherTypes'
  <2>1. CASE \E r \in Runs : Read(r)
    BY <1>2, <2>1, ReadTypes
  <2>2. CASE \E r \in Runs : Find(r)
    BY <1>2, <2>2, FindTypes
  <2>3. CASE \E r \in Runs : Create(r) \/ Update(r) \/ Close(r)
    BY <1>2, <2>3, WriteTypes
  <2>4. CASE People
    BY <1>2, <2>4, PeopleTypes
  <2>5. CASE Scoring \/ (\E r \in Runs : Unsorted(r) \/ Fail(r)) \/ UNCHANGED vars
    <3>1. /\ issues' = issues /\ UNCHANGED <<started, overlapped, hidden>>
          /\ \/ run' = run \/ run' = Unsettled
             \/ \E r \in Runs : run' = [run EXCEPT ![r] = NoRun]
      BY <2>5 DEF Scoring, Unsorted, Fail, vars
    <3>2. IssueTypes' /\ Grown
      BY <1>2, <3>1 DEF IssueTypes, Grown
    <3> QED
      BY <1>2, <3>1, <3>2, OverKeepsTypes
  <2> QED
    BY <2>1, <2>2, <2>3, <2>4, <2>5 DEF Next
<1>4. TypeOK'
  <2>1. EpssTypeOK'
    BY <1>1 DEF EpssInv
  <2> QED
    BY <1>3, <2>1 DEF TypeOK, IssueTypes, RunTypes, OtherTypes, IssueRecords, RunRecords
<1> QED
  BY <1>1, <1>4

LEMMA InitialTypes == EpssAssumption /\ IssuesAssumption /\ Init => TypeOK /\ EpssInv
<1> SUFFICES ASSUME EpssAssumption, IssuesAssumption, Init PROVE TypeOK /\ EpssInv
  OBVIOUS
<1>1. EpssInv
  BY InitialScores
<1>2. /\ issues = <<>> /\ run = [r \in Runs |-> NoRun] /\ started = 0
      /\ overlapped = FALSE /\ hidden = FALSE
  BY DEF Init
<1>3. IssueTypes
  BY <1>2 DEF IssueTypes
<1>4. RunTypes
  <2>1. Len(issues) = 0
    BY <1>2
  <2>2. NoRun \in RunRecords(Len(issues)) /\ NoRun.issue = 0
    BY <2>1, NoRunTypes, NoRunShape
  <2> HIDE DEF NoRun
  <2> QED
    BY <1>2, <2>2 DEF RunTypes
<1>5. OtherTypes
  <2>1. 0 \in 0 .. MaxRuns
    BY DEF IssuesAssumption
  <2> QED
    BY <1>2, <2>1 DEF OtherTypes
<1> QED
  BY <1>1, <1>3, <1>4, <1>5, TypeParts DEF EpssInv

LEMMA IssueTypesHold == Spec => [](TypeOK /\ EpssInv)
<1>1. Init => TypeOK /\ EpssInv
  BY InitialTypes, EpssAssumption, IssuesAssumption
<1>2. TypeOK /\ EpssInv /\ [Next]_vars => TypeOK' /\ EpssInv'
  BY IssueTypesStep, EpssAssumption, IssuesAssumption, BodyAssumption
<1> QED
  BY <1>1, <1>2, PTL DEF Spec

\* The tables of scores stay what EPSS, ScanCode.io and calculate-package-epss
\* can write there, and only labelled issues have what a run writes.
THEOREM IssuesTypes == Spec => []TypeOK
BY IssueTypesHold, PTL

-----------------------------------------------------------------------------
(* What a run that ended leaves in the issue.                              *)

\* A run that nothing disturbed writes what the tables say.
ReadsResults ==
    \A r \in Runs : Busy(r) /\ run[r].steady => run[r].read = Results

\* What a run left is of interest as long as nothing changed, so that the next
\* one was not disturbed either.
SteadyTogether ==
    ~overlapped =>
        \A r, q \in Runs : run[r].pc = "ended" /\ Busy(q) => run[q].steady

\* An undisturbed run that found the issue writes the one that is open.
FoundIssue ==
    ~overlapped /\ ~hidden =>
        \A r \in Runs : run[r].pc = "write" /\ run[r].steady /\ run[r].issue # 0
                            => Labelled(Open) = {run[r].issue}

Written ==
    /\ Labelled(Open) = {} <=> Vulnerable = {}
    /\ \A i \in Labelled(Open) : issues[i].body = Content(Results)

Current ==
    ~overlapped /\ ~hidden /\ (\E r \in Runs : run[r].pc = "ended") => Written

Reports == ReadsResults /\ SteadyTogether /\ FoundIssue /\ Current

ReportInv == IssueInv /\ TypeOK /\ EpssInv /\ Reports

LEMMA InitialReports == Init => Reports
<1> SUFFICES ASSUME Init PROVE Reports
  OBVIOUS
<1>1. \A r \in Runs : run[r].pc = "idle"
  BY NoRunShape DEF Init
<1> QED
  BY <1>1 DEF Reports, ReadsResults, SteadyTogether, FoundIssue, Current, Busy

\* What is in the tables that a run reads.
LEMMA SameResults ==
    ASSUME UNCHANGED <<rows, score>>
    PROVE  /\ Results' = Results /\ Vulnerable' = Vulnerable
           /\ Content(Results)' = Content(Results)
BY DEF Results, Vulnerable, Content

\* An action that leaves the labelled issues alone and does nothing with runs,
\* or ends some without a result.
LEMMA ReportsKept ==
    ASSUME Reports, UNCHANGED <<rows, score, overlapped, hidden>>,
           Labelled(Open)' = Labelled(Open),
           \A i \in Labelled(Open) : issues'[i].body = issues[i].body,
           \A q \in Runs : run'[q] = run[q] \/ run'[q].pc = "idle"
    PROVE  Reports'
<1>1. /\ Results' = Results /\ Vulnerable' = Vulnerable
      /\ Content(Results)' = Content(Results)
  BY SameResults
<1>2. ReadsResults'
  BY <1>1 DEF Reports, ReadsResults, Busy
<1>3. SteadyTogether'
  BY DEF Reports, SteadyTogether, Busy
<1>4. FoundIssue'
  BY DEF Reports, FoundIssue
<1>5. Current'
  <2> SUFFICES ASSUME ~overlapped', ~hidden', NEW r \in Runs, run'[r].pc = "ended"
               PROVE  Written'
    BY DEF Current
  <2>1. Written
    BY DEF Reports, Current
  <2>2. \A i \in Labelled(Open)' : issues'[i].body = Content(Results)'
    BY <1>1, <2>1 DEF Written
  <2> QED
    BY <1>1, <2>1, <2>2 DEF Written
<1> QED
  BY <1>2, <1>3, <1>4, <1>5 DEF Reports

\* Once something changed, no run counts any more.
LEMMA UnsettledReports ==
    ASSUME Shape, run' = Unsettled
    PROVE  Reports'
<1> DEFINE unsteady(q) == [run[q] EXCEPT !.steady = FALSE]
<1>1. \A q \in Runs : run'[q] = IF Busy(q) THEN unsteady(q) ELSE NoRun
  BY DEF Unsettled
<1>2. \A q \in Runs : unsteady(q).pc = run[q].pc /\ unsteady(q).steady = FALSE
  BY DEF Shape
<1> HIDE DEF unsteady
<1>3. \A q \in Runs : run'[q].pc # "ended" /\ (Busy(q)' => ~run'[q].steady)
  BY <1>1, <1>2, NoRunShape DEF Busy
<1>4. Current' /\ SteadyTogether'
  BY <1>3 DEF Current, SteadyTogether
<1>5. ReadsResults' /\ FoundIssue'
  BY <1>3 DEF ReadsResults, FoundIssue, Busy
<1> QED
  BY <1>4, <1>5 DEF Reports

LEMMA ReadReports ==
    ASSUME ReportInv, NEW r \in Runs, Read(r)
    PROVE  Reports'
<1>1. /\ ~Busy(r) /\ UNCHANGED <<rows, score, issues, hidden>>
      /\ run' = [run EXCEPT ![r] = [NoRun EXCEPT !.pc = "find", !.read = Results,
                                                 !.steady = TRUE]]
      /\ overlapped' = (overlapped \/ \E e \in Runs : Busy(e))
  BY DEF Read, epssVars
<1>2. /\ run'[r].pc = "find" /\ run'[r].read = Results /\ run'[r].steady = TRUE
      /\ \A q \in Runs : q # r => run'[q] = run[q]
  BY <1>1 DEF ReportInv, IssueInv, Shape, NoRun
<1>3. /\ Results' = Results /\ Vulnerable' = Vulnerable
      /\ Content(Results)' = Content(Results)
  BY <1>1, SameResults
<1>4. Labelled(Open)' = Labelled(Open)
  BY <1>1 DEF Labelled, Open
<1>5. ReadsResults'
  BY <1>2, <1>3 DEF ReportInv, Reports, ReadsResults, Busy
<1>6. SteadyTogether'
  BY <1>1, <1>2 DEF SteadyTogether, Busy
<1>7. FoundIssue'
  BY <1>1, <1>2, <1>4 DEF ReportInv, Reports, FoundIssue
<1>8. Current'
  BY <1>1, <1>2, <1>3, <1>4 DEF ReportInv, Reports, Current, Written
<1> QED
  BY <1>5, <1>6, <1>7, <1>8 DEF Reports

LEMMA FindReports ==
    ASSUME ReportInv, NEW r \in Runs, Find(r)
    PROVE  Reports'
<1> DEFINE k == IF Labelled(Page) = {} THEN 0 ELSE Max(Labelled(Page))
<1>1. /\ run[r].pc = "find"
      /\ run' = [run EXCEPT ![r].pc = "write", ![r].issue = k]
      /\ hidden' = (hidden \/ (Labelled(Page) = {} /\ Labelled(Open) # {}))
      /\ UNCHANGED <<rows, score, issues, overlapped>>
  BY DEF Find, epssVars
<1>2. k # 0 => k \in Labelled(Open)
  BY FoundOnPage, TypeParts DEF ReportInv, Labelled, Page
<1> HIDE DEF k
<1>3. /\ run'[r].pc = "write" /\ run'[r].issue = k
      /\ run'[r].read = run[r].read /\ run'[r].steady = run[r].steady
      /\ \A q \in Runs : q # r => run'[q] = run[q]
  BY <1>1 DEF ReportInv, IssueInv, Shape
<1>4. /\ Results' = Results /\ Vulnerable' = Vulnerable
      /\ Content(Results)' = Content(Results)
  BY <1>1, SameResults
<1>5. Labelled(Open)' = Labelled(Open)
  BY <1>1 DEF Labelled, Open
<1>6. ReadsResults'
  BY <1>1, <1>3, <1>4 DEF ReportInv, Reports, ReadsResults, Busy
<1>7. SteadyTogether'
  BY <1>1, <1>3 DEF ReportInv, Reports, SteadyTogether, Busy
<1>8. FoundIssue'
  <2> SUFFICES ASSUME ~overlapped', ~hidden', NEW q \in Runs, run'[q].pc = "write",
                      run'[q].steady, run'[q].issue # 0
               PROVE  Labelled(Open) = {run'[q].issue}
    BY <1>5 DEF FoundIssue
  <2>1. CASE q = r
    <3>1. \A i, j \in Labelled(Open) : i = j
      BY <1>1 DEF ReportInv, IssueInv, OneIssue
    <3>2. k # 0 /\ run'[q].issue = k
      BY <1>3, <2>1
    <3> QED
      BY <1>2, <3>1, <3>2
  <2>2. CASE q # r
    BY <1>1, <1>3, <2>2 DEF ReportInv, Reports, FoundIssue
  <2> QED
    BY <2>1, <2>2
<1>9. Current'
  BY <1>1, <1>3, <1>4, <1>5 DEF ReportInv, Reports, Current, Written
<1> QED
  BY <1>6, <1>7, <1>8, <1>9 DEF Reports

\* A version that is vulnerable is in the content, on top or below.
LEMMA NothingToReport == Results = {} <=> Vulnerable = {}
BY DEF Results

\* A run that writes, undisturbed, makes what is open what the tables say.
LEMMA WriteReports ==
    ASSUME ReportInv, NEW r \in Runs, Create(r) \/ Update(r) \/ Close(r)
    PROVE  Reports'
<1>1. /\ run[r].pc = "write" /\ run' = Ended(r) /\ Busy(r)
      /\ UNCHANGED <<rows, score, overlapped, hidden>>
  BY DEF Create, Update, Close, epssVars, Busy
<1>2. /\ \A q \in Runs : q # r => run'[q] = run[q]
      /\ ~Busy(r)'
  BY <1>1, EndedShape DEF ReportInv, IssueInv
<1>3. run'[r].pc = "ended" => run[r].steady
  <2>1. ~run[r].steady => run' = [run EXCEPT ![r] = NoRun]
    BY <1>1 DEF Ended
  <2> QED
    BY <2>1, NoRunShape DEF ReportInv, IssueInv, Shape
<1>4. /\ Results' = Results /\ Vulnerable' = Vulnerable
      /\ Content(Results)' = Content(Results)
  BY <1>1, SameResults
<1>5. ~overlapped => \A q \in Runs : ~Busy(q)'
  BY <1>1, <1>2 DEF ReportInv, IssueInv, Alone, Busy
<1>6. ReadsResults'
  BY <1>2, <1>4 DEF ReportInv, Reports, ReadsResults, Busy
<1>7. SteadyTogether'
  BY <1>1, <1>5 DEF SteadyTogether
<1>8. FoundIssue'
  BY <1>1, <1>5 DEF FoundIssue, Busy
<1>9. ASSUME ~overlapped, ~hidden, NEW e \in Runs, run'[e].pc = "ended"
      PROVE  Written'
  <2>1. run[r].steady
    BY <1>1, <1>2, <1>3, <1>9 DEF ReportInv, Reports, SteadyTogether
  <2>2. run[r].read = Results
    BY <1>1, <2>1 DEF ReportInv, Reports, ReadsResults
  <2>3. issues \in Seq(IssueRecords) /\ IssueTypes
    BY TypeParts DEF ReportInv, IssueTypes
  <2>4. CASE Create(r)
    <3>1. Labelled(Open) = {} /\ Vulnerable # {}
      BY <1>1, <1>9, <2>2, <2>4, NothingToReport
         DEF Create, ReportInv, IssueInv, OneIssue
    <3> DEFINE x == [labelled |-> TRUE, open |-> TRUE, body |-> Content(Results)]
               n == Len(issues) + 1
    <3>2. issues' = Append(issues, x)
      BY <2>2, <2>4 DEF Create
    <3>3. x.labelled /\ x.open /\ x.body = Content(Results)
      OBVIOUS
    <3> HIDE DEF x
    <3>4. /\ DOMAIN issues' = DOMAIN issues \union {n} /\ issues'[n] = x
          /\ \A i \in DOMAIN issues : issues'[i] = issues[i]
      BY <2>3, <3>2
    <3> HIDE DEF n
    <3>5. Labelled(Open)' = {n}
      BY <3>1, <3>3, <3>4 DEF Labelled, Open
    <3> QED
      BY <1>4, <3>1, <3>3, <3>4, <3>5 DEF Written
  <2>5. CASE Update(r)
    <3> DEFINE k == run[r].issue
               x == [issues[k] EXCEPT !.body = Content(Results)]
    <3>1. Labelled(Open) = {k} /\ Vulnerable # {}
      BY <1>1, <1>9, <2>1, <2>2, <2>5, NothingToReport
         DEF Update, ReportInv, Reports, FoundIssue
    <3>2. issues' = [issues EXCEPT ![k] = x]
      BY <2>2, <2>5 DEF Update
    <3> HIDE DEF k
    <3>3. k \in DOMAIN issues /\ issues[k].labelled /\ issues[k].open
      BY <3>1 DEF Labelled, Open
    <3>4. x.labelled = issues[k].labelled /\ x.open = issues[k].open
          /\ x.body = Content(Results)
      <4>1. issues[k] \in IssueRecords
        BY <2>3, <3>3
      <4> QED
        BY <4>1 DEF IssueRecords
    <3> HIDE DEF x
    <3>5. DOMAIN issues' = DOMAIN issues
          /\ \A i \in DOMAIN issues : issues'[i] = IF i = k THEN x ELSE issues[i]
      BY <2>3, <3>2, <3>3
    <3>6. Labelled(Open)' = {k}
      BY <3>1, <3>3, <3>4, <3>5 DEF Labelled, Open
    <3> QED
      BY <1>4, <3>1, <3>3, <3>4, <3>5, <3>6 DEF Written
  <2>6. CASE Close(r)
    <3> DEFINE k == run[r].issue
    <3>1. Vulnerable = {}
      BY <2>2, <2>6, NothingToReport DEF Close
    <3>2. Labelled(Open)' = {}
      <4>1. CASE k = 0
        <5>1. Labelled(Open) = {} /\ issues' = issues
          BY <1>1, <1>9, <2>6, <4>1 DEF Close, ReportInv, IssueInv, OneIssue
        <5> QED
          BY <5>1 DEF Labelled, Open
      <4>2. CASE k # 0
        <5>1. /\ Labelled(Open) = {k}
              /\ issues' = [issues EXCEPT ![k].open = FALSE]
          BY <1>1, <1>9, <2>1, <2>6, <4>2
             DEF Close, ReportInv, Reports, FoundIssue
        <5> HIDE DEF k
        <5>2. /\ DOMAIN issues' = DOMAIN issues
              /\ \A i \in DOMAIN issues :
                     /\ i # k => issues'[i] = issues[i]
                     /\ i = k => issues'[i].open = FALSE
          BY <2>3, <5>1, ClosedTypes
        <5> QED
          BY <5>1, <5>2 DEF Labelled, Open
      <4> QED
        BY <4>1, <4>2
    <3> QED
      BY <1>4, <3>1, <3>2 DEF Written
  <2> QED
    BY <2>4, <2>5, <2>6
<1>10. Current'
  BY <1>1, <1>9 DEF Current
<1> QED
  BY <1>6, <1>7, <1>8, <1>10 DEF Reports

LEMMA PeopleReport ==
    ASSUME ReportInv, People
    PROVE  Reports'
<1> DEFINE x == [labelled |-> FALSE, open |-> TRUE, body |-> NoBody]
<1>1. UNCHANGED <<rows, score, overlapped, hidden>>
  BY DEF People, epssVars
<1>2. CASE issues' = Append(issues, x) /\ run' = run
  <2>1. issues \in Seq(IssueRecords)
    BY DEF ReportInv, IssueInv, Shape
  <2>2. x.labelled = FALSE
    OBVIOUS
  <2> HIDE DEF x
  <2>3. /\ DOMAIN issues' = DOMAIN issues \union {Len(issues) + 1}
        /\ issues'[Len(issues) + 1] = x
        /\ \A i \in DOMAIN issues : issues'[i] = issues[i]
    BY <1>2, <2>1
  <2>4. Labelled(Open)' = Labelled(Open)
    BY <2>2, <2>3 DEF Labelled, Open
  <2>5. \A i \in Labelled(Open) : issues'[i].body = issues[i].body
    BY <2>3 DEF Labelled, Open
  <2> QED
    BY <1>1, <1>2, <2>4, <2>5, ReportsKept DEF ReportInv
<1>3. CASE run' = Unsettled
  BY <1>3, UnsettledReports DEF ReportInv, IssueInv
<1> QED
  BY <1>2, <1>3 DEF People

LEMMA ReportStep == ReportInv /\ [Next]_vars => Reports'
<1> SUFFICES ASSUME ReportInv, [Next]_vars PROVE Reports'
  OBVIOUS
<1>1. CASE \E r \in Runs : Read(r)
  BY <1>1, ReadReports
<1>2. CASE \E r \in Runs : Find(r)
  BY <1>2, FindReports
<1>3. CASE \E r \in Runs : Create(r) \/ Update(r) \/ Close(r)
  BY <1>3, WriteReports
<1>4. CASE People
  BY <1>4, PeopleReport
<1>5. CASE Scoring /\ run' = Unsettled
  BY <1>5, UnsettledReports DEF ReportInv, IssueInv
<1>6. CASE \/ Scoring /\ <<rows', score'>> = <<rows, score>> /\ run' = run
           \/ \E r \in Runs : Unsorted(r) \/ Fail(r)
           \/ UNCHANGED vars
  <2>1. UNCHANGED <<rows, score, issues, overlapped, hidden>>
    BY <1>6 DEF Scoring, Unsorted, Fail, vars, epssVars
  <2>2. \A q \in Runs : run'[q] = run[q] \/ run'[q].pc = "idle"
    <3>1. run' = run \/ \E r \in Runs : run' = [run EXCEPT ![r] = NoRun]
      BY <1>6 DEF Unsorted, Fail, vars
    <3> QED
      BY <3>1, NoRunShape DEF ReportInv, IssueInv, Shape
  <2>3. Labelled(Open)' = Labelled(Open)
    BY <2>1 DEF Labelled, Open
  <2> QED
    BY <2>1, <2>2, <2>3, ReportsKept DEF ReportInv
<1> QED
  BY <1>1, <1>2, <1>3, <1>4, <1>5, <1>6 DEF Next, Scoring

LEMMA ReportsHold == Spec => []ReportInv
<1>1. Init => Reports
  BY InitialReports
<1>2. IssueInv /\ (TypeOK /\ EpssInv) /\ Reports <=> ReportInv
  BY DEF ReportInv
<1>3. ReportInv /\ [Next]_vars => Reports'
  BY ReportStep
<1> QED
  BY <1>1, <1>2, <1>3, IssueInvariant, IssueTypesHold, PTL DEF Spec

\* What is written of the results: every version is there, and on top are
\* those with a score above the threshold.
LEMMA ContentOfResults ==
    LET body == Content(Results)
    IN  /\ body.p0 \union body.other = Vulnerable
        /\ \A x \in Vulnerable :
               x \in body.p0 <=> score[x] # NoScore /\ score[x] > Critical
<1> DEFINE first == {x[1] : x \in {y \in Results : y[2] # NoScore /\ y[2] > Critical}}
           all == {x[1] : x \in Results}
<1>1. Content(Results).p0 = first /\ Content(Results).other = all \ first
  BY DEF Content
<1>2. \A y \in Results : y[1] \in Vulnerable /\ y[2] = score[y[1]]
  BY DEF Results
<1>3. \A x \in Vulnerable :
          /\ <<x, score[x]>> \in Results
          /\ <<x, score[x]>>[1] = x /\ <<x, score[x]>>[2] = score[x]
  BY DEF Results
<1>4. all = Vulnerable
  BY <1>2, <1>3
<1>5. ASSUME NEW x \in Vulnerable
      PROVE  x \in first <=> score[x] # NoScore /\ score[x] > Critical
  <2>1. ASSUME x \in first PROVE score[x] # NoScore /\ score[x] > Critical
    <3>1. PICK y \in Results : y[1] = x /\ y[2] # NoScore /\ y[2] > Critical
      BY <2>1
    <3> QED
      BY <1>2, <3>1
  <2>2. ASSUME score[x] # NoScore, score[x] > Critical PROVE x \in first
    <3> DEFINE y == <<x, score[x]>>
    <3>1. y \in Results /\ y[1] = x /\ y[2] = score[x]
      BY <1>3
    <3> HIDE DEF y
    <3> QED
      BY <2>2, <3>1
  <2> QED
    BY <2>1, <2>2
<1>6. first \subseteq all
  OBVIOUS
<1> HIDE DEF first, all
<1> QED
  BY <1>1, <1>4, <1>5, <1>6

LEMMA ReportOfWritten ==
    EpssAssumption /\ IssuesAssumption /\ ReportInv => ReportIsCurrent
<1> SUFFICES ASSUME EpssAssumption, IssuesAssumption, ReportInv,
                    NEW r \in Runs, run[r].pc = "ended", ~overlapped, ~hidden
             PROVE  /\ Labelled(Open) = {} <=> Vulnerable = {}
                    /\ \A i \in Labelled(Open) :
                        LET body == issues[i].body
                        IN  /\ body.p0 \union body.other = Vulnerable
                            /\ cron.exact /\ cron.pc = "idle" =>
                                \A x \in Vulnerable \intersect Scored :
                                  Known(x) # {} =>
                                    (x \in body.p0 <=>
                                       \E y \in Known(x) : y > Critical)
  BY DEF ReportIsCurrent
<1>1. Written
  BY DEF ReportInv, Reports, Current
<1>2. ASSUME cron.exact, cron.pc = "idle", NEW x \in Vulnerable \intersect Scored,
             Known(x) # {}
      PROVE  (score[x] # NoScore /\ score[x] > Critical)
                 <=> \E y \in Known(x) : y > Critical
  <2>1. x \in Packages /\ EpssTypeOK
    BY DEF Vulnerable, ReportInv, EpssInv
  <2>2. score[x] = Max(Known(x))
    BY <1>2, <2>1 DEF ReportInv, EpssInv, ScoresExact
  <2>3. /\ score[x] \in Known(x) /\ score[x] \in Nat
        /\ \A y \in Known(x) : y <= score[x]
    BY <1>2, <2>1, <2>2, NewScoreTypes
  <2>4. Known(x) \subseteq Nat /\ Critical \in Nat /\ NoScore \notin Nat
    BY <2>1, KnownScores DEF IssuesAssumption, EpssAssumption
  <2> QED
    BY <2>3, <2>4
<1>3. ASSUME NEW i \in Labelled(Open)
      PROVE  /\ issues[i].body.p0 \union issues[i].body.other = Vulnerable
             /\ cron.exact /\ cron.pc = "idle" =>
                    \A x \in Vulnerable \intersect Scored : Known(x) # {} =>
                        (x \in issues[i].body.p0 <=> \E y \in Known(x) : y > Critical)
  <2>1. issues[i].body = Content(Results)
    BY <1>1, <1>3 DEF Written
  <2> QED
    BY <1>2, <2>1, ContentOfResults
<1> QED
  BY <1>1, <1>3 DEF Written

\* raise-sca-as-git-issue: after a run that ended, and as long as nothing it
\* depends on changed since it began, the issue is open only if a version is
\* vulnerable, and lists all that are.  If the calculation of scores went
\* through all versions since the tables last changed, those on top are, of the
\* versions whose last scan was a success and with a CVE that has a score, the
\* ones with a CVE scored above the threshold.  Before that, runs and jobs may
\* have failed anywhere, scans overlapped and failed, and people closed issues
\* and opened others without the label.
THEOREM ReportsAreCurrent == Spec => []ReportIsCurrent
<1>1. ReportInv => ReportIsCurrent
  BY ReportOfWritten, EpssAssumption, IssuesAssumption
<1> QED
  BY <1>1, ReportsHold, PTL
===============================================================================
