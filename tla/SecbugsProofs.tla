---------------------------- MODULE SecbugsProofs ----------------------------
(***************************************************************************)
(* Proofs about Secbugs for any bugs, repositories, runs and creators.     *)
(***************************************************************************)
EXTENDS Secbugs, FiniteSetTheorems, TLAPS

RepositoryTypes ==
    /\ repos \in Seq(Repositories)
    /\ creator \in [Creators -> Repositories \union {NoRepository}]
    /\ raced \subseteq Repositories

\* A repository that was never raced for has one row, or one creator about to
\* insert it, and never both.
OneOrigin(r) ==
    /\ \A i, j \in RowsOf(r) : i = j
    /\ \A c, e \in Creators : creator[c] = r /\ creator[e] = r => c = e
    /\ \A c \in Creators : creator[c] = r => RowsOf(r) = {}

OriginInv ==
    /\ RepositoryTypes
    /\ \A r \in Repositories \ raced : OneOrigin(r)

\* Neither Jira nor a run of secbugs-connect touches a repository.
LEMMA SyncsOnlyRead ==
    ASSUME Change \/ \E s \in Syncs : Start(s) \/ Work(s) \/ Fail(s)
    PROVE  UNCHANGED <<repos, creator, raced>>
BY DEF Change, Start, Work, Delete, Second, Resolve, Update, Create, End, Fail

\* A creator that finds no row is alone, or its repository is raced for.
LEMMA MeetKeepsOrigin ==
    ASSUME SecbugsAssumption, OriginInv, NEW c \in Creators, Meet(c)
    PROVE  OriginInv'
<1>1. PICK r \in Repositories :
          /\ RowsOf(r) = {}
          /\ creator' = [creator EXCEPT ![c] = r]
          /\ raced' = IF \E e \in Creators : creator[e] = r
                      THEN raced \union {r} ELSE raced
  BY DEF Meet
<1>2. repos' = repos /\ creator[c] = NoRepository
  BY DEF Meet
<1>3. RepositoryTypes'
  BY <1>1, <1>2 DEF OriginInv, RepositoryTypes
<1>4. ASSUME NEW q \in Repositories \ raced'
      PROVE  OneOrigin(q)'
  <2>1. OneOrigin(q)
    BY <1>1 DEF OriginInv
  <2>2. RowsOf(q)' = RowsOf(q)
    BY <1>2 DEF RowsOf, Ids
  <2>3. CASE q = r
    <3>1. \A e \in Creators : creator[e] # r
      BY <1>1, <2>3
    <3>2. \A e \in Creators : creator'[e] = r => e = c
      BY <1>1, <3>1 DEF OriginInv, RepositoryTypes
    <3> QED
      BY <1>1, <2>1, <2>2, <2>3, <3>2 DEF OneOrigin
  <2>4. CASE q # r
    <3>1. \A e \in Creators : creator'[e] = q => creator[e] = q
      BY <1>1, <2>4 DEF OriginInv, RepositoryTypes
    <3> QED
      BY <2>1, <2>2, <3>1 DEF OneOrigin
  <2> QED
    BY <2>3, <2>4
<1> QED
  BY <1>3, <1>4 DEF OriginInv

\* What a creator inserts has no row yet, unless it was raced for.
LEMMA InsertKeepsOrigin ==
    ASSUME SecbugsAssumption, OriginInv, NEW c \in Creators, Insert(c)
    PROVE  OriginInv'
<1> DEFINE r == creator[c]
<1>1. /\ r \in Repositories /\ r # NoRepository
      /\ repos' = Append(repos, r)
      /\ creator' = [creator EXCEPT ![c] = NoRepository]
      /\ raced' = raced
  BY DEF Insert, OriginInv, RepositoryTypes
<1>2. repos \in Seq(Repositories)
  BY DEF OriginInv, RepositoryTypes
<1>3. RepositoryTypes'
  BY <1>1 DEF OriginInv, RepositoryTypes
<1>4. /\ DOMAIN repos' = DOMAIN repos \union {Len(repos) + 1}
      /\ \A i \in DOMAIN repos : repos'[i] = repos[i]
      /\ repos'[Len(repos) + 1] = r
  BY <1>1, <1>2
<1>5. \A e \in Creators, q \in Repositories :
          creator'[e] = q => creator[e] = q /\ e # c
  BY <1>1 DEF OriginInv, RepositoryTypes, SecbugsAssumption
<1>6. ASSUME NEW q \in Repositories \ raced'
      PROVE  OneOrigin(q)'
  <2>1. OneOrigin(q) /\ q \in Repositories
    BY <1>1 DEF OriginInv
  <2>2. CASE q = r
    <3>1. RowsOf(q) = {}
      BY <2>1, <2>2 DEF OneOrigin
    <3>2. RowsOf(q)' = {Len(repos) + 1}
      BY <1>4, <2>2, <3>1 DEF RowsOf, Ids
    <3>3. \A e \in Creators : creator'[e] # q
      BY <1>5, <2>1, <2>2 DEF OneOrigin
    <3> QED
      BY <3>2, <3>3 DEF OneOrigin
  <2>3. CASE q # r
    <3>1. RowsOf(q)' = RowsOf(q)
      BY <1>4, <2>3 DEF RowsOf, Ids
    <3> QED
      BY <1>5, <2>1, <3>1 DEF OneOrigin
  <2> QED
    BY <2>2, <2>3
<1> QED
  BY <1>3, <1>6 DEF OriginInv

LEMMA GiveUpKeepsOrigin ==
    ASSUME SecbugsAssumption, OriginInv, NEW c \in Creators, GiveUp(c)
    PROVE  OriginInv'
<1>1. /\ repos' = repos /\ raced' = raced
      /\ creator' = [creator EXCEPT ![c] = NoRepository]
  BY DEF GiveUp
<1>2. RepositoryTypes'
  BY <1>1 DEF OriginInv, RepositoryTypes
<1>3. \A e \in Creators, q \in Repositories :
          creator'[e] = q => creator[e] = q
  BY <1>1 DEF OriginInv, RepositoryTypes, SecbugsAssumption
<1>4. ASSUME NEW q \in Repositories \ raced'
      PROVE  OneOrigin(q)'
  <2>1. OneOrigin(q) /\ RowsOf(q)' = RowsOf(q)
    BY <1>1 DEF OriginInv, RowsOf, Ids
  <2> QED
    BY <1>3, <2>1 DEF OneOrigin
<1> QED
  BY <1>2, <1>4 DEF OriginInv

LEMMA OriginInvariant == Spec => []OriginInv
<1>1. Init => OriginInv
  <2> SUFFICES ASSUME Init PROVE OriginInv
    OBVIOUS
  <2>1. RepositoryTypes
    BY DEF Init, RepositoryTypes
  <2>2. \A r \in Repositories : OneOrigin(r)
    BY SecbugsAssumption DEF Init, OneOrigin, RowsOf, Ids, SecbugsAssumption
  <2> QED
    BY <2>1, <2>2 DEF OriginInv
<1>2. OriginInv /\ [Next]_vars => OriginInv'
  <2> SUFFICES ASSUME OriginInv, [Next]_vars PROVE OriginInv'
    OBVIOUS
  <2>1. CASE UNCHANGED <<repos, creator, raced>>
    <3>1. \A r \in Repositories : OneOrigin(r) <=> OneOrigin(r)'
      BY <2>1 DEF OneOrigin, RowsOf, Ids
    <3> QED
      BY <2>1, <3>1 DEF OriginInv, RepositoryTypes
  <2>2. CASE \E c \in Creators : Meet(c)
    BY <2>2, MeetKeepsOrigin, SecbugsAssumption
  <2>3. CASE \E c \in Creators : Insert(c)
    BY <2>3, InsertKeepsOrigin, SecbugsAssumption
  <2>4. CASE \E c \in Creators : GiveUp(c)
    BY <2>4, GiveUpKeepsOrigin, SecbugsAssumption
  <2>5. CASE Change \/ \E s \in Syncs : Start(s) \/ Work(s) \/ Fail(s)
    BY <2>1, <2>5, SyncsOnlyRead
  <2>6. CASE UNCHANGED vars
    BY <2>1, <2>6 DEF vars
  <2> QED
    BY <2>2, <2>3, <2>4, <2>5, <2>6 DEF Next
<1> QED
  BY <1>1, <1>2, PTL DEF Spec

\* get_or_create(Repository): however many processes create repositories, and
\* however they fail, one that no two of them met at once has one row at most,
\* so that one_or_none finds it.
THEOREM RepositoriesAreUnique == Spec => []OneRowPerRepository
<1>1. OriginInv => OneRowPerRepository
  <2> SUFFICES ASSUME OriginInv, NEW r \in Repositories \ raced
               PROVE  Cardinality(RowsOf(r)) <= 1
    BY DEF OneRowPerRepository
  <2>1. \A i, j \in RowsOf(r) : i = j
    BY DEF OriginInv, OneOrigin
  <2>2. CASE RowsOf(r) = {}
    BY <2>2, FS_EmptySet
  <2>3. CASE RowsOf(r) # {}
    <3>1. PICK i : RowsOf(r) = {i}
      BY <2>1, <2>3
    <3> QED
      BY <3>1, FS_Singleton
  <2> QED
    BY <2>2, <2>3
<1> QED
  BY <1>1, OriginInvariant, PTL

-----------------------------------------------------------------------------
(* What a run has heard, found and done.                                   *)

\* What a run heard of an issue is as Jira has it, or it is done with it.
Heard(e, b) ==
    /\ sync[e].pc = "delete" => (b \in sync[e].listed <=> jira[b] # NoData)
    /\ sync[e].pc \in {"next", "save"} => sync[e].todo[b] \in {jira[b], NoData}

\* An issue that is steady for a run is so for all that go on.
AllHeard == \A s, e \in Syncs : \A b \in sync[s].steady : Heard(e, b)

AllKnown == \A s \in Syncs : \A n \in sync[s].known : RowsNamed(n) # {}

\* The repository found is of the name of the issue; if there was none, no run
\* goes by a row of that name.
Found(e) ==
    sync[e].pc = "save" =>
        /\ sync[e].bug \in Bugs /\ sync[e].todo[sync[e].bug] # NoData
        /\ IF sync[e].found = NoId
           THEN \A s \in Syncs : sync[e].todo[sync[e].bug].name \notin sync[s].known
           ELSE NameOf[repos[sync[e].found]] = sync[e].todo[sync[e].bug].name

Done(s, b) ==
    \/ sync[s].pc = "ended"
    \/ sync[s].pc \in {"next", "save"} /\ sync[s].todo[b] = NoData

\* What a run is done with is mirrored.
Mirrored(s) ==
    \A b \in sync[s].steady :
        /\ sync[s].pc # "delete" /\ jira[b] = NoData => secbugs[b].state # "active"
        /\ Done(s, b) /\ jira[b] # NoData /\ jira[b].fields = "good"
               => Mirrors(b, sync[s].known)

AllFound == \A e \in Syncs : Found(e)
AllMirrored == \A s \in Syncs : Mirrored(s)

MirrorInv == TypeOK /\ AllHeard /\ AllKnown /\ AllFound /\ AllMirrored

-----------------------------------------------------------------------------
(* Types.                                                                  *)

RunSet ==
    [pc: {"idle", "ended", "delete", "second", "next", "save"},
     listed: SUBSET Bugs, todo: [Bugs -> Data \union {NoData}],
     bug: Bugs \union {NoBug}, found: Ids \union {NoId},
     steady: SUBSET Bugs, known: SUBSET Names]

LEMMA TypeParts ==
    TypeOK <=>
        /\ jira \in [Bugs -> Data \union {NoData}]
        /\ secbugs \in [Bugs -> Entries] /\ sync \in [Syncs -> RunSet]
        /\ \A s \in Syncs : sync[s].pc = "save" => sync[s].todo[sync[s].bug] # NoData
        /\ RepositoryTypes
        /\ changes \in 0..MaxChanges /\ failures \in 0..MaxFailures
BY DEF TypeOK, RunSet, RepositoryTypes

\* The runs but one are where they were.
Others(s) == \A e \in Syncs \ {s} : sync'[e] = sync[e]
Keeps(s) == sync'[s].steady = sync[s].steady /\ sync'[s].known = sync[s].known
GoesIdle(s) == sync'[s].pc = "idle" /\ sync'[s].steady = {} /\ sync'[s].known = {}

\* A step of a run, from its new record.
LEMMA RunTyped ==
    ASSUME TypeOK, NEW s \in Syncs, NEW t \in RunSet, sync' = [sync EXCEPT ![s] = t],
           t.pc = "save" => t.todo[t.bug] # NoData,
           UNCHANGED <<jira, repos, creator, raced, changes>>,
           secbugs' \in [Bugs -> Entries], failures' \in 0..MaxFailures
    PROVE  TypeOK' /\ sync'[s] = t /\ Others(s)
<1>1. sync \in [Syncs -> RunSet] /\ RepositoryTypes
  BY TypeParts
<1>2. /\ sync' \in [Syncs -> RunSet] /\ sync'[s] = t
      /\ \A e \in Syncs \ {s} : sync'[e] = sync[e]
  BY <1>1
<1>3. RunSet' = RunSet /\ Entries' = Entries
  BY DEF RunSet, Entries, Ids
<1>4. \A e \in Syncs : sync'[e].pc = "save" => sync'[e].todo[sync'[e].bug] # NoData
  BY <1>2, TypeParts
<1>5. RepositoryTypes'
  BY <1>1 DEF RepositoryTypes
<1>6. /\ jira' \in [Bugs -> Data \union {NoData}] /\ changes' \in 0..MaxChanges
  BY TypeParts
<1>7. TypeOK'
  BY <1>2, <1>3, <1>4, <1>5, <1>6 DEF TypeOK, RunSet, RepositoryTypes
<1> QED
  BY <1>2, <1>7 DEF Others

LEMMA IdleTyped ==
    /\ Idle \in RunSet /\ Idle.pc = "idle" /\ Idle.steady = {} /\ Idle.known = {}
    /\ Idle.todo = [b \in Bugs |-> NoData]
BY DEF Idle, RunSet

LEMMA FallsIdle ==
    ASSUME TypeOK, NEW s \in Syncs, sync' = [sync EXCEPT ![s] = Idle],
           UNCHANGED <<jira, secbugs, repos, creator, raced, changes>>,
           failures' \in 0..MaxFailures
    PROVE  TypeOK' /\ GoesIdle(s) /\ Others(s)
<1>1. secbugs' \in [Bugs -> Entries]
  BY TypeParts
<1> QED
  BY <1>1, IdleTyped, RunTyped DEF GoesIdle

LEMMA StartStep ==
    ASSUME TypeOK, NEW s \in Syncs, Start(s)
    PROVE  /\ TypeOK' /\ Others(s) /\ UNCHANGED <<jira, secbugs, repos>>
           /\ sync'[s].pc = "delete"
           /\ sync'[s].listed = {b \in Bugs : jira[b] # NoData}
           /\ sync'[s].steady \subseteq Bugs
           /\ \A e \in Syncs : Busy(e) => /\ sync'[s].steady \subseteq sync[e].steady
                                          /\ sync'[s].known \subseteq sync[e].known
           /\ \A n \in sync'[s].known : RowsNamed(n) # {}
           /\ ~Busy(s)
<1> DEFINE listed == {b \in Bugs : jira[b] # NoData}
           going == {e \in Syncs : Busy(e)}
           steady == {b \in Bugs : \A e \in going : b \in sync[e].steady}
           known == {n \in Names : /\ RowsNamed(n) # {}
                                   /\ \A e \in going : n \in sync[e].known}
           t == [Idle EXCEPT !.pc = "delete", !.listed = listed, !.steady = steady,
                             !.known = known]
<1>1. /\ sync' = [sync EXCEPT ![s] = t] /\ ~Busy(s)
      /\ UNCHANGED <<jira, secbugs, repos, creator, raced, changes, failures>>
  BY DEF Start
<1>2. listed \in SUBSET Bugs /\ steady \in SUBSET Bugs /\ known \in SUBSET Names
  OBVIOUS
<1>3. \A e \in Syncs : Busy(e) => steady \subseteq sync[e].steady /\ known \subseteq sync[e].known
  OBVIOUS
<1>4. \A n \in known : RowsNamed(n) # {}
  OBVIOUS
<1> HIDE DEF listed, steady, known
<1>5. /\ t \in RunSet /\ t.pc = "delete" /\ t.listed = listed
      /\ t.steady = steady /\ t.known = known
  BY <1>2 DEF Idle, RunSet
<1> HIDE DEF t
<1>6. secbugs' \in [Bugs -> Entries] /\ failures' \in 0..MaxFailures
  BY <1>1, TypeParts
<1>7. TypeOK' /\ sync'[s] = t /\ Others(s)
  BY <1>1, <1>5, <1>6, RunTyped
<1> QED
  BY <1>1, <1>2, <1>3, <1>4, <1>5, <1>7 DEF listed

LEMMA DeleteStep ==
    ASSUME TypeOK, NEW s \in Syncs, Delete(s)
    PROVE  /\ TypeOK' /\ Others(s) /\ UNCHANGED <<jira, repos>> /\ Keeps(s)
           /\ sync[s].pc = "delete" /\ sync'[s].pc = "second"
           /\ \A b \in Bugs :
                /\ secbugs'[b].repository = secbugs[b].repository
                /\ secbugs'[b].state =
                     IF secbugs[b].state = "active" /\ b \notin sync[s].listed
                     THEN "deleted" ELSE secbugs[b].state
<1> DEFINE t == [sync[s] EXCEPT !.pc = "second", !.listed = {}]
           new == [b \in Bugs |->
                      IF secbugs[b].state = "active" /\ b \notin sync[s].listed
                      THEN [secbugs[b] EXCEPT !.state = "deleted"] ELSE secbugs[b]]
<1>1. /\ sync[s] \in RunSet /\ secbugs \in [Bugs -> Entries] /\ sync \in [Syncs -> RunSet]
      /\ failures \in 0..MaxFailures
  BY TypeParts
<1>2. /\ t \in RunSet /\ t.pc = "second"
      /\ t.steady = sync[s].steady /\ t.known = sync[s].known
  BY <1>1 DEF RunSet
<1>3. /\ sync' = [sync EXCEPT ![s] = t] /\ sync[s].pc = "delete" /\ secbugs' = new
      /\ UNCHANGED <<jira, repos, creator, raced, changes, failures>>
  BY <1>1 DEF Delete, RunSet
<1>4. /\ new \in [Bugs -> Entries]
      /\ \A b \in Bugs :
           /\ new[b].repository = secbugs[b].repository
           /\ new[b].state = IF secbugs[b].state = "active" /\ b \notin sync[s].listed
                             THEN "deleted" ELSE secbugs[b].state
  BY <1>1 DEF Entries
<1> HIDE DEF t, new
<1>5. TypeOK' /\ sync'[s] = t /\ Others(s)
  BY <1>1, <1>2, <1>3, <1>4, RunTyped
<1> QED
  BY <1>2, <1>3, <1>4, <1>5 DEF Keeps

LEMMA SecondStep ==
    ASSUME TypeOK, NEW s \in Syncs, Second(s)
    PROVE  /\ TypeOK' /\ Others(s) /\ UNCHANGED <<jira, secbugs, repos>> /\ Keeps(s)
           /\ sync[s].pc = "second" /\ sync'[s].pc = "next" /\ sync'[s].todo = jira
<1> DEFINE t == [sync[s] EXCEPT !.pc = "next", !.todo = jira]
<1>1. /\ sync[s] \in RunSet /\ sync \in [Syncs -> RunSet] /\ secbugs \in [Bugs -> Entries]
      /\ jira \in [Bugs -> Data \union {NoData}] /\ failures \in 0..MaxFailures
  BY TypeParts
<1>2. /\ t \in RunSet /\ t.pc = "next" /\ t.todo = jira
      /\ t.steady = sync[s].steady /\ t.known = sync[s].known
  BY <1>1 DEF RunSet
<1>3. /\ sync' = [sync EXCEPT ![s] = t] /\ sync[s].pc = "second"
      /\ UNCHANGED <<jira, secbugs, repos, creator, raced, changes, failures>>
  BY <1>1 DEF Second, RunSet
<1> HIDE DEF t
<1>4. TypeOK' /\ sync'[s] = t /\ Others(s)
  BY <1>1, <1>2, <1>3, RunTyped
<1> QED
  BY <1>2, <1>3, <1>4 DEF Keeps

LEMMA ResolveStep ==
    ASSUME TypeOK, NEW s \in Syncs, Resolve(s)
    PROVE  /\ TypeOK' /\ Others(s) /\ UNCHANGED <<jira, secbugs, repos>>
           /\ sync[s].pc = "next"
           /\ \/ GoesIdle(s)
              \/ /\ Keeps(s) /\ sync'[s].pc = "save" /\ sync'[s].todo = sync[s].todo
                 /\ \E b \in Bugs :
                      LET data == sync[s].todo[b]
                      IN  /\ sync'[s].bug = b /\ data # NoData
                          /\ \/ sync'[s].found = NoId /\ Lookup(data) = {}
                             \/ sync'[s].found \in Lookup(data)
<1>1. /\ sync[s] \in RunSet /\ sync \in [Syncs -> RunSet] /\ secbugs \in [Bugs -> Entries]
      /\ failures \in 0..MaxFailures
  BY TypeParts
<1>2. /\ sync[s].pc = "next"
      /\ UNCHANGED <<jira, secbugs, repos, creator, raced, changes, failures>>
  BY DEF Resolve
<1>3. CASE sync' = [sync EXCEPT ![s] = Idle]
  BY <1>1, <1>2, <1>3, FallsIdle
<1>4. ASSUME NEW b \in Bugs, sync[s].todo[b] # NoData,
             NEW id \in Lookup(sync[s].todo[b]) \union {NoId},
             sync' = [sync EXCEPT ![s].pc = "save", ![s].bug = b, ![s].found = id]
      PROVE  /\ TypeOK' /\ Others(s) /\ Keeps(s)
             /\ sync'[s].pc = "save" /\ sync'[s].todo = sync[s].todo
             /\ sync'[s].bug = b /\ sync'[s].found = id
  <2> DEFINE t == [sync[s] EXCEPT !.pc = "save", !.bug = b, !.found = id]
  <2>1. id \in Ids \union {NoId}
    BY DEF Lookup, RowsNamed
  <2>2. /\ t \in RunSet /\ t.pc = "save" /\ t.todo = sync[s].todo
        /\ t.bug = b /\ t.found = id
        /\ t.steady = sync[s].steady /\ t.known = sync[s].known
    BY <1>1, <2>1 DEF RunSet
  <2>3. sync' = [sync EXCEPT ![s] = t]
    BY <1>1, <1>4 DEF RunSet
  <2> HIDE DEF t
  <2>4. secbugs' \in [Bugs -> Entries] /\ failures' \in 0..MaxFailures
    BY <1>1, <1>2
  <2>5. t.todo[t.bug] # NoData
    BY <1>4, <2>2
  <2>6. TypeOK' /\ sync'[s] = t /\ Others(s)
    BY <1>2, <2>2, <2>3, <2>4, <2>5, RunTyped
  <2> QED
    BY <2>2, <2>6 DEF Keeps
<1>5. \/ sync' = [sync EXCEPT ![s] = Idle]
      \/ \E b \in Bugs : \E id \in Lookup(sync[s].todo[b]) \union {NoId} :
           /\ sync[s].todo[b] # NoData
           /\ sync' = [sync EXCEPT ![s].pc = "save", ![s].bug = b, ![s].found = id]
           /\ id = NoId => Lookup(sync[s].todo[b]) = {}
  <2>1. NoId \notin Ids
    BY TypeParts, SecbugsAssumption DEF Ids, RepositoryTypes
  <2>2. \A b \in Bugs : \A id \in Lookup(sync[s].todo[b]) : id # NoId
    BY <2>1 DEF Lookup, RowsNamed
  <2> QED
    BY <2>2 DEF Resolve
<1>6. ASSUME NEW b \in Bugs, NEW id \in Lookup(sync[s].todo[b]) \union {NoId},
             sync[s].todo[b] # NoData,
             sync' = [sync EXCEPT ![s].pc = "save", ![s].bug = b, ![s].found = id],
             id = NoId => Lookup(sync[s].todo[b]) = {}
      PROVE  /\ TypeOK' /\ Others(s) /\ Keeps(s)
             /\ sync'[s].pc = "save" /\ sync'[s].todo = sync[s].todo
             /\ \E x \in Bugs :
                  LET data == sync[s].todo[x]
                  IN  /\ sync'[s].bug = x /\ data # NoData
                      /\ \/ sync'[s].found = NoId /\ Lookup(data) = {}
                         \/ sync'[s].found \in Lookup(data)
  BY <1>4, <1>6
<1> QED
  BY <1>2, <1>3, <1>5, <1>6

\* The bug at hand, as it was, or as the run writes it.
Leaves(s) == secbugs'[sync[s].bug] = secbugs[sync[s].bug]
Writes(s) ==
    /\ secbugs'[sync[s].bug].state = "active"
    /\ secbugs'[sync[s].bug].repository = sync[s].found

LEMMA ContinueTyped ==
    ASSUME TypeOK, NEW s \in Syncs, sync[s].pc = "save", Found(s), Continue(s),
           UNCHANGED <<jira, repos, creator, raced, changes, failures>>,
           \/ UNCHANGED secbugs
           \/ secbugs' = [secbugs EXCEPT ![sync[s].bug] = Written(@, sync[s].found)]
    PROVE  /\ TypeOK' /\ Others(s) /\ Keeps(s) /\ sync'[s].pc = "next"
           /\ \A b \in Bugs : sync'[s].todo[b] =
                  IF b = sync[s].bug THEN NoData ELSE sync[s].todo[b]
           /\ \A b \in Bugs \ {sync[s].bug} : secbugs'[b] = secbugs[b]
           /\ UNCHANGED secbugs \/ Writes(s)
           /\ secbugs' = [secbugs EXCEPT ![sync[s].bug] = Written(@, sync[s].found)]
                => Writes(s)
<1> DEFINE x == sync[s].bug
           todo == [sync[s].todo EXCEPT ![x] = NoData]
           t == [sync[s] EXCEPT !.pc = "next", !.bug = NoBug, !.found = NoId,
                                !.todo = todo]
<1>1. /\ sync[s] \in RunSet /\ sync \in [Syncs -> RunSet] /\ secbugs \in [Bugs -> Entries]
      /\ failures \in 0..MaxFailures /\ x \in Bugs /\ sync[s].found \in Ids \union {NoId}
  BY TypeParts DEF Found, RunSet
<1>2. /\ todo \in [Bugs -> Data \union {NoData}]
      /\ \A b \in Bugs : todo[b] = IF b = x THEN NoData ELSE sync[s].todo[b]
  BY <1>1 DEF RunSet
<1>3. sync' = [sync EXCEPT ![s] = t]
  BY <1>1 DEF Continue, RunSet
<1> HIDE DEF todo
<1>4. /\ t \in RunSet /\ t.pc = "next" /\ t.todo = todo
      /\ t.steady = sync[s].steady /\ t.known = sync[s].known
  BY <1>1, <1>2 DEF RunSet
<1> HIDE DEF t
<1>5. /\ secbugs' \in [Bugs -> Entries]
      /\ \A b \in Bugs \ {x} : secbugs'[b] = secbugs[b]
      /\ UNCHANGED secbugs \/ Writes(s)
      /\ secbugs' = [secbugs EXCEPT ![x] = Written(@, sync[s].found)] => Writes(s)
  <2> DEFINE new == [state |-> "active", repository |-> sync[s].found]
  <2>1. new \in Entries /\ new.state = "active" /\ new.repository = sync[s].found
    BY <1>1 DEF Entries
  <2>2. /\ UNCHANGED secbugs \/ secbugs' = [secbugs EXCEPT ![x] = new]
        /\ secbugs' = [secbugs EXCEPT ![x] = Written(@, sync[s].found)]
             => secbugs' = [secbugs EXCEPT ![x] = new]
    BY DEF Written
  <2> HIDE DEF new, x
  <2>3. ASSUME secbugs' = [secbugs EXCEPT ![x] = new]
        PROVE  /\ secbugs' \in [Bugs -> Entries] /\ Writes(s)
               /\ \A b \in Bugs \ {x} : secbugs'[b] = secbugs[b]
    <3>1. /\ secbugs' \in [Bugs -> Entries] /\ secbugs'[x] = new
          /\ \A b \in Bugs \ {x} : secbugs'[b] = secbugs[b]
      BY <1>1, <2>1, <2>3
    <3>2. Writes(s)
      BY <2>1, <3>1 DEF Writes, x
    <3> QED
      BY <3>1, <3>2
  <2>4. UNCHANGED secbugs => /\ secbugs' \in [Bugs -> Entries]
                             /\ \A b \in Bugs \ {x} : secbugs'[b] = secbugs[b]
    BY <1>1
  <2> QED
    BY <2>2, <2>3, <2>4
<1>6. TypeOK' /\ sync'[s] = t /\ Others(s)
  BY <1>1, <1>3, <1>4, <1>5, RunTyped
<1> QED
  BY <1>2, <1>4, <1>5, <1>6 DEF Keeps

LEMMA SaveStep ==
    ASSUME TypeOK, NEW s \in Syncs, Found(s), Update(s) \/ Create(s)
    PROVE  /\ TypeOK' /\ Others(s) /\ UNCHANGED <<jira, repos>> /\ sync[s].pc = "save"
           /\ \/ GoesIdle(s) /\ UNCHANGED secbugs
              \/ /\ Keeps(s) /\ sync'[s].pc = "next"
                 /\ \A b \in Bugs : sync'[s].todo[b] =
                        IF b = sync[s].bug THEN NoData ELSE sync[s].todo[b]
                 /\ \A b \in Bugs \ {sync[s].bug} : secbugs'[b] = secbugs[b]
                 /\ LET data == sync[s].todo[sync[s].bug]
                    IN  \/ Writes(s)
                        \/ Leaves(s) /\ data.fields = "long"
                        \/ /\ Leaves(s) /\ secbugs[sync[s].bug].state = "absent"
                           /\ data.name # NoName /\ sync[s].found = NoId
<1>1. /\ sync[s].pc = "save"
      /\ UNCHANGED <<jira, repos, creator, raced, changes, failures>>
  BY DEF Update, Create
<1>2. \/ sync' = [sync EXCEPT ![s] = Idle] /\ UNCHANGED secbugs
      \/ /\ Continue(s)
         /\ \/ secbugs' = [secbugs EXCEPT ![sync[s].bug] = Written(@, sync[s].found)]
            \/ UNCHANGED secbugs /\ sync[s].todo[sync[s].bug].fields = "long"
            \/ /\ UNCHANGED secbugs /\ secbugs[sync[s].bug].state = "absent"
               /\ sync[s].todo[sync[s].bug].name # NoName /\ sync[s].found = NoId
  BY DEF Update, Create
<1>3. CASE sync' = [sync EXCEPT ![s] = Idle] /\ UNCHANGED secbugs
  <2>1. failures' \in 0..MaxFailures
    BY <1>1, TypeParts
  <2> QED
    BY <1>1, <1>3, <2>1, FallsIdle
<1>4. CASE Continue(s) /\ UNCHANGED secbugs
  <2>1. Leaves(s)
    BY <1>4 DEF Leaves
  <2>2. \/ sync' = [sync EXCEPT ![s] = Idle] \/ Writes(s)
        \/ sync[s].todo[sync[s].bug].fields = "long"
        \/ /\ secbugs[sync[s].bug].state = "absent"
           /\ sync[s].todo[sync[s].bug].name # NoName /\ sync[s].found = NoId
    BY <1>1, <1>2, <1>4, ContinueTyped
  <2> QED
    BY <1>1, <1>3, <1>4, <2>1, <2>2, ContinueTyped
<1>5. CASE /\ Continue(s)
           /\ secbugs' = [secbugs EXCEPT ![sync[s].bug] = Written(@, sync[s].found)]
  BY <1>1, <1>5, ContinueTyped
<1> QED
  BY <1>2, <1>3, <1>4, <1>5

LEMMA EndStep ==
    ASSUME TypeOK, NEW s \in Syncs, End(s)
    PROVE  /\ TypeOK' /\ Others(s) /\ UNCHANGED <<jira, secbugs, repos>> /\ Keeps(s)
           /\ sync[s].pc = "next" /\ sync'[s].pc = "ended"
           /\ \A b \in Bugs : sync[s].todo[b] = NoData
<1> DEFINE t == [sync[s] EXCEPT !.pc = "ended"]
<1>1. /\ sync[s] \in RunSet /\ sync \in [Syncs -> RunSet] /\ secbugs \in [Bugs -> Entries]
      /\ failures \in 0..MaxFailures
  BY TypeParts
<1>2. t \in RunSet /\ t.pc = "ended" /\ t.steady = sync[s].steady /\ t.known = sync[s].known
  BY <1>1 DEF RunSet
<1>3. /\ sync' = [sync EXCEPT ![s] = t] /\ sync[s].pc = "next"
      /\ sync[s].todo = [b \in Bugs |-> NoData]
      /\ UNCHANGED <<jira, secbugs, repos, creator, raced, changes, failures>>
  BY <1>1, IdleTyped DEF End, RunSet
<1> HIDE DEF t
<1>4. TypeOK' /\ sync'[s] = t /\ Others(s)
  BY <1>1, <1>2, <1>3, RunTyped
<1>5. \A b \in Bugs : sync[s].todo[b] = NoData
  BY <1>3
<1> QED
  BY <1>2, <1>3, <1>4, <1>5 DEF Keeps

LEMMA FailStep ==
    ASSUME TypeOK, NEW s \in Syncs, Fail(s)
    PROVE  TypeOK' /\ Others(s) /\ UNCHANGED <<jira, secbugs, repos>> /\ GoesIdle(s)
<1>1. failures' \in 0..MaxFailures
  BY TypeParts, SecbugsAssumption DEF Fail
<1> QED
  BY <1>1, FallsIdle DEF Fail

LEMMA ChangeStep ==
    ASSUME TypeOK, Change
    PROVE  /\ TypeOK' /\ UNCHANGED <<secbugs, repos>>
           /\ \E b \in Bugs :
                /\ \A x \in Bugs \ {b} : jira'[x] = jira[x]
                /\ \A e \in Syncs : /\ sync'[e].steady = sync[e].steady \ {b}
                                    /\ sync'[e].known = sync[e].known
                                    /\ sync'[e].pc = sync[e].pc
                                    /\ sync'[e].listed = sync[e].listed
                                    /\ sync'[e].todo = sync[e].todo
                                    /\ sync'[e].bug = sync[e].bug
                                    /\ sync'[e].found = sync[e].found
<1>1. PICK b \in Bugs, issue \in Data \union {NoData} :
        /\ jira' = [jira EXCEPT ![b] = issue]
        /\ sync' = [s \in Syncs |-> [sync[s] EXCEPT !.steady = @ \ {b}]]
  BY DEF Change
<1>2. /\ UNCHANGED <<secbugs, repos, creator, raced, failures>>
      /\ changes' \in 0..MaxChanges
  BY TypeParts, SecbugsAssumption DEF Change
<1>3. /\ jira' \in [Bugs -> Data \union {NoData}]
      /\ \A x \in Bugs \ {b} : jira'[x] = jira[x]
  BY <1>1, TypeParts
<1>4. ASSUME NEW e \in Syncs
      PROVE  /\ sync'[e] \in RunSet
             /\ sync'[e].steady = sync[e].steady \ {b}
             /\ sync'[e].known = sync[e].known /\ sync'[e].pc = sync[e].pc
             /\ sync'[e].listed = sync[e].listed /\ sync'[e].todo = sync[e].todo
             /\ sync'[e].bug = sync[e].bug /\ sync'[e].found = sync[e].found
  <2> DEFINE t == [sync[e] EXCEPT !.steady = @ \ {b}]
  <2>1. sync[e] \in RunSet
    BY TypeParts
  <2>2. /\ t \in RunSet /\ t.steady = sync[e].steady \ {b}
        /\ t.known = sync[e].known /\ t.pc = sync[e].pc
        /\ t.listed = sync[e].listed /\ t.todo = sync[e].todo
        /\ t.bug = sync[e].bug /\ t.found = sync[e].found
    BY <2>1 DEF RunSet
  <2>3. sync'[e] = t
    BY <1>1
  <2> HIDE DEF t
  <2> QED
    BY <2>2, <2>3
<1>5. RunSet' = RunSet /\ Entries' = Entries
  BY <1>2 DEF RunSet, Entries, Ids
<1>6. sync' \in [Syncs -> RunSet]
  <2>1. sync' = [e \in Syncs |-> sync'[e]]
    BY <1>1
  <2> QED
    BY <1>4, <2>1
<1>7. RepositoryTypes' /\ secbugs' \in [Bugs -> Entries] /\ failures' \in 0..MaxFailures
  BY <1>2, TypeParts DEF RepositoryTypes
<1>8. \A e \in Syncs : sync'[e].pc = "save" => sync'[e].todo[sync'[e].bug] # NoData
  BY <1>4, TypeParts
<1>9. TypeOK'
  BY <1>2, <1>3, <1>5, <1>6, <1>7, <1>8 DEF TypeOK, RunSet, RepositoryTypes
<1> QED
  BY <1>2, <1>3, <1>4, <1>9

\* Rows of repositories are only added.
ReposGrow == Ids \subseteq Ids' /\ \A i \in Ids : repos'[i] = repos[i]

LEMMA CreatorStep ==
    ASSUME TypeOK, NEW c \in Creators, Meet(c) \/ Insert(c) \/ GiveUp(c)
    PROVE  TypeOK' /\ UNCHANGED <<jira, secbugs, sync>> /\ ReposGrow
<1>1. UNCHANGED <<jira, secbugs, sync, changes, failures>>
  BY DEF Meet, Insert, GiveUp
<1>2. RepositoryTypes
  BY TypeParts
<1>3. RepositoryTypes' /\ ReposGrow
  <2>1. CASE Meet(c) \/ GiveUp(c)
    <3>1. /\ repos' = repos /\ raced' \subseteq Repositories
          /\ \E r \in Repositories \union {NoRepository} :
                 creator' = [creator EXCEPT ![c] = r]
      BY <1>2, <2>1 DEF Meet, GiveUp, RepositoryTypes
    <3>2. creator' \in [Creators -> Repositories \union {NoRepository}]
      BY <1>2, <3>1 DEF RepositoryTypes
    <3> QED
      BY <1>2, <3>1, <3>2 DEF RepositoryTypes, ReposGrow, Ids
  <2>2. CASE Insert(c)
    <3>1. /\ repos' = Append(repos, creator[c]) /\ creator[c] \in Repositories
          /\ creator' = [creator EXCEPT ![c] = NoRepository] /\ raced' = raced
      BY <1>2, <2>2 DEF Insert, RepositoryTypes
    <3>2. repos' \in Seq(Repositories) /\ ReposGrow
      BY <1>2, <3>1 DEF RepositoryTypes, ReposGrow, Ids
    <3> QED
      BY <1>2, <3>1, <3>2 DEF RepositoryTypes
  <2> QED
    BY <2>1, <2>2
<1>4. RunSet \subseteq RunSet' /\ Entries \subseteq Entries'
  BY <1>3 DEF RunSet, Entries, ReposGrow
<1>5. /\ sync' \in [Syncs -> RunSet'] /\ secbugs' \in [Bugs -> Entries']
      /\ jira' \in [Bugs -> Data \union {NoData}]
      /\ \A e \in Syncs : sync'[e].pc = "save" => sync'[e].todo[sync'[e].bug] # NoData
      /\ changes' \in 0..MaxChanges /\ failures' \in 0..MaxFailures
  BY <1>1, <1>4, TypeParts
<1>6. TypeOK'
  BY <1>3, <1>5 DEF TypeOK, RunSet, RepositoryTypes
<1> QED
  BY <1>1, <1>3, <1>6

-----------------------------------------------------------------------------
(* What runs have mirrored stays mirrored.                                 *)

\* A step of a run, which forgets what it goes by or keeps it.
Shrinks(s) ==
    /\ Others(s) /\ UNCHANGED <<jira, repos>>
    /\ \A e \in Syncs : /\ sync'[e].steady \subseteq sync[e].steady
                        /\ sync'[e].known \subseteq sync[e].known

LEMMA StepShrinks ==
    ASSUME NEW s \in Syncs, Others(s), UNCHANGED <<jira, repos>>, Keeps(s) \/ GoesIdle(s)
    PROVE  Shrinks(s)
BY DEF Shrinks, Others, Keeps, GoesIdle

LEMMA Steady ==
    ASSUME TypeOK, NEW s \in Syncs
    PROVE  sync[s].steady \subseteq Bugs /\ sync[s].known \subseteq Names
BY TypeParts DEF RunSet

LEMMA HeardKept ==
    ASSUME TypeOK, AllHeard, NEW s \in Syncs, Shrinks(s),
           \A b \in Bugs : Heard(s, b) => Heard(s, b)'
    PROVE  AllHeard'
<1> SUFFICES ASSUME NEW e \in Syncs, NEW k \in Syncs, NEW b \in sync'[e].steady
             PROVE  Heard(k, b)'
  BY DEF AllHeard
<1>1. b \in sync[e].steady /\ b \in Bugs
  BY Steady DEF Shrinks
<1>2. Heard(k, b)
  BY <1>1 DEF AllHeard
<1>3. CASE k = s
  BY <1>1, <1>2, <1>3
<1>4. CASE k # s
  BY <1>2, <1>4 DEF Heard, Shrinks, Others
<1> QED
  BY <1>3, <1>4

LEMMA KnownKept ==
    ASSUME AllKnown, NEW s \in Syncs, Shrinks(s)
    PROVE  AllKnown'
BY DEF AllKnown, Shrinks, RowsNamed, Ids

LEMMA FoundKept ==
    ASSUME AllFound, NEW s \in Syncs, Shrinks(s), Found(s)'
    PROVE  AllFound'
<1> SUFFICES ASSUME NEW e \in Syncs \ {s} PROVE Found(e)'
  BY DEF AllFound
<1>1. Found(e) /\ sync'[e] = sync[e] /\ repos' = repos
  BY DEF AllFound, Shrinks, Others
<1> QED
  BY <1>1 DEF Found, Shrinks

\* What the step does to the row of a bug.
StaysInactive(b) == secbugs[b].state # "active" => secbugs'[b].state # "active"

LEMMA UnchangedRow ==
    ASSUME NEW b, secbugs'[b] = secbugs[b], UNCHANGED <<jira, repos>>
    PROVE  StaysInactive(b) /\ \A known : Mirrors(b, known) => Mirrors(b, known)'
<1>1. StaysInactive(b)
  BY DEF StaysInactive
<1>2. ASSUME NEW known, Mirrors(b, known) PROVE Mirrors(b, known)'
  BY <1>2 DEF Mirrors
<1> QED
  BY <1>1, <1>2

\* Of an issue that is steady, a deletion leaves what is open.
LEMMA DeletedRow ==
    ASSUME TypeOK, NEW s \in Syncs, Delete(s), NEW b \in Bugs, Heard(s, b)
    PROVE  /\ StaysInactive(b)
           /\ jira[b] = NoData => secbugs'[b].state # "active"
           /\ jira[b] # NoData =>
                  \A known : Mirrors(b, known) => Mirrors(b, known)'
<1>1. /\ secbugs'[b].repository = secbugs[b].repository
      /\ secbugs'[b].state = IF secbugs[b].state = "active" /\ b \notin sync[s].listed
                             THEN "deleted" ELSE secbugs[b].state
      /\ UNCHANGED <<jira, repos>> /\ (b \in sync[s].listed <=> jira[b] # NoData)
  BY DeleteStep DEF Heard
<1>2. StaysInactive(b) /\ (jira[b] = NoData => secbugs'[b].state # "active")
  BY <1>1 DEF StaysInactive
<1>3. ASSUME jira[b] # NoData, NEW known, Mirrors(b, known)
      PROVE  Mirrors(b, known)'
  <2>1. secbugs'[b].state = secbugs[b].state
    BY <1>1, <1>3
  <2> QED
    BY <1>1, <1>3, <2>1 DEF Mirrors
<1> QED
  BY <1>2, <1>3

\* And what is written is what Jira says.
LEMMA SavedRow ==
    ASSUME TypeOK, NEW s \in Syncs, Found(s), Update(s) \/ Create(s), ~GoesIdle(s),
           NEW b, b = sync[s].bug, Heard(s, b), NEW e \in Syncs
    PROVE  /\ jira[b] # NoData
           /\ \A known : known = sync[e].known /\ jira[b].fields = "good"
                  => Mirrors(b, known)'
<1>1. /\ b \in Bugs /\ sync[s].pc = "save" /\ sync[s].todo[b] = jira[b]
      /\ jira[b] # NoData /\ UNCHANGED <<jira, repos>>
  BY SaveStep DEF Found, Heard
<1> SUFFICES ASSUME NEW known, known = sync[e].known, jira[b].fields = "good"
             PROVE  Mirrors(b, known)'
  BY <1>1
<1>2. IF sync[s].found = NoId THEN jira[b].name \notin known
                              ELSE NameOf[repos[sync[s].found]] = jira[b].name
  BY <1>1 DEF Found
<1>3. \/ Writes(s)
      \/ /\ Leaves(s) /\ secbugs[b].state = "absent"
         /\ jira[b].name # NoName /\ sync[s].found = NoId
  <2>1. jira[b].fields # "long"
    OBVIOUS
  <2> QED
    BY <1>1, <2>1, SaveStep
<1>4. CASE Writes(s)
  BY <1>1, <1>2, <1>4 DEF Writes, Mirrors
<1>5. CASE /\ Leaves(s) /\ secbugs[b].state = "absent"
           /\ jira[b].name # NoName /\ sync[s].found = NoId
  BY <1>1, <1>2, <1>5 DEF Leaves, Mirrors
<1> QED
  BY <1>3, <1>4, <1>5

LEMMA StepRow ==
    ASSUME MirrorInv, NEW s \in Syncs, Start(s) \/ Work(s) \/ Fail(s),
           NEW e \in Syncs, NEW b \in sync[e].steady
    PROVE  /\ jira[b] = NoData => StaysInactive(b)
           /\ \A known : /\ jira[b] # NoData /\ jira[b].fields = "good"
                         /\ known = sync[e].known /\ Mirrors(b, known)
                  => Mirrors(b, known)'
<1>1. TypeOK /\ Found(s) /\ Heard(s, b) /\ b \in Bugs
  BY Steady DEF MirrorInv, AllFound, AllHeard
<1>2. CASE Start(s) \/ Second(s) \/ Resolve(s) \/ End(s) \/ Fail(s)
  <2>1. UNCHANGED <<jira, secbugs, repos>>
    BY <1>2 DEF Start, Second, Resolve, End, Fail
  <2> QED
    BY <2>1, UnchangedRow
<1>3. CASE Delete(s)
  BY <1>1, <1>3, DeletedRow
<1>4. CASE Update(s) \/ Create(s)
  <2>1. CASE GoesIdle(s) \/ b # sync[s].bug
    <3>1. secbugs'[b] = secbugs[b] /\ UNCHANGED <<jira, repos>>
      <4>1. GoesIdle(s) => sync'[s].pc # "next"
        BY DEF GoesIdle
      <4> QED
        BY <1>1, <1>4, <2>1, <4>1, SaveStep
    <3> QED
      BY <3>1, UnchangedRow
  <2>2. CASE ~GoesIdle(s) /\ b = sync[s].bug
    BY <1>1, <1>4, <2>2, SavedRow
  <2> QED
    BY <2>1, <2>2
<1> QED
  BY <1>2, <1>3, <1>4 DEF Work

LEMMA OthersMirrored ==
    ASSUME MirrorInv, NEW s \in Syncs, Start(s) \/ Work(s) \/ Fail(s),
           Others(s), UNCHANGED <<jira, repos>>, NEW e \in Syncs \ {s}
    PROVE  Mirrored(e)'
<1>1. sync'[e] = sync[e] /\ Mirrored(e)
  BY DEF Others, MirrorInv, AllMirrored
<1> SUFFICES ASSUME NEW b \in sync[e].steady, NEW known, known = sync[e].known
             PROVE  /\ sync[e].pc # "delete" /\ jira[b] = NoData
                           => secbugs'[b].state # "active"
                    /\ Done(e, b) /\ jira[b] # NoData /\ jira[b].fields = "good"
                           => Mirrors(b, known)'
  BY <1>1 DEF Mirrored, Done, Mirrors
<1>2. /\ sync[e].pc # "delete" /\ jira[b] = NoData => secbugs[b].state # "active"
      /\ Done(e, b) /\ jira[b] # NoData /\ jira[b].fields = "good" => Mirrors(b, known)
  BY <1>1 DEF Mirrored
<1> QED
  BY <1>2, StepRow DEF StaysInactive

\* A run that is done with an issue, at once or since before.
LEMMA OwnMirrored ==
    ASSUME MirrorInv, NEW s \in Syncs, Work(s) \/ Fail(s)
    PROVE  Mirrored(s)'
<1>1. TypeOK /\ Found(s) /\ Mirrored(s)
  BY DEF MirrorInv, AllFound, AllMirrored
<1>2. CASE GoesIdle(s)
  BY <1>2 DEF GoesIdle, Mirrored
<1>3. CASE ~GoesIdle(s)
  <2>1. Keeps(s) /\ UNCHANGED <<jira, repos>> /\ sync[s].pc \notin {"idle", "ended"}
    BY <1>1, <1>3, DeleteStep, SecondStep, ResolveStep, SaveStep, EndStep, FailStep
       DEF Work
  <2> SUFFICES ASSUME NEW b \in sync[s].steady, NEW known, known = sync[s].known
               PROVE  /\ jira[b] = NoData => secbugs'[b].state # "active"
                      /\ Done(s, b)' /\ jira[b] # NoData /\ jira[b].fields = "good"
                             => Mirrors(b, known)'
    BY <2>1 DEF Mirrored, Keeps, Done, Mirrors
  <2>2. b \in Bugs /\ Heard(s, b)
    BY <1>1, Steady DEF MirrorInv, AllHeard
  <2>3. jira[b] = NoData => secbugs'[b].state # "active"
    <3>1. CASE Delete(s)
      BY <1>1, <2>2, <3>1, DeletedRow
    <3>2. CASE sync[s].pc # "delete"
      BY <1>1, <3>2, StepRow DEF Mirrored, StaysInactive
    <3> QED
      BY <1>1, <1>3, <3>1, <3>2, SecondStep, ResolveStep, SaveStep, EndStep, FailStep
         DEF Work
  <2>4. ASSUME Done(s, b)', jira[b] # NoData, jira[b].fields = "good"
        PROVE  Done(s, b) \/ ((Update(s) \/ Create(s)) /\ b = sync[s].bug)
    <3>1. CASE Delete(s)
      BY <1>1, <2>4, <3>1, DeleteStep DEF Done
    <3>2. CASE Second(s)
      BY <1>1, <2>1, <2>4, <3>2, SecondStep DEF Done
    <3>3. CASE Resolve(s)
      BY <1>1, <1>3, <2>4, <3>3, ResolveStep DEF Done
    <3>4. CASE Update(s) \/ Create(s)
      BY <1>1, <1>3, <2>2, <2>4, <3>4, SaveStep DEF Done
    <3>5. CASE End(s)
      BY <1>1, <2>2, <3>5, EndStep DEF Done
    <3> QED
      BY <1>1, <1>3, <3>1, <3>2, <3>3, <3>4, <3>5, FailStep DEF Work
  <2>5. ASSUME Done(s, b)', jira[b] # NoData, jira[b].fields = "good"
        PROVE  Mirrors(b, known)'
    <3>1. CASE Done(s, b)
      BY <1>1, <2>5, <3>1, StepRow DEF Mirrored
    <3>2. CASE (Update(s) \/ Create(s)) /\ b = sync[s].bug
      BY <1>1, <1>3, <2>2, <2>5, <3>2, SavedRow
    <3> QED
      BY <2>4, <2>5, <3>1, <3>2
  <2> QED
    BY <2>3, <2>5
<1> QED
  BY <1>2, <1>3

LEMMA StepFound ==
    ASSUME MirrorInv, NEW s \in Syncs, Start(s) \/ Work(s) \/ Fail(s)
    PROVE  Found(s)'
<1>1. TypeOK /\ Found(s) /\ AllKnown
  BY DEF MirrorInv, AllFound
<1>2. CASE ~Resolve(s) \/ GoesIdle(s)
  <2>1. sync'[s].pc # "save"
    BY <1>1, <1>2, StartStep, DeleteStep, SecondStep, SaveStep, EndStep, FailStep
       DEF Work, GoesIdle
  <2> QED
    BY <2>1 DEF Found
<1>3. CASE Resolve(s) /\ ~GoesIdle(s)
  <2>1. PICK b \in Bugs :
          /\ sync'[s].bug = b /\ sync[s].todo[b] # NoData
          /\ \/ sync'[s].found = NoId /\ Lookup(sync[s].todo[b]) = {}
             \/ sync'[s].found \in Lookup(sync[s].todo[b])
    BY <1>1, <1>3, ResolveStep
  <2>2. /\ Others(s) /\ Keeps(s) /\ repos' = repos /\ sync'[s].todo = sync[s].todo
    BY <1>1, <1>3, ResolveStep
  <2>3. \A e \in Syncs : sync'[e].known = sync[e].known
    BY <2>2 DEF Others, Keeps
  <2> DEFINE data == sync[s].todo[b]
  <2>4. CASE Lookup(data) = {} /\ sync'[s].found = NoId
    <3>1. \A e \in Syncs : data.name \notin sync[e].known
      <4> SUFFICES ASSUME NEW e \in Syncs, data.name \in sync[e].known PROVE FALSE
        OBVIOUS
      <4>1. data.name \in Names /\ RowsNamed(data.name) # {}
        BY <1>1, Steady DEF AllKnown
      <4> QED
        BY <2>4, <4>1, SecbugsAssumption DEF Lookup
    <3> QED
      BY <2>1, <2>2, <2>3, <2>4, <3>1 DEF Found
  <2>5. CASE sync'[s].found \in Lookup(data)
    <3>1. NameOf[repos[sync'[s].found]] = data.name /\ sync'[s].found # NoId
      <4>1. NoId \notin Ids
        BY <1>1, TypeParts, SecbugsAssumption DEF Ids, RepositoryTypes
      <4> QED
        BY <2>5, <4>1 DEF Lookup, RowsNamed
    <3> QED
      BY <2>1, <2>2, <3>1 DEF Found
  <2> QED
    BY <2>1, <2>4, <2>5
<1> QED
  BY <1>2, <1>3

LEMMA WorkKept ==
    ASSUME MirrorInv, NEW s \in Syncs, Work(s) \/ Fail(s)
    PROVE  MirrorInv'
<1>1. TypeOK /\ Found(s) /\ AllHeard /\ AllKnown /\ AllFound
  BY DEF MirrorInv, AllFound
<1>2. TypeOK' /\ Others(s) /\ UNCHANGED <<jira, repos>> /\ (Keeps(s) \/ GoesIdle(s))
  BY <1>1, DeleteStep, SecondStep, ResolveStep, SaveStep, EndStep, FailStep DEF Work
<1>3. Shrinks(s)
  BY <1>2, StepShrinks
<1>4. ASSUME NEW b \in Bugs, Heard(s, b) PROVE Heard(s, b)'
  <2>1. CASE GoesIdle(s)
    BY <2>1 DEF GoesIdle, Heard
  <2>2. CASE Delete(s) \/ End(s)
    BY <1>1, <2>2, DeleteStep, EndStep DEF Heard
  <2>3. CASE Second(s)
    BY <1>1, <1>2, <2>3, SecondStep DEF Heard
  <2>4. CASE Resolve(s) /\ ~GoesIdle(s)
    BY <1>1, <1>2, <1>4, <2>4, ResolveStep DEF Heard
  <2>5. CASE (Update(s) \/ Create(s)) /\ ~GoesIdle(s)
    BY <1>1, <1>2, <1>4, <2>5, SaveStep DEF Heard
  <2> QED
    BY <1>1, <2>1, <2>2, <2>3, <2>4, <2>5, FailStep DEF Work
<1>5. AllHeard' /\ AllKnown' /\ AllFound'
  BY <1>1, <1>3, <1>4, HeardKept, KnownKept, FoundKept, StepFound
<1>6. AllMirrored'
  BY <1>2, OthersMirrored, OwnMirrored DEF AllMirrored
<1> QED
  BY <1>2, <1>5, <1>6 DEF MirrorInv

LEMMA StartKept ==
    ASSUME MirrorInv, NEW s \in Syncs, Start(s)
    PROVE  MirrorInv'
<1>1. /\ TypeOK /\ AllHeard /\ AllKnown /\ AllFound
  BY DEF MirrorInv
<1>2. /\ TypeOK' /\ Others(s) /\ UNCHANGED <<jira, secbugs, repos>>
      /\ sync'[s].pc = "delete" /\ ~Busy(s)
      /\ sync'[s].listed = {b \in Bugs : jira[b] # NoData}
      /\ sync'[s].steady \subseteq Bugs
      /\ \A e \in Syncs : Busy(e) => /\ sync'[s].steady \subseteq sync[e].steady
                                     /\ sync'[s].known \subseteq sync[e].known
      /\ \A n \in sync'[s].known : RowsNamed(n) # {}
  BY <1>1, StartStep
<1>3. AllHeard'
  <2> SUFFICES ASSUME NEW e \in Syncs, NEW k \in Syncs, NEW b \in sync'[e].steady
               PROVE  Heard(k, b)'
    BY DEF AllHeard
  <2>1. b \in Bugs
    BY <1>1, <1>2, Steady DEF Others
  <2>2. CASE k = s
    BY <1>2, <2>1, <2>2 DEF Heard
  <2>3. CASE k # s
    <3>1. sync'[k] = sync[k] /\ jira' = jira
      BY <1>2, <2>3 DEF Others
    <3>2. CASE Busy(k)
      <4>1. b \in sync[e].steady \/ b \in sync[k].steady
        BY <1>2, <3>2 DEF Others
      <4>2. Heard(k, b)
        BY <1>1, <4>1 DEF AllHeard
      <4> QED
        BY <3>1, <4>2 DEF Heard
    <3>3. CASE ~Busy(k)
      BY <3>1, <3>3 DEF Busy, Heard
    <3> QED
      BY <3>2, <3>3
  <2> QED
    BY <2>2, <2>3
<1>4. AllKnown'
  <2> SUFFICES ASSUME NEW e \in Syncs, NEW n \in sync'[e].known PROVE RowsNamed(n)' # {}
    BY DEF AllKnown
  <2>1. RowsNamed(n)' = RowsNamed(n)
    BY <1>2 DEF RowsNamed, Ids
  <2> QED
    BY <1>1, <1>2, <2>1 DEF AllKnown, Others
<1>5. AllFound'
  <2> SUFFICES ASSUME NEW e \in Syncs \ {s}, sync[e].pc = "save" PROVE Found(e)'
    BY <1>2 DEF AllFound, Found, Others
  <2>1. /\ sync'[e] = sync[e] /\ Found(e) /\ repos' = repos
        /\ sync'[s].known \subseteq sync[e].known
    BY <1>1, <1>2 DEF AllFound, Others, Busy
  <2>2. \A k \in Syncs : sync'[k].known \subseteq sync[k].known
                         \/ sync'[k].known \subseteq sync[e].known
    BY <1>2, <2>1 DEF Others
  <2> QED
    BY <2>1, <2>2 DEF Found
<1>6. AllMirrored'
  <2>1. Mirrored(s)'
    BY <1>2 DEF Mirrored, Done
  <2> QED
    BY <1>2, <2>1, OthersMirrored DEF AllMirrored
<1> QED
  BY <1>2, <1>3, <1>4, <1>5, <1>6 DEF MirrorInv

\* An issue that changes is no longer steady for any run.
LEMMA ChangeKept == ASSUME MirrorInv, Change PROVE MirrorInv'
<1>1. TypeOK /\ AllHeard /\ AllKnown /\ AllFound /\ AllMirrored
  BY DEF MirrorInv
<1>2. PICK b \in Bugs :
        /\ \A x \in Bugs \ {b} : jira'[x] = jira[x]
        /\ \A e \in Syncs : /\ sync'[e].steady = sync[e].steady \ {b}
                            /\ sync'[e].known = sync[e].known
                            /\ sync'[e].pc = sync[e].pc
                            /\ sync'[e].listed = sync[e].listed
                            /\ sync'[e].todo = sync[e].todo
                            /\ sync'[e].bug = sync[e].bug
                            /\ sync'[e].found = sync[e].found
  BY <1>1, ChangeStep
<1>3. TypeOK' /\ secbugs' = secbugs /\ repos' = repos
  BY <1>1, ChangeStep
<1>4. \A e \in Syncs : \A x \in sync'[e].steady :
          x \in sync[e].steady /\ jira'[x] = jira[x]
  BY <1>1, <1>2, Steady
<1>5. AllHeard'
  <2> SUFFICES ASSUME NEW e \in Syncs, NEW k \in Syncs, NEW x \in sync'[e].steady
               PROVE  Heard(k, x)'
    BY DEF AllHeard
  <2>1. Heard(k, x) /\ jira'[x] = jira[x]
    BY <1>1, <1>4 DEF AllHeard
  <2> QED
    BY <1>2, <2>1 DEF Heard
<1>6. AllKnown' /\ AllFound'
  BY <1>1, <1>2, <1>3 DEF AllKnown, RowsNamed, Ids, AllFound, Found
<1>7. ASSUME NEW e \in Syncs PROVE Mirrored(e)'
  <2> SUFFICES ASSUME NEW x \in sync'[e].steady, NEW known, known = sync[e].known
               PROVE  /\ sync[e].pc # "delete" /\ jira[x] = NoData
                             => secbugs[x].state # "active"
                      /\ Done(e, x) /\ jira[x] # NoData /\ jira[x].fields = "good"
                             => Mirrors(x, known)
    BY <1>2, <1>3, <1>4 DEF Mirrored, Done, Mirrors
  <2> QED
    BY <1>1, <1>4 DEF AllMirrored, Mirrored
<1> QED
  BY <1>3, <1>5, <1>6, <1>7 DEF MirrorInv, AllMirrored

LEMMA CreatorKept ==
    ASSUME MirrorInv, NEW c \in Creators, Meet(c) \/ Insert(c) \/ GiveUp(c)
    PROVE  MirrorInv'
<1>1. TypeOK /\ AllHeard /\ AllKnown /\ AllFound /\ AllMirrored
  BY DEF MirrorInv
<1>2. TypeOK' /\ UNCHANGED <<jira, secbugs, sync>> /\ ReposGrow
  BY <1>1, CreatorStep
<1>3. AllHeard'
  BY <1>1, <1>2 DEF AllHeard, Heard
<1>4. AllKnown'
  <2>1. \A n : RowsNamed(n) \subseteq RowsNamed(n)'
    BY <1>2 DEF ReposGrow, RowsNamed
  <2> QED
    BY <1>1, <1>2, <2>1 DEF AllKnown
<1>5. ASSUME NEW e \in Syncs PROVE Found(e)'
  <2>1. Found(e) /\ sync[e].found \in Ids \union {NoId}
    BY <1>1, TypeParts DEF AllFound, RunSet
  <2> QED
    BY <1>2, <2>1 DEF Found, ReposGrow
<1>6. ASSUME NEW e \in Syncs PROVE Mirrored(e)'
  <2> SUFFICES ASSUME NEW b \in sync[e].steady, NEW known, Mirrors(b, known)
               PROVE  Mirrors(b, known)'
    BY <1>1, <1>2 DEF AllMirrored, Mirrored, Done
  <2>1. secbugs[b].repository \in Ids \union {NoId}
    BY <1>1, Steady, TypeParts DEF Entries
  <2> QED
    BY <1>2, <2>1 DEF Mirrors, ReposGrow
<1> QED
  BY <1>2, <1>3, <1>4, <1>5, <1>6 DEF MirrorInv, AllFound, AllMirrored

LEMMA MirrorInvariant == Spec => []MirrorInv
<1>1. Init => MirrorInv
  <2> SUFFICES ASSUME Init PROVE MirrorInv
    OBVIOUS
  <2>1. /\ \A s \in Syncs : sync[s] = Idle
        /\ jira = [b \in Bugs |-> NoData] /\ repos = <<>>
        /\ sync \in [Syncs -> RunSet]
    BY IdleTyped DEF Init
  <2>2. \A s \in Syncs : /\ sync[s].pc = "idle" /\ sync[s].steady = {}
                         /\ sync[s].known = {}
    BY <2>1, IdleTyped
  <2>3. /\ secbugs \in [Bugs -> Entries] /\ RepositoryTypes
        /\ jira \in [Bugs -> Data \union {NoData}]
        /\ changes \in 0..MaxChanges /\ failures \in 0..MaxFailures
    BY SecbugsAssumption DEF Init, Entries, RepositoryTypes
  <2>4. TypeOK
    BY <2>1, <2>2, <2>3, TypeParts
  <2> QED
    BY <2>2, <2>4 DEF MirrorInv, AllHeard, AllKnown, AllFound, Found, AllMirrored,
       Mirrored
<1>2. MirrorInv /\ [Next]_vars => MirrorInv'
  <2> SUFFICES ASSUME MirrorInv, [Next]_vars PROVE MirrorInv'
    OBVIOUS
  <2>1. CASE UNCHANGED vars
    <3>1. UNCHANGED <<jira, secbugs, repos, sync, creator, raced, changes, failures>>
      BY <2>1 DEF vars
    <3> QED
      BY <3>1 DEF MirrorInv, TypeOK, Entries, Ids, AllHeard, Heard, AllKnown,
         RowsNamed, AllFound, Found, AllMirrored, Mirrored, Done, Mirrors
  <2> QED
    BY <2>1, StartKept, WorkKept, ChangeKept, CreatorKept DEF Next
<1> QED
  BY <1>1, <1>2, PTL DEF Spec

\* Runs, issues, bugs and repositories keep their types, and an issue that a
\* run is about to save is one that it has heard of.
THEOREM SecbugsTypes == Spec => []TypeOK
<1>1. MirrorInv => TypeOK
  BY DEF MirrorInv
<1> QED
  BY <1>1, MirrorInvariant, PTL

\* A run that has ended mirrors every issue that did not change since it
\* began, however runs overlap and fail: delete_outdated_secbugs and the loop
\* go by two queries, and each of them, and those of the other runs, tell the
\* same of such an issue.
THEOREM EndedRunsMirror == Spec => []EndedRunMirrors
<1>1. MirrorInv => EndedRunMirrors
  <2> SUFFICES ASSUME MirrorInv, NEW s \in Syncs, sync[s].pc = "ended",
                      NEW b \in sync[s].steady,
                      jira[b] = NoData \/ jira[b].fields = "good"
               PROVE  Mirrors(b, sync[s].known)
    BY DEF EndedRunMirrors
  <2>1. Mirrored(s)
    BY DEF MirrorInv, AllMirrored
  <2>2. CASE jira[b] = NoData
    BY <2>1, <2>2 DEF Mirrored, Mirrors
  <2>3. CASE jira[b] # NoData
    BY <2>1, <2>3 DEF Mirrored, Done
  <2> QED
    BY <2>2, <2>3
<1> QED
  BY <1>1, MirrorInvariant, PTL
===============================================================================
