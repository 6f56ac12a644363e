---------------------------- MODULE BridgeProofs ----------------------------
(***************************************************************************)
(* Proofs about Bridge for any images, messages, daemons and rows.         *)
(***************************************************************************)
EXTENDS Bridge, TLAPS

Pcs == {"idle", "next", "count", "count again", "first", "load", "update",
        "own"}

Tasks(ids) ==
    [pc: Pcs, message: Messages \union {NoMessage}, todo: SUBSET Keys,
     key: Keys \union {NoKey}, at: ids \union {NoRow},
     commit: Commits \union {NoCommit},
     repository: Repositories \union {NoRepository}]

\* What is known of a daemon at work: the row it has loaded is one of the
\* image, and has not lost what the daemon knows of it.
Sound(t) ==
    /\ t.pc # "idle" => t.message \in Messages
    /\ t.pc \notin {"idle", "next"} => t.key \in Keys
    /\ t.pc \in {"idle", "next"} => t.key = NoKey /\ t.at = NoRow
    /\ t.pc \in {"load", "update", "own"} => t.at # NoRow
    /\ t.at # NoRow =>
          /\ rows[t.at].key = t.key
          /\ t.commit # NoCommit => rows[t.at].commit # NoCommit
          /\ t.repository # NoRepository =>
                rows[t.at].repository # NoRepository
    /\ t.pc = "own" => rows[t.at].commit # NoCommit

BInv ==
    /\ TypeOK
    /\ \A d \in Daemons : Sound(task[d])
    /\ BridgedInOrder

\* What no step undoes.
Grow ==
    /\ stored \subseteq stored'
    /\ \A i \in stored :
         /\ rows'[i].key = rows[i].key
         /\ rows[i].commit # NoCommit => rows'[i].commit # NoCommit
         /\ rows[i].repository # NoRepository =>
               rows'[i].repository # NoRepository

USE BridgeAssumption

LEMMA IdleFacts ==
    /\ \A ids : Idle \in Tasks(ids)
    /\ Idle.pc = "idle" /\ Idle.at = NoRow /\ Idle.todo = {}
    /\ Idle.key = NoKey /\ Idle.message = NoMessage
    /\ \A key \in Keys \union {NoKey}, tag \in Tags \union {NoTag} :
         NewRow(key, tag) \in Rows
BY DEF Idle, Tasks, Pcs, NewRow, Rows

LEMMA TasksGrow ==
    ASSUME NEW ids, NEW more, ids \subseteq more
    PROVE  Tasks(ids) \subseteq Tasks(more)
BY DEF Tasks

LEMMA TaskType == BInv => task \in [Daemons -> Tasks(stored)]
BY DEF BInv, TypeOK, Tasks, Pcs

LEMMA BInvInit == Init => BInv
<1> SUFFICES ASSUME Init PROVE BInv
  OBVIOUS
<1>1. rows \in [RowIds -> Rows] /\ stored = {}
  BY IdleFacts DEF Init
<1>2. task \in [Daemons -> Tasks(stored)]
  BY IdleFacts DEF Init
<1>3. TypeOK
  BY <1>1, <1>2 DEF Init, TypeOK, Tasks, Pcs
<1>4. \A d \in Daemons : Sound(task[d])
  BY IdleFacts DEF Init, Sound
<1>5. QED
  BY <1>1, <1>3, <1>4 DEF BInv, BridgedInOrder

\* The type of a row that an UPDATE leaves, and what it says.
LEMMA UpdateFacts ==
    ASSUME NEW row \in Rows, NEW ids, NEW t \in Tasks(ids),
           t.message \in Messages
    PROVE  /\ WithCommit(row, t) \in Rows
           /\ WithCommit(row, t).key = row.key
           /\ WithCommit(row, t).tag = row.tag
           /\ WithCommit(row, t).wasp = row.wasp
           /\ WithCommit(row, t).repository = row.repository
           /\ WithCommit(row, t).commit =
                 IF t.commit # t.message.commit
                 THEN t.message.commit ELSE row.commit
           /\ WithBoth(row, t) \in Rows
           /\ WithBoth(row, t).key = row.key
           /\ WithBoth(row, t).wasp = row.wasp
           /\ WithBoth(row, t).commit = WithCommit(row, t).commit
           /\ WithBoth(row, t).repository =
                 IF t.repository # t.message.repository
                 THEN t.message.repository ELSE row.repository
<1>1. t.message.commit \in Commits /\ t.message.repository \in Repositories
  OBVIOUS
<1>2. /\ WithCommit(row, t) \in Rows
      /\ WithCommit(row, t).key = row.key
      /\ WithCommit(row, t).tag = row.tag
      /\ WithCommit(row, t).wasp = row.wasp
      /\ WithCommit(row, t).repository = row.repository
      /\ WithCommit(row, t).commit = IF t.commit # t.message.commit
                                     THEN t.message.commit ELSE row.commit
  BY <1>1 DEF WithCommit, Rows
<1> DEFINE new == WithCommit(row, t)
<1>3. WithBoth(row, t) = [new EXCEPT !.repository =
                             IF t.repository # t.message.repository
                             THEN t.message.repository ELSE @]
  BY DEF WithBoth
<1> HIDE DEF new
<1>4. /\ WithBoth(row, t) \in Rows
      /\ WithBoth(row, t).key = new.key
      /\ WithBoth(row, t).wasp = new.wasp
      /\ WithBoth(row, t).commit = new.commit
      /\ WithBoth(row, t).repository =
            IF t.repository # t.message.repository
            THEN t.message.repository ELSE new.repository
  <2>1. new \in Rows
    BY <1>2 DEF new
  <2>2. QED
    BY <1>1, <1>3, <2>1 DEF Rows
<1>5. QED
  BY <1>2, <1>4 DEF new

LEMMA LoadedFacts ==
    ASSUME BInv, NEW t \in Tasks(stored), NEW i \in stored
    PROVE  /\ Loaded(t, i) \in Tasks(stored)
           /\ Loaded(t, i).pc = t.pc
           /\ Loaded(t, i).message = t.message
           /\ Loaded(t, i).todo = t.todo
           /\ Loaded(t, i).key = t.key
           /\ Loaded(t, i).at = i
           /\ Loaded(t, i).commit = rows[i].commit
           /\ Loaded(t, i).repository = rows[i].repository
<1>1. i \in RowIds /\ rows[i] \in Rows
  BY DEF BInv, TypeOK
<1>2. /\ rows[i].commit \in Commits \union {NoCommit}
      /\ rows[i].repository \in Repositories \union {NoRepository}
  BY <1>1 DEF Rows
<1>3. QED
  BY <1>2 DEF Loaded, Tasks

\* A daemon's step that leaves the rows alone keeps the invariant when its new
\* task is sound.
LEMMA QuietStep ==
    ASSUME BInv, NEW d \in Daemons, NEW t \in Tasks(stored), Sound(t),
           task' = [task EXCEPT ![d] = t],
           UNCHANGED <<stored, rows>>,
           bridged' \subseteq Messages, overlapped' \in BOOLEAN
    PROVE  BInv' /\ Grow
<1>1. task' \in [Daemons -> Tasks(stored)]
  BY DEF BInv, TypeOK, Tasks, Pcs
<1>2. TypeOK'
  BY <1>1 DEF BInv, TypeOK, Tasks, Pcs
<1>3. \A e \in Daemons : Sound(task[e])'
  BY DEF BInv, Sound, TypeOK
<1>4. QED
  BY <1>2, <1>3 DEF BInv, BridgedInOrder, Grow

\* A step that changes one row, or adds it, and perhaps a daemon's task.
LEMMA WriteStep ==
    ASSUME BInv, NEW i \in RowIds, NEW new \in Rows,
           rows' = [rows EXCEPT ![i] = new],
           stored' = stored \union {i},
           i \in stored =>
             /\ new.key = rows[i].key
             /\ rows[i].commit # NoCommit => new.commit # NoCommit
             /\ rows[i].repository # NoRepository =>
                   new.repository # NoRepository,
           new.commit # NoCommit => new.repository # NoRepository,
           new.wasp # NoWasp => new.commit # NoCommit,
           task' \in [Daemons -> Tasks(stored')],
           \A e \in Daemons : task'[e] = task[e] \/ Sound(task[e])',
           bridged' \subseteq Messages, overlapped' \in BOOLEAN
    PROVE  BInv' /\ Grow
<1>1. /\ rows \in [RowIds -> Rows] /\ stored \subseteq RowIds
      /\ rows'[i] = new /\ \A j \in RowIds \ {i} : rows'[j] = rows[j]
  BY DEF BInv, TypeOK
<1>2. TypeOK'
  BY <1>1 DEF BInv, TypeOK, Tasks, Pcs
<1>3. Grow
  BY <1>1 DEF Grow
<1>4. \A e \in Daemons : Sound(task[e])'
  <2> SUFFICES ASSUME NEW e \in Daemons, task'[e] = task[e]
      PROVE Sound(task[e])'
    OBVIOUS
  <2>1. Sound(task[e]) /\ task[e].at \in stored \union {NoRow}
    BY DEF BInv, TypeOK
  <2>2. task[e].at # NoRow =>
          /\ rows'[task[e].at].key = rows[task[e].at].key
          /\ rows[task[e].at].commit # NoCommit =>
                rows'[task[e].at].commit # NoCommit
          /\ rows[task[e].at].repository # NoRepository =>
                rows'[task[e].at].repository # NoRepository
    BY <1>3, <2>1 DEF Grow
  <2>3. task[e].pc = "own" => task[e].at # NoRow
    BY <2>1 DEF Sound
  <2>4. QED
    BY <2>1, <2>2, <2>3 DEF Sound
<1>5. BridgedInOrder'
  BY <1>1 DEF BInv, BridgedInOrder
<1>6. QED
  BY <1>2, <1>3, <1>4, <1>5 DEF BInv

LEMMA StepOK ==
    ASSUME BInv, [Next]_vars PROVE BInv' /\ Grow
<1>1. CASE UNCHANGED vars
  <2>1. TypeOK' /\ BridgedInOrder'
    BY <1>1 DEF vars, BInv, TypeOK, BridgedInOrder
  <2>2. \A d \in Daemons : Sound(task[d])'
    BY <1>1 DEF vars, BInv, Sound
  <2>3. QED
    BY <1>1, <2>1, <2>2 DEF BInv, Grow, vars
<1>2. CASE Inventory
  <2>1. PICK key \in Keys, tag \in Tags \union {NoTag}, i \in RowIds \ stored :
          /\ stored' = stored \union {i}
          /\ rows' = [rows EXCEPT ![i] = NewRow(key, tag)]
    BY <1>2 DEF Inventory
  <2> DEFINE new == NewRow(key, tag)
  <2>2. new \in Rows /\ new.commit = NoCommit /\ new.wasp = NoWasp
    BY IdleFacts DEF NewRow
  <2>3. /\ task' = task /\ bridged' = bridged /\ overlapped' = overlapped
        /\ task \in [Daemons -> Tasks(stored')]
        /\ bridged \subseteq Messages /\ overlapped \in BOOLEAN
    <3>1. Tasks(stored) \subseteq Tasks(stored')
      BY <2>1, TasksGrow
    <3>2. task \in [Daemons -> Tasks(stored')]
      BY <3>1, TaskType
    <3>3. QED
      BY <1>2, <3>2 DEF Inventory, BInv, TypeOK
  <2> HIDE DEF new
  <2>4. rows' = [rows EXCEPT ![i] = new]
    BY <2>1 DEF new
  <2>5. /\ i \in RowIds /\ i \notin stored
        /\ new.commit # NoCommit => new.repository # NoRepository
        /\ new.wasp # NoWasp => new.commit # NoCommit
        /\ task' \in [Daemons -> Tasks(stored')]
        /\ \A e \in Daemons : task'[e] = task[e]
        /\ bridged' \subseteq Messages /\ overlapped' \in BOOLEAN
    BY <2>1, <2>2, <2>3
  <2>6. stored' = stored \union {i}
    BY <2>1
  <2>7. QED
    BY ONLY BInv, <2>2, <2>4, <2>5, <2>6, WriteStep
<1>3. ASSUME NEW d \in Daemons, Connect(d) PROVE BInv' /\ Grow
  <2> DEFINE t == task[d]
  <2>1. /\ t \in Tasks(stored) /\ Sound(t) /\ stored \subseteq RowIds
        /\ rows \in [RowIds -> Rows]
        /\ bridged \subseteq Messages /\ overlapped \in BOOLEAN
    BY DEF BInv, TypeOK, Tasks, Pcs
  <2> HIDE DEF t
  <2>2. CASE Take(d)
    <3>1. PICK m \in Messages :
            task' = [task EXCEPT ![d] =
                        [Idle EXCEPT !.pc = "next", !.message = m,
                                     !.todo = m.images]]
      BY <2>2 DEF Take
    <3> DEFINE new == [Idle EXCEPT !.pc = "next", !.message = m,
                                   !.todo = m.images]
    <3>2. new \in Tasks(stored) /\ Sound(new)
      BY DEF Idle, Tasks, Pcs, Sound
    <3>3. /\ UNCHANGED <<stored, rows>> /\ bridged' \subseteq Messages
          /\ overlapped' \in BOOLEAN
      BY <2>1, <2>2 DEF Take
    <3> HIDE DEF new
    <3>4. QED
      BY <3>1, <3>2, <3>3, QuietStep DEF new
  <2>3. CASE Look(d)
    <3>1. /\ UNCHANGED <<stored, rows>> /\ bridged' \subseteq Messages
          /\ overlapped' \in BOOLEAN
          /\ t.pc = "next" /\ t.at = NoRow /\ t.message \in Messages
      BY <2>1, <2>3 DEF Look, t, Sound
    <3>2. PICK key \in t.todo :
            LET here == [t EXCEPT !.todo = @ \ {key}, !.key = key]
            IN  \/ \E i \in RowsOf(key) :
                     task' = [task EXCEPT ![d] =
                                 Loaded([here EXCEPT !.pc = "update"], i)]
                \/ task' = [task EXCEPT ![d] = [here EXCEPT !.pc = "count"]]
                \/ \E i \in RowsOf(key) :
                     task' = [task EXCEPT ![d] =
                                 Loaded([here EXCEPT !.pc = "count"], i)]
      BY <2>3 DEF Look, t
    <3> DEFINE here == [t EXCEPT !.todo = @ \ {key}, !.key = key]
               found == [here EXCEPT !.pc = "update"]
               none == [here EXCEPT !.pc = "count"]
    <3>3. /\ found \in Tasks(stored) /\ none \in Tasks(stored)
          /\ found.pc = "update" /\ none.pc = "count"
          /\ found.key = key /\ none.key = key /\ none.at = NoRow
          /\ found.message \in Messages /\ none.message \in Messages
          /\ key \in Keys
      BY <2>1, <3>1 DEF Tasks, Pcs
    <3> HIDE DEF found, none
    <3>4. CASE \E i \in RowsOf(key) :
                 task' = [task EXCEPT ![d] = Loaded(found, i)]
      <4>1. PICK i \in RowsOf(key) :
              task' = [task EXCEPT ![d] = Loaded(found, i)]
        BY <3>4
      <4>2. i \in stored /\ rows[i].key = key /\ i # NoRow
        BY <2>1 DEF RowsOf
      <4>3. Loaded(found, i) \in Tasks(stored) /\ Sound(Loaded(found, i))
        BY <3>3, <4>2, LoadedFacts DEF Sound
      <4>4. QED
        BY <3>1, <4>1, <4>3, QuietStep
    <3>5. CASE \E i \in RowsOf(key) :
                 task' = [task EXCEPT ![d] = Loaded(none, i)]
      <4>1. PICK i \in RowsOf(key) :
              task' = [task EXCEPT ![d] = Loaded(none, i)]
        BY <3>5
      <4>2. i \in stored /\ rows[i].key = key /\ i # NoRow
        BY <2>1 DEF RowsOf
      <4>3. Loaded(none, i) \in Tasks(stored) /\ Sound(Loaded(none, i))
        BY <3>3, <4>2, LoadedFacts DEF Sound
      <4>4. QED
        BY <3>1, <4>1, <4>3, QuietStep
    <3>6. CASE task' = [task EXCEPT ![d] = none]
      <4>1. Sound(none)
        BY <3>3 DEF Sound
      <4>2. QED
        BY <3>1, <3>3, <3>6, <4>1, QuietStep
    <3>7. QED
      BY <3>2, <3>4, <3>5, <3>6 DEF found, none
  <2>4. CASE CountMany(d) \/ CountOne(d)
    <3>1. PICK new \in {Idle, [t EXCEPT !.pc = "count again"],
                        [t EXCEPT !.pc = "first"]} :
            task' = [task EXCEPT ![d] = new]
      BY <2>4 DEF CountMany, CountOne, t
    <3>2. /\ UNCHANGED <<stored, rows>> /\ bridged' \subseteq Messages
          /\ overlapped' \in BOOLEAN /\ t.pc \in {"count", "count again"}
      BY <2>1, <2>4 DEF CountMany, CountOne, t
    <3>3. CASE new = Idle
      <4>1. new \in Tasks(stored) /\ Sound(new)
        BY <3>3, IdleFacts DEF Sound
      <4>2. QED
        BY <3>1, <3>2, <4>1, QuietStep
    <3>4. CASE new # Idle
      <4>1. /\ new \in Tasks(stored) /\ new.pc \in {"count again", "first"}
            /\ new.message = t.message /\ new.key = t.key /\ new.at = t.at
            /\ new.commit = t.commit /\ new.repository = t.repository
        BY <2>1, <3>1, <3>4 DEF Tasks, Pcs
      <4>2. Sound(new)
        BY <2>1, <3>2, <4>1 DEF Sound
      <4>3. QED
        BY <3>1, <3>2, <4>1, <4>2, QuietStep
    <3>5. QED
      BY <3>3, <3>4
  <2>5. CASE First(d)
    <3>1. PICK i \in RowsOf(t.key) :
            task' = [task EXCEPT ![d] =
                        IF i = t.at THEN [t EXCEPT !.pc = "update"]
                        ELSE Loaded([t EXCEPT !.pc = "update"], i)]
      BY <2>5 DEF First, t
    <3>2. /\ UNCHANGED <<stored, rows>> /\ bridged' \subseteq Messages
          /\ overlapped' \in BOOLEAN /\ t.pc = "first"
          /\ i \in stored /\ rows[i].key = t.key /\ i # NoRow
      BY <2>1, <2>5 DEF First, t, RowsOf
    <3> DEFINE known == [t EXCEPT !.pc = "update"]
    <3>3. /\ known \in Tasks(stored) /\ known.pc = "update"
          /\ known.message = t.message /\ known.key = t.key
          /\ known.at = t.at /\ known.commit = t.commit
          /\ known.repository = t.repository
      BY <2>1 DEF Tasks, Pcs
    <3> HIDE DEF known
    <3>4. CASE i = t.at
      <4>1. Sound(known)
        BY <2>1, <3>2, <3>3, <3>4 DEF Sound
      <4>2. QED
        BY <3>1, <3>2, <3>3, <3>4, <4>1, QuietStep DEF known
    <3>5. CASE i # t.at
      <4>1. Loaded(known, i) \in Tasks(stored) /\ Sound(Loaded(known, i))
        BY <2>1, <3>2, <3>3, LoadedFacts DEF Sound
      <4>2. QED
        BY <3>1, <3>2, <3>5, <4>1, QuietStep DEF known
    <3>6. QED
      BY <3>4, <3>5
  <2>6. CASE Create(d)
    <3>1. PICK i \in RowIds \ stored :
            /\ stored' = stored \union {i}
            /\ rows' = [rows EXCEPT ![i] = NewRow(t.key, NoTag)]
            /\ task' = [task EXCEPT ![d] =
                   [t EXCEPT !.pc = "load", !.at = i, !.commit = NoCommit,
                             !.repository = NoRepository]]
      BY <2>1, <2>6 DEF Create, t
    <3>2. /\ bridged' \subseteq Messages /\ overlapped' \in BOOLEAN
          /\ t.pc = "count again" /\ t.key \in Keys /\ t.message \in Messages
      BY <2>1, <2>6 DEF Create, t, Sound
    <3> DEFINE new == NewRow(t.key, NoTag)
               next == [t EXCEPT !.pc = "load", !.at = i, !.commit = NoCommit,
                                 !.repository = NoRepository]
    <3>3. /\ new \in Rows /\ new.commit = NoCommit /\ new.wasp = NoWasp
          /\ new.key = t.key
      BY <3>2, IdleFacts DEF NewRow
    <3>4. /\ next \in Tasks(stored') /\ next.pc = "load" /\ next.at = i
          /\ next.key = t.key /\ next.message = t.message
          /\ next.commit = NoCommit /\ next.repository = NoRepository
      BY <2>1, <3>1 DEF Tasks, Pcs
    <3> HIDE DEF new, next
    <3>5. rows' = [rows EXCEPT ![i] = new] /\ task' = [task EXCEPT ![d] = next]
      BY <3>1 DEF new, next
    <3>6. /\ task' \in [Daemons -> Tasks(stored')]
          /\ task'[d] = next /\ \A e \in Daemons \ {d} : task'[e] = task[e]
      <4>1. Tasks(stored) \subseteq Tasks(stored')
        BY <3>1, TasksGrow
      <4>2. task \in [Daemons -> Tasks(stored')]
        BY <4>1, TaskType
      <4>3. QED
        BY <3>4, <3>5, <4>2
    <3>7. rows'[i] = new
      BY <2>1, <3>1, <3>5
    <3>8. Sound(task[d])'
      BY <3>2, <3>3, <3>4, <3>6, <3>7 DEF Sound
    <3>9. QED
      BY <3>1, <3>2, <3>3, <3>5, <3>6, <3>8, WriteStep
  <2>7. CASE Load(d)
    <3> DEFINE new == [Loaded(t, t.at) EXCEPT !.pc = "update",
                                              !.commit = NoCommit]
    <3>1. /\ task' = [task EXCEPT ![d] = new]
          /\ UNCHANGED <<stored, rows>> /\ bridged' \subseteq Messages
          /\ overlapped' \in BOOLEAN /\ t.pc = "load"
      BY <2>1, <2>7 DEF Load, t
    <3>2. /\ t.at \in stored /\ t.at # NoRow /\ t.key \in Keys
          /\ t.message \in Messages /\ rows[t.at].key = t.key
      BY <2>1, <3>1 DEF Sound, Tasks
    <3> DEFINE mid == Loaded(t, t.at)
    <3>3. /\ mid \in Tasks(stored) /\ mid.message = t.message
          /\ mid.key = t.key /\ mid.at = t.at
          /\ mid.repository = rows[t.at].repository
      BY <2>1, <3>2, LoadedFacts
    <3> HIDE DEF mid
    <3>4. /\ new \in Tasks(stored) /\ new.pc = "update"
          /\ new.message = t.message /\ new.key = t.key /\ new.at = t.at
          /\ new.commit = NoCommit /\ new.repository = rows[t.at].repository
      BY <3>3 DEF Tasks, Pcs, mid
    <3> HIDE DEF new
    <3>5. Sound(new)
      BY <3>2, <3>4 DEF Sound
    <3>6. QED
      BY <3>1, <3>4, <3>5, QuietStep
  <2>8. CASE Refuse(d)
    <3> DEFINE new == WithCommit(rows[t.at], t)
    <3>1. /\ rows' = [rows EXCEPT ![t.at] = new]
          /\ task' = [task EXCEPT ![d] = Idle]
          /\ stored' = stored /\ bridged' \subseteq Messages
          /\ overlapped' \in BOOLEAN /\ t.pc = "update" /\ Conflicts(t)
      BY <2>1, <2>8 DEF Refuse, t
    <3>2. /\ t.at \in stored /\ t.at \in RowIds /\ rows[t.at] \in Rows
          /\ t.message \in Messages
          /\ t.message.commit \in Commits
          /\ rows[t.at].repository # NoRepository
      BY <2>1, <3>1 DEF Sound, Tasks, Conflicts
    <3>3. /\ new \in Rows /\ new.key = rows[t.at].key
          /\ new.repository = rows[t.at].repository
          /\ new.wasp = rows[t.at].wasp
          /\ rows[t.at].commit # NoCommit => new.commit # NoCommit
      BY <2>1, <3>2, UpdateFacts
    <3>4. rows[t.at].wasp # NoWasp => rows[t.at].commit # NoCommit
      BY <3>2 DEF BInv, BridgedInOrder
    <3> HIDE DEF new
    <3>5. /\ task' \in [Daemons -> Tasks(stored')]
          /\ task'[d] = Idle /\ \A e \in Daemons \ {d} : task'[e] = task[e]
      BY <3>1, IdleFacts DEF BInv, TypeOK, Tasks, Pcs
    <3>6. Sound(task[d])'
      BY <3>5, IdleFacts DEF Sound
    <3>7. stored' = stored \union {t.at}
      BY <3>1, <3>2
    <3>8. QED
      BY <3>1, <3>2, <3>3, <3>4, <3>5, <3>6, <3>7, WriteStep
  <2>9. CASE Update(d)
    <3> DEFINE new == WithBoth(rows[t.at], t)
               own == [t EXCEPT !.pc = "own"]
    <3>1. /\ rows' = [rows EXCEPT ![t.at] = new]
          /\ task' = [task EXCEPT ![d] = own]
          /\ stored' = stored /\ bridged' \subseteq Messages
          /\ overlapped' \in BOOLEAN /\ t.pc = "update"
      BY <2>1, <2>9 DEF Update, t
    <3>2. /\ t.at \in stored /\ t.at \in RowIds /\ rows[t.at] \in Rows
          /\ t.message \in Messages /\ t.key \in Keys /\ t.at # NoRow
          /\ t.message.commit \in Commits
          /\ t.message.repository \in Repositories
          /\ rows[t.at].key = t.key
          /\ t.commit # NoCommit => rows[t.at].commit # NoCommit
          /\ t.repository # NoRepository =>
                rows[t.at].repository # NoRepository
      BY <2>1, <3>1 DEF Sound, Tasks
    <3>3. /\ new \in Rows /\ new.key = t.key
          /\ new.commit # NoCommit /\ new.repository # NoRepository
      BY <2>1, <3>2, UpdateFacts
    <3>4. /\ own \in Tasks(stored) /\ own.pc = "own" /\ own.key = t.key
          /\ own.at = t.at /\ own.message = t.message
      BY <2>1 DEF Tasks, Pcs
    <3> HIDE DEF new, own
    <3>5. /\ task' \in [Daemons -> Tasks(stored')]
          /\ task'[d] = own /\ \A e \in Daemons \ {d} : task'[e] = task[e]
      BY <3>1, <3>4 DEF BInv, TypeOK, Tasks, Pcs
    <3>6. rows'[t.at] = new
      BY <2>1, <3>1, <3>2
    <3>7. Sound(task[d])'
      BY <3>2, <3>3, <3>4, <3>5, <3>6 DEF Sound
    <3>8. stored' = stored \union {t.at}
      BY <3>1, <3>2
    <3>9. QED
      BY <3>1, <3>2, <3>3, <3>5, <3>7, <3>8, WriteStep
  <2>10. CASE Own(d)
    <3> DEFINE new == [rows[t.at] EXCEPT !.wasp = t.message]
               next == [Idle EXCEPT !.pc = "next", !.message = t.message,
                                    !.todo = t.todo]
    <3>1. /\ rows' = [rows EXCEPT ![t.at].wasp = t.message]
          /\ task' = [task EXCEPT ![d] = next]
          /\ stored' = stored /\ bridged' \subseteq Messages
          /\ overlapped' \in BOOLEAN /\ t.pc = "own"
      BY <2>1, <2>10 DEF Own, t
    <3>2. /\ t.at \in stored /\ t.at \in RowIds /\ rows[t.at] \in Rows
          /\ t.message \in Messages
          /\ rows[t.at].commit # NoCommit
          /\ rows[t.at].repository # NoRepository
      BY <2>1, <3>1 DEF Sound, Tasks, BInv, BridgedInOrder
    <3>3. /\ new \in Rows /\ new.key = rows[t.at].key
          /\ new.commit = rows[t.at].commit
          /\ new.repository = rows[t.at].repository
      BY <3>2 DEF Rows
    <3>4. /\ next \in Tasks(stored) /\ next.pc = "next" /\ next.at = NoRow
          /\ next.message = t.message /\ next.key = NoKey
      BY <2>1, <3>2 DEF Tasks, Pcs, Idle
    <3>5. rows' = [rows EXCEPT ![t.at] = new]
      BY <3>1
    <3> HIDE DEF new, next
    <3>6. /\ task' \in [Daemons -> Tasks(stored')]
          /\ task'[d] = next /\ \A e \in Daemons \ {d} : task'[e] = task[e]
      BY <3>1, <3>4 DEF BInv, TypeOK, Tasks, Pcs
    <3>7. Sound(task[d])'
      BY <3>2, <3>4, <3>6 DEF Sound
    <3>8. stored' = stored \union {t.at}
      BY <3>1, <3>2
    <3>9. QED
      BY <3>1, <3>2, <3>3, <3>5, <3>6, <3>7, <3>8, WriteStep
  <2>11. CASE Done(d) \/ Fail(d)
    <3>1. /\ task' = [task EXCEPT ![d] = Idle]
          /\ UNCHANGED <<stored, rows>>
          /\ overlapped' \in BOOLEAN
          /\ bridged' \subseteq bridged \union {t.message}
          /\ t.pc # "idle" /\ t.message \in Messages
      BY <2>1, <2>11 DEF Done, Fail, t, Sound
    <3>2. Idle \in Tasks(stored) /\ Sound(Idle)
      BY IdleFacts DEF Sound
    <3>3. QED
      BY <2>1, <3>1, <3>2, QuietStep
  <2>20. QED
    BY <1>3, <2>2, <2>3, <2>4, <2>5, <2>6, <2>7, <2>8, <2>9, <2>10, <2>11
    DEF Connect
<1>4. CASE Manual
  <2>1. PICK i \in stored, r \in Repositories :
          rows' = [j \in RowIds |->
              IF /\ j \in stored /\ rows[j].tag = rows[i].tag
                 /\ Name[rows[j].key] = Name[rows[i].key]
              THEN [rows[j] EXCEPT !.repository = r] ELSE rows[j]]
    BY <1>4 DEF Manual
  <2>2. /\ UNCHANGED <<stored, task, bridged>>
        /\ overlapped' = TRUE
    BY <1>4 DEF Manual
  <2>3. stored \subseteq RowIds /\ rows \in [RowIds -> Rows]
    BY DEF BInv, TypeOK
  <2>4. \A j \in RowIds :
          /\ rows'[j] \in Rows
          /\ rows'[j].key = rows[j].key
          /\ rows'[j].commit = rows[j].commit
          /\ rows'[j].wasp = rows[j].wasp
          /\ rows'[j].repository \in {rows[j].repository, r}
    BY <2>1, <2>3 DEF Rows
  <2>5. Grow /\ BridgedInOrder'
    BY <2>2, <2>3, <2>4 DEF Grow, BInv, BridgedInOrder
  <2>6. TypeOK'
    <3>1. rows' \in [RowIds -> Rows]
      BY <2>1, <2>4
    <3>2. QED
      BY <2>2, <3>1 DEF BInv, TypeOK
  <2>7. \A d \in Daemons : Sound(task[d])'
    <3> SUFFICES ASSUME NEW d \in Daemons PROVE Sound(task[d])'
      OBVIOUS
    <3>1. /\ Sound(task[d]) /\ task[d].at \in stored \union {NoRow}
          /\ task'[d] = task[d]
      BY <2>2 DEF BInv, TypeOK
    <3>2. task[d].pc = "own" => task[d].at # NoRow
      BY <3>1 DEF Sound
    <3>3. task[d].at # NoRow =>
            /\ rows'[task[d].at].key = rows[task[d].at].key
            /\ rows'[task[d].at].commit = rows[task[d].at].commit
            /\ rows[task[d].at].repository # NoRepository =>
                  rows'[task[d].at].repository # NoRepository
      BY <2>3, <2>4, <3>1
    <3>4. QED
      BY <3>1, <3>2, <3>3 DEF Sound
  <2>8. QED
    BY <2>5, <2>6, <2>7 DEF BInv
<1>5. QED
  BY <1>1, <1>2, <1>3, <1>4 DEF Next

LEMMA BInvAlways == Spec => []BInv
<1>1. BInv /\ [Next]_vars => BInv'
  BY StepOK
<1>2. QED
  BY <1>1, BInvInit, PTL DEF Spec

\* The types of the state, with any number of daemons and rows.
THEOREM BridgeTypeCorrect == Spec => []TypeOK
BY BInvAlways, PTL DEF BInv

\* Daemons that overlap, conflicts and failures never leave an image that has
\* a commit but no repository, or a wasp but no commit.
THEOREM AlwaysBridgedInOrder == Spec => []BridgedInOrder
BY BInvAlways, PTL DEF BInv

-----------------------------------------------------------------------------
(* No two daemons at once.                                                 *)

Shown(key, r) == \E i \in RowsOf(key) : rows[i].repository = r

\* What the daemon at work knows of the repository of its row.
Exact(t) ==
    /\ t.at # NoRow /\ t.pc # "own" =>
          t.repository = rows[t.at].repository
    /\ t.pc = "own" => rows[t.at].repository = t.message.repository

\* The images it has done are shown in the repository of its message.
Progress(t) ==
    t.pc # "idle" =>
        \A key \in t.message.images \ (t.todo \union {t.key}) :
            Shown(key, t.message.repository)

WaspsOwn ==
    \A i \in stored : rows[i].wasp # NoWasp =>
        rows[i].wasp.repository = rows[i].repository

BridgedShown ==
    \A m \in bridged : \A key \in m.images : Shown(key, m.repository)

OneAtWork ==
    \A d, e \in Daemons :
        task[d].pc # "idle" /\ task[e].pc # "idle" => d = e

Alone ==
    /\ OneAtWork
    /\ \A d \in Daemons : Exact(task[d]) /\ Progress(task[d])
    /\ WaspsOwn
    /\ BridgedShown

KeptRepository ==
    \A i \in stored : rows[i].repository # NoRepository =>
        rows'[i].repository = rows[i].repository

LEMMA AloneInit == Init => Alone
BY IdleFacts DEF Init, Alone, OneAtWork, Exact, Progress, WaspsOwn,
                 BridgedShown

LEMMA ShownStays ==
    ASSUME BInv, Grow, KeptRepository, NEW key, NEW r \in Repositories,
           Shown(key, r)
    PROVE  Shown(key, r)'
BY DEF Grow, KeptRepository, Shown, RowsOf

\* What is left to show of a daemon's step.
LEMMA AloneFromParts ==
    ASSUME BInv, BInv', Alone, Grow, KeptRepository, NEW d \in Daemons,
           \A e \in Daemons \ {d} : task'[e] = task[e] /\ task[e].pc = "idle",
           Exact(task[d])', Progress(task[d])', WaspsOwn',
           \A m \in bridged' \ bridged : \A key \in m.images :
               Shown(key, m.repository)'
    PROVE  Alone'
<1>1. OneAtWork'
  BY DEF OneAtWork
<1>2. ASSUME NEW e \in Daemons PROVE Exact(task[e])' /\ Progress(task[e])'
  <2>1. CASE e = d
    BY <2>1
  <2>2. CASE e # d
    <3>1. task'[e].pc = "idle" /\ task'[e].at = NoRow
      BY <2>2 DEF BInv, Sound
    <3>2. QED
      BY <3>1 DEF Exact, Progress
  <2>3. QED
    BY <2>1, <2>2
<1>3. BridgedShown'
  <2> SUFFICES ASSUME NEW m \in bridged', m \in bridged,
                      NEW key \in m.images
      PROVE Shown(key, m.repository)'
    BY DEF BridgedShown, Shown, RowsOf
  <2>1. m \in Messages
    BY DEF BInv, TypeOK
  <2>2. m.repository \in Repositories
    BY <2>1
  <2>3. Shown(key, m.repository)
    BY DEF Alone, BridgedShown
  <2>4. QED
    BY <2>2, <2>3, ShownStays
<1>4. QED
  BY <1>1, <1>2, <1>3 DEF Alone

\* A daemon's step that leaves the rows alone, from its message's fields.
LEMMA AloneQuiet ==
    ASSUME BInv, BInv', Alone, NEW d \in Daemons, ~overlapped',
           UNCHANGED <<stored, rows, bridged>>,
           \A e \in Daemons \ {d} : task'[e] = task[e] /\ task[e].pc = "idle",
           Exact(task'[d]),
           \/ task'[d].pc = "idle"
           \/ task'[d].message.images \subseteq task'[d].todo
           \/ /\ task[d].pc # "idle"
              /\ task'[d].message = task[d].message
              /\ task[d].todo \union {task[d].key} \subseteq
                     task'[d].todo \union {task'[d].key} \union {NoKey}
    PROVE  Alone' /\ KeptRepository
<1>1. KeptRepository /\ Grow
  BY DEF KeptRepository, Grow
<1>2. Exact(task[d])'
  BY DEF Exact
<1>3. WaspsOwn'
  BY DEF Alone, WaspsOwn
<1>4. Progress(task[d])'
  <2>1. CASE task'[d].pc = "idle"
    BY <2>1 DEF Progress
  <2>2. CASE task'[d].message.images \subseteq task'[d].todo
    BY <2>2 DEF Progress
  <2>3. CASE /\ task'[d].pc # "idle"
             /\ task[d].pc # "idle"
             /\ task'[d].message = task[d].message
             /\ task[d].todo \union {task[d].key} \subseteq
                    task'[d].todo \union {task'[d].key} \union {NoKey}
    <3>1. /\ task[d].message \in Messages
          /\ task[d].message.images \subseteq Keys
      BY <2>3 DEF BInv, Sound
    <3>2. task[d].message.images \ (task'[d].todo \union {task'[d].key})
              \subseteq
          task[d].message.images \ (task[d].todo \union {task[d].key})
      BY <2>3, <3>1
    <3>3. \A key \in task[d].message.images \
                         (task[d].todo \union {task[d].key}) :
              Shown(key, task[d].message.repository)
      BY <2>3 DEF Alone, Progress
    <3>4. QED
      BY <2>3, <3>2, <3>3 DEF Progress, Shown, RowsOf
  <2>4. QED
    BY <2>1, <2>2, <2>3
<1>5. Alone'
  BY <1>1, <1>2, <1>3, <1>4, AloneFromParts
<1>6. QED
  BY <1>1, <1>5

LEMMA AloneStep ==
    ASSUME BInv, Alone, [Next]_vars, ~overlapped'
    PROVE  Alone' /\ KeptRepository
<1>0. BInv' /\ Grow
  BY StepOK
<1>1. CASE UNCHANGED vars
  <2>1. UNCHANGED <<stored, rows, task, bridged>>
    BY <1>1 DEF vars
  <2>2. KeptRepository
    BY <2>1 DEF KeptRepository
  <2>3. QED
    BY <2>1, <2>2 DEF Alone, OneAtWork, Exact, Progress, WaspsOwn,
                      BridgedShown, Shown, RowsOf
<1>2. CASE Inventory
  <2>1. PICK i \in RowIds \ stored :
          /\ stored' = stored \union {i}
          /\ \E key \in Keys, tag \in Tags \union {NoTag} :
                rows' = [rows EXCEPT ![i] = NewRow(key, tag)]
    BY <1>2 DEF Inventory
  <2>2. /\ \A j \in stored : rows'[j] = rows[j]
        /\ rows'[i].wasp = NoWasp
    <3>1. PICK key \in Keys, tag \in Tags \union {NoTag} :
            rows' = [rows EXCEPT ![i] = NewRow(key, tag)]
      BY <2>1
    <3>2. rows \in [RowIds -> Rows] /\ stored \subseteq RowIds
      BY DEF BInv, TypeOK
    <3>3. NewRow(key, tag).wasp = NoWasp
      BY DEF NewRow
    <3> HIDE DEF NewRow
    <3>4. QED
      BY <2>1, <3>1, <3>2, <3>3
  <2>3. UNCHANGED <<task, bridged>>
    BY <1>2 DEF Inventory
  <2>4. KeptRepository
    BY <2>2 DEF KeptRepository
  <2>5. OneAtWork' /\ WaspsOwn'
    BY <2>1, <2>2, <2>3 DEF Alone, OneAtWork, WaspsOwn
  <2>6. ASSUME NEW d \in Daemons PROVE Exact(task[d])' /\ Progress(task[d])'
    <3>1. /\ task[d].at \in stored \union {NoRow}
          /\ task[d].pc = "own" => task[d].at # NoRow
      BY DEF BInv, TypeOK, Sound
    <3>2. Exact(task[d])'
      BY <2>2, <2>3, <3>1 DEF Alone, Exact
    <3>3. Progress(task[d])'
      BY <2>1, <2>2, <2>3 DEF Alone, Progress, Shown, RowsOf
    <3>4. QED
      BY <3>2, <3>3
  <2>7. BridgedShown'
    BY <2>1, <2>2, <2>3 DEF Alone, BridgedShown, Shown, RowsOf
  <2>8. QED
    BY <2>4, <2>5, <2>6, <2>7 DEF Alone
<1>3. ASSUME NEW d \in Daemons, Connect(d) PROVE Alone' /\ KeptRepository
  <2> DEFINE t == task[d]
  <2>1. /\ t \in Tasks(stored) /\ Sound(t) /\ stored \subseteq RowIds
        /\ rows \in [RowIds -> Rows]
        /\ task \in [Daemons -> Tasks(stored)]
    BY TaskType DEF BInv, TypeOK
  <2>2. \A e \in Daemons \ {d} : task'[e] = task[e]
    BY <1>3, <2>1 DEF Connect, Take, Look, CountMany, CountOne, First, Create,
                      Load, Refuse, Update, Own, Done, Fail
  <2>3. \A e \in Daemons \ {d} : task'[e] = task[e] /\ task[e].pc = "idle"
    <3>1. CASE Take(d)
      BY <2>2, <3>1 DEF Take
    <3>2. CASE ~Take(d)
      <4>1. task[d].pc # "idle"
        BY <1>3, <3>2 DEF Connect, Look, CountMany, CountOne, First, Create,
                          Load, Refuse, Update, Own, Done, Fail
      <4>2. QED
        BY <2>2, <4>1 DEF Alone, OneAtWork
    <3>3. QED
      BY <3>1, <3>2
  <2>4. Exact(t) /\ Progress(t)
    BY DEF Alone
  <2>5. CASE Take(d)
    <3>1. PICK m \in Messages :
            task' = [task EXCEPT ![d] =
                        [Idle EXCEPT !.pc = "next", !.message = m,
                                     !.todo = m.images]]
      BY <2>5 DEF Take
    <3>2. /\ task'[d].pc = "next" /\ task'[d].message = m
          /\ task'[d].todo = m.images /\ task'[d].at = NoRow
      BY <2>1, <3>1 DEF Idle
    <3>3. Exact(task'[d])
      BY <3>2 DEF Exact
    <3>4. UNCHANGED <<stored, rows, bridged>>
      BY <2>5 DEF Take
    <3>5. task'[d].message.images \subseteq task'[d].todo
      BY <3>2
    <3>6. QED
      BY <1>0, <2>3, <3>3, <3>4, <3>5, AloneQuiet
  <2>6. CASE Look(d)
    <3>1. /\ UNCHANGED <<stored, rows, bridged>>
          /\ t.pc = "next" /\ t.at = NoRow /\ t.key = NoKey
      BY <2>1, <2>6 DEF Look, Sound
    <3>2. PICK key \in t.todo :
            LET here == [t EXCEPT !.todo = @ \ {key}, !.key = key]
            IN  \/ \E i \in RowsOf(key) :
                     task' = [task EXCEPT ![d] =
                                 Loaded([here EXCEPT !.pc = "update"], i)]
                \/ task' = [task EXCEPT ![d] = [here EXCEPT !.pc = "count"]]
                \/ \E i \in RowsOf(key) :
                     task' = [task EXCEPT ![d] =
                                 Loaded([here EXCEPT !.pc = "count"], i)]
      BY <2>6 DEF Look
    <3> DEFINE here == [t EXCEPT !.todo = @ \ {key}, !.key = key]
               found == [here EXCEPT !.pc = "update"]
               none == [here EXCEPT !.pc = "count"]
    <3>a. /\ here \in Tasks(stored)
          /\ here.message = t.message /\ here.key = key
          /\ here.todo = t.todo \ {key} /\ here.at = NoRow
      BY <2>1, <3>1 DEF Tasks
    <3> HIDE DEF here
    <3>b. /\ found \in Tasks(stored) /\ found.pc = "update"
          /\ found.message = t.message /\ found.key = key
          /\ found.todo = t.todo \ {key}
      BY <3>a DEF Tasks, Pcs
    <3>c. /\ none \in Tasks(stored) /\ none.pc = "count" /\ none.at = NoRow
          /\ none.message = t.message /\ none.key = key
          /\ none.todo = t.todo \ {key}
      BY <3>a DEF Tasks, Pcs
    <3> HIDE DEF found, none
    <3>4. /\ task'[d].message = t.message /\ task'[d].key = key
          /\ task'[d].todo = t.todo \ {key}
          /\ Exact(task'[d])
      <4>1. ASSUME NEW h \in {found, none}, NEW i \in RowsOf(key),
                   task' = [task EXCEPT ![d] = Loaded(h, i)]
            PROVE  /\ task'[d].message = t.message /\ task'[d].key = key
                   /\ task'[d].todo = t.todo \ {key}
                   /\ Exact(task'[d])
        <5>1. task'[d] = Loaded(h, i) /\ i \in stored /\ h \in Tasks(stored)
          BY <2>1, <3>b, <3>c, <4>1 DEF RowsOf
        <5>2. QED
          BY <3>b, <3>c, <5>1, LoadedFacts DEF Exact
      <4>2. ASSUME task' = [task EXCEPT ![d] = none]
            PROVE  /\ task'[d].message = t.message /\ task'[d].key = key
                   /\ task'[d].todo = t.todo \ {key}
                   /\ Exact(task'[d])
        <5>1. task'[d] = none
          BY <2>1, <4>2
        <5>2. QED
          BY <3>b, <3>c, <5>1 DEF Exact
      <4>3. QED
        BY <3>2, <4>1, <4>2 DEF found, none, here
    <3>5. t.todo \union {t.key} \subseteq
              task'[d].todo \union {task'[d].key} \union {NoKey}
      BY <3>1, <3>4
    <3>6. QED
      BY <1>0, <2>3, <3>1, <3>4, <3>5, AloneQuiet
  <2>7. CASE CountMany(d) \/ CountOne(d)
    <3>1. PICK new \in {Idle, [t EXCEPT !.pc = "count again"],
                        [t EXCEPT !.pc = "first"]} :
            task' = [task EXCEPT ![d] = new]
      BY <2>7 DEF CountMany, CountOne
    <3>2. /\ UNCHANGED <<stored, rows, bridged>>
          /\ t.pc \in {"count", "count again"}
      BY <2>7 DEF CountMany, CountOne
    <3>3. task'[d] = new
      BY <2>1, <3>1
    <3>4. CASE new = Idle
      <4>1. task'[d].pc = "idle" /\ Exact(task'[d])
        BY <3>3, <3>4, IdleFacts DEF Exact
      <4>2. QED
        BY <1>0, <2>3, <3>2, <4>1, AloneQuiet
    <3>5. CASE new # Idle
      <4>1. /\ new.pc \in {"count again", "first"}
            /\ new.message = t.message /\ new.key = t.key /\ new.at = t.at
            /\ new.repository = t.repository /\ new.todo = t.todo
        BY <2>1, <3>1, <3>5 DEF Tasks
      <4>2. Exact(task'[d])
        BY <2>4, <3>2, <3>3, <4>1 DEF Exact
      <4>3. QED
        BY <1>0, <2>3, <3>2, <3>3, <4>1, <4>2, AloneQuiet
    <3>6. QED
      BY <3>4, <3>5
  <2>8. CASE First(d)
    <3>1. PICK i \in RowsOf(t.key) :
            task' = [task EXCEPT ![d] =
                        IF i = t.at THEN [t EXCEPT !.pc = "update"]
                        ELSE Loaded([t EXCEPT !.pc = "update"], i)]
      BY <2>8 DEF First
    <3>2. UNCHANGED <<stored, rows, bridged>> /\ t.pc = "first" /\ i \in stored
      BY <2>8 DEF First, RowsOf
    <3> DEFINE known == [t EXCEPT !.pc = "update"]
    <3>3. /\ known \in Tasks(stored) /\ known.pc = "update"
          /\ known.message = t.message /\ known.key = t.key
          /\ known.at = t.at /\ known.todo = t.todo
          /\ known.repository = t.repository
      BY <2>1 DEF Tasks, Pcs
    <3> HIDE DEF known
    <3>4. task'[d] = IF i = t.at THEN known ELSE Loaded(known, i)
      BY <2>1, <3>1 DEF known
    <3>5. /\ Exact(task'[d])
          /\ task'[d].message = t.message /\ task'[d].key = t.key
          /\ task'[d].todo = t.todo
      <4>1. CASE i = t.at
        BY <2>4, <3>2, <3>3, <3>4, <4>1 DEF Exact
      <4>2. CASE i # t.at
        BY <3>2, <3>3, <3>4, <4>2, LoadedFacts DEF Exact
      <4>3. QED
        BY <4>1, <4>2
    <3>6. QED
      BY <1>0, <2>3, <3>2, <3>5, AloneQuiet
  <2>9. CASE Load(d)
    <3>1. /\ task' = [task EXCEPT ![d] =
                 [Loaded(t, t.at) EXCEPT !.pc = "update", !.commit = NoCommit]]
          /\ UNCHANGED <<stored, rows, bridged>> /\ t.pc = "load"
      BY <2>9 DEF Load
    <3>2. t.at \in stored
      BY <2>1, <3>1 DEF Sound, Tasks
    <3> DEFINE mid == Loaded(t, t.at)
    <3>3. /\ mid \in Tasks(stored) /\ mid.message = t.message
          /\ mid.key = t.key /\ mid.at = t.at /\ mid.todo = t.todo
          /\ mid.repository = rows[t.at].repository
      BY <2>1, <3>2, LoadedFacts
    <3>4. task'[d] = [mid EXCEPT !.pc = "update", !.commit = NoCommit]
      BY <2>1, <3>1
    <3> HIDE DEF mid
    <3>5. /\ task'[d].pc = "update" /\ task'[d].message = t.message
          /\ task'[d].key = t.key /\ task'[d].at = t.at
          /\ task'[d].todo = t.todo
          /\ task'[d].repository = rows[t.at].repository
      BY <3>3, <3>4 DEF Tasks
    <3>6. Exact(task'[d])
      BY <3>1, <3>5 DEF Exact
    <3>7. QED
      BY <1>0, <2>3, <3>1, <3>5, <3>6, AloneQuiet
  <2>10. CASE Fail(d)
    <3>1. /\ task' = [task EXCEPT ![d] = Idle]
          /\ UNCHANGED <<stored, rows, bridged>>
      BY <2>10 DEF Fail
    <3>2. task'[d].pc = "idle" /\ Exact(task'[d])
      BY <2>1, <3>1, IdleFacts DEF Exact
    <3>3. QED
      BY <1>0, <2>3, <3>1, <3>2, AloneQuiet
  <2>11. CASE Done(d)
    <3>1. /\ task' = [task EXCEPT ![d] = Idle]
          /\ UNCHANGED <<stored, rows>>
          /\ bridged' = bridged \union {t.message}
          /\ t.pc = "next" /\ t.todo = {} /\ t.key = NoKey
          /\ t.message \in Messages
      BY <2>1, <2>11 DEF Done, Sound
    <3>2. \A key \in t.message.images : Shown(key, t.message.repository)
      BY <2>4, <3>1 DEF Progress
    <3>3. task'[d].pc = "idle" /\ task'[d].at = NoRow
      BY <2>1, <3>1, IdleFacts
    <3>4. Exact(task[d])' /\ Progress(task[d])' /\ KeptRepository
      BY <3>1, <3>3 DEF Exact, Progress, KeptRepository
    <3>5. WaspsOwn'
      BY <3>1 DEF Alone, WaspsOwn
    <3>6. \A m \in bridged' \ bridged : \A key \in m.images :
              Shown(key, m.repository)'
      BY <3>1, <3>2 DEF Shown, RowsOf
    <3>7. QED
      BY <1>0, <2>3, <3>4, <3>5, <3>6, AloneFromParts
  <2>12. CASE Create(d)
    <3>1. PICK i \in RowIds \ stored :
            /\ stored' = stored \union {i}
            /\ rows' = [rows EXCEPT ![i] = NewRow(t.key, NoTag)]
            /\ task' = [task EXCEPT ![d] =
                   [t EXCEPT !.pc = "load", !.at = i, !.commit = NoCommit,
                             !.repository = NoRepository]]
      BY <2>12 DEF Create
    <3>2. bridged' = bridged /\ t.pc = "count again"
      BY <2>12 DEF Create
    <3>3. /\ \A j \in stored : rows'[j] = rows[j]
          /\ rows'[i].wasp = NoWasp /\ rows'[i].repository = NoRepository
      BY <2>1, <3>1 DEF NewRow
    <3>4. /\ task'[d].pc = "load" /\ task'[d].at = i
          /\ task'[d].repository = NoRepository
          /\ task'[d].message = t.message /\ task'[d].todo = t.todo
          /\ task'[d].key = t.key
      BY <2>1, <3>1 DEF Tasks
    <3>5. KeptRepository /\ Exact(task[d])'
      BY <3>3, <3>4 DEF KeptRepository, Exact
    <3>6. WaspsOwn'
      BY <3>1, <3>3 DEF Alone, WaspsOwn
    <3>7. Progress(task[d])'
      <4>1. PICK r \in Repositories : r = t.message.repository
        BY <2>1, <3>2 DEF Sound
      <4>2. ASSUME NEW key \in t.message.images \ (t.todo \union {t.key})
            PROVE  Shown(key, r)
        BY <2>4, <3>2, <4>1 DEF Progress
      <4>3. ASSUME NEW key, Shown(key, r)
            PROVE  \E j \in RowsOf(key)' : rows'[j].repository = r
        BY <1>0, <3>5, <4>3, ShownStays DEF Shown
      <4>4. QED
        BY <3>4, <4>1, <4>2, <4>3 DEF Progress, Shown
    <3>8. QED
      BY <1>0, <2>3, <3>2, <3>5, <3>6, <3>7, AloneFromParts
  <2>13. CASE Refuse(d)
    <3>1. /\ rows' = [rows EXCEPT ![t.at] = WithCommit(rows[t.at], t)]
          /\ task' = [task EXCEPT ![d] = Idle]
          /\ UNCHANGED <<stored, bridged>> /\ t.pc = "update"
      BY <2>13 DEF Refuse
    <3>2. /\ t.at \in stored /\ t.message \in Messages /\ rows[t.at] \in Rows
      BY <2>1, <3>1 DEF Sound, Tasks
    <3>3. \A j \in stored : /\ rows'[j].wasp = rows[j].wasp
                            /\ rows'[j].repository = rows[j].repository
      BY <2>1, <3>1, <3>2, UpdateFacts
    <3>4. task'[d].pc = "idle" /\ task'[d].at = NoRow
      BY <2>1, <3>1, IdleFacts
    <3>5. Exact(task[d])' /\ Progress(task[d])' /\ KeptRepository
      BY <3>3, <3>4 DEF Exact, Progress, KeptRepository
    <3>6. WaspsOwn'
      BY <3>1, <3>3 DEF Alone, WaspsOwn
    <3>7. QED
      BY <1>0, <2>3, <3>1, <3>5, <3>6, AloneFromParts
  <2>14. CASE Update(d)
    <3> DEFINE new == WithBoth(rows[t.at], t)
    <3>1. /\ rows' = [rows EXCEPT ![t.at] = new]
          /\ task' = [task EXCEPT ![d] = [t EXCEPT !.pc = "own"]]
          /\ UNCHANGED <<stored, bridged>> /\ t.pc = "update"
          /\ ~Conflicts(t)
      BY <2>14 DEF Update
    <3>2. /\ t.at \in stored /\ t.at # NoRow
          /\ t.message \in Messages /\ rows[t.at] \in Rows
          /\ t.message.repository \in Repositories
      BY <2>1, <3>1 DEF Sound, Tasks
    <3>3. /\ rows[t.at].repository \in {NoRepository, t.message.repository}
          /\ t.repository = rows[t.at].repository
      BY <2>4, <3>1, <3>2 DEF Exact, Conflicts
    <3>4. /\ new.wasp = rows[t.at].wasp
          /\ new.repository = t.message.repository
      BY <2>1, <3>2, <3>3, UpdateFacts
    <3> HIDE DEF new
    <3>5. /\ rows'[t.at] = new
          /\ \A j \in stored \ {t.at} : rows'[j] = rows[j]
      BY <2>1, <3>1, <3>2
    <3>6. /\ task'[d].pc = "own" /\ task'[d].at = t.at
          /\ task'[d].message = t.message /\ task'[d].todo = t.todo
          /\ task'[d].key = t.key
      BY <2>1, <3>1 DEF Tasks
    <3>7. KeptRepository
      BY <3>3, <3>4, <3>5 DEF KeptRepository
    <3>8. Exact(task[d])'
      BY <3>4, <3>5, <3>6 DEF Exact
    <3>9. Progress(task[d])'
      <4>1. PICK r \in Repositories : r = t.message.repository
        BY <3>2
      <4>2. ASSUME NEW key \in t.message.images \ (t.todo \union {t.key})
            PROVE  Shown(key, r)
        BY <2>4, <3>1, <4>1 DEF Progress
      <4>3. ASSUME NEW key, Shown(key, r)
            PROVE  \E i \in RowsOf(key)' : rows'[i].repository = r
        BY <1>0, <3>7, <4>3, ShownStays DEF Shown
      <4>4. QED
        BY <3>6, <4>1, <4>2, <4>3 DEF Progress, Shown
    <3>10. WaspsOwn'
      <4>1. rows[t.at].wasp # NoWasp =>
              /\ rows[t.at].repository # NoRepository
              /\ rows[t.at].wasp.repository = rows[t.at].repository
        BY <3>2 DEF Alone, WaspsOwn, BInv, BridgedInOrder
      <4>2. QED
        BY <3>1, <3>3, <3>4, <3>5, <4>1 DEF Alone, WaspsOwn
    <3>11. QED
      BY <1>0, <2>3, <3>1, <3>7, <3>8, <3>9, <3>10, AloneFromParts
  <2>15. CASE Own(d)
    <3>1. /\ rows' = [rows EXCEPT ![t.at].wasp = t.message]
          /\ task' = [task EXCEPT ![d] =
                 [Idle EXCEPT !.pc = "next", !.message = t.message,
                              !.todo = t.todo]]
          /\ UNCHANGED <<stored, bridged>> /\ t.pc = "own"
      BY <2>15 DEF Own
    <3>2. /\ t.at \in stored /\ t.at # NoRow
          /\ t.message \in Messages /\ rows[t.at] \in Rows
          /\ t.message.repository \in Repositories
          /\ rows[t.at].key = t.key
      BY <2>1, <3>1 DEF Sound, Tasks
    <3>3. rows[t.at].repository = t.message.repository
      BY <2>4, <3>1 DEF Exact
    <3>4. /\ rows'[t.at] = [rows[t.at] EXCEPT !.wasp = t.message]
          /\ \A j \in stored \ {t.at} : rows'[j] = rows[j]
      BY <2>1, <3>1, <3>2
    <3>5. /\ rows'[t.at].wasp = t.message
          /\ rows'[t.at].repository = rows[t.at].repository
      BY <3>2, <3>4 DEF Rows
    <3>6. /\ task'[d].pc = "next" /\ task'[d].at = NoRow
          /\ task'[d].message = t.message /\ task'[d].todo = t.todo
      BY <2>1, <3>1 DEF Idle
    <3>7. KeptRepository
      BY <3>4, <3>5 DEF KeptRepository
    <3>8. Exact(task[d])'
      BY <3>6 DEF Exact
    <3>9. Progress(task[d])'
      <4>1. PICK r \in Repositories : r = t.message.repository
        BY <3>2
      <4>2. ASSUME NEW key \in t.message.images \ t.todo
            PROVE  Shown(key, r)
        <5>1. CASE key = t.key
          BY <3>2, <3>3, <4>1, <5>1 DEF Shown, RowsOf
        <5>2. CASE key # t.key
          BY <2>4, <3>1, <4>1, <5>2 DEF Progress
        <5>3. QED
          BY <5>1, <5>2
      <4>3. ASSUME NEW key, Shown(key, r)
            PROVE  \E i \in RowsOf(key)' : rows'[i].repository = r
        BY <1>0, <3>7, <4>3, ShownStays DEF Shown
      <4>4. QED
        BY <3>6, <4>1, <4>2, <4>3 DEF Progress, Shown
    <3>10. WaspsOwn'
      BY <3>1, <3>3, <3>4, <3>5 DEF Alone, WaspsOwn
    <3>11. QED
      BY <1>0, <2>3, <3>1, <3>7, <3>8, <3>9, <3>10, AloneFromParts
  <2>16. QED
    BY <1>3, <2>5, <2>6, <2>7, <2>8, <2>9, <2>10, <2>11, <2>12, <2>13, <2>14,
       <2>15 DEF Connect
<1>4. ~Manual
  BY DEF Manual
<1>5. QED
  BY <1>1, <1>2, <1>3, <1>4 DEF Next

AInv == ~overlapped => Alone

LEMMA AInvAlways == Spec => [](BInv /\ AInv)
<1>1. Init => BInv /\ AInv
  BY BInvInit, AloneInit DEF AInv
<1>2. [Next]_vars => (overlapped => overlapped')
  BY DEF Next, vars, Inventory, Manual, Connect, Take, Look, CountMany, CountOne,
         First, Create, Load, Refuse, Update, Own, Done, Fail
<1>3. BInv /\ AInv /\ [Next]_vars => (BInv /\ AInv)'
  BY <1>2, StepOK, AloneStep DEF AInv
<1>4. QED
  BY <1>1, <1>3, PTL DEF Spec

\* update_safely keeps its promise as long as no two daemons connect at the
\* same time: an image that has a repository keeps it.
THEOREM RepositoryIsAlwaysKept == Spec => RepositoryIsKept
<1>1. [Next]_vars => (overlapped => overlapped')
  BY DEF Next, vars, Inventory, Manual, Connect, Take, Look, CountMany, CountOne,
         First, Create, Load, Refuse, Update, Own, Done, Fail
<1>2. BInv /\ AInv /\ [Next]_vars =>
        [~overlapped' =>
           \A i \in stored : rows[i].repository # NoRepository =>
               rows'[i].repository = rows[i].repository]_vars
  BY <1>1, AloneStep DEF AInv, KeptRepository
<1>3. QED
  BY <1>2, AInvAlways, PTL DEF Spec, RepositoryIsKept

\* Until daemons overlap, the wasp of an image is of the image's repository.
THEOREM WaspIsAlwaysOfRepository == Spec => []WaspIsOfRepository
<1>1. AInv => WaspIsOfRepository
  BY DEF AInv, Alone, WaspsOwn, WaspIsOfRepository
<1>2. QED
  BY <1>1, AInvAlways, PTL

\* Until daemons overlap, a message connected without complaint has each of
\* its images shown in its repository.
THEOREM BridgedAlwaysMeansConnected == Spec => []BridgedMeansConnected
<1>1. AInv => BridgedMeansConnected
  BY DEF AInv, Alone, BridgedShown, Shown, BridgedMeansConnected
<1>2. QED
  BY <1>1, AInvAlways, PTL
=============================================================================
