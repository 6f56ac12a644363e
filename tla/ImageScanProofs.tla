---------------------------- MODULE ImageScanProofs ----------------------------
(***************************************************************************)
(* Proofs about ImageScan for any scanners, images, contents and counts of *)
(* retries.                                                                *)
(***************************************************************************)
EXTENDS ImageScan, FiniteSetTheorems, TLAPS

\* A scanner that has its tarball, its sbom.json, its row.
WithTar == {"sbom", "look", "insert", "artifacts", "layers", "base", "matches",
            "delete"}
WithSbom == WithTar \ {"sbom"}
WithRow == {"artifacts", "layers", "base", "matches", "delete"}

Placed(s) ==
    /\ task[s].pc # "idle" => task[s].image \in Images
    /\ task[s].pc \in WithTar => disk[s].tars[Tar(s)] # NoFile
    /\ task[s].pc \in WithSbom => disk[s].sbom \in SUBSET Packages
    /\ task[s].pc \in WithRow => task[s].row \in RowsOf(task[s].image, task[s].at)

TypeInv == TypeOK /\ \A s \in Scanners : Placed(s)

\* Each time the outer decorator catches, the inner one starts anew.
Counted(s) ==
    task[s].restarts <= task[s].integrity * OperationalTries + task[s].operational

\* Unless two scanners picked an image, one is at it, and inserts a row where
\* there is none.
Alone ==
    \A s, e \in Scanners :
        /\ Busy(s) /\ Busy(e)
        /\ task[s].image = task[e].image /\ task[s].image \notin raced
        => s = e

NoRowYet(s) ==
    task[s].pc = "insert" /\ task[s].image \notin raced =>
        RowsOf(task[s].image, task[s].at) = {}

\* A tarball that is trusted is of the platform it is taken for; with the name
\* of the index, there is one only while its platform is scanned.
OwnTars(s) ==
    \A image \in Images : \A at \in 1..2 :
        LET tar == disk[s].tars[FileOf(image, at)]
        IN  Trusted(image) /\ tar # NoFile =>
                IF image \in IndexNamed
                THEN /\ task[s].pc \in WithTar /\ task[s].image = image
                     /\ tar = [content |-> Offered(s), cut |-> FALSE]
                ELSE tar.content = Offers[image][at]

\* And what is read of it too.
OwnSbom(s) ==
    task[s].pc \in WithSbom /\ Trusted(task[s].image) =>
        /\ disk[s].sbom \subseteq Offered(s).packages
        /\ disk[s].tars[Tar(s)].cut \/ disk[s].sbom = Offered(s).packages

OwnTodo(s) ==
    IF task[s].pc = "artifacts"
    THEN task[s].todo \subseteq disk[s].sbom /\ task[s].pending \subseteq disk[s].sbom
    ELSE task[s].pending = {}

\* Layers are stored all at once.
OwnRows ==
    \A i \in DOMAIN rows : Trusted(rows[i].image) =>
        LET own == Offers[rows[i].image][rows[i].at]
        IN  /\ own # NoContent
            /\ rows[i].packages \subseteq own.packages
            /\ rows[i].layers \in {{}, Places(own.layers)}

\* What a scanner has stored of the platform it is at: the packages that are
\* not left or pending,
Listed(s) ==
    /\ task[s].pc = "artifacts" =>
           disk[s].sbom \subseteq
               rows[task[s].row].packages \union task[s].todo \union task[s].pending
    /\ task[s].pc \in WithRow \ {"artifacts"} =>
           disk[s].sbom \subseteq rows[task[s].row].packages

\* the layers and the vulnerabilities,
Stored(s) ==
    /\ task[s].pc \in {"base", "matches", "delete"} =>
           /\ ~disk[s].tars[Tar(s)].cut
           /\ Places(disk[s].tars[Tar(s)].content.layers)
                  \subseteq rows[task[s].row].layers
    /\ task[s].pc = "delete" =>
           \A p \in disk[s].sbom : {p} \X Matches[p] \subseteq vulnerable

\* and of those it is done with.
Covered(image, at) == Offers[image][at] # NoContent => Inventoried(image, at)

Behind(s) ==
    \A image \in Images : Trusted(image) /\ task[s].image = image =>
        /\ task[s].pc # "idle" /\ task[s].at = 2 => Covered(image, 1)
        /\ task[s].pc = "ended" => task[s].at = 2 /\ Covered(image, 2)

\* The layers of the base image are some of the first of the image.
IsBuiltOn(row, base) ==
    /\ base.image \in Orgsre /\ base.layers # {}
    /\ IsParent(base.layers, row.layers)

Ancestors ==
    \A i \in DOMAIN rows :
        LET base == rows[i].base
        IN  /\ base # NoRow
            /\ Trusted(rows[i].image) /\ Trusted(rows[base].image)
            => IsBuiltOn(rows[i], rows[base])

AllCounted == \A s \in Scanners : Counted(s)
AllNoRowYet == \A s \in Scanners : NoRowYet(s)
AllOwnTars == \A s \in Scanners : OwnTars(s)
AllOwnSbom == \A s \in Scanners : OwnSbom(s)
AllOwnTodo == \A s \in Scanners : OwnTodo(s)
AllListed == \A s \in Scanners : Listed(s)
AllStored == \A s \in Scanners : Stored(s)
AllBehind == \A s \in Scanners : Behind(s)

-----------------------------------------------------------------------------
(* What every step of a scanner leaves alone, or only adds to.             *)

DiskSet == [tars: [Files -> Pulled \union {NoFile}],
            sbom: (SUBSET Packages) \union {NoFile}]

TaskSet ==
    [pc: {"idle", "ended", "pull", "sbom", "look", "insert", "artifacts",
          "layers", "base", "matches", "delete"},
     image: Images \union {NoImage}, at: 1..2,
     row: DOMAIN rows \union {NoRow},
     todo: SUBSET Packages, pending: SUBSET packages,
     integrity: 0..(IntegrityTries - 1),
     operational: 0..(OperationalTries - 1), restarts: Nat]

TablesTyped ==
    /\ rows \in Seq(Row)
    /\ packages \subseteq Packages
    /\ vulnerable \subseteq packages \X Vulnerabilities
    /\ \A i \in DOMAIN rows : /\ rows[i].packages \subseteq packages
                              /\ rows[i].base \in DOMAIN rows \union {NoRow}

HistoryTyped ==
    raced \subseteq Images /\ failed \subseteq IndexNamed /\ scans \in 0..MaxScans

RowsGrow ==
    /\ DOMAIN rows \subseteq DOMAIN rows'
    /\ \A i \in DOMAIN rows :
        /\ rows'[i].image = rows[i].image /\ rows'[i].at = rows[i].at
        /\ rows[i].packages \subseteq rows'[i].packages
        /\ rows[i].layers \subseteq rows'[i].layers

TablesGrow ==
    RowsGrow /\ packages \subseteq packages' /\ vulnerable \subseteq vulnerable'

Frame(s) ==
    /\ \A e \in Scanners \ {s} : task'[e] = task[e] /\ disk'[e] = disk[e]
    /\ TablesGrow /\ failed \subseteq failed' /\ raced \subseteq raced'

LEMMA TypeParts ==
    TypeOK <=> /\ disk \in [Scanners -> DiskSet] /\ task \in [Scanners -> TaskSet]
               /\ TablesTyped /\ HistoryTyped
BY DEF TypeOK, DiskSet, TaskSet, TablesTyped, HistoryTyped

LEMMA FileIsNamed ==
    ASSUME NEW image \in Images, NEW at \in 1..2
    PROVE  FileOf(image, at) \in Files
BY DEF FileOf, Files

LEMMA UnchangedGrows == ASSUME UNCHANGED tables PROVE TablesGrow
BY DEF tables, TablesGrow, RowsGrow

\* The rows of a table that grows are found again.
LEMMA RowsOfGrows ==
    ASSUME RowsGrow, NEW image, NEW at, NEW i \in RowsOf(image, at)
    PROVE  i \in RowsOf(image, at)'
BY DEF RowsOf, RowsGrow

LEMMA PlacedKept ==
    ASSUME RowsGrow, NEW e \in Scanners, Placed(e),
           task'[e] = task[e], disk'[e] = disk[e]
    PROVE  Placed(e)'
<1>1. Tar(e)' = Tar(e)
  BY DEF Tar, FileOf
<1> QED
  BY <1>1, RowsOfGrows DEF Placed

\* A step of a scanner, from its new record and the new files of its directory.
LEMMA StepTyped ==
    ASSUME TypeInv, NEW s \in Scanners,
           NEW t, task' = [task EXCEPT ![s] = t], t \in TaskSet',
           NEW d, disk' = [disk EXCEPT ![s] = d], d \in DiskSet,
           TablesTyped', HistoryTyped', TablesGrow,
           failed \subseteq failed', raced \subseteq raced', Placed(s)'
    PROVE  TypeInv' /\ Frame(s) /\ task'[s] = t /\ disk'[s] = d
<1>1. disk \in [Scanners -> DiskSet] /\ task \in [Scanners -> TaskSet]
  BY TypeParts DEF TypeInv
<1>2. /\ task'[s] = t /\ disk'[s] = d
      /\ \A e \in Scanners \ {s} : task'[e] = task[e] /\ disk'[e] = disk[e]
  BY <1>1
<1>3. \A e \in Scanners : task[e] \in TaskSet => task[e] \in TaskSet'
  BY DEF TaskSet, TablesGrow, RowsGrow
<1>4. \A e \in Scanners : task'[e] \in TaskSet'
  BY <1>1, <1>2, <1>3
<1>5. disk' \in [Scanners -> DiskSet] /\ task' \in [Scanners -> TaskSet']
  <2>1. disk' \in [Scanners -> DiskSet]
    BY <1>1
  <2>2. DOMAIN task' = Scanners
    BY <1>1
  <2>3. task' = [e \in Scanners |-> task'[e]]
    BY <1>1
  <2> QED
    BY <1>4, <2>1, <2>3
<1>6. TypeOK'
  BY <1>5 DEF TypeOK, DiskSet, TaskSet, TablesTyped, HistoryTyped
<1>7. \A e \in Scanners : Placed(e)'
  BY <1>2, PlacedKept DEF TypeInv, TablesGrow
<1> QED
  BY <1>2, <1>6, <1>7 DEF TypeInv, Frame

LEMMA Here ==
    ASSUME TypeInv, NEW s \in Scanners
    PROVE  /\ task[s] \in TaskSet /\ disk[s] \in DiskSet /\ Placed(s)
           /\ disk = [disk EXCEPT ![s] = disk[s]]
           /\ task[s].pc # "idle" =>
                /\ task[s].image \in Images /\ Tar(s) \in Files
                /\ Offered(s) \in Contents \union {NoContent}
           /\ task[s].pc \in WithTar => disk[s].tars[Tar(s)] \in Pulled
           /\ task[s].pc \in WithSbom => disk[s].sbom \in SUBSET Packages
           /\ task[s].pc \in WithRow =>
                /\ task[s].row \in DOMAIN rows
                /\ rows[task[s].row].image = task[s].image
                /\ rows[task[s].row].at = task[s].at
<1>1. disk \in [Scanners -> DiskSet] /\ task \in [Scanners -> TaskSet]
  BY TypeParts DEF TypeInv
<1>2. task[s] \in TaskSet /\ disk[s] \in DiskSet /\ Placed(s)
  BY <1>1 DEF TypeInv
<1>3. disk = [disk EXCEPT ![s] = disk[s]]
  BY <1>1
<1>4. task[s].pc # "idle" =>
        /\ task[s].image \in Images /\ Tar(s) \in Files
        /\ Offered(s) \in Contents \union {NoContent}
  <2>1. task[s].at \in 1..2
    BY <1>2 DEF TaskSet
  <2> QED
    BY <1>2, <2>1, FileIsNamed, ImageScanAssumption DEF Placed, Tar, Offered
<1>5. task[s].pc \in WithTar => disk[s].tars[Tar(s)] \in Pulled
  BY <1>2, <1>4 DEF Placed, WithTar, DiskSet
<1>6. task[s].pc \in WithSbom => disk[s].sbom \in SUBSET Packages
  BY <1>2 DEF Placed, DiskSet
<1>7. task[s].pc \in WithRow =>
        /\ task[s].row \in DOMAIN rows
        /\ rows[task[s].row].image = task[s].image
        /\ rows[task[s].row].at = task[s].at
  BY <1>2 DEF Placed, RowsOf
<1> QED
  BY <1>2, <1>3, <1>4, <1>5, <1>6, <1>7

LEMMA IdleTyped ==
    /\ Idle \in TaskSet
    /\ \A pc \in {"pull", "ended"} : \A image \in Images : \A at \in 1..2 :
         [Idle EXCEPT !.pc = pc, !.image = image, !.at = at] \in TaskSet
<1>1. 0 \in 0..(IntegrityTries - 1) /\ 0 \in 0..(OperationalTries - 1)
  BY ImageScanAssumption
<1>2. Idle \in TaskSet
  BY <1>1 DEF Idle, TaskSet
<1>3. ASSUME NEW pc \in {"pull", "ended"}, NEW image \in Images, NEW at \in 1..2
      PROVE  [Idle EXCEPT !.pc = pc, !.image = image, !.at = at] \in TaskSet
  BY <1>2 DEF TaskSet
<1> QED
  BY <1>2, <1>3

LEMMA UnchangedTyped ==
    ASSUME TypeInv
    PROVE  /\ UNCHANGED tables => TablesTyped' /\ TablesGrow /\ TaskSet' = TaskSet
           /\ UNCHANGED history =>
                HistoryTyped' /\ failed \subseteq failed' /\ raced \subseteq raced'
<1>1. TablesTyped /\ HistoryTyped
  BY TypeParts DEF TypeInv
<1>2. UNCHANGED tables => TablesTyped' /\ TablesGrow /\ TaskSet' = TaskSet
  BY <1>1, UnchangedGrows DEF tables, TablesTyped, TaskSet
<1>3. UNCHANGED history =>
        HistoryTyped' /\ failed \subseteq failed' /\ raced \subseteq raced'
  BY <1>1 DEF history, HistoryTyped
<1> QED
  BY <1>2, <1>3

LEMMA FailsTyped ==
    ASSUME TypeInv, NEW s \in Scanners, Fails(s), UNCHANGED tables,
           NEW d \in DiskSet, disk' = [disk EXCEPT ![s] = d]
    PROVE  TypeInv' /\ Frame(s) /\ task'[s] = Idle /\ disk'[s] = d
<1>1. TablesTyped' /\ TablesGrow /\ TaskSet' = TaskSet
  BY UnchangedTyped
<1>2. task' = [task EXCEPT ![s] = Idle] /\ Idle \in TaskSet'
  BY <1>1, IdleTyped DEF Fails
<1>3. HistoryTyped' /\ failed \subseteq failed' /\ raced \subseteq raced'
  BY TypeParts DEF TypeInv, HistoryTyped, Fails
<1>4. Placed(s)'
  <2>1. task'[s] = Idle
    BY <1>2, Here, TypeParts DEF TypeInv
  <2> QED
    BY <2>1 DEF Placed, Idle, WithTar, WithSbom, WithRow
<1> QED
  BY <1>1, <1>2, <1>3, <1>4, StepTyped

LEMMA NextPlatformTyped ==
    ASSUME TypeInv, NEW s \in Scanners, Busy(s), NextPlatform(s), UNCHANGED tables,
           NEW d \in DiskSet, disk' = [disk EXCEPT ![s] = d]
    PROVE  /\ TypeInv' /\ Frame(s) /\ disk'[s] = d
           /\ task'[s].pc = (IF task[s].at = 1 THEN "pull" ELSE "ended")
           /\ task'[s].image = task[s].image /\ task'[s].at = 2
           /\ task'[s].restarts = 0 /\ task'[s].integrity = 0
           /\ task'[s].operational = 0 /\ task'[s].pending = {}
<1> DEFINE n == IF task[s].at = 1 THEN "pull" ELSE "ended"
           t == [Idle EXCEPT !.pc = n, !.image = task[s].image, !.at = 2]
<1>1. TablesTyped' /\ TablesGrow /\ TaskSet' = TaskSet
  BY UnchangedTyped
<1>2. task[s].image \in Images
  BY Here DEF Busy
<1>3. task' = [task EXCEPT ![s] = t] /\ t \in TaskSet'
  <2>1. task' = [task EXCEPT ![s] = t]
    BY DEF NextPlatform
  <2>2. n \in {"pull", "ended"}
    OBVIOUS
  <2> HIDE DEF n
  <2>3. t \in TaskSet
    <3>1. 2 \in 1..2
      OBVIOUS
    <3> QED
      BY <1>2, <2>2, <3>1, IdleTyped, Zenon
  <2> QED
    BY <1>1, <2>1, <2>3
<1>4. HistoryTyped' /\ failed \subseteq failed' /\ raced \subseteq raced'
  BY UnchangedTyped DEF NextPlatform
<1>5. /\ t.pc = n
      /\ t.image = task[s].image /\ t.at = 2
      /\ t.restarts = 0 /\ t.integrity = 0 /\ t.operational = 0
      /\ t.pending = {}
  BY DEF Idle
<1> HIDE DEF t
<1>6. task'[s] = t
  BY <1>3, TypeParts DEF TypeInv
<1>7. Placed(s)'
  BY <1>2, <1>5, <1>6 DEF Placed, WithTar, WithSbom, WithRow
<1> QED
  BY <1>1, <1>3, <1>4, <1>5, <1>6, <1>7, StepTyped

LEMMA StartTyped ==
    ASSUME TypeInv, NEW s \in Scanners, Start(s)
    PROVE  TypeInv' /\ Frame(s) /\ disk' = disk
<1>1. PICK image \in Images :
        /\ task' = [task EXCEPT ![s] = [Idle EXCEPT !.pc = "pull", !.image = image]]
        /\ raced' = IF \E e \in Scanners : Busy(e) /\ task[e].image = image
                    THEN raced \union {image} ELSE raced
  BY DEF Start
<1> DEFINE t == [Idle EXCEPT !.pc = "pull", !.image = image]
<1>2. TablesTyped' /\ TablesGrow /\ TaskSet' = TaskSet
  BY UnchangedTyped DEF Start
<1>3. t \in TaskSet /\ t.pc = "pull" /\ t.image = image
  BY IdleTyped DEF TaskSet, Idle
<1> HIDE DEF t
<1>4. HistoryTyped' /\ failed \subseteq failed' /\ raced \subseteq raced'
  <2>1. HistoryTyped
    BY TypeParts DEF TypeInv
  <2>2. raced' \subseteq Images /\ raced \subseteq raced'
    BY <1>1, <2>1 DEF HistoryTyped
  <2>3. failed' = failed /\ scans' \in 0..MaxScans
    BY <2>1, ImageScanAssumption DEF HistoryTyped, Start
  <2> QED
    BY <2>1, <2>2, <2>3 DEF HistoryTyped
<1>5. task'[s] = t
  BY <1>1, TypeParts DEF TypeInv, t
<1>6. Placed(s)'
  BY <1>3, <1>5 DEF Placed, WithTar, WithSbom, WithRow
<1>7. disk' = [disk EXCEPT ![s] = disk[s]] /\ disk[s] \in DiskSet /\ disk' = disk
  BY Here DEF Start
<1>8. task' = [task EXCEPT ![s] = t]
  BY <1>1 DEF t
<1> QED
  BY <1>2, <1>3, <1>4, <1>6, <1>7, <1>8, StepTyped

\* A step of a scanner that leaves the tables alone and goes on with the same
\* platform.
LEMMA QuietStepTyped ==
    ASSUME TypeInv, NEW s \in Scanners, Busy(s), UNCHANGED tables, UNCHANGED history,
           NEW t, task' = [task EXCEPT ![s] = t], t \in TaskSet,
           t.image = task[s].image, t.at = task[s].at,
           NEW d \in DiskSet, disk' = [disk EXCEPT ![s] = d],
           t.pc \in WithTar => d.tars[Tar(s)] # NoFile,
           t.pc \in WithSbom => d.sbom \in SUBSET Packages,
           t.pc \in WithRow => t.row \in RowsOf(task[s].image, task[s].at)
    PROVE  TypeInv' /\ Frame(s) /\ task'[s] = t /\ disk'[s] = d
<1>1. TablesTyped' /\ TablesGrow /\ TaskSet' = TaskSet
  BY UnchangedTyped
<1>2. HistoryTyped' /\ failed \subseteq failed' /\ raced \subseteq raced'
  BY UnchangedTyped
<1>3. task'[s] = t /\ disk'[s] = d
  BY TypeParts DEF TypeInv
<1>4. Tar(s)' = Tar(s)
  BY <1>3 DEF Tar, FileOf
<1>5. task[s].image \in Images
  BY Here DEF Busy
<1>6. RowsOf(task[s].image, task[s].at)' = RowsOf(task[s].image, task[s].at)
  BY <1>3 DEF RowsOf, tables
<1>7. Placed(s)'
  BY <1>3, <1>4, <1>5, <1>6 DEF Placed
<1> QED
  BY <1>1, <1>2, <1>3, <1>7, StepTyped

LEMMA ReuseTyped ==
    ASSUME TypeInv, NEW s \in Scanners, Reuse(s)
    PROVE  TypeInv' /\ Frame(s) /\ disk' = disk
           /\ task'[s] = [task[s] EXCEPT !.pc = "sbom"]
<1> DEFINE t == [task[s] EXCEPT !.pc = "sbom"]
<1>1. /\ task' = [task EXCEPT ![s] = t] /\ UNCHANGED history /\ UNCHANGED tables
      /\ disk' = disk /\ disk[s].tars[Tar(s)] # NoFile /\ Busy(s)
  BY Here DEF Reuse, Goto, TaskSet, Busy
<1>2. t \in TaskSet /\ t.pc = "sbom" /\ t.image = task[s].image /\ t.at = task[s].at
  BY Here DEF TaskSet
<1> HIDE DEF t
<1>3. t.pc \notin WithSbom /\ t.pc \notin WithRow
  BY <1>2 DEF WithSbom, WithTar, WithRow
<1>4. disk[s] \in DiskSet /\ disk' = [disk EXCEPT ![s] = disk[s]]
  BY <1>1, Here
<1>5. TypeInv' /\ Frame(s) /\ task'[s] = t
  BY <1>1, <1>2, <1>3, <1>4, QuietStepTyped
<1> QED
  BY <1>1, <1>5 DEF t

\* A file of a directory is written.
LEMMA TarWritten ==
    ASSUME NEW d \in DiskSet, NEW f \in Files, NEW tar \in Pulled \union {NoFile}
    PROVE  /\ [d EXCEPT !.tars[f] = tar] \in DiskSet
           /\ [d EXCEPT !.tars[f] = tar].tars[f] = tar
           /\ [d EXCEPT !.tars[f] = tar].sbom = d.sbom
           /\ \A g \in Files \ {f} : [d EXCEPT !.tars[f] = tar].tars[g] = d.tars[g]
BY DEF DiskSet

LEMMA PullTyped ==
    ASSUME TypeInv, NEW s \in Scanners, Pull(s)
    PROVE  /\ TypeInv' /\ Frame(s)
           /\ task'[s] = [task[s] EXCEPT !.pc = "sbom"]
           /\ disk'[s] = [disk[s] EXCEPT !.tars[Tar(s)] =
                              [content |-> Offered(s), cut |-> FALSE]]
<1> DEFINE t == [task[s] EXCEPT !.pc = "sbom"]
           tar == [content |-> Offered(s), cut |-> FALSE]
           d == [disk[s] EXCEPT !.tars[Tar(s)] = tar]
<1>1. /\ task' = [task EXCEPT ![s] = t] /\ UNCHANGED history /\ UNCHANGED tables
      /\ disk' = [disk EXCEPT ![s] = d] /\ Busy(s)
  BY Here DEF Pull, Goto, TaskSet, DiskSet, Busy
<1>2. t \in TaskSet /\ t.pc = "sbom" /\ t.image = task[s].image /\ t.at = task[s].at
  BY Here DEF TaskSet
<1>3. tar \in Pulled /\ tar # NoFile
  <2>1. Offered(s) \in Contents
    BY Here DEF Pull
  <2>2. tar \in Pulled
    BY <2>1 DEF Pulled
  <2> QED
    BY <2>2, ImageScanAssumption
<1>4. Tar(s) \in Files /\ disk[s] \in DiskSet
  BY Here DEF Pull
<1> HIDE DEF t, tar
<1>5. d \in DiskSet /\ d.tars[Tar(s)] = tar
  BY <1>3, <1>4, TarWritten
<1> HIDE DEF d
<1>6. t.pc \notin WithSbom /\ t.pc \notin WithRow
  BY <1>2 DEF WithSbom, WithTar, WithRow
<1>7. TypeInv' /\ Frame(s) /\ task'[s] = t /\ disk'[s] = d
  BY <1>1, <1>2, <1>3, <1>5, <1>6, QuietStepTyped
<1> QED
  BY <1>7 DEF t, d, tar

LEMMA CutPullTyped ==
    ASSUME TypeInv, NEW s \in Scanners, CutPull(s)
    PROVE  /\ TypeInv' /\ Frame(s) /\ task'[s] = Idle
           /\ disk'[s] = [disk[s] EXCEPT !.tars[Tar(s)] =
                              [content |-> Offered(s), cut |-> TRUE]]
<1> DEFINE tar == [content |-> Offered(s), cut |-> TRUE]
           d == [disk[s] EXCEPT !.tars[Tar(s)] = tar]
<1>1. Fails(s) /\ UNCHANGED tables /\ disk' = [disk EXCEPT ![s] = d]
  BY Here DEF CutPull, DiskSet
<1>2. tar \in Pulled
  BY Here DEF CutPull, Pulled
<1>3. Tar(s) \in Files /\ disk[s] \in DiskSet
  BY Here DEF CutPull
<1> HIDE DEF tar
<1>4. d \in DiskSet
  BY <1>2, <1>3, TarWritten
<1> HIDE DEF d
<1>5. TypeInv' /\ Frame(s) /\ task'[s] = Idle /\ disk'[s] = d
  BY <1>1, <1>4, FailsTyped
<1> QED
  BY <1>5 DEF d, tar

LEMMA NotOfferedTyped ==
    ASSUME TypeInv, NEW s \in Scanners, NotOffered(s)
    PROVE  /\ TypeInv' /\ Frame(s) /\ disk' = disk
           /\ IF task[s].image \in IndexNamed
              THEN /\ disk[s].tars[Tar(s)] = NoFile
                   /\ task'[s].pc = (IF task[s].at = 1 THEN "pull" ELSE "ended")
                   /\ task'[s].image = task[s].image /\ task'[s].at = 2
                   /\ task'[s].restarts = 0 /\ task'[s].integrity = 0
                   /\ task'[s].operational = 0 /\ task'[s].pending = {}
                   /\ UNCHANGED history
              ELSE task'[s] = Idle /\ Fails(s)
<1>1. /\ disk[s] \in DiskSet /\ disk' = [disk EXCEPT ![s] = disk[s]]
      /\ UNCHANGED tables /\ Busy(s) /\ disk' = disk
  BY Here DEF NotOffered, Busy
<1>2. CASE task[s].image \in IndexNamed
  <2>1. disk[s].tars[Tar(s)] = NoFile /\ NextPlatform(s) /\ UNCHANGED history
    BY <1>2 DEF NotOffered, NextPlatform
  <2> QED
    BY <1>1, <1>2, <2>1, NextPlatformTyped
<1>3. CASE task[s].image \notin IndexNamed
  <2>1. Fails(s)
    BY <1>3 DEF NotOffered
  <2> QED
    BY <1>1, <1>3, <2>1, FailsTyped
<1> QED
  BY <1>2, <1>3

LEMMA SbomTyped ==
    ASSUME TypeInv, NEW s \in Scanners, Sbom(s)
    PROVE  /\ TypeInv' /\ Frame(s)
           /\ task'[s] = [task[s] EXCEPT !.pc = "look"]
           /\ \E found \in SUBSET disk[s].tars[Tar(s)].content.packages :
                /\ \/ disk[s].tars[Tar(s)].cut
                   \/ found = disk[s].tars[Tar(s)].content.packages
                /\ disk'[s] = [disk[s] EXCEPT !.sbom = found]
<1> DEFINE tar == disk[s].tars[Tar(s)]
<1>1. PICK found \in SUBSET tar.content.packages :
        /\ tar.cut \/ found = tar.content.packages
        /\ disk' = [disk EXCEPT ![s].sbom = found]
  BY DEF Sbom
<1> DEFINE t == [task[s] EXCEPT !.pc = "look"]
           d == [disk[s] EXCEPT !.sbom = found]
<1>2. /\ task' = [task EXCEPT ![s] = t] /\ UNCHANGED history /\ UNCHANGED tables
      /\ disk' = [disk EXCEPT ![s] = d] /\ Busy(s)
  BY <1>1, Here DEF Sbom, Goto, TaskSet, DiskSet, Busy
<1>3. t \in TaskSet /\ t.pc = "look" /\ t.image = task[s].image /\ t.at = task[s].at
  BY Here DEF TaskSet
<1>4. tar \in Pulled /\ tar # NoFile
  BY Here, ImageScanAssumption DEF Sbom, WithTar
<1>5. found \in SUBSET Packages
  BY <1>1, <1>4 DEF Pulled, Contents
<1>6. /\ d \in DiskSet /\ d.sbom = found /\ d.tars[Tar(s)] = tar
  BY <1>5, Here DEF DiskSet
<1>7. t.pc \notin WithRow
  BY <1>3 DEF WithRow
<1> HIDE DEF t, d, tar
<1>8. TypeInv' /\ Frame(s) /\ task'[s] = t /\ disk'[s] = d
  BY <1>2, <1>3, <1>4, <1>5, <1>6, <1>7, QuietStepTyped
<1> QED
  BY <1>1, <1>8 DEF t, d, tar


\* A scanner that knows its row sees it in the tables.
LEMMA LookTyped ==
    ASSUME TypeInv, NEW s \in Scanners, Look(s)
    PROVE  /\ TypeInv' /\ Frame(s) /\ disk' = disk /\ UNCHANGED tables
           /\ \/ /\ RowsOf(task[s].image, task[s].at) = {} /\ UNCHANGED history
                 /\ task'[s] = [task[s] EXCEPT !.pc = "insert"]
              \/ /\ UNCHANGED history
                 /\ \E i \in RowsOf(task[s].image, task[s].at) :
                      task'[s] = [task[s] EXCEPT !.pc = "artifacts", !.row = i,
                                                 !.todo = disk[s].sbom]
              \/ /\ Cardinality(RowsOf(task[s].image, task[s].at)) > 1
                 /\ task'[s] = Idle /\ Fails(s)
<1> DEFINE found == RowsOf(task[s].image, task[s].at)
<1>0. disk' = disk
  BY DEF Look
<1>1. /\ disk[s] \in DiskSet /\ disk' = [disk EXCEPT ![s] = disk[s]]
      /\ UNCHANGED tables /\ Busy(s)
      /\ disk[s].sbom \in SUBSET Packages /\ disk[s].tars[Tar(s)] # NoFile
  <2>1. task[s].pc \in WithSbom /\ task[s].pc \in WithTar
    BY DEF Look, WithSbom, WithTar
  <2> QED
    BY <2>1, Here DEF Look, Busy, Placed
<1>2. task[s] \in TaskSet /\ DOMAIN task = Scanners
  BY Here, TypeParts DEF TypeInv
<1>3. CASE found = {} /\ Goto(s, "insert")
  <2> DEFINE t == [task[s] EXCEPT !.pc = "insert"]
  <2>1. /\ t \in TaskSet /\ t.pc = "insert"
        /\ t.image = task[s].image /\ t.at = task[s].at
    BY <1>2 DEF TaskSet
  <2>2. task' = [task EXCEPT ![s] = t] /\ UNCHANGED history
    BY <1>2, <1>3 DEF Goto, TaskSet
  <2> HIDE DEF t
  <2>3. t.pc \notin WithRow
    BY <2>1 DEF WithRow
  <2>4. TypeInv' /\ Frame(s) /\ task'[s] = t
    BY <1>1, <2>1, <2>2, <2>3, QuietStepTyped
  <2> QED
    BY <1>0, <1>1, <1>3, <2>2, <2>4 DEF t
<1>4. ASSUME NEW i \in found, UNCHANGED history,
             task' = [task EXCEPT ![s].pc = "artifacts", ![s].row = i,
                                  ![s].todo = disk[s].sbom]
      PROVE  /\ TypeInv' /\ Frame(s)
             /\ task'[s] = [task[s] EXCEPT !.pc = "artifacts", !.row = i,
                                           !.todo = disk[s].sbom]
  <2> DEFINE t == [task[s] EXCEPT !.pc = "artifacts", !.row = i,
                                  !.todo = disk[s].sbom]
  <2>1. task' = [task EXCEPT ![s] = t]
    BY <1>2, <1>4 DEF TaskSet
  <2>2. i \in DOMAIN rows
    BY DEF RowsOf
  <2>3. /\ t \in TaskSet /\ t.row = i
        /\ t.image = task[s].image /\ t.at = task[s].at
    BY <1>1, <1>2, <2>2 DEF TaskSet
  <2> HIDE DEF t
  <2>4. TypeInv' /\ Frame(s) /\ task'[s] = t
    BY <1>1, <1>4, <2>1, <2>3, QuietStepTyped
  <2> QED
    BY <2>4 DEF t
<1>5. \/ found = {} /\ Goto(s, "insert")
      \/ \E i \in found : /\ UNCHANGED history
                          /\ task' = [task EXCEPT ![s].pc = "artifacts", ![s].row = i,
                                                  ![s].todo = disk[s].sbom]
      \/ Cardinality(found) > 1 /\ Fails(s)
  BY DEF Look
<1>6. CASE \E i \in found : /\ UNCHANGED history
                            /\ task' = [task EXCEPT ![s].pc = "artifacts", ![s].row = i,
                                                    ![s].todo = disk[s].sbom]
  BY <1>0, <1>1, <1>4, <1>6
<1>7. CASE Cardinality(found) > 1 /\ Fails(s)
  BY <1>0, <1>1, <1>7, FailsTyped
<1> QED
  BY <1>3, <1>5, <1>6, <1>7

LEMMA AssociateTyped ==
    ASSUME TypeInv, NEW s \in Scanners, Associate(s)
    PROVE  /\ TypeInv' /\ Frame(s) /\ disk' = disk
           /\ \E p \in task[s].todo \intersect packages :
                task'[s] = [task[s] EXCEPT !.todo = @ \ {p}, !.pending = @ \union {p}]
<1>1. PICK p \in task[s].todo \intersect packages :
        task' = [task EXCEPT ![s].todo = @ \ {p}, ![s].pending = @ \union {p}]
  BY DEF Associate
<1> DEFINE t == [task[s] EXCEPT !.todo = @ \ {p}, !.pending = @ \union {p}]
<1>2. task[s] \in TaskSet /\ DOMAIN task = Scanners
  BY Here, TypeParts DEF TypeInv
<1>3. task' = [task EXCEPT ![s] = t]
  BY <1>1, <1>2 DEF TaskSet
<1>4. /\ t \in TaskSet /\ t.pc = "artifacts" /\ t.row = task[s].row
      /\ t.image = task[s].image /\ t.at = task[s].at
  BY <1>2 DEF TaskSet, Associate
<1>5. task[s].pc \in WithRow /\ task[s].pc \in WithTar /\ task[s].pc \in WithSbom
  BY DEF Associate, WithTar, WithSbom, WithRow
<1>6. /\ disk[s] \in DiskSet /\ disk' = [disk EXCEPT ![s] = disk[s]] /\ disk' = disk
      /\ UNCHANGED tables /\ UNCHANGED history /\ Busy(s)
      /\ disk[s].sbom \in SUBSET Packages /\ disk[s].tars[Tar(s)] # NoFile
      /\ task[s].row \in RowsOf(task[s].image, task[s].at)
  BY <1>5, Here DEF Associate, Busy, Placed
<1> HIDE DEF t
<1>7. TypeInv' /\ Frame(s) /\ task'[s] = t
  BY <1>3, <1>4, <1>6, QuietStepTyped
<1> QED
  BY <1>6, <1>7 DEF t

\* A pass that is started again.
Retries(s) ==
    /\ UNCHANGED history /\ task[s].pc \in Retried
    /\ task'[s].pc = FirstPc(task[s].pc)
    /\ task'[s].image = task[s].image /\ task'[s].at = task[s].at
    /\ task'[s].row = task[s].row /\ task'[s].pending = {}
    /\ task'[s].restarts = task[s].restarts + 1

LEMMA RestartShape ==
    ASSUME NEW t \in TaskSet
    PROVE  /\ Restart(t) \in TaskSet /\ Restart(t).pc = FirstPc(t.pc)
           /\ Restart(t).row = t.row /\ Restart(t).pending = {}
           /\ Restart(t).image = t.image /\ Restart(t).at = t.at
           /\ Restart(t).integrity = t.integrity
           /\ Restart(t).operational = t.operational
           /\ Restart(t).restarts = t.restarts + 1
<1>1. FirstPc(t.pc) \in {"look", "matches"}
  BY DEF FirstPc
<1>2. t.restarts + 1 \in Nat
  BY DEF TaskSet
<1> HIDE DEF FirstPc
<1> QED
  BY <1>1, <1>2 DEF Restart, TaskSet

LEMMA RestartTyped ==
    ASSUME TypeInv, NEW s \in Scanners, task[s].pc \in Retried,
           UNCHANGED tables, UNCHANGED history,
           disk' = [disk EXCEPT ![s] = disk[s]],
           NEW t \in TaskSet, task' = [task EXCEPT ![s] = t],
           t.pc = FirstPc(task[s].pc), t.row = task[s].row,
           t.image = task[s].image, t.at = task[s].at,
           t.restarts = task[s].restarts + 1, t.pending = {}
    PROVE  TypeInv' /\ Frame(s) /\ Retries(s) /\ task'[s] = t
<1>1. /\ disk[s] \in DiskSet /\ Busy(s)
      /\ disk[s].sbom \in SUBSET Packages /\ disk[s].tars[Tar(s)] # NoFile
      /\ task[s].pc \in WithRow => task[s].row \in RowsOf(task[s].image, task[s].at)
  <2>1. task[s].pc \in WithSbom /\ task[s].pc \in WithTar /\ Busy(s)
    BY DEF Retried, WithSbom, WithTar, Busy
  <2> QED
    BY <2>1, Here DEF Placed
<1>2. t.pc \in WithRow => task[s].pc \in WithRow
  BY DEF FirstPc, WithRow
<1>3. TypeInv' /\ Frame(s) /\ task'[s] = t
  BY <1>1, <1>2, QuietStepTyped
<1> QED
  BY <1>3 DEF Retries

LEMMA OperationalErrorTyped ==
    ASSUME TypeInv, NEW s \in Scanners, OperationalError(s)
    PROVE  /\ TypeInv' /\ Frame(s) /\ disk' = disk /\ UNCHANGED tables
           /\ \/ /\ Retries(s) /\ task'[s].integrity = task[s].integrity
                 /\ task'[s].operational = task[s].operational + 1
              \/ task'[s] = Idle /\ Fails(s)
<1>1. task[s] \in TaskSet /\ disk[s] \in DiskSet /\ disk = [disk EXCEPT ![s] = disk[s]]
  BY Here
<1>2. disk' = disk /\ UNCHANGED tables /\ task[s].pc \in Retried
  BY DEF OperationalError
<1>3. CASE task[s].operational + 1 < OperationalTries
  <2> DEFINE r == Restart(task[s])
             t == [r EXCEPT !.operational = @ + 1]
  <2>1. task' = [task EXCEPT ![s] = [Restart(task[s]) EXCEPT !.operational = @ + 1]]
    BY <1>3 DEF OperationalError
  <2>2. task' = [task EXCEPT ![s] = t]
    BY <2>1
  <2>3. /\ task[s].operational + 1 \in 0..(OperationalTries - 1)
        /\ task[s].integrity \in 0..(IntegrityTries - 1)
    BY <1>1, <1>3, ImageScanAssumption DEF TaskSet
  <2>4. UNCHANGED history /\ disk' = [disk EXCEPT ![s] = disk[s]]
    BY <1>1, <1>2, <1>3 DEF OperationalError
  <2>5. /\ r \in TaskSet /\ r.pc = FirstPc(task[s].pc) /\ r.row = task[s].row
        /\ r.image = task[s].image /\ r.at = task[s].at
        /\ r.integrity = task[s].integrity /\ r.operational = task[s].operational
        /\ r.restarts = task[s].restarts + 1 /\ r.pending = {}
    BY <1>1, RestartShape
  <2> HIDE DEF r
  <2>6. /\ t \in TaskSet /\ t.pc = r.pc /\ t.row = r.row
        /\ t.image = r.image /\ t.at = r.at /\ t.restarts = r.restarts
        /\ t.pending = r.pending
        /\ t.integrity = task[s].integrity /\ t.operational = task[s].operational + 1
    BY <2>3, <2>5 DEF TaskSet
  <2> HIDE DEF t
  <2>7. TypeInv' /\ Frame(s) /\ Retries(s) /\ task'[s] = t
    <3>1. /\ t.pc = FirstPc(task[s].pc) /\ t.row = task[s].row
          /\ t.image = task[s].image /\ t.at = task[s].at
          /\ t.restarts = task[s].restarts + 1 /\ t.pending = {}
      BY <2>5, <2>6
    <3> QED
      BY <1>2, <2>2, <2>4, <2>6, <3>1, RestartTyped
  <2> QED
    BY <1>2, <2>6, <2>7
<1>4. CASE ~(task[s].operational + 1 < OperationalTries)
  <2>1. Fails(s)
    BY <1>4 DEF OperationalError
  <2> QED
    BY <1>1, <1>2, <2>1, FailsTyped
<1> QED
  BY <1>3, <1>4

LEMMA IntegrityErrorTyped ==
    ASSUME TypeInv, NEW s \in Scanners, IntegrityError(s)
    PROVE  /\ TypeInv' /\ Frame(s) /\ disk' = disk /\ UNCHANGED tables
           /\ \/ /\ Retries(s) /\ task'[s].integrity = task[s].integrity + 1
                 /\ task'[s].operational = 0
              \/ task'[s] = Idle /\ Fails(s)
<1>1. task[s] \in TaskSet /\ disk[s] \in DiskSet /\ disk = [disk EXCEPT ![s] = disk[s]]
  BY Here
<1>2. disk' = disk /\ UNCHANGED tables /\ task[s].pc \in Retried
  BY DEF IntegrityError
<1>3. CASE task[s].integrity + 1 < IntegrityTries
  <2> DEFINE r == Restart(task[s])
             t == [r EXCEPT !.operational = 0, !.integrity = @ + 1]
  <2>1. task' = [task EXCEPT ![s] =
                    [Restart(task[s]) EXCEPT !.operational = 0, !.integrity = @ + 1]]
    BY <1>3 DEF IntegrityError
  <2>2. task' = [task EXCEPT ![s] = t]
    BY <2>1
  <2>3. /\ 0 \in 0..(OperationalTries - 1)
        /\ task[s].integrity + 1 \in 0..(IntegrityTries - 1)
    BY <1>1, <1>3, ImageScanAssumption DEF TaskSet
  <2>4. UNCHANGED history /\ disk' = [disk EXCEPT ![s] = disk[s]]
    BY <1>1, <1>2, <1>3 DEF IntegrityError
  <2>5. /\ r \in TaskSet /\ r.pc = FirstPc(task[s].pc) /\ r.row = task[s].row
        /\ r.image = task[s].image /\ r.at = task[s].at
        /\ r.integrity = task[s].integrity /\ r.operational = task[s].operational
        /\ r.restarts = task[s].restarts + 1 /\ r.pending = {}
    BY <1>1, RestartShape
  <2> HIDE DEF r
  <2>6. /\ t \in TaskSet /\ t.pc = r.pc /\ t.row = r.row
        /\ t.image = r.image /\ t.at = r.at /\ t.restarts = r.restarts
        /\ t.pending = r.pending
        /\ t.integrity = task[s].integrity + 1 /\ t.operational = 0
    BY <2>3, <2>5 DEF TaskSet
  <2> HIDE DEF t
  <2>7. TypeInv' /\ Frame(s) /\ Retries(s) /\ task'[s] = t
    <3>1. /\ t.pc = FirstPc(task[s].pc) /\ t.row = task[s].row
          /\ t.image = task[s].image /\ t.at = task[s].at
          /\ t.restarts = task[s].restarts + 1 /\ t.pending = {}
      BY <2>5, <2>6
    <3> QED
      BY <1>2, <2>2, <2>4, <2>6, <3>1, RestartTyped
  <2> QED
    BY <1>2, <2>6, <2>7
<1>4. CASE ~(task[s].integrity + 1 < IntegrityTries)
  <2>1. Fails(s)
    BY <1>4 DEF IntegrityError
  <2> QED
    BY <1>1, <1>2, <2>1, FailsTyped
<1> QED
  BY <1>3, <1>4

LEMMA FailTyped ==
    ASSUME TypeInv, NEW s \in Scanners, Fail(s)
    PROVE  /\ TypeInv' /\ Frame(s) /\ disk' = disk /\ UNCHANGED tables
           /\ task'[s] = Idle /\ Fails(s)
<1>1. disk[s] \in DiskSet /\ disk = [disk EXCEPT ![s] = disk[s]]
  BY Here
<1>2. disk' = disk /\ UNCHANGED tables /\ Fails(s)
  BY DEF Fail
<1> QED
  BY <1>1, <1>2, FailsTyped

LEMMA DeleteFilesTyped ==
    ASSUME TypeInv, NEW s \in Scanners, DeleteFiles(s)
    PROVE  /\ TypeInv' /\ Frame(s) /\ UNCHANGED tables /\ UNCHANGED history
           /\ disk'[s].sbom = NoFile /\ disk'[s].tars[Tar(s)] = NoFile
           /\ \A f \in Files \ {Tar(s)} : disk'[s].tars[f] = disk[s].tars[f]
           /\ task'[s].pc = (IF task[s].at = 1 THEN "pull" ELSE "ended")
           /\ task'[s].image = task[s].image /\ task'[s].at = 2
           /\ task'[s].restarts = 0 /\ task'[s].integrity = 0
           /\ task'[s].operational = 0 /\ task'[s].pending = {}
<1> DEFINE e == [disk[s] EXCEPT !.sbom = NoFile]
           d == [e EXCEPT !.tars[Tar(s)] = NoFile]
<1>1. disk[s] \in DiskSet /\ Tar(s) \in Files /\ DOMAIN disk = Scanners /\ Busy(s)
  BY Here, TypeParts DEF DeleteFiles, TypeInv, Busy
<1>2. e \in DiskSet /\ e.sbom = NoFile /\ e.tars = disk[s].tars
  BY <1>1 DEF DiskSet
<1>3. disk' = [disk EXCEPT ![s] = d]
  BY <1>1 DEF DeleteFiles, DiskSet
<1> HIDE DEF e
<1>4. /\ d \in DiskSet /\ d.sbom = NoFile /\ d.tars[Tar(s)] = NoFile
      /\ \A f \in Files \ {Tar(s)} : d.tars[f] = disk[s].tars[f]
  BY <1>1, <1>2, TarWritten
<1> HIDE DEF d
<1>5. NextPlatform(s) /\ UNCHANGED tables /\ UNCHANGED history
  BY DEF DeleteFiles, NextPlatform
<1> QED
  BY <1>1, <1>3, <1>4, <1>5, NextPlatformTyped

\* A row that is written.
LEMMA RowWritten ==
    ASSUME rows \in Seq(Row), NEW k \in DOMAIN rows, NEW x \in Row,
           x.image = rows[k].image, x.at = rows[k].at,
           rows[k].packages \subseteq x.packages, rows[k].layers \subseteq x.layers
    PROVE  rows' = [rows EXCEPT ![k] = x] =>
             /\ rows' \in Seq(Row) /\ DOMAIN rows' = DOMAIN rows /\ RowsGrow
             /\ \A i \in DOMAIN rows : rows'[i] = IF i = k THEN x ELSE rows[i]
<1> DEFINE written == [rows EXCEPT ![k] = x]
<1>1. /\ written \in Seq(Row) /\ DOMAIN written = DOMAIN rows
      /\ \A i \in DOMAIN rows : written[i] = IF i = k THEN x ELSE rows[i]
  OBVIOUS
<1> HIDE DEF written
<1>2. rows' = written => RowsGrow
  BY <1>1 DEF RowsGrow
<1> QED
  BY <1>1, <1>2 DEF written

AddsPackages(k, q) ==
    /\ rows' \in Seq(Row) /\ DOMAIN rows' = DOMAIN rows /\ RowsGrow
    /\ \A i \in DOMAIN rows :
         /\ rows'[i].image = rows[i].image /\ rows'[i].at = rows[i].at
         /\ rows'[i].layers = rows[i].layers /\ rows'[i].base = rows[i].base
         /\ rows'[i].packages =
              IF i = k THEN rows[k].packages \union q ELSE rows[i].packages

LEMMA PackagesAdded ==
    ASSUME rows \in Seq(Row), NEW k \in DOMAIN rows, NEW q \in SUBSET Packages
    PROVE  rows' = [rows EXCEPT ![k].packages = @ \union q] => AddsPackages(k, q)
<1> DEFINE x == [rows[k] EXCEPT !.packages = @ \union q]
<1>1. rows[k] \in Row
  OBVIOUS
<1>2. /\ x \in Row /\ x.image = rows[k].image /\ x.at = rows[k].at
      /\ x.layers = rows[k].layers /\ x.base = rows[k].base
      /\ x.packages = rows[k].packages \union q
  BY <1>1 DEF Row
<1>3. rows' = [rows EXCEPT ![k].packages = @ \union q] => rows' = [rows EXCEPT ![k] = x]
  OBVIOUS
<1> HIDE DEF x
<1>4. rows' = [rows EXCEPT ![k] = x] =>
        /\ rows' \in Seq(Row) /\ DOMAIN rows' = DOMAIN rows /\ RowsGrow
        /\ \A i \in DOMAIN rows : rows'[i] = IF i = k THEN x ELSE rows[i]
  BY <1>2, RowWritten
<1> QED
  BY <1>2, <1>3, <1>4 DEF AddsPackages

AddsLayers(k, q) ==
    /\ rows' \in Seq(Row) /\ DOMAIN rows' = DOMAIN rows /\ RowsGrow
    /\ \A i \in DOMAIN rows :
         /\ rows'[i].image = rows[i].image /\ rows'[i].at = rows[i].at
         /\ rows'[i].packages = rows[i].packages
         /\ rows'[i].base = rows[i].base
         /\ rows'[i].layers =
              IF i = k THEN rows[k].layers \union q ELSE rows[i].layers

LEMMA LayersAdded ==
    ASSUME rows \in Seq(Row), NEW k \in DOMAIN rows, NEW q \in SUBSET (Nat \X Layers)
    PROVE  rows' = [rows EXCEPT ![k].layers = @ \union q] => AddsLayers(k, q)
<1> DEFINE x == [rows[k] EXCEPT !.layers = @ \union q]
<1>1. rows[k] \in Row
  OBVIOUS
<1>2. /\ x \in Row /\ x.image = rows[k].image /\ x.at = rows[k].at
      /\ x.packages = rows[k].packages /\ x.base = rows[k].base
      /\ x.layers = rows[k].layers \union q
  BY <1>1 DEF Row
<1>3. rows' = [rows EXCEPT ![k].layers = @ \union q] => rows' = [rows EXCEPT ![k] = x]
  OBVIOUS
<1> HIDE DEF x
<1>4. rows' = [rows EXCEPT ![k] = x] =>
        /\ rows' \in Seq(Row) /\ DOMAIN rows' = DOMAIN rows /\ RowsGrow
        /\ \A i \in DOMAIN rows : rows'[i] = IF i = k THEN x ELSE rows[i]
  BY <1>2, RowWritten
<1> QED
  BY <1>2, <1>3, <1>4 DEF AddsLayers

WritesBase(k, j) ==
    /\ rows' \in Seq(Row) /\ DOMAIN rows' = DOMAIN rows /\ RowsGrow
    /\ \A i \in DOMAIN rows :
         /\ rows'[i].image = rows[i].image /\ rows'[i].at = rows[i].at
         /\ rows'[i].packages = rows[i].packages
         /\ rows'[i].layers = rows[i].layers
         /\ rows'[i].base = IF i = k THEN j ELSE rows[i].base

LEMMA BaseWritten ==
    ASSUME rows \in Seq(Row), NEW k \in DOMAIN rows, NEW j \in DOMAIN rows
    PROVE  rows' = [rows EXCEPT ![k].base = j] => WritesBase(k, j)
<1> DEFINE x == [rows[k] EXCEPT !.base = j]
<1>1. rows[k] \in Row /\ j \in Nat
  OBVIOUS
<1>2. /\ x \in Row /\ x.image = rows[k].image /\ x.at = rows[k].at
      /\ x.packages = rows[k].packages /\ x.layers = rows[k].layers
      /\ x.base = j
  BY <1>1 DEF Row
<1>3. rows' = [rows EXCEPT ![k].base = j] => rows' = [rows EXCEPT ![k] = x]
  OBVIOUS
<1> HIDE DEF x
<1>4. rows' = [rows EXCEPT ![k] = x] =>
        /\ rows' \in Seq(Row) /\ DOMAIN rows' = DOMAIN rows /\ RowsGrow
        /\ \A i \in DOMAIN rows : rows'[i] = IF i = k THEN x ELSE rows[i]
  BY <1>2, RowWritten
<1> QED
  BY <1>2, <1>3, <1>4 DEF WritesBase

\* A step of a scanner that writes to the tables and goes on with the same
\* platform.
LEMMA WritingStepTyped ==
    ASSUME TypeInv, NEW s \in Scanners, Busy(s), task[s].pc \in WithSbom,
           TablesTyped', TablesGrow, UNCHANGED history,
           disk' = [disk EXCEPT ![s] = disk[s]],
           NEW t, task' = [task EXCEPT ![s] = t], t \in TaskSet',
           t.image = task[s].image, t.at = task[s].at,
           t.row \in DOMAIN rows',
           rows'[t.row].image = t.image, rows'[t.row].at = t.at
    PROVE  TypeInv' /\ Frame(s) /\ task'[s] = t
<1>1. HistoryTyped' /\ failed \subseteq failed' /\ raced \subseteq raced'
  BY UnchangedTyped
<1>2. task'[s] = t /\ disk'[s] = disk[s]
  BY TypeParts DEF TypeInv
<1>3. Tar(s)' = Tar(s)
  BY <1>2 DEF Tar, FileOf
<1>4. /\ task[s].image \in Images /\ disk[s] \in DiskSet
      /\ disk[s].tars[Tar(s)] # NoFile /\ disk[s].sbom \in SUBSET Packages
  BY Here DEF Busy, Placed, WithSbom
<1>5. Placed(s)'
  BY <1>2, <1>3, <1>4 DEF Placed, RowsOf
<1> QED
  BY <1>1, <1>2, <1>4, <1>5, StepTyped

LEMMA InsertTyped ==
    ASSUME TypeInv, NEW s \in Scanners, Insert(s)
    PROVE  /\ TypeInv' /\ Frame(s) /\ disk' = disk
           /\ UNCHANGED <<packages, vulnerable, history>>
           /\ DOMAIN rows' = DOMAIN rows \union {Len(rows) + 1}
           /\ Len(rows) + 1 \notin DOMAIN rows
           /\ \A i \in DOMAIN rows : rows'[i] = rows[i]
           /\ rows'[Len(rows) + 1] =
                [image |-> task[s].image, at |-> task[s].at,
                 packages |-> {}, layers |-> {}, base |-> NoRow]
           /\ task'[s] = [task[s] EXCEPT !.pc = "artifacts", !.row = Len(rows) + 1,
                                         !.todo = disk[s].sbom]
<1> DEFINE x == [image |-> task[s].image, at |-> task[s].at,
                 packages |-> {}, layers |-> {}, base |-> NoRow]
           t == [task[s] EXCEPT !.pc = "artifacts", !.row = Len(rows) + 1,
                                !.todo = disk[s].sbom]
<1>1. /\ task[s] \in TaskSet /\ disk[s] \in DiskSet /\ DOMAIN task = Scanners
      /\ task[s].image \in Images /\ disk[s].sbom \in SUBSET Packages
      /\ disk = [disk EXCEPT ![s] = disk[s]] /\ Busy(s) /\ task[s].pc \in WithSbom
  BY Here, TypeParts DEF Insert, TypeInv, Busy, WithSbom, WithTar
<1>2. TablesTyped /\ rows \in Seq(Row)
  BY TypeParts DEF TypeInv, TablesTyped
<1>3. /\ x \in Row /\ x.image = task[s].image /\ x.at = task[s].at
      /\ x.packages = {} /\ x.layers = {} /\ x.base = NoRow
  BY <1>1 DEF Row, TaskSet
<1>4. rows' = Append(rows, x) /\ UNCHANGED <<packages, vulnerable, history>>
  BY DEF Insert
<1>5. task' = [task EXCEPT ![s].pc = "artifacts", ![s].row = Len(rows'),
                           ![s].todo = disk[s].sbom]
  BY DEF Insert
<1> HIDE DEF x
<1>6. /\ rows' \in Seq(Row) /\ Len(rows') = Len(rows) + 1
      /\ DOMAIN rows' = DOMAIN rows \union {Len(rows) + 1}
      /\ Len(rows) + 1 \notin DOMAIN rows
      /\ \A i \in DOMAIN rows : rows'[i] = rows[i]
      /\ rows'[Len(rows) + 1] = x
  BY <1>2, <1>3, <1>4
<1>7. TablesTyped'
  BY <1>2, <1>3, <1>4, <1>6 DEF TablesTyped
<1>8. TablesGrow
  BY <1>4, <1>6 DEF TablesGrow, RowsGrow
<1>9. task' = [task EXCEPT ![s] = t]
  BY <1>1, <1>5, <1>6 DEF TaskSet
<1>10. /\ t \in TaskSet' /\ t.row = Len(rows) + 1
       /\ t.image = task[s].image /\ t.at = task[s].at
  <2>1. Len(rows) + 1 \in DOMAIN rows'
    BY <1>6
  <2> QED
    BY <1>1, <1>4, <1>6, <2>1 DEF TaskSet
<1>11. /\ rows'[t.row].image = t.image /\ rows'[t.row].at = t.at
       /\ t.row \in DOMAIN rows'
  BY <1>3, <1>6, <1>10
<1> HIDE DEF t
<1>12. TypeInv' /\ Frame(s) /\ task'[s] = t
  <2>1. UNCHANGED history /\ disk' = [disk EXCEPT ![s] = disk[s]]
    BY <1>1, <1>4 DEF Insert
  <2> QED
    BY <1>1, <1>7, <1>8, <1>9, <1>10, <1>11, <2>1, WritingStepTyped
<1>13. disk' = disk
  BY DEF Insert
<1> QED
  BY <1>4, <1>6, <1>12, <1>13 DEF t, x

\* What is pending is committed to the row.
Commits(s) ==
    /\ DOMAIN rows' = DOMAIN rows /\ disk' = disk /\ UNCHANGED <<vulnerable, history>>
    /\ task[s].row \in DOMAIN rows
    /\ rows[task[s].row].image = task[s].image /\ rows[task[s].row].at = task[s].at
    /\ \A i \in DOMAIN rows :
        /\ rows'[i].image = rows[i].image /\ rows'[i].at = rows[i].at
        /\ rows'[i].layers = rows[i].layers /\ rows'[i].base = rows[i].base
        /\ rows'[i].packages = IF i = task[s].row
                               THEN rows[i].packages \union task[s].pending
                               ELSE rows[i].packages

LEMMA CommitTyped ==
    ASSUME TypeInv, NEW s \in Scanners, task[s].pc = "artifacts",
           UNCHANGED <<vulnerable, history>>, disk' = disk,
           packages' \in SUBSET Packages, packages \subseteq packages',
           NEW t, task' = [task EXCEPT ![s] = t],
           t.image = task[s].image, t.at = task[s].at, t.row = task[s].row,
           DOMAIN rows' = DOMAIN rows => t \in TaskSet'
    PROVE  rows' = [rows EXCEPT ![task[s].row].packages = @ \union task[s].pending]
             => TypeInv' /\ Frame(s) /\ task'[s] = t /\ Commits(s)
<1> DEFINE k == task[s].row
           q == task[s].pending
<1>1. /\ task[s] \in TaskSet /\ disk[s] \in DiskSet
      /\ k \in RowsOf(task[s].image, task[s].at) /\ k \in DOMAIN rows
      /\ rows[k].image = task[s].image /\ rows[k].at = task[s].at
      /\ Busy(s) /\ task[s].pc \in WithSbom
  BY Here DEF Placed, Busy, WithSbom, WithTar, WithRow
<1>2. TablesTyped /\ rows \in Seq(Row) /\ packages \subseteq Packages
  BY TypeParts DEF TypeInv, TablesTyped
<1>3. q \subseteq packages /\ q \in SUBSET Packages
  BY <1>1, <1>2 DEF TaskSet
<1> HIDE DEF k, q
<1>4. rows' = [rows EXCEPT ![k].packages = @ \union q] => AddsPackages(k, q)
  BY <1>1, <1>2, <1>3, PackagesAdded
<1>5. SUFFICES ASSUME rows' = [rows EXCEPT ![k].packages = @ \union q]
               PROVE  TypeInv' /\ Frame(s) /\ task'[s] = t /\ Commits(s)
  BY DEF k, q
<1>6. /\ rows' \in Seq(Row) /\ DOMAIN rows' = DOMAIN rows /\ RowsGrow
      /\ \A i \in DOMAIN rows :
           /\ rows'[i].image = rows[i].image /\ rows'[i].at = rows[i].at
           /\ rows'[i].layers = rows[i].layers /\ rows'[i].base = rows[i].base
           /\ rows'[i].packages =
                IF i = k THEN rows[k].packages \union q ELSE rows[i].packages
  BY <1>4, <1>5 DEF AddsPackages
<1>7. TablesTyped'
  <2>1. vulnerable' \subseteq packages' \X Vulnerabilities
    BY <1>2 DEF TablesTyped
  <2>2. ASSUME NEW i \in DOMAIN rows'
        PROVE  rows'[i].packages \subseteq packages'
               /\ rows'[i].base \in DOMAIN rows' \union {NoRow}
    BY <1>1, <1>2, <1>3, <1>6 DEF TablesTyped
  <2> QED
    BY <1>6, <2>1, <2>2 DEF TablesTyped
<1>8. TablesGrow
  BY <1>6 DEF TablesGrow
<1>9. Commits(s)
  BY <1>1, <1>6 DEF Commits, k, q
<1>10. t \in TaskSet'
  BY <1>6
<1>11. /\ rows'[t.row].image = t.image /\ rows'[t.row].at = t.at
       /\ t.row \in DOMAIN rows'
  BY <1>1, <1>6 DEF k
<1>12. UNCHANGED history /\ disk' = [disk EXCEPT ![s] = disk[s]]
  BY Here
<1>13. TypeInv' /\ Frame(s) /\ task'[s] = t
  BY <1>1, <1>7, <1>8, <1>10, <1>11, <1>12, WritingStepTyped
<1> QED
  BY <1>9, <1>13

LEMMA NewPackageTyped ==
    ASSUME TypeInv, NEW s \in Scanners, NewPackage(s)
    PROVE  /\ TypeInv' /\ Frame(s) /\ Commits(s)
           /\ \E p \in task[s].todo :
                task'[s] = [task[s] EXCEPT !.todo = @ \ {p}, !.pending = {p}]
<1>1. PICK p \in task[s].todo \ packages :
        /\ packages' = packages \union {p}
        /\ task' = [task EXCEPT ![s].todo = @ \ {p}, ![s].pending = {p}]
  BY DEF NewPackage
<1> DEFINE t == [task[s] EXCEPT !.todo = @ \ {p}, !.pending = {p}]
<1>2. task[s] \in TaskSet /\ DOMAIN task = Scanners /\ packages \subseteq Packages
  BY Here, TypeParts DEF TypeInv, TablesTyped
<1>3. task' = [task EXCEPT ![s] = t]
  BY <1>1, <1>2 DEF TaskSet
<1>4. packages' \in SUBSET Packages /\ packages \subseteq packages' /\ p \in packages'
  BY <1>1, <1>2 DEF TaskSet
<1>5. t.image = task[s].image /\ t.at = task[s].at /\ t.row = task[s].row
  BY <1>2 DEF TaskSet
<1>6. DOMAIN rows' = DOMAIN rows => t \in TaskSet'
  BY <1>2, <1>4 DEF TaskSet
<1> HIDE DEF t
<1>7. TypeInv' /\ Frame(s) /\ task'[s] = t /\ Commits(s)
  BY <1>3, <1>4, <1>5, <1>6, CommitTyped DEF NewPackage
<1> QED
  BY <1>7 DEF t

LEMMA NewLicenseTyped ==
    ASSUME TypeInv, NEW s \in Scanners, NewLicense(s)
    PROVE  /\ TypeInv' /\ Frame(s) /\ Commits(s)
           /\ task'[s] = [task[s] EXCEPT !.pending = {}]
<1> DEFINE t == [task[s] EXCEPT !.pending = {}]
<1>1. task[s] \in TaskSet /\ DOMAIN task = Scanners /\ packages \subseteq Packages
  BY Here, TypeParts DEF TypeInv, TablesTyped
<1>2. task' = [task EXCEPT ![s] = t] /\ packages' = packages
  BY <1>1 DEF NewLicense, TaskSet
<1>3. t.image = task[s].image /\ t.at = task[s].at /\ t.row = task[s].row
  BY <1>1 DEF TaskSet
<1>4. DOMAIN rows' = DOMAIN rows => t \in TaskSet'
  BY <1>1, <1>2 DEF TaskSet
<1> HIDE DEF t
<1>5. TypeInv' /\ Frame(s) /\ task'[s] = t /\ Commits(s)
  BY <1>1, <1>2, <1>3, <1>4, CommitTyped DEF NewLicense
<1> QED
  BY <1>5 DEF t

LEMMA AssociatedTyped ==
    ASSUME TypeInv, NEW s \in Scanners, Associated(s)
    PROVE  /\ TypeInv' /\ Frame(s) /\ Commits(s)
           /\ task'[s] = [task[s] EXCEPT !.pc = "layers", !.pending = {}]
<1> DEFINE t == [task[s] EXCEPT !.pc = "layers", !.pending = {}]
<1>1. task[s] \in TaskSet /\ DOMAIN task = Scanners /\ packages \subseteq Packages
  BY Here, TypeParts DEF TypeInv, TablesTyped
<1>2. task' = [task EXCEPT ![s] = t] /\ packages' = packages
  BY <1>1 DEF Associated, TaskSet
<1>3. t.image = task[s].image /\ t.at = task[s].at /\ t.row = task[s].row
  BY <1>1 DEF TaskSet
<1>4. DOMAIN rows' = DOMAIN rows => t \in TaskSet'
  BY <1>1, <1>2 DEF TaskSet
<1> HIDE DEF t
<1>5. TypeInv' /\ Frame(s) /\ task'[s] = t /\ Commits(s)
  BY <1>1, <1>2, <1>3, <1>4, CommitTyped DEF Associated
<1> QED
  BY <1>5 DEF t

LEMMA FreshShape ==
    ASSUME NEW t \in TaskSet, NEW pc \in {"base", "delete"}
    PROVE  /\ Fresh(t, pc) \in TaskSet /\ Fresh(t, pc).pc = pc
           /\ Fresh(t, pc).row = t.row /\ Fresh(t, pc).pending = t.pending
           /\ Fresh(t, pc).image = t.image /\ Fresh(t, pc).at = t.at
           /\ Fresh(t, pc).integrity = 0 /\ Fresh(t, pc).operational = 0
           /\ Fresh(t, pc).restarts = 0
<1>1. 0 \in 0..(IntegrityTries - 1) /\ 0 \in 0..(OperationalTries - 1)
  BY ImageScanAssumption
<1> QED
  BY <1>1 DEF Fresh, TaskSet

\* The layers of a tarball.
LEMMA PlacesTyped ==
    ASSUME NEW layers \in Seq(Layers)
    PROVE  Places(layers) \in SUBSET (Nat \X Layers)
<1>1. \A n \in DOMAIN layers : n \in Nat /\ layers[n] \in Layers
  OBVIOUS
<1> QED
  BY <1>1 DEF Places

\* The record of a scanner that has a row, and the row.
LEMMA RowHere ==
    ASSUME TypeInv, NEW s \in Scanners, task[s].pc \in WithRow
    PROVE  /\ task[s].row \in DOMAIN rows /\ Busy(s) /\ task[s].pc \in WithSbom
           /\ rows[task[s].row].image = task[s].image
           /\ rows[task[s].row].at = task[s].at
           /\ rows \in Seq(Row) /\ TablesTyped /\ task[s] \in TaskSet
BY Here, TypeParts DEF TypeInv, TablesTyped, Busy, WithRow, WithSbom, WithTar

LEMMA SaveLayersTyped ==
    ASSUME TypeInv, NEW s \in Scanners, SaveLayers(s)
    PROVE  /\ TypeInv' /\ Frame(s) /\ disk' = disk /\ UNCHANGED <<packages, vulnerable>>
           /\ \/ /\ ~disk[s].tars[Tar(s)].cut /\ UNCHANGED history
                 /\ AddsLayers(task[s].row, Places(disk[s].tars[Tar(s)].content.layers))
                 /\ task'[s] = Fresh(task[s], "base")
              \/ rows' = rows /\ Fails(s) /\ task'[s] = Idle
<1> DEFINE tar == disk[s].tars[Tar(s)]
           new == Places(tar.content.layers)
           k == task[s].row
           clash == \E x, y \in rows[k].layers : x # y /\ x[1] = y[1]
                                        /\ x[1] \in DOMAIN tar.content.layers
<1>1. /\ task[s].pc = "layers" /\ UNCHANGED <<packages, vulnerable>> /\ disk' = disk
      /\ IF tar.cut \/ clash
         THEN Fails(s) /\ UNCHANGED rows
         ELSE /\ rows' = [rows EXCEPT ![k].layers = @ \union new]
              /\ task' = [task EXCEPT ![s] = Fresh(@, "base")]
              /\ UNCHANGED history
  BY DEF SaveLayers
<1>2. task[s].pc \in WithRow /\ task[s].pc \in WithTar
  BY <1>1 DEF WithRow, WithTar
<1>3. CASE tar.cut \/ clash
  <2>1. Fails(s) /\ rows' = rows /\ UNCHANGED tables
    BY <1>1, <1>3 DEF tables
  <2>2. disk[s] \in DiskSet /\ disk' = [disk EXCEPT ![s] = disk[s]]
    BY <1>1, Here
  <2>3. TypeInv' /\ Frame(s) /\ task'[s] = Idle
    BY <2>1, <2>2, FailsTyped
  <2> QED
    BY <1>1, <2>1, <2>3
<1>4. CASE ~(tar.cut \/ clash)
  <2>1. /\ rows' = [rows EXCEPT ![k].layers = @ \union new]
        /\ task' = [task EXCEPT ![s] = Fresh(task[s], "base")]
        /\ UNCHANGED history /\ ~tar.cut
    BY <1>1, <1>4
  <2>2. tar.content.layers \in Seq(Layers)
    BY <1>2, Here DEF Pulled, Contents
  <2>3. new \in SUBSET (Nat \X Layers)
    BY <2>2, PlacesTyped
  <2> HIDE DEF new
  <2>4. k \in DOMAIN rows /\ rows \in Seq(Row)
    BY <1>2, RowHere
  <2> HIDE DEF k
  <2>5. AddsLayers(k, new)
    BY <2>1, <2>3, <2>4, LayersAdded
  <2>6. /\ rows' \in Seq(Row) /\ DOMAIN rows' = DOMAIN rows /\ RowsGrow
        /\ \A i \in DOMAIN rows :
             /\ rows'[i].image = rows[i].image /\ rows'[i].at = rows[i].at
             /\ rows'[i].packages = rows[i].packages /\ rows'[i].base = rows[i].base
    BY <2>5 DEF AddsLayers
  <2>7. TablesTyped'
    <3>1. TablesTyped /\ packages' = packages /\ vulnerable' = vulnerable
      BY <1>1, <1>2, RowHere
    <3> QED
      BY <2>6, <3>1 DEF TablesTyped
  <2>8. TablesGrow
    BY <1>1, <2>6 DEF TablesGrow
  <2> DEFINE t == Fresh(task[s], "base")
  <2>9. t \in TaskSet /\ t.row = k /\ t.image = task[s].image /\ t.at = task[s].at
    BY <1>2, RowHere, FreshShape DEF k
  <2> HIDE DEF t
  <2>10. t \in TaskSet'
    BY <1>1, <2>6, <2>9 DEF TaskSet
  <2>11. /\ t.row \in DOMAIN rows'
         /\ rows'[t.row].image = t.image /\ rows'[t.row].at = t.at
    BY <1>2, <2>4, <2>6, <2>9, RowHere DEF k
  <2>12. disk' = [disk EXCEPT ![s] = disk[s]]
    BY <1>1, Here
  <2>13. /\ task' = [task EXCEPT ![s] = t] /\ UNCHANGED history
         /\ Busy(s) /\ task[s].pc \in WithSbom
    BY <1>2, <2>1, RowHere DEF t
  <2>14. TypeInv' /\ Frame(s) /\ task'[s] = t
    BY <2>7, <2>8, <2>9, <2>10, <2>11, <2>12, <2>13, WritingStepTyped
  <2> QED
    BY <1>1, <2>1, <2>5, <2>14 DEF t, k, new
<1> QED
  BY <1>3, <1>4

\* A base image that is written is one that was found.
BaseOf(k) ==
    /\ DOMAIN rows' = DOMAIN rows
    /\ \A i \in DOMAIN rows :
         /\ rows'[i].image = rows[i].image /\ rows'[i].at = rows[i].at
         /\ rows'[i].packages = rows[i].packages /\ rows'[i].layers = rows[i].layers
         /\ \/ rows'[i].base = rows[i].base
            \/ i = k /\ rows'[i].base \in Parents(k)

LEMMA SetBaseTyped ==
    ASSUME TypeInv, NEW k \in DOMAIN rows, SetBase(k), UNCHANGED <<packages, vulnerable>>
    PROVE  TablesTyped' /\ TablesGrow /\ BaseOf(k)
<1>1. TablesTyped /\ rows \in Seq(Row)
  BY TypeParts DEF TypeInv, TablesTyped
<1>2. CASE UNCHANGED rows
  <2>1. UNCHANGED tables
    BY <1>2 DEF tables
  <2>2. BaseOf(k)
    BY <1>2 DEF BaseOf
  <2> QED
    BY <2>1, <2>2, UnchangedTyped
<1>3. CASE \E j \in Parents(k) : rows' = [rows EXCEPT ![k].base = j]
  <2>1. PICK j \in Parents(k) : rows' = [rows EXCEPT ![k].base = j]
    BY <1>3
  <2>2. j \in DOMAIN rows
    BY DEF Parents
  <2>3. WritesBase(k, j)
    BY <1>1, <2>1, <2>2, BaseWritten
  <2>4. TablesTyped'
    BY <1>1, <2>2, <2>3 DEF TablesTyped, WritesBase
  <2>5. TablesGrow
    BY <2>3 DEF TablesGrow, WritesBase
  <2>6. BaseOf(k)
    BY <2>1, <2>3 DEF BaseOf, WritesBase
  <2> QED
    BY <2>4, <2>5, <2>6
<1> QED
  BY <1>2, <1>3 DEF SetBase

LEMMA DetectBaseTyped ==
    ASSUME TypeInv, NEW s \in Scanners, DetectBase(s)
    PROVE  /\ TypeInv' /\ Frame(s) /\ disk' = disk
           /\ UNCHANGED <<packages, vulnerable, history>> /\ BaseOf(task[s].row)
           /\ task'[s] = [task[s] EXCEPT !.pc = "matches"]
<1> DEFINE t == [task[s] EXCEPT !.pc = "matches"]
           k == task[s].row
<1>1. task[s].pc \in WithRow
  BY DEF DetectBase, WithRow
<1>2. TablesTyped' /\ TablesGrow /\ BaseOf(k)
  BY <1>1, RowHere, SetBaseTyped DEF DetectBase
<1>3. task' = [task EXCEPT ![s] = t] /\ UNCHANGED <<packages, vulnerable, history>>
  BY <1>1, RowHere DEF DetectBase, Goto, TaskSet
<1>4. /\ t \in TaskSet /\ t.row = k /\ t.image = task[s].image /\ t.at = task[s].at
  BY <1>1, RowHere DEF TaskSet
<1> HIDE DEF t
<1>5. t \in TaskSet'
  BY <1>2, <1>3, <1>4 DEF TaskSet, BaseOf
<1>6. /\ t.row \in DOMAIN rows'
      /\ rows'[t.row].image = t.image /\ rows'[t.row].at = t.at
  BY <1>1, <1>2, <1>4, RowHere DEF BaseOf
<1>7. disk' = [disk EXCEPT ![s] = disk[s]] /\ UNCHANGED history
  BY <1>3, Here DEF DetectBase
<1>8. TypeInv' /\ Frame(s) /\ task'[s] = t
  BY <1>1, <1>2, <1>3, <1>4, <1>5, <1>6, <1>7, RowHere, WritingStepTyped
<1>9. disk' = disk
  BY DEF DetectBase
<1> QED
  BY <1>2, <1>3, <1>8, <1>9 DEF t

LEMMA UpdateBaseTyped ==
    ASSUME TypeInv, UpdateBase
    PROVE  /\ TypeInv' /\ TablesGrow
           /\ UNCHANGED <<disk, packages, vulnerable, task, history>>
           /\ \E k \in DOMAIN rows : BaseOf(k)
<1>1. PICK k \in DOMAIN rows : SetBase(k)
  BY DEF UpdateBase
<1>2. UNCHANGED <<packages, vulnerable>> /\ UNCHANGED <<disk, task, history>>
  BY DEF UpdateBase
<1>3. TablesTyped' /\ TablesGrow /\ BaseOf(k)
  BY <1>1, <1>2, SetBaseTyped
<1>4. TypeOK'
  <2>1. HistoryTyped' /\ TaskSet' = TaskSet
    BY <1>2, <1>3, UnchangedTyped DEF TaskSet, BaseOf
  <2>2. disk' \in [Scanners -> DiskSet] /\ task' \in [Scanners -> TaskSet']
    BY <1>2, <2>1, TypeParts DEF TypeInv
  <2> QED
    BY <1>3, <2>1, <2>2 DEF TypeOK, DiskSet, TaskSet, TablesTyped, HistoryTyped
<1>5. \A e \in Scanners : Placed(e)'
  BY <1>2, <1>3, PlacedKept DEF TypeInv, TablesGrow
<1> QED
  BY <1>2, <1>3, <1>4, <1>5 DEF TypeInv

LEMMA StoreMatchesTyped ==
    ASSUME TypeInv, NEW s \in Scanners, Listed(s), StoreMatches(s)
    PROVE  /\ TypeInv' /\ Frame(s) /\ disk' = disk
           /\ UNCHANGED <<rows, packages, history>>
           /\ vulnerable' = vulnerable \union
                {x \in Packages \X Vulnerabilities :
                    x[1] \in disk[s].sbom /\ x[2] \in Matches[x[1]]}
           /\ task'[s] = Fresh(task[s], "delete")
<1> DEFINE t == Fresh(task[s], "delete")
           found == {x \in Packages \X Vulnerabilities :
                        x[1] \in disk[s].sbom /\ x[2] \in Matches[x[1]]}
<1>1. /\ task[s].pc = "matches" /\ vulnerable' = vulnerable \union found
      /\ task' = [task EXCEPT ![s] = t] /\ disk' = disk
      /\ UNCHANGED <<rows, packages, history>>
  BY DEF StoreMatches
<1>2. task[s].pc \in WithRow \ {"artifacts"}
  BY <1>1 DEF WithRow
<1>3. disk[s].sbom \subseteq packages
  BY <1>2, RowHere DEF Listed, TablesTyped
<1>4. found \subseteq packages \X Vulnerabilities
  BY <1>3
<1> HIDE DEF found
<1>5. TablesTyped'
  BY <1>1, <1>2, <1>4, RowHere DEF TablesTyped
<1>6. TablesGrow
  BY <1>1 DEF TablesGrow, RowsGrow
<1>7. t \in TaskSet /\ t.row = task[s].row
      /\ t.image = task[s].image /\ t.at = task[s].at
  BY <1>2, RowHere, FreshShape
<1> HIDE DEF t
<1>8. t \in TaskSet'
  BY <1>1, <1>7 DEF TaskSet
<1>9. /\ t.row \in DOMAIN rows'
      /\ rows'[t.row].image = t.image /\ rows'[t.row].at = t.at
  BY <1>1, <1>2, <1>7, RowHere
<1>10. disk' = [disk EXCEPT ![s] = disk[s]]
  BY <1>1, Here
<1>11. /\ task' = [task EXCEPT ![s] = t] /\ UNCHANGED history
       /\ Busy(s) /\ task[s].pc \in WithSbom
  BY <1>1, <1>2, RowHere
<1>12. TypeInv' /\ Frame(s) /\ task'[s] = t
  BY <1>5, <1>6, <1>7, <1>8, <1>9, <1>10, <1>11, WritingStepTyped
<1> QED
  BY <1>1, <1>12 DEF t, found

-----------------------------------------------------------------------------
(* The steps field by field.                                               *)

SamePass(s) ==
    /\ task'[s].image = task[s].image /\ task'[s].at = task[s].at
    /\ task'[s].integrity = task[s].integrity
    /\ task'[s].operational = task[s].operational
    /\ task'[s].restarts = task[s].restarts

Moves(s, pc) ==
    /\ task'[s].pc = pc /\ SamePass(s)
    /\ task'[s].row = task[s].row
    /\ task'[s].todo = task[s].todo /\ task'[s].pending = task[s].pending

GoesIdle(s) ==
    /\ task'[s].pc = "idle" /\ task'[s].restarts = 0 /\ task'[s].pending = {}
    /\ task'[s].integrity = 0 /\ task'[s].operational = 0

NewPass(s, pc) ==
    /\ task'[s].pc = pc /\ task'[s].restarts = 0
    /\ task'[s].pending \in {{}, task[s].pending}
    /\ task'[s].integrity = 0 /\ task'[s].operational = 0

LEMMA MovesOn ==
    ASSUME NEW s, task[s] \in TaskSet, NEW pc
    PROVE  task'[s] = [task[s] EXCEPT !.pc = pc] => Moves(s, pc)
<1> DEFINE t == [task[s] EXCEPT !.pc = pc]
<1>1. /\ t.pc = pc /\ t.image = task[s].image /\ t.at = task[s].at
      /\ t.integrity = task[s].integrity /\ t.operational = task[s].operational
      /\ t.restarts = task[s].restarts /\ t.row = task[s].row
      /\ t.todo = task[s].todo /\ t.pending = task[s].pending
  BY DEF TaskSet
<1> HIDE DEF t
<1>2. task'[s] = t => Moves(s, pc)
  BY <1>1 DEF Moves, SamePass
<1> QED
  BY <1>2 DEF t

LEMMA FallsIdle == ASSUME NEW s PROVE task'[s] = Idle => GoesIdle(s)
BY DEF Idle, GoesIdle

LEMMA StartStep ==
    ASSUME TypeInv, NEW s \in Scanners, Start(s)
    PROVE  /\ TypeInv' /\ Frame(s) /\ disk' = disk /\ UNCHANGED tables
           /\ ~Busy(s) /\ NewPass(s, "pull") /\ task'[s].at = 1
           /\ failed' = failed
           /\ \A e \in Scanners : Busy(e) /\ task[e].image = task'[s].image
                  => task'[s].image \in raced'
<1>1. PICK image \in Images :
        /\ task' = [task EXCEPT ![s] = [Idle EXCEPT !.pc = "pull", !.image = image]]
        /\ raced' = IF \E e \in Scanners : Busy(e) /\ task[e].image = image
                    THEN raced \union {image} ELSE raced
  BY DEF Start
<1> DEFINE t == [Idle EXCEPT !.pc = "pull", !.image = image]
<1>2. /\ t.pc = "pull" /\ t.image = image /\ t.at = 1 /\ t.restarts = 0
      /\ t.integrity = 0 /\ t.operational = 0 /\ t.pending = {}
  BY DEF Idle
<1>3. task'[s] = t
  BY <1>1, TypeParts DEF TypeInv
<1> HIDE DEF t
<1>4. NewPass(s, "pull") /\ task'[s].at = 1 /\ task'[s].image = image
  BY <1>2, <1>3 DEF NewPass
<1> QED
  BY <1>1, <1>4, StartTyped DEF Start

LEMMA ReuseStep ==
    ASSUME TypeInv, NEW s \in Scanners, Reuse(s)
    PROVE  /\ TypeInv' /\ Frame(s) /\ disk' = disk /\ UNCHANGED tables
           /\ UNCHANGED history /\ Moves(s, "sbom")
BY Here, ReuseTyped, MovesOn DEF Reuse, Goto

LEMMA PullStep ==
    ASSUME TypeInv, NEW s \in Scanners, Pull(s)
    PROVE  /\ TypeInv' /\ Frame(s) /\ UNCHANGED tables /\ UNCHANGED history
           /\ Moves(s, "sbom") /\ Tar(s) \in Files
           /\ disk'[s].tars[Tar(s)] = [content |-> Offered(s), cut |-> FALSE]
           /\ \A f \in Files \ {Tar(s)} : disk'[s].tars[f] = disk[s].tars[f]
<1> DEFINE tar == [content |-> Offered(s), cut |-> FALSE]
           d == [disk[s] EXCEPT !.tars[Tar(s)] = tar]
<1>1. task[s] \in TaskSet /\ disk[s] \in DiskSet /\ Tar(s) \in Files
  BY Here DEF Pull
<1>2. /\ d.tars[Tar(s)] = tar
      /\ \A f \in Files \ {Tar(s)} : d.tars[f] = disk[s].tars[f]
  BY <1>1 DEF DiskSet
<1>3. /\ TypeInv' /\ Frame(s) /\ disk'[s] = d
      /\ task'[s] = [task[s] EXCEPT !.pc = "sbom"]
  BY PullTyped
<1>4. UNCHANGED tables /\ UNCHANGED history
  BY DEF Pull, Goto
<1> HIDE DEF d
<1> QED
  BY <1>1, <1>2, <1>3, <1>4, MovesOn

LEMMA CutPullStep ==
    ASSUME TypeInv, NEW s \in Scanners, CutPull(s)
    PROVE  /\ TypeInv' /\ Frame(s) /\ UNCHANGED tables /\ Fails(s)
           /\ GoesIdle(s) /\ Tar(s) \in Files
           /\ disk'[s].tars[Tar(s)] = [content |-> Offered(s), cut |-> TRUE]
           /\ \A f \in Files \ {Tar(s)} : disk'[s].tars[f] = disk[s].tars[f]
<1> DEFINE tar == [content |-> Offered(s), cut |-> TRUE]
           d == [disk[s] EXCEPT !.tars[Tar(s)] = tar]
<1>1. task[s] \in TaskSet /\ disk[s] \in DiskSet /\ Tar(s) \in Files
  BY Here DEF CutPull
<1>2. /\ d.tars[Tar(s)] = tar
      /\ \A f \in Files \ {Tar(s)} : d.tars[f] = disk[s].tars[f]
  BY <1>1 DEF DiskSet
<1>3. TypeInv' /\ Frame(s) /\ disk'[s] = d /\ task'[s] = Idle
  BY CutPullTyped
<1>4. UNCHANGED tables /\ Fails(s)
  BY DEF CutPull
<1> HIDE DEF d
<1> QED
  BY <1>1, <1>2, <1>3, <1>4, FallsIdle

LEMMA NotOfferedStep ==
    ASSUME TypeInv, NEW s \in Scanners, NotOffered(s)
    PROVE  /\ TypeInv' /\ Frame(s) /\ disk' = disk /\ UNCHANGED tables
           /\ \/ /\ task[s].image \in IndexNamed /\ UNCHANGED history
                 /\ disk[s].tars[Tar(s)] = NoFile
                 /\ NewPass(s, IF task[s].at = 1 THEN "pull" ELSE "ended")
                 /\ task'[s].image = task[s].image /\ task'[s].at = 2
              \/ Fails(s) /\ GoesIdle(s)
<1>1. UNCHANGED tables
  BY DEF NotOffered
<1> QED
  BY <1>1, NotOfferedTyped, FallsIdle DEF NewPass

LEMMA SbomStep ==
    ASSUME TypeInv, NEW s \in Scanners, Sbom(s)
    PROVE  /\ TypeInv' /\ Frame(s) /\ UNCHANGED tables /\ UNCHANGED history
           /\ Moves(s, "look") /\ disk'[s].tars = disk[s].tars
           /\ disk'[s].sbom \subseteq disk[s].tars[Tar(s)].content.packages
           /\ \/ disk[s].tars[Tar(s)].cut
              \/ disk'[s].sbom = disk[s].tars[Tar(s)].content.packages
<1> DEFINE all == disk[s].tars[Tar(s)].content.packages
           cut == disk[s].tars[Tar(s)].cut
<1>1. PICK found \in SUBSET all :
        (cut \/ found = all) /\ disk'[s] = [disk[s] EXCEPT !.sbom = found]
  BY SbomTyped
<1> DEFINE d == [disk[s] EXCEPT !.sbom = found]
<1>2. d.sbom = found /\ d.tars = disk[s].tars
  BY Here DEF DiskSet
<1>3. task[s] \in TaskSet
  BY Here
<1>4. TypeInv' /\ Frame(s) /\ task'[s] = [task[s] EXCEPT !.pc = "look"]
  BY SbomTyped
<1>5. UNCHANGED tables /\ UNCHANGED history
  BY DEF Sbom, Goto
<1> HIDE DEF d, all, cut
<1>6. disk'[s].sbom = found /\ disk'[s].tars = disk[s].tars
  BY <1>1, <1>2 DEF d
<1>7. disk'[s].sbom \subseteq all /\ (cut \/ disk'[s].sbom = all)
  BY <1>1, <1>6
<1> QED
  BY <1>3, <1>4, <1>5, <1>6, <1>7, MovesOn DEF all, cut

\* The packages of sbom.json are all left, in a row of the platform.
TakesRow(s) ==
    /\ task'[s].pc = "artifacts" /\ SamePass(s) /\ task'[s].todo = disk[s].sbom
    /\ task'[s].pending = task[s].pending

LEMMA TakesOn ==
    ASSUME NEW s, task[s] \in TaskSet, NEW i
    PROVE  task'[s] = [task[s] EXCEPT !.pc = "artifacts", !.row = i,
                                      !.todo = disk[s].sbom]
             => TakesRow(s) /\ task'[s].row = i
<1> DEFINE t == [task[s] EXCEPT !.pc = "artifacts", !.row = i, !.todo = disk[s].sbom]
<1>1. /\ t.pc = "artifacts" /\ t.image = task[s].image /\ t.at = task[s].at
      /\ t.integrity = task[s].integrity /\ t.operational = task[s].operational
      /\ t.restarts = task[s].restarts /\ t.row = i
      /\ t.todo = disk[s].sbom /\ t.pending = task[s].pending
  BY DEF TaskSet
<1> HIDE DEF t
<1>2. task'[s] = t => TakesRow(s) /\ task'[s].row = i
  BY <1>1 DEF TakesRow, SamePass
<1> QED
  BY <1>2 DEF t

LEMMA LookStep ==
    ASSUME TypeInv, NEW s \in Scanners, Look(s)
    PROVE  /\ TypeInv' /\ Frame(s) /\ disk' = disk /\ UNCHANGED tables
           /\ \/ /\ RowsOf(task[s].image, task[s].at) = {} /\ UNCHANGED history
                 /\ Moves(s, "insert")
              \/ TakesRow(s) /\ UNCHANGED history
              \/ /\ Cardinality(RowsOf(task[s].image, task[s].at)) > 1
                 /\ Fails(s) /\ GoesIdle(s)
<1>1. task[s] \in TaskSet
  BY Here
<1>2. TypeInv' /\ Frame(s) /\ disk' = disk /\ UNCHANGED tables
  BY LookTyped
<1>3. \/ /\ RowsOf(task[s].image, task[s].at) = {} /\ UNCHANGED history
         /\ task'[s] = [task[s] EXCEPT !.pc = "insert"]
      \/ /\ UNCHANGED history
         /\ \E i : task'[s] = [task[s] EXCEPT !.pc = "artifacts", !.row = i,
                                              !.todo = disk[s].sbom]
      \/ /\ Cardinality(RowsOf(task[s].image, task[s].at)) > 1
         /\ task'[s] = Idle /\ Fails(s)
  BY LookTyped
<1>4. ASSUME NEW i, task'[s] = [task[s] EXCEPT !.pc = "artifacts", !.row = i,
                                              !.todo = disk[s].sbom]
      PROVE  TakesRow(s)
  BY <1>1, <1>4, TakesOn
<1> QED
  BY <1>1, <1>2, <1>3, <1>4, MovesOn, FallsIdle

LEMMA InsertStep ==
    ASSUME TypeInv, NEW s \in Scanners, Insert(s)
    PROVE  /\ TypeInv' /\ Frame(s) /\ disk' = disk
           /\ UNCHANGED <<packages, vulnerable, history>>
           /\ TakesRow(s) /\ task'[s].row = Len(rows) + 1
           /\ DOMAIN rows' = DOMAIN rows \union {Len(rows) + 1}
           /\ Len(rows) + 1 \notin DOMAIN rows
           /\ \A i \in DOMAIN rows : rows'[i] = rows[i]
           /\ rows'[Len(rows) + 1] =
                [image |-> task[s].image, at |-> task[s].at,
                 packages |-> {}, layers |-> {}, base |-> NoRow]
<1>1. /\ task[s] \in TaskSet
      /\ task'[s] = [task[s] EXCEPT !.pc = "artifacts", !.row = Len(rows) + 1,
                                    !.todo = disk[s].sbom]
  BY Here, InsertTyped
<1>2. TakesRow(s) /\ task'[s].row = Len(rows) + 1
  BY <1>1, TakesOn
<1> QED
  BY <1>2, InsertTyped

LEMMA AssociateStep ==
    ASSUME TypeInv, NEW s \in Scanners, Associate(s)
    PROVE  /\ TypeInv' /\ Frame(s) /\ disk' = disk /\ UNCHANGED tables
           /\ UNCHANGED history /\ task'[s].pc = "artifacts" /\ SamePass(s)
           /\ task'[s].row = task[s].row
           /\ task'[s].todo \union task'[s].pending
                = task[s].todo \union task[s].pending
<1>1. PICK p \in task[s].todo \intersect packages :
        task'[s] = [task[s] EXCEPT !.todo = @ \ {p}, !.pending = @ \union {p}]
  BY AssociateTyped
<1> DEFINE t == [task[s] EXCEPT !.todo = @ \ {p}, !.pending = @ \union {p}]
<1>2. /\ t.pc = task[s].pc /\ t.image = task[s].image /\ t.at = task[s].at
      /\ t.integrity = task[s].integrity /\ t.operational = task[s].operational
      /\ t.restarts = task[s].restarts /\ t.row = task[s].row
      /\ t.todo = task[s].todo \ {p} /\ t.pending = task[s].pending \union {p}
  BY Here DEF TaskSet
<1>3. task[s].pc = "artifacts" /\ UNCHANGED tables /\ UNCHANGED history
  BY DEF Associate
<1> HIDE DEF t
<1>4. task'[s] = t
  BY <1>1 DEF t
<1>5. t.todo \union t.pending = task[s].todo \union task[s].pending
  BY <1>2
<1> QED
  BY <1>2, <1>3, <1>4, <1>5, AssociateTyped DEF SamePass

LEMMA NewPackageStep ==
    ASSUME TypeInv, NEW s \in Scanners, NewPackage(s)
    PROVE  /\ TypeInv' /\ Frame(s) /\ Commits(s)
           /\ task[s].pc = "artifacts" /\ task'[s].pc = "artifacts" /\ SamePass(s)
           /\ task'[s].row = task[s].row
           /\ task'[s].todo \union task'[s].pending = task[s].todo
<1>1. PICK p \in task[s].todo :
        task'[s] = [task[s] EXCEPT !.todo = @ \ {p}, !.pending = {p}]
  BY NewPackageTyped
<1> DEFINE t == [task[s] EXCEPT !.todo = @ \ {p}, !.pending = {p}]
<1>2. /\ t.pc = task[s].pc /\ t.image = task[s].image /\ t.at = task[s].at
      /\ t.integrity = task[s].integrity /\ t.operational = task[s].operational
      /\ t.restarts = task[s].restarts /\ t.row = task[s].row
      /\ t.todo = task[s].todo \ {p} /\ t.pending = {p}
  BY Here DEF TaskSet
<1>3. task[s].pc = "artifacts"
  BY DEF NewPackage
<1> HIDE DEF t
<1>4. task'[s] = t
  BY <1>1 DEF t
<1>5. t.todo \union t.pending = task[s].todo
  BY <1>1, <1>2
<1> QED
  BY <1>2, <1>3, <1>4, <1>5, NewPackageTyped DEF SamePass

LEMMA NewLicenseStep ==
    ASSUME TypeInv, NEW s \in Scanners, NewLicense(s)
    PROVE  /\ TypeInv' /\ Frame(s) /\ Commits(s)
           /\ task[s].pc = "artifacts" /\ task'[s].pc = "artifacts" /\ SamePass(s)
           /\ task'[s].row = task[s].row
           /\ task'[s].todo = task[s].todo /\ task'[s].pending = {}
<1> DEFINE t == [task[s] EXCEPT !.pending = {}]
<1>1. /\ t.pc = task[s].pc /\ t.image = task[s].image /\ t.at = task[s].at
      /\ t.integrity = task[s].integrity /\ t.operational = task[s].operational
      /\ t.restarts = task[s].restarts /\ t.row = task[s].row
      /\ t.todo = task[s].todo /\ t.pending = {}
  BY Here DEF TaskSet
<1>2. task[s].pc = "artifacts"
  BY DEF NewLicense
<1>3. task'[s] = t
  BY NewLicenseTyped
<1> HIDE DEF t
<1> QED
  BY <1>1, <1>2, <1>3, NewLicenseTyped DEF SamePass

LEMMA AssociatedStep ==
    ASSUME TypeInv, NEW s \in Scanners, Associated(s)
    PROVE  /\ TypeInv' /\ Frame(s) /\ Commits(s)
           /\ task[s].pc = "artifacts" /\ task[s].todo = {}
           /\ task'[s].pc = "layers" /\ SamePass(s)
           /\ task'[s].row = task[s].row /\ task'[s].pending = {}
<1> DEFINE t == [task[s] EXCEPT !.pc = "layers", !.pending = {}]
<1>1. /\ t.pc = "layers" /\ t.image = task[s].image /\ t.at = task[s].at
      /\ t.integrity = task[s].integrity /\ t.operational = task[s].operational
      /\ t.restarts = task[s].restarts /\ t.row = task[s].row /\ t.pending = {}
  BY Here DEF TaskSet
<1>2. task[s].pc = "artifacts" /\ task[s].todo = {}
  BY DEF Associated
<1>3. task'[s] = t
  BY AssociatedTyped
<1> HIDE DEF t
<1> QED
  BY <1>1, <1>2, <1>3, AssociatedTyped DEF SamePass

LEMMA SaveLayersStep ==
    ASSUME TypeInv, NEW s \in Scanners, SaveLayers(s)
    PROVE  /\ TypeInv' /\ Frame(s) /\ disk' = disk /\ UNCHANGED <<packages, vulnerable>>
           /\ task[s].pc = "layers"
           /\ \/ /\ ~disk[s].tars[Tar(s)].cut /\ UNCHANGED history
                 /\ AddsLayers(task[s].row, Places(disk[s].tars[Tar(s)].content.layers))
                 /\ NewPass(s, "base") /\ task'[s].row = task[s].row
                 /\ task'[s].image = task[s].image /\ task'[s].at = task[s].at
              \/ rows' = rows /\ Fails(s) /\ GoesIdle(s)
<1>1. task[s] \in TaskSet
  BY Here
<1>2. task'[s] = Fresh(task[s], "base") =>
        /\ NewPass(s, "base") /\ task'[s].row = task[s].row
        /\ task'[s].image = task[s].image /\ task'[s].at = task[s].at
  BY <1>1, FreshShape DEF NewPass
<1>3. task[s].pc = "layers"
  BY DEF SaveLayers
<1> QED
  BY <1>2, <1>3, SaveLayersTyped, FallsIdle

LEMMA DetectBaseStep ==
    ASSUME TypeInv, NEW s \in Scanners, DetectBase(s)
    PROVE  /\ TypeInv' /\ Frame(s) /\ disk' = disk
           /\ UNCHANGED <<packages, vulnerable, history>> /\ BaseOf(task[s].row)
           /\ task[s].pc = "base" /\ Moves(s, "matches")
BY Here, DetectBaseTyped, MovesOn DEF DetectBase

LEMMA StoreMatchesStep ==
    ASSUME TypeInv, NEW s \in Scanners, Listed(s), StoreMatches(s)
    PROVE  /\ TypeInv' /\ Frame(s) /\ disk' = disk
           /\ UNCHANGED <<rows, packages, history>>
           /\ vulnerable' = vulnerable \union
                {x \in Packages \X Vulnerabilities :
                    x[1] \in disk[s].sbom /\ x[2] \in Matches[x[1]]}
           /\ task[s].pc = "matches"
           /\ NewPass(s, "delete") /\ task'[s].row = task[s].row
           /\ task'[s].image = task[s].image /\ task'[s].at = task[s].at
<1>1. task[s] \in TaskSet /\ task'[s] = Fresh(task[s], "delete")
  BY Here, StoreMatchesTyped
<1>2. /\ NewPass(s, "delete") /\ task'[s].row = task[s].row
      /\ task'[s].image = task[s].image /\ task'[s].at = task[s].at
  BY <1>1, FreshShape DEF NewPass
<1>3. task[s].pc = "matches"
  BY DEF StoreMatches
<1> QED
  BY <1>2, <1>3, StoreMatchesTyped

\* The two exceptions.
ErrorStep(s) ==
    \/ /\ Retries(s)
       /\ \/ /\ task'[s].integrity = task[s].integrity
             /\ task'[s].operational = task[s].operational + 1
          \/ /\ task'[s].integrity = task[s].integrity + 1
             /\ task'[s].operational = 0
    \/ Fails(s) /\ GoesIdle(s)

LEMMA ErrorsStep ==
    ASSUME TypeInv, NEW s \in Scanners, OperationalError(s) \/ IntegrityError(s)
    PROVE  TypeInv' /\ Frame(s) /\ disk' = disk /\ UNCHANGED tables /\ ErrorStep(s)
<1>1. CASE OperationalError(s)
  BY <1>1, OperationalErrorTyped, FallsIdle DEF ErrorStep
<1>2. CASE IntegrityError(s)
  BY <1>2, IntegrityErrorTyped, FallsIdle DEF ErrorStep
<1> QED
  BY <1>1, <1>2

LEMMA DeleteFilesStep ==
    ASSUME TypeInv, NEW s \in Scanners, DeleteFiles(s)
    PROVE  /\ TypeInv' /\ Frame(s) /\ UNCHANGED tables /\ UNCHANGED history
           /\ disk'[s].tars[Tar(s)] = NoFile
           /\ \A f \in Files \ {Tar(s)} : disk'[s].tars[f] = disk[s].tars[f]
           /\ task[s].pc = "delete"
           /\ NewPass(s, IF task[s].at = 1 THEN "pull" ELSE "ended")
           /\ task'[s].image = task[s].image /\ task'[s].at = 2
BY DeleteFilesTyped DEF DeleteFiles, NewPass

LEMMA FailStep ==
    ASSUME TypeInv, NEW s \in Scanners, Fail(s)
    PROVE  /\ TypeInv' /\ Frame(s) /\ disk' = disk /\ UNCHANGED tables
           /\ Fails(s) /\ GoesIdle(s)
BY FailTyped, FallsIdle

-----------------------------------------------------------------------------
(* Types and the packages that are left.                                   *)

LEMMA ListedKept ==
    ASSUME TypeInv, TablesGrow, NEW e \in Scanners, Listed(e),
           task'[e] = task[e], disk'[e] = disk[e]
    PROVE  Listed(e)'
<1>1. CASE task[e].pc \in WithRow
  <2>1. rows[task[e].row].packages \subseteq rows'[task[e].row].packages
    BY <1>1, RowHere DEF TablesGrow, RowsGrow
  <2> QED
    BY <2>1 DEF Listed
<1>2. CASE task[e].pc \notin WithRow
  BY <1>2 DEF Listed, WithRow
<1> QED
  BY <1>1, <1>2

\* A scanner that is not at a row, or that goes back to look for it.
LEMMA NothingListed ==
    ASSUME NEW s \in Scanners, task'[s].pc \notin WithRow
    PROVE  Listed(s)'
BY DEF Listed, WithRow

LEMMA StepListed ==
    ASSUME TypeInv, NEW s \in Scanners, Listed(s), Start(s) \/ Scan(s)
    PROVE  TypeInv' /\ Frame(s) /\ Listed(s)'
<1>1. CASE Start(s)
  BY <1>1, StartStep, NothingListed DEF WithRow, NewPass
<1>2. CASE Reuse(s)
  BY <1>2, ReuseStep, NothingListed DEF WithRow, Moves
<1>3. CASE Pull(s)
  BY <1>3, PullStep, NothingListed DEF WithRow, Moves
<1>4. CASE CutPull(s)
  BY <1>4, CutPullStep, NothingListed DEF WithRow, GoesIdle
<1>5. CASE NotOffered(s)
  <2>1. task'[s].pc \in {"pull", "ended", "idle"}
    BY <1>5, NotOfferedStep DEF NewPass, GoesIdle
  <2> QED
    BY <1>5, <2>1, NotOfferedStep, NothingListed DEF WithRow
<1>6. CASE Sbom(s)
  BY <1>6, SbomStep, NothingListed DEF WithRow, Moves
<1>7. CASE Look(s)
  <2>1. TakesRow(s) \/ task'[s].pc \in {"insert", "idle"}
    BY <1>7, LookStep DEF Moves, GoesIdle
  <2>2. TypeInv' /\ Frame(s) /\ disk' = disk
    BY <1>7, LookStep
  <2>3. TakesRow(s) => Listed(s)'
    BY <2>2 DEF TakesRow, Listed
  <2> QED
    BY <2>1, <2>2, <2>3, NothingListed DEF WithRow
<1>8. CASE Insert(s)
  BY <1>8, InsertStep DEF TakesRow, Listed
<1>9. CASE Associate(s)
  <2>1. task[s].pc = "artifacts" /\ rows' = rows
    BY <1>9 DEF Associate, tables
  <2> QED
    BY <1>9, <2>1, AssociateStep DEF Listed
<1>10. CASE NewPackage(s) \/ NewLicense(s) \/ Associated(s)
  <2>1. /\ TypeInv' /\ Frame(s) /\ Commits(s) /\ task[s].pc = "artifacts"
        /\ task'[s].row = task[s].row
        /\ task'[s].pc \in {"artifacts", "layers"}
        /\ \/ task'[s].pc = "artifacts"
              /\ task[s].todo \subseteq task'[s].todo \union task'[s].pending
           \/ task[s].todo = {}
    BY <1>10, NewPackageStep, NewLicenseStep, AssociatedStep
  <2>2. rows'[task[s].row].packages = rows[task[s].row].packages \union task[s].pending
        /\ disk' = disk
    BY <2>1 DEF Commits
  <2> QED
    BY <2>1, <2>2 DEF Listed
<1>11. CASE OperationalError(s) \/ IntegrityError(s)
  <2>1. TypeInv' /\ Frame(s) /\ disk' = disk /\ rows' = rows /\ ErrorStep(s)
    BY <1>11, ErrorsStep DEF tables
  <2>2. CASE GoesIdle(s)
    BY <2>1, <2>2, NothingListed DEF GoesIdle, WithRow
  <2>3. CASE Retries(s)
    <3>1. task'[s].pc = FirstPc(task[s].pc) /\ task'[s].row = task[s].row
      BY <2>3 DEF Retries
    <3>2. \/ task'[s].pc \notin WithRow
          \/ task[s].pc = "matches" /\ task'[s].pc = "matches"
      BY <3>1 DEF FirstPc, WithRow
    <3>3. CASE task[s].pc = "matches" /\ task'[s].pc = "matches"
      BY <2>1, <3>1, <3>3 DEF Listed, WithRow
    <3> QED
      BY <2>1, <3>2, <3>3, NothingListed
  <2> QED
    BY <2>1, <2>2, <2>3 DEF ErrorStep
<1>12. CASE SaveLayers(s)
  <2>1. TypeInv' /\ Frame(s) /\ disk' = disk /\ task[s].pc = "layers"
    BY <1>12, SaveLayersStep
  <2>2. CASE GoesIdle(s)
    BY <2>1, <2>2, NothingListed DEF GoesIdle, WithRow
  <2>3. CASE /\ AddsLayers(task[s].row, Places(disk[s].tars[Tar(s)].content.layers))
             /\ NewPass(s, "base") /\ task'[s].row = task[s].row
    <3>1. rows'[task[s].row].packages = rows[task[s].row].packages
      BY <2>1, <2>3, RowHere DEF AddsLayers, WithRow
    <3> QED
      BY <2>1, <2>3, <3>1 DEF Listed, NewPass, WithRow
  <2> QED
    BY <1>12, <2>2, <2>3, SaveLayersStep
<1>13. CASE DetectBase(s)
  <2>1. rows'[task[s].row].packages = rows[task[s].row].packages
    BY <1>13, DetectBaseStep, RowHere DEF BaseOf, WithRow
  <2> QED
    BY <1>13, <2>1, DetectBaseStep DEF Listed, Moves, WithRow
<1>14. CASE StoreMatches(s)
  BY <1>14, StoreMatchesStep DEF Listed, NewPass, WithRow
<1>15. CASE DeleteFiles(s)
  <2>1. task'[s].pc \in {"pull", "ended"}
    BY <1>15, DeleteFilesStep DEF NewPass
  <2> QED
    BY <1>15, <2>1, DeleteFilesStep, NothingListed DEF WithRow
<1>16. CASE Fail(s)
  BY <1>16, FailStep, NothingListed DEF GoesIdle, WithRow
<1> QED
  BY <1>1, <1>2, <1>3, <1>4, <1>5, <1>6, <1>7, <1>8, <1>9, <1>10, <1>11, <1>12,
     <1>13, <1>14, <1>15, <1>16 DEF Scan

ScanTypes == TypeInv /\ AllListed

LEMMA InitialScans == Init => ScanTypes
<1> SUFFICES ASSUME Init PROVE ScanTypes
  OBVIOUS
<1> DEFINE d == [tars |-> [f \in Files |-> NoFile], sbom |-> NoFile]
<1>1. /\ disk = [s \in Scanners |-> d] /\ task = [s \in Scanners |-> Idle]
      /\ rows = <<>> /\ packages = {} /\ vulnerable = {}
      /\ raced = {} /\ failed = {} /\ scans = 0
  BY DEF Init
<1>2. d \in DiskSet
  BY DEF DiskSet
<1> HIDE DEF d
<1>3. disk \in [Scanners -> DiskSet] /\ task \in [Scanners -> TaskSet]
  BY <1>1, <1>2, IdleTyped
<1>4. TablesTyped /\ HistoryTyped
  BY <1>1, ImageScanAssumption DEF TablesTyped, HistoryTyped
<1>5. TypeOK
  BY <1>3, <1>4, TypeParts
<1>6. \A s \in Scanners : Placed(s) /\ Listed(s)
  <2>1. \A s \in Scanners : task[s].pc = "idle"
    BY <1>1 DEF Idle
  <2> QED
    BY <2>1 DEF Placed, Listed, WithTar, WithSbom, WithRow
<1> QED
  BY <1>5, <1>6 DEF ScanTypes, TypeInv, AllListed

\* Every step keeps the types; of the scanners, it is a step of one.
LEMMA ScanTypesKept == ScanTypes /\ [Next]_vars => ScanTypes'
<1> SUFFICES ASSUME ScanTypes, [Next]_vars PROVE ScanTypes'
  OBVIOUS
<1>1. TypeInv /\ \A e \in Scanners : Listed(e)
  BY DEF ScanTypes, AllListed
<1>2. CASE UpdateBase
  <2>1. TypeInv' /\ TablesGrow /\ task' = task /\ disk' = disk
    BY <1>1, <1>2, UpdateBaseTyped
  <2> QED
    BY <1>1, <2>1, ListedKept DEF ScanTypes, AllListed
<1>3. ASSUME NEW s \in Scanners, Start(s) \/ Scan(s) PROVE ScanTypes'
  <2>1. TypeInv' /\ Frame(s) /\ Listed(s)'
    BY <1>1, <1>3, StepListed
  <2>2. \A e \in Scanners \ {s} : Listed(e)'
    BY <1>1, <2>1, ListedKept DEF Frame
  <2> QED
    BY <2>1, <2>2 DEF ScanTypes, AllListed
<1>4. CASE UNCHANGED vars
  <2>1. UNCHANGED <<disk, rows, packages, vulnerable, task, raced, failed, scans>>
    BY <1>4 DEF vars, tables, history
  <2> QED
    BY <1>1, <2>1 DEF ScanTypes, AllListed, TypeInv, TypeOK, Placed, Listed, Tar,
       FileOf, RowsOf
<1> QED
  BY <1>2, <1>3, <1>4 DEF Next

LEMMA ScansAreTyped == Spec => []ScanTypes
<1>1. Init => ScanTypes
  BY InitialScans
<1>2. ScanTypes /\ [Next]_vars => ScanTypes'
  BY ScanTypesKept
<1> QED
  BY <1>1, <1>2, PTL DEF Spec

\* The tables, the files and the records of the scanners keep their types,
\* whatever is retried, cut off or killed.
THEOREM ImageScanTypes == Spec => []TypeOK
<1>1. ScanTypes => TypeOK
  BY DEF ScanTypes, TypeInv
<1> QED
  BY <1>1, ScansAreTyped, PTL

-----------------------------------------------------------------------------
(* The tries of a pass.                                                    *)

LEMMA OneMoreRound ==
    ASSUME NEW i \in Nat, NEW n \in Nat
    PROVE  /\ i * n \in Nat /\ 0 * n = 0
           /\ (i + 1) * n = i * n + n
OBVIOUS

LEMMA FewerRounds ==
    ASSUME NEW i \in Nat, NEW m \in Nat, NEW n \in Nat, i <= m
    PROVE  i * n <= m * n
OBVIOUS

\* What a step does to the counts of its scanner.
LEMMA StepCounts ==
    ASSUME TypeInv, NEW s \in Scanners, Listed(s), Start(s) \/ Scan(s)
    PROVE  \/ SamePass(s) \/ ErrorStep(s)
           \/ task'[s].restarts = 0 /\ task'[s].integrity = 0
              /\ task'[s].operational = 0
<1>1. CASE Start(s) \/ CutPull(s) \/ NotOffered(s) \/ DeleteFiles(s) \/ Fail(s)
  BY <1>1, StartStep, CutPullStep, NotOfferedStep, DeleteFilesStep, FailStep
     DEF NewPass, GoesIdle
<1>2. CASE Reuse(s) \/ Pull(s) \/ Sbom(s)
  BY <1>2, ReuseStep, PullStep, SbomStep DEF Moves
<1>3. CASE Look(s) \/ Insert(s)
  BY <1>3, LookStep, InsertStep DEF Moves, TakesRow, GoesIdle
<1>4. CASE Associate(s) \/ NewPackage(s) \/ NewLicense(s) \/ Associated(s)
  BY <1>4, AssociateStep, NewPackageStep, NewLicenseStep, AssociatedStep
<1>5. CASE OperationalError(s) \/ IntegrityError(s)
  BY <1>5, ErrorsStep
<1>6. CASE SaveLayers(s) \/ DetectBase(s) \/ StoreMatches(s)
  BY <1>6, SaveLayersStep, DetectBaseStep, StoreMatchesStep
     DEF Moves, NewPass, GoesIdle
<1> QED
  BY <1>1, <1>2, <1>3, <1>4, <1>5, <1>6 DEF Scan

LEMMA CountedKept ==
    ASSUME ScanTypes, AllCounted, [Next]_vars
    PROVE  AllCounted'
<1>0. ScanTypes'
  BY ScanTypesKept
<1>1. TypeInv /\ \A e \in Scanners : Listed(e) /\ Counted(e) /\ task[e] \in TaskSet
  BY Here DEF ScanTypes, AllListed, AllCounted
<1>2. ASSUME NEW s \in Scanners, Start(s) \/ Scan(s) PROVE AllCounted'
  <2>1. Frame(s)
    BY <1>1, <1>2, StepListed
  <2>2. \A e \in Scanners \ {s} : Counted(e)'
    BY <1>1, <2>1 DEF Frame, Counted
  <2>3. /\ task[s].integrity \in Nat /\ task[s].operational \in Nat
        /\ task[s].operational + 1 <= OperationalTries
        /\ task[s].restarts \in Nat /\ OperationalTries \in Nat
    BY <1>1, ImageScanAssumption DEF TaskSet
  <2> SUFFICES Counted(s)'
    BY <2>2 DEF AllCounted
  <2>4. CASE SamePass(s)
    BY <1>1, <2>4 DEF SamePass, Counted
  <2>5. CASE task'[s].restarts = 0 /\ task'[s].integrity = 0
             /\ task'[s].operational = 0
    BY <2>3, <2>5, OneMoreRound DEF Counted
  <2>6. CASE ErrorStep(s)
    <3>1. CASE GoesIdle(s)
      BY <2>3, <3>1, OneMoreRound DEF GoesIdle, Counted
    <3>2. CASE /\ Retries(s) /\ task'[s].integrity = task[s].integrity
               /\ task'[s].operational = task[s].operational + 1
      <4>1. task'[s].restarts = task[s].restarts + 1
        BY <3>2 DEF Retries
      <4> DEFINE done == task[s].integrity * OperationalTries
      <4>2. done \in Nat /\ task[s].restarts <= done + task[s].operational
        BY <1>1, <2>3, OneMoreRound DEF Counted
      <4>3. task'[s].restarts <= done + task'[s].operational
        <5> HIDE DEF done
        <5> QED
          BY <2>3, <3>2, <4>1, <4>2
      <4> QED
        BY <3>2, <4>3 DEF Counted
    <3>3. CASE /\ Retries(s) /\ task'[s].integrity = task[s].integrity + 1
               /\ task'[s].operational = 0
      <4>1. task'[s].restarts = task[s].restarts + 1
        BY <3>3 DEF Retries
      <4> DEFINE done == task[s].integrity * OperationalTries
                 next == (task[s].integrity + 1) * OperationalTries
      <4>2. /\ done \in Nat /\ task[s].restarts <= done + task[s].operational
            /\ next = done + OperationalTries
        BY <1>1, <2>3, OneMoreRound DEF Counted
      <4>3. task'[s].restarts <= next + task'[s].operational
        <5> HIDE DEF done, next
        <5> QED
          BY <2>3, <3>3, <4>1, <4>2
      <4> QED
        BY <3>3, <4>3 DEF Counted
    <3> QED
      BY <2>6, <3>1, <3>2, <3>3 DEF ErrorStep
  <2> QED
    BY <1>1, <1>2, <2>4, <2>5, <2>6, StepCounts
<1>3. CASE UpdateBase \/ UNCHANGED vars
  <2>1. task' = task
    BY <1>3 DEF UpdateBase, vars
  <2> QED
    BY <1>1, <2>1 DEF AllCounted, Counted
<1> QED
  BY <1>2, <1>3 DEF Next

LEMMA CountedIsBounded == ScanTypes /\ AllCounted => TriesAreBounded
<1> SUFFICES ASSUME ScanTypes, AllCounted, NEW s \in Scanners
             PROVE  task[s].restarts < IntegrityTries * OperationalTries
  BY DEF TriesAreBounded
<1>1. task[s] \in TaskSet /\ Counted(s)
  BY Here DEF ScanTypes, AllCounted
<1> DEFINE i == task[s].integrity
           last == IntegrityTries - 1
<1>2. /\ i \in Nat /\ task[s].operational \in Nat /\ last \in Nat /\ i <= last
      /\ task[s].operational + 1 <= OperationalTries
      /\ task[s].restarts \in Nat /\ OperationalTries \in Nat
      /\ IntegrityTries = last + 1
  BY <1>1, ImageScanAssumption DEF TaskSet
<1>3. task[s].restarts <= i * OperationalTries + task[s].operational
  BY <1>1 DEF Counted
<1> HIDE DEF i, last
<1>4. /\ i * OperationalTries <= last * OperationalTries
      /\ i * OperationalTries \in Nat /\ last * OperationalTries \in Nat
      /\ (last + 1) * OperationalTries = last * OperationalTries + OperationalTries
  BY <1>2, FewerRounds, OneMoreRound
<1> DEFINE done == i * OperationalTries
           most == last * OperationalTries
           all == (last + 1) * OperationalTries
<1>5. task[s].restarts < all
  <2>1. /\ done <= most /\ done \in Nat /\ most \in Nat
        /\ all = most + OperationalTries
        /\ task[s].restarts <= done + task[s].operational
    BY <1>3, <1>4
  <2> HIDE DEF done, most, all
  <2> QED
    BY <1>2, <2>1
<1> QED
  BY <1>2, <1>5

\* However operational and integrity errors alternate, a pass is tried less
\* often than the product of the counts of its two retry_on_exception
\* decorators says.
THEOREM PassesAreBounded == Spec => []TriesAreBounded
<1>1. Init => ScanTypes /\ AllCounted
  <2> SUFFICES ASSUME Init PROVE AllCounted
    BY InitialScans
  <2>1. \A s \in Scanners : task[s].restarts = 0 /\ task[s].integrity = 0
                            /\ task[s].operational = 0
    BY DEF Init, Idle
  <2>2. OperationalTries \in Nat
    BY ImageScanAssumption
  <2> QED
    BY <2>1, <2>2, OneMoreRound DEF AllCounted, Counted
<1>2. ScanTypes /\ AllCounted /\ [Next]_vars => ScanTypes' /\ AllCounted'
  BY ScanTypesKept, CountedKept
<1> QED
  BY <1>1, <1>2, CountedIsBounded, PTL DEF Spec

-----------------------------------------------------------------------------
(* The rows of a platform.                                                 *)

OneRow == Alone /\ AllNoRowYet /\ OneRowPerPlatform

\* Who is at which image after a step.
LEMMA StepBusy ==
    ASSUME TypeInv, NEW s \in Scanners, Listed(s), Scan(s)
    PROVE  /\ Busy(s) /\ raced' = raced
           /\ \/ task'[s].image = task[s].image
              \/ GoesIdle(s)
           /\ \/ UNCHANGED history
              \/ Fails(s) /\ GoesIdle(s)
<1>1. CASE CutPull(s) \/ NotOffered(s) \/ DeleteFiles(s) \/ Fail(s)
  BY <1>1, CutPullStep, NotOfferedStep, DeleteFilesStep, FailStep
     DEF Busy, Fails, history, CutPull, NotOffered, DeleteFiles, Fail
<1>2. CASE Reuse(s) \/ Pull(s) \/ Sbom(s)
  BY <1>2, ReuseStep, PullStep, SbomStep
     DEF Moves, SamePass, Busy, history, Reuse, Pull, Sbom
<1>3. CASE Look(s) \/ Insert(s)
  BY <1>3, LookStep, InsertStep
     DEF Moves, SamePass, TakesRow, Busy, Fails, history, Look, Insert
<1>4. CASE Associate(s) \/ NewPackage(s) \/ NewLicense(s) \/ Associated(s)
  <2>1. SamePass(s) /\ UNCHANGED history /\ task[s].pc = "artifacts"
    BY <1>4, AssociateStep, NewPackageStep, NewLicenseStep, AssociatedStep
       DEF Commits, Associate
  <2> QED
    BY <2>1 DEF SamePass, Busy, history
<1>5. CASE OperationalError(s) \/ IntegrityError(s)
  <2>1. ErrorStep(s) /\ task[s].pc \in Retried
    BY <1>5, ErrorsStep DEF OperationalError, IntegrityError
  <2> QED
    BY <2>1 DEF ErrorStep, Retries, Busy, Fails, history, Retried
<1>6. CASE SaveLayers(s) \/ DetectBase(s) \/ StoreMatches(s)
  BY <1>6, SaveLayersStep, DetectBaseStep, StoreMatchesStep
     DEF Moves, SamePass, Busy, Fails, history
<1> QED
  BY <1>1, <1>2, <1>3, <1>4, <1>5, <1>6 DEF Scan

\* The rows are those there were, of the same platforms.
SameRows ==
    /\ DOMAIN rows' = DOMAIN rows
    /\ \A i \in DOMAIN rows :
         rows'[i].image = rows[i].image /\ rows'[i].at = rows[i].at

LEMMA UnchangedRows == ASSUME rows' = rows PROVE SameRows
BY DEF SameRows

LEMMA StepRows ==
    ASSUME TypeInv, NEW s \in Scanners, Listed(s), Scan(s), ~Insert(s)
    PROVE  /\ SameRows
           /\ task'[s].pc = "insert" =>
                RowsOf(task[s].image, task[s].at) = {} /\ SamePass(s)
<1>1. CASE CutPull(s) \/ NotOffered(s) \/ DeleteFiles(s) \/ Fail(s)
  <2>1. rows' = rows
    BY <1>1, CutPullStep, NotOfferedStep, DeleteFilesStep, FailStep DEF tables
  <2>2. task'[s].pc # "insert"
    BY <1>1, CutPullStep, NotOfferedStep, DeleteFilesStep, FailStep
       DEF NewPass, GoesIdle
  <2> QED
    BY <2>1, <2>2, UnchangedRows
<1>2. CASE Reuse(s) \/ Pull(s) \/ Sbom(s)
  BY <1>2, ReuseStep, PullStep, SbomStep, UnchangedRows DEF Moves, tables
<1>3. CASE Look(s)
  BY <1>3, LookStep, UnchangedRows DEF Moves, TakesRow, GoesIdle, tables
<1>4. CASE Associate(s) \/ NewPackage(s) \/ NewLicense(s) \/ Associated(s)
  BY <1>4, AssociateStep, NewPackageStep, NewLicenseStep, AssociatedStep,
     UnchangedRows DEF Commits, SameRows, tables
<1>5. CASE OperationalError(s) \/ IntegrityError(s)
  <2>1. rows' = rows /\ ErrorStep(s)
    BY <1>5, ErrorsStep DEF tables
  <2> QED
    BY <2>1, UnchangedRows DEF ErrorStep, Retries, GoesIdle, FirstPc
<1>6. CASE SaveLayers(s) \/ DetectBase(s) \/ StoreMatches(s)
  <2>1. SameRows
    BY <1>6, SaveLayersStep, DetectBaseStep, StoreMatchesStep, UnchangedRows
       DEF SameRows, AddsLayers, BaseOf
  <2>2. task'[s].pc # "insert"
    BY <1>6, SaveLayersStep, DetectBaseStep, StoreMatchesStep
       DEF Moves, NewPass, GoesIdle
  <2> QED
    BY <2>1, <2>2
<1> QED
  BY <1>1, <1>2, <1>3, <1>4, <1>5, <1>6 DEF Scan

LEMMA SameRowsKept ==
    ASSUME OneRow, SameRows, raced \subseteq raced'
    PROVE  /\ OneRowPerPlatform'
           /\ \A e \in Scanners : task'[e] = task[e] => NoRowYet(e)'
<1>1. OneRowPerPlatform'
  BY DEF OneRow, OneRowPerPlatform, SameRows
<1>2. ASSUME NEW e \in Scanners, task'[e] = task[e] PROVE NoRowYet(e)'
  <2>1. NoRowYet(e)
    BY DEF OneRow, AllNoRowYet
  <2> QED
    BY <1>2, <2>1 DEF NoRowYet, RowsOf, SameRows
<1> QED
  BY <1>1, <1>2

LEMMA OneRowKept ==
    ASSUME ScanTypes, OneRow, [Next]_vars
    PROVE  OneRow'
<1>1. TypeInv /\ \A e \in Scanners : Listed(e)
  BY DEF ScanTypes, AllListed
<1>2. ASSUME NEW s \in Scanners, Start(s) PROVE OneRow'
  <2>1. /\ Frame(s) /\ rows' = rows /\ task'[s].pc = "pull"
        /\ \A e \in Scanners : Busy(e) /\ task[e].image = task'[s].image
               => task'[s].image \in raced'
    BY <1>1, <1>2, StartStep DEF NewPass, tables
  <2>2. Alone'
    BY <2>1 DEF OneRow, Alone, Frame, Busy
  <2>3. OneRowPerPlatform' /\ \A e \in Scanners \ {s} : NoRowYet(e)'
    BY <2>1, UnchangedRows, SameRowsKept DEF Frame
  <2>4. NoRowYet(s)'
    BY <2>1 DEF NoRowYet
  <2> QED
    BY <2>2, <2>3, <2>4 DEF OneRow, AllNoRowYet
<1>3. ASSUME NEW s \in Scanners, Scan(s) PROVE OneRow'
  <2>1. /\ Frame(s) /\ Busy(s) /\ raced' = raced
        /\ \/ task'[s].image = task[s].image
           \/ GoesIdle(s)
    BY <1>1, <1>3, StepListed, StepBusy
  <2>2. Alone'
    <3>1. \A e \in Scanners :
            Busy(e)' => Busy(e) /\ task'[e].image = task[e].image
      BY <2>1 DEF Frame, GoesIdle, Busy
    <3> QED
      BY <2>1, <3>1 DEF OneRow, Alone
  <2>3. CASE ~Insert(s)
    <3>1. /\ SameRows
          /\ task'[s].pc = "insert" =>
               RowsOf(task[s].image, task[s].at) = {} /\ SamePass(s)
      BY <1>1, <1>3, <2>3, StepRows
    <3>2. OneRowPerPlatform' /\ \A e \in Scanners \ {s} : NoRowYet(e)'
      BY <2>1, <3>1, SameRowsKept DEF Frame
    <3>3. NoRowYet(s)'
      BY <3>1 DEF NoRowYet, RowsOf, SameRows, SamePass
    <3> QED
      BY <2>2, <3>2, <3>3 DEF OneRow, AllNoRowYet
  <2>4. CASE Insert(s)
    <3> DEFINE new == Len(rows) + 1
               image == task[s].image
               at == task[s].at
    <3>1. /\ task[s].pc = "insert" /\ task'[s].pc = "artifacts"
          /\ DOMAIN rows' = DOMAIN rows \union {new} /\ new \notin DOMAIN rows
          /\ \A i \in DOMAIN rows : rows'[i] = rows[i]
          /\ rows'[new].image = image /\ rows'[new].at = at
      <4>1. /\ task[s].pc = "insert" /\ TakesRow(s)
            /\ DOMAIN rows' = DOMAIN rows \union {new} /\ new \notin DOMAIN rows
            /\ \A i \in DOMAIN rows : rows'[i] = rows[i]
            /\ rows'[new] = [image |-> task[s].image, at |-> task[s].at,
                             packages |-> {}, layers |-> {}, base |-> NoRow]
        BY <1>1, <2>4, InsertStep DEF Insert
      <4> HIDE DEF new
      <4> QED
        BY <4>1 DEF TakesRow
    <3> HIDE DEF new
    <3>2. image \notin raced => RowsOf(image, at) = {}
      BY <3>1 DEF OneRow, AllNoRowYet, NoRowYet
    <3>3. OneRowPerPlatform'
      <4> SUFFICES ASSUME NEW i \in DOMAIN rows', NEW j \in DOMAIN rows',
                          rows'[i].image = rows'[j].image, rows'[i].at = rows'[j].at,
                          rows'[i].image \notin raced'
                   PROVE  i = j
        BY DEF OneRowPerPlatform
      <4>1. CASE i # new /\ j # new
        BY <2>1, <3>1, <4>1 DEF OneRow, OneRowPerPlatform
      <4>2. CASE i = new \/ j = new
        BY <2>1, <3>1, <3>2, <4>2 DEF RowsOf
      <4> QED
        BY <4>1, <4>2
    <3>4. ASSUME NEW e \in Scanners \ {s} PROVE NoRowYet(e)'
      <4> SUFFICES ASSUME task'[e].pc = "insert", task'[e].image \notin raced'
                   PROVE  RowsOf(task[e].image, task[e].at)' = {}
        BY DEF NoRowYet
      <4>1. /\ task[e].pc = "insert" /\ task[e].image \notin raced
            /\ task'[e] = task[e]
        BY <2>1 DEF Frame
      <4>2. task[e].image # image
        BY <2>1, <4>1 DEF OneRow, Alone, Busy
      <4>3. RowsOf(task[e].image, task[e].at) = {}
        BY <4>1 DEF OneRow, AllNoRowYet, NoRowYet
      <4> QED
        BY <3>1, <4>1, <4>2, <4>3 DEF RowsOf
    <3>5. NoRowYet(s)'
      BY <3>1 DEF NoRowYet
    <3> QED
      BY <2>2, <3>3, <3>4, <3>5 DEF OneRow, AllNoRowYet
  <2> QED
    BY <2>3, <2>4
<1>4. CASE UpdateBase
  <2>1. task' = task /\ raced' = raced /\ SameRows
    BY <1>1, <1>4, UpdateBaseTyped DEF BaseOf, SameRows, history
  <2>2. Alone'
    BY <2>1 DEF OneRow, Alone, Busy
  <2> QED
    BY <2>1, <2>2, SameRowsKept DEF OneRow, AllNoRowYet
<1>5. CASE UNCHANGED vars
  BY <1>5 DEF OneRow, Alone, AllNoRowYet, NoRowYet, OneRowPerPlatform, RowsOf, Busy,
     vars, tables, history
<1> QED
  BY <1>2, <1>3, <1>4, <1>5 DEF Next

\* An image has one row for a platform unless two scanners had picked it at
\* the same time: get_or_create looks for the row before it inserts one, and
\* retry_on_exception starts again with the look.
THEOREM PlatformsHaveOneRow == Spec => []OneRowPerPlatform
<1>1. Init => ScanTypes /\ OneRow
  <2> SUFFICES ASSUME Init PROVE OneRow
    BY InitialScans
  <2>1. rows = <<>> /\ \A s \in Scanners : task[s].pc = "idle"
    BY DEF Init, Idle
  <2> QED
    BY <2>1 DEF OneRow, Alone, AllNoRowYet, NoRowYet, OneRowPerPlatform, Busy
<1>2. ScanTypes /\ OneRow /\ [Next]_vars => ScanTypes' /\ OneRow'
  BY ScanTypesKept, OneRowKept
<1>3. OneRow => OneRowPerPlatform
  BY DEF OneRow
<1> QED
  BY <1>1, <1>2, <1>3, PTL DEF Spec

-----------------------------------------------------------------------------
(* What is read and stored is of the platform it is taken for.             *)

Own == AllOwnTars /\ AllOwnSbom /\ AllOwnTodo /\ OwnRows

\* A step within a platform, which goes on with its tarball.
Stays(s) ==
    /\ disk'[s].tars = disk[s].tars /\ failed' = failed
    /\ task'[s].image = task[s].image /\ task'[s].at = task[s].at
    /\ task[s].pc \in WithTar \/ Reuse(s)
    /\ task'[s].pc \in WithTar
    /\ Sbom(s) \/ (disk'[s].sbom = disk[s].sbom
                    /\ (task'[s].pc \in WithSbom => task[s].pc \in WithSbom))

LEMMA StepTars ==
    ASSUME TypeInv, NEW s \in Scanners, Listed(s), Scan(s)
    PROVE  \/ Stays(s)
           \/ disk' = disk /\ Fails(s) /\ GoesIdle(s)
           \/ Pull(s) \/ CutPull(s) \/ DeleteFiles(s)
           \/ NotOffered(s) /\ UNCHANGED history
                /\ NewPass(s, IF task[s].at = 1 THEN "pull" ELSE "ended")
<1>1. CASE NotOffered(s) \/ Fail(s)
  BY <1>1, NotOfferedStep, FailStep
<1>2. CASE Reuse(s) \/ Sbom(s)
  BY <1>2, ReuseStep, SbomStep
     DEF Stays, Moves, SamePass, history, WithTar, WithSbom, Sbom
<1>3. CASE Look(s)
  BY <1>3, LookStep DEF Stays, Moves, SamePass, TakesRow, history, WithTar, WithSbom,
     Look
<1>4. CASE Insert(s)
  BY <1>4, InsertStep DEF Stays, SamePass, TakesRow, history, WithTar, WithSbom, Insert
<1>5. CASE Associate(s) \/ NewPackage(s) \/ NewLicense(s) \/ Associated(s)
  <2>1. SamePass(s) /\ UNCHANGED history /\ task[s].pc = "artifacts" /\ disk' = disk
        /\ task'[s].pc \in {"artifacts", "layers"}
    BY <1>5, AssociateStep, NewPackageStep, NewLicenseStep, AssociatedStep
       DEF Commits, Associate
  <2> QED
    BY <2>1 DEF Stays, SamePass, history, WithTar, WithSbom
<1>6. CASE OperationalError(s) \/ IntegrityError(s)
  <2>1. ErrorStep(s) /\ disk' = disk
    BY <1>6, ErrorsStep
  <2>2. Retries(s) => Stays(s)
    BY <2>1 DEF Retries, Retried, FirstPc, Stays, history, WithTar, WithSbom
  <2> QED
    BY <2>1, <2>2 DEF ErrorStep
<1>7. CASE SaveLayers(s)
  BY <1>7, SaveLayersStep DEF Stays, NewPass, history, WithTar, WithSbom
<1>8. CASE DetectBase(s) \/ StoreMatches(s)
  BY <1>8, DetectBaseStep, StoreMatchesStep
     DEF Stays, Moves, SamePass, NewPass, history, WithTar, WithSbom
<1> QED
  BY <1>1, <1>2, <1>3, <1>4, <1>5, <1>6, <1>7, <1>8 DEF Scan

\* The tarball of a scanner that is trusted is the one of its platform.
LEMMA TarIsOffered ==
    ASSUME TypeInv, NEW s \in Scanners, OwnTars(s), task[s].pc \in WithTar,
           Trusted(task[s].image)
    PROVE  /\ disk[s].tars[Tar(s)].content = Offered(s)
           /\ Offered(s) \in Contents /\ Offered(s) # NoContent
<1>1. /\ task[s].image \in Images /\ task[s].at \in 1..2
      /\ disk[s].tars[Tar(s)] \in Pulled /\ disk[s].tars[Tar(s)] # NoFile
  BY Here DEF WithTar, TaskSet, Placed
<1>2. disk[s].tars[Tar(s)].content = Offered(s)
  <2>1. CASE task[s].image \in IndexNamed
    BY <1>1, <2>1 DEF OwnTars, Tar
  <2>2. CASE task[s].image \notin IndexNamed
    BY <1>1, <2>2 DEF OwnTars, Tar, Offered
  <2> QED
    BY <2>1, <2>2
<1>3. disk[s].tars[Tar(s)].content \in Contents
  BY <1>1 DEF Pulled
<1> QED
  BY <1>2, <1>3, ImageScanAssumption

LEMMA OwnFilesKept ==
    ASSUME NEW e, failed \subseteq failed', task'[e] = task[e], disk'[e] = disk[e]
    PROVE  /\ OwnTars(e) => OwnTars(e)'
           /\ OwnSbom(e) => OwnSbom(e)'
           /\ OwnTodo(e) => OwnTodo(e)'
<1>1. OwnTars(e) => OwnTars(e)'
  BY DEF OwnTars, Trusted, FileOf, Offered
<1>2. OwnSbom(e) => OwnSbom(e)'
  BY DEF OwnSbom, Trusted, Tar, FileOf, Offered
<1>3. OwnTodo(e) => OwnTodo(e)'
  BY DEF OwnTodo
<1> QED
  BY <1>1, <1>2, <1>3

\* The names of tarballs are different for different images and, but for the
\* images scanned by their index, for different platforms.
LEMMA FilesDiffer ==
    ASSUME NEW i \in Images, NEW j \in Images, NEW m \in 1..2, NEW n \in 1..2,
           FileOf(i, m) = FileOf(j, n)
    PROVE  i = j /\ (i \in IndexNamed \/ m = n)
BY DEF FileOf

LEMMA StepOwnTars ==
    ASSUME TypeInv, NEW s \in Scanners, Listed(s), OwnTars(s), Scan(s)
    PROVE  OwnTars(s)'
<1>1. CASE Stays(s)
  <2> SUFFICES ASSUME NEW image \in Images, NEW at \in 1..2,
                      Trusted(image)', disk'[s].tars[FileOf(image, at)] # NoFile
               PROVE  IF image \in IndexNamed
                      THEN /\ task'[s].pc \in WithTar /\ task'[s].image = image
                           /\ disk'[s].tars[FileOf(image, at)] =
                                [content |-> Offered(s)', cut |-> FALSE]
                      ELSE disk'[s].tars[FileOf(image, at)].content = Offers[image][at]
    BY DEF OwnTars, FileOf
  <2>1. Trusted(image) /\ Offered(s)' = Offered(s)
    BY <1>1 DEF Stays, Trusted, Offered
  <2> QED
    BY <1>1, <2>1 DEF Stays, OwnTars
<1>2. CASE disk' = disk /\ Fails(s) /\ GoesIdle(s)
  <2>1. \A image \in Images : Trusted(image)' =>
          Trusted(image) /\ ~(image \in IndexNamed /\ image = task[s].image)
    BY <1>2 DEF Trusted, Fails
  <2> QED
    BY <1>2, <2>1 DEF OwnTars, FileOf
<1>3. CASE Pull(s)
  <2>1. /\ Tar(s) \in Files /\ failed' = failed
        /\ disk'[s].tars[Tar(s)] = [content |-> Offered(s), cut |-> FALSE]
        /\ \A f \in Files \ {Tar(s)} : disk'[s].tars[f] = disk[s].tars[f]
        /\ task'[s].pc \in WithTar /\ task'[s].image = task[s].image
        /\ Offered(s)' = Offered(s)
        /\ task[s].pc \notin WithTar
    BY <1>3, PullStep DEF history, Moves, SamePass, WithTar, Pull, Offered
  <2>2. task[s].image \in Images /\ task[s].at \in 1..2
    BY <1>3, Here DEF Pull, TaskSet
  <2> SUFFICES ASSUME NEW image \in Images, NEW at \in 1..2,
                      Trusted(image)', disk'[s].tars[FileOf(image, at)] # NoFile
               PROVE  IF image \in IndexNamed
                      THEN /\ task'[s].pc \in WithTar /\ task'[s].image = image
                           /\ disk'[s].tars[FileOf(image, at)] =
                                [content |-> Offered(s)', cut |-> FALSE]
                      ELSE disk'[s].tars[FileOf(image, at)].content = Offers[image][at]
    BY DEF OwnTars, FileOf
  <2>3. CASE FileOf(image, at) = Tar(s)
    <3>1. image = task[s].image /\ (image \in IndexNamed \/ at = task[s].at)
      BY <2>2, <2>3, FilesDiffer DEF Tar
    <3> QED
      BY <2>1, <2>3, <3>1 DEF Offered
  <2>4. CASE FileOf(image, at) # Tar(s)
    <3>1. disk'[s].tars[FileOf(image, at)] = disk[s].tars[FileOf(image, at)]
      BY <2>1, <2>4, FileIsNamed
    <3>2. Trusted(image)
      BY <2>1 DEF Trusted
    <3> QED
      BY <2>1, <3>1, <3>2 DEF OwnTars
  <2> QED
    BY <2>3, <2>4
<1>4. CASE CutPull(s)
  <2>1. /\ Tar(s) \in Files
        /\ disk'[s].tars[Tar(s)] = [content |-> Offered(s), cut |-> TRUE]
        /\ \A f \in Files \ {Tar(s)} : disk'[s].tars[f] = disk[s].tars[f]
        /\ task[s].pc \notin WithTar
        /\ \A image \in Images : Trusted(image)' =>
             Trusted(image) /\ ~(image \in IndexNamed /\ image = task[s].image)
    BY <1>4, CutPullStep DEF WithTar, CutPull, Trusted, Fails
  <2>2. task[s].image \in Images /\ task[s].at \in 1..2
    BY <1>4, Here DEF CutPull, TaskSet
  <2> SUFFICES ASSUME NEW image \in Images, NEW at \in 1..2,
                      Trusted(image)', disk'[s].tars[FileOf(image, at)] # NoFile
               PROVE  /\ image \notin IndexNamed
                      /\ disk'[s].tars[FileOf(image, at)].content = Offers[image][at]
    BY DEF OwnTars, FileOf
  <2>3. CASE FileOf(image, at) = Tar(s)
    <3>1. image = task[s].image /\ (image \in IndexNamed \/ at = task[s].at)
      BY <2>2, <2>3, FilesDiffer DEF Tar
    <3> QED
      BY <2>1, <2>3, <3>1 DEF Offered
  <2>4. CASE FileOf(image, at) # Tar(s)
    <3>1. disk'[s].tars[FileOf(image, at)] = disk[s].tars[FileOf(image, at)]
      BY <2>1, <2>4, FileIsNamed
    <3> QED
      BY <2>1, <3>1 DEF OwnTars
  <2> QED
    BY <2>3, <2>4
<1>5. CASE DeleteFiles(s)
  <2>1. /\ disk'[s].tars[Tar(s)] = NoFile /\ failed' = failed
        /\ \A f \in Files \ {Tar(s)} : disk'[s].tars[f] = disk[s].tars[f]
    BY <1>5, DeleteFilesStep DEF history
  <2> SUFFICES ASSUME NEW image \in Images, NEW at \in 1..2,
                      Trusted(image)', disk'[s].tars[FileOf(image, at)] # NoFile
               PROVE  /\ image \notin IndexNamed
                      /\ disk'[s].tars[FileOf(image, at)].content = Offers[image][at]
    BY DEF OwnTars, FileOf
  <2>2. disk'[s].tars[FileOf(image, at)] = disk[s].tars[FileOf(image, at)]
        /\ Tar(s) # FileOf(image, at)
    BY <2>1, FileIsNamed
  <2>3. Trusted(image)
    BY <2>1 DEF Trusted
  <2>4. image \in IndexNamed => task[s].image = image
    BY <2>2, <2>3 DEF OwnTars
  <2>5. image \notin IndexNamed
    BY <2>2, <2>4 DEF Tar, FileOf
  <2> QED
    BY <2>2, <2>3, <2>5 DEF OwnTars
<1>6. CASE NotOffered(s) /\ UNCHANGED history
  <2>1. disk' = disk /\ failed' = failed /\ task[s].pc \notin WithTar
    BY <1>6, NotOfferedStep DEF NotOffered, history, WithTar
  <2> QED
    BY <2>1 DEF OwnTars, FileOf, Trusted
<1> QED
  BY <1>1, <1>2, <1>3, <1>4, <1>5, <1>6, StepTars

LEMMA StepOwnSbom ==
    ASSUME TypeInv, NEW s \in Scanners, Listed(s), OwnTars(s), OwnSbom(s), Scan(s)
    PROVE  OwnSbom(s)'
<1>1. CASE task'[s].pc \notin WithSbom
  BY <1>1 DEF OwnSbom
<1>2. CASE task'[s].pc \in WithSbom
  <2>1. Stays(s)
    <3>1. ~GoesIdle(s) /\ ~NewPass(s, IF task[s].at = 1 THEN "pull" ELSE "ended")
      BY <1>2 DEF GoesIdle, NewPass, WithSbom, WithTar
    <3>2. ~Pull(s)
      BY <1>2, PullStep DEF Moves, WithSbom
    <3> QED
      BY <3>1, <3>2, StepTars, CutPullStep, DeleteFilesStep
  <2>2. /\ disk'[s].tars = disk[s].tars /\ Tar(s)' = Tar(s)
        /\ Offered(s)' = Offered(s) /\ task'[s].image = task[s].image
        /\ Trusted(task[s].image)' => Trusted(task[s].image)
    BY <2>1 DEF Stays, Tar, FileOf, Offered, Trusted
  <2>3. CASE ~Sbom(s)
    <3>1. disk'[s].sbom = disk[s].sbom /\ task[s].pc \in WithSbom
      BY <1>2, <2>1, <2>3 DEF Stays
    <3> QED
      BY <2>2, <3>1 DEF OwnSbom
  <2>4. CASE Sbom(s)
    <3>1. task[s].pc \in WithTar
      BY <2>4 DEF Sbom, WithTar
    <3>2. Trusted(task[s].image) => disk[s].tars[Tar(s)].content = Offered(s)
      BY <3>1, TarIsOffered
    <3>3. /\ disk'[s].sbom \subseteq disk[s].tars[Tar(s)].content.packages
          /\ \/ disk[s].tars[Tar(s)].cut
             \/ disk'[s].sbom = disk[s].tars[Tar(s)].content.packages
      BY <2>4, SbomStep
    <3> QED
      BY <2>2, <3>2, <3>3 DEF OwnSbom
  <2> QED
    BY <2>3, <2>4
<1> QED
  BY <1>1, <1>2

LEMMA StepOwnTodo ==
    ASSUME TypeInv, NEW s \in Scanners, Listed(s), OwnTodo(s), Scan(s)
    PROVE  OwnTodo(s)'
<1>1. CASE Reuse(s) \/ Pull(s) \/ Sbom(s)
  <2>1. task'[s].pc \in {"sbom", "look"} /\ task'[s].pending = task[s].pending
        /\ task[s].pc \in {"pull", "sbom"}
    BY <1>1, ReuseStep, PullStep, SbomStep DEF Moves, Reuse, Pull, Sbom
  <2> QED
    BY <2>1 DEF OwnTodo
<1>2. CASE CutPull(s) \/ Fail(s)
  BY <1>2, CutPullStep, FailStep DEF GoesIdle, OwnTodo
<1>3. CASE NotOffered(s) \/ DeleteFiles(s)
  <2>1. task[s].pc \in {"pull", "delete"}
    BY <1>3 DEF NotOffered, DeleteFiles
  <2>2. task[s].pending = {}
    BY <2>1 DEF OwnTodo
  <2>3. task'[s].pending = {} /\ task'[s].pc # "artifacts"
    BY <1>3, <2>2, NotOfferedStep, DeleteFilesStep DEF NewPass, GoesIdle
  <2> QED
    BY <2>3 DEF OwnTodo
<1>4. CASE Look(s) \/ Insert(s)
  <2>1. task[s].pending = {} /\ disk' = disk
    BY <1>4, LookStep, InsertStep DEF OwnTodo, Look, Insert
  <2>2. \/ TakesRow(s)
        \/ task'[s].pc # "artifacts" /\ task'[s].pending = {}
    BY <1>4, <2>1, LookStep, InsertStep DEF Moves, GoesIdle
  <2> QED
    BY <2>1, <2>2 DEF OwnTodo, TakesRow
<1>5. CASE Associate(s)
  <2>1. task[s].pc = "artifacts"
    BY <1>5 DEF Associate
  <2> QED
    BY <1>5, <2>1, AssociateStep DEF OwnTodo
<1>6. CASE NewPackage(s) \/ NewLicense(s) \/ Associated(s)
  <2>1. disk' = disk
    BY <1>6, NewPackageStep, NewLicenseStep, AssociatedStep DEF Commits
  <2> QED
    BY <1>6, <2>1, NewPackageStep, NewLicenseStep, AssociatedStep DEF OwnTodo
<1>7. CASE OperationalError(s) \/ IntegrityError(s)
  BY <1>7, ErrorsStep DEF ErrorStep, Retries, GoesIdle, FirstPc, OwnTodo
<1>8. CASE SaveLayers(s) \/ DetectBase(s) \/ StoreMatches(s)
  BY <1>8, SaveLayersStep, DetectBaseStep, StoreMatchesStep
     DEF NewPass, GoesIdle, Moves, OwnTodo
<1> QED
  BY <1>1, <1>2, <1>3, <1>4, <1>5, <1>6, <1>7, <1>8 DEF Scan

\* The contents of the rows are those there were.
SameContents ==
    /\ SameRows
    /\ \A i \in DOMAIN rows :
         rows'[i].packages = rows[i].packages /\ rows'[i].layers = rows[i].layers

LEMMA SameContentsKept ==
    ASSUME OwnRows, SameContents, failed \subseteq failed'
    PROVE  OwnRows'
BY DEF OwnRows, SameContents, SameRows, Trusted

LEMMA StepContents ==
    ASSUME TypeInv, NEW s \in Scanners, Listed(s), Scan(s)
    PROVE  \/ SameContents \/ Insert(s) \/ SaveLayers(s)
           \/ Commits(s) /\ task[s].pc = "artifacts"
<1>1. CASE \/ Reuse(s) \/ Pull(s) \/ CutPull(s) \/ NotOffered(s) \/ Sbom(s)
           \/ Look(s) \/ Associate(s) \/ OperationalError(s) \/ IntegrityError(s)
           \/ StoreMatches(s) \/ DeleteFiles(s) \/ Fail(s)
  <2>1. rows' = rows
    BY <1>1, ReuseStep, PullStep, CutPullStep, NotOfferedStep, SbomStep, LookStep,
       AssociateStep, ErrorsStep, StoreMatchesStep, DeleteFilesStep, FailStep
       DEF tables
  <2> QED
    BY <2>1, UnchangedRows DEF SameContents
<1>2. CASE DetectBase(s)
  BY <1>2, DetectBaseStep DEF BaseOf, SameContents, SameRows
<1>3. CASE NewPackage(s) \/ NewLicense(s) \/ Associated(s)
  BY <1>3, NewPackageStep, NewLicenseStep, AssociatedStep
<1> QED
  BY <1>1, <1>2, <1>3 DEF Scan

OwnRow(row) ==
    LET own == Offers[row.image][row.at]
    IN  /\ own # NoContent
        /\ row.packages \subseteq own.packages
        /\ row.layers \in {{}, Places(own.layers)}

LEMMA OwnRowsNow ==
    ASSUME OwnRows, NEW i \in DOMAIN rows, Trusted(rows[i].image)
    PROVE  OwnRow(rows[i])
BY DEF OwnRows, OwnRow

LEMMA OwnRowsNext ==
    ASSUME failed \subseteq failed',
           \A i \in DOMAIN rows' : Trusted(rows'[i].image) => OwnRow(rows'[i])
    PROVE  OwnRows'
<1> SUFFICES ASSUME NEW i \in DOMAIN rows', Trusted(rows[i].image)'
             PROVE  OwnRow(rows'[i])
  BY DEF OwnRows, OwnRow, Places
<1>1. Trusted(rows'[i].image)
  BY DEF Trusted
<1> QED
  BY <1>1

LEMMA StepOwnRows ==
    ASSUME TypeInv, NEW s \in Scanners, Listed(s), Scan(s), OwnTars(s), OwnSbom(s),
           OwnTodo(s), OwnRows
    PROVE  OwnRows'
<1>0. failed \subseteq failed'
  BY StepListed DEF Frame
<1>1. CASE SameContents
  BY <1>0, <1>1, SameContentsKept
<1>2. CASE Insert(s)
  <2> DEFINE new == Len(rows) + 1
  <2>1. /\ DOMAIN rows' = DOMAIN rows \union {new} /\ new \notin DOMAIN rows
        /\ \A i \in DOMAIN rows : rows'[i] = rows[i]
        /\ rows'[new] = [image |-> task[s].image, at |-> task[s].at,
                         packages |-> {}, layers |-> {}, base |-> NoRow]
    BY <1>2, InsertStep
  <2> HIDE DEF new
  <2>2. /\ rows'[new].image = task[s].image /\ rows'[new].at = task[s].at
        /\ rows'[new].packages = {} /\ rows'[new].layers = {}
    BY <2>1
  <2>3. task[s].pc \in WithTar
    BY <1>2 DEF Insert, WithTar
  <2>4. Trusted(task[s].image) => Offered(s) # NoContent
    BY <2>3, TarIsOffered
  <2> SUFFICES ASSUME NEW i \in DOMAIN rows', Trusted(rows'[i].image)
               PROVE  OwnRow(rows'[i])
    BY <1>0, OwnRowsNext
  <2>5. CASE i = new
    BY <2>2, <2>4, <2>5 DEF OwnRow, Offered
  <2>6. CASE i \in DOMAIN rows
    BY <2>1, <2>6, OwnRowsNow
  <2> QED
    BY <2>1, <2>5, <2>6
<1>3. CASE Commits(s) /\ task[s].pc = "artifacts"
  <2>1. Trusted(task[s].image) => task[s].pending \subseteq Offered(s).packages
    BY <1>3 DEF OwnTodo, OwnSbom, WithSbom, WithTar
  <2>2. /\ DOMAIN rows' = DOMAIN rows /\ task[s].row \in DOMAIN rows
        /\ rows[task[s].row].image = task[s].image
        /\ rows[task[s].row].at = task[s].at
        /\ \A i \in DOMAIN rows :
             /\ rows'[i].image = rows[i].image /\ rows'[i].at = rows[i].at
             /\ rows'[i].layers = rows[i].layers
             /\ rows'[i].packages = IF i = task[s].row
                                    THEN rows[i].packages \union task[s].pending
                                    ELSE rows[i].packages
    BY <1>3 DEF Commits
  <2> SUFFICES ASSUME NEW i \in DOMAIN rows, Trusted(rows'[i].image)
               PROVE  OwnRow(rows'[i])
    BY <1>0, <2>2, OwnRowsNext
  <2>3. OwnRow(rows[i])
    BY <2>2, OwnRowsNow
  <2>4. i = task[s].row => task[s].pending \subseteq
                             Offers[rows[i].image][rows[i].at].packages
    BY <2>1, <2>2 DEF Offered
  <2>5. rows'[i].packages \subseteq Offers[rows[i].image][rows[i].at].packages
    BY <2>2, <2>3, <2>4 DEF OwnRow
  <2> QED
    BY <2>2, <2>3, <2>5 DEF OwnRow
<1>4. CASE SaveLayers(s) /\ ~SameContents
  <2> DEFINE k == task[s].row
             new == Places(disk[s].tars[Tar(s)].content.layers)
  <2>1. task[s].pc \in WithTar /\ task[s].pc \in WithRow
    BY <1>4, SaveLayersStep DEF WithTar, WithRow
  <2>2. rows' # rows
    BY <1>4, UnchangedRows DEF SameContents
  <2>3. AddsLayers(k, new)
    BY <1>4, <2>2, SaveLayersStep
  <2>4. k \in DOMAIN rows /\ rows[k].image = task[s].image /\ rows[k].at = task[s].at
    BY <2>1, RowHere
  <2>5. Trusted(rows[k].image) =>
          new = Places(Offers[rows[k].image][rows[k].at].layers)
    BY <2>1, <2>4, TarIsOffered DEF Offered
  <2> HIDE DEF k, new
  <2>6. /\ DOMAIN rows' = DOMAIN rows
        /\ \A i \in DOMAIN rows :
             /\ rows'[i].image = rows[i].image /\ rows'[i].at = rows[i].at
             /\ rows'[i].packages = rows[i].packages
             /\ rows'[i].layers = IF i = k THEN rows[k].layers \union new
                                  ELSE rows[i].layers
    BY <2>3 DEF AddsLayers
  <2> SUFFICES ASSUME NEW i \in DOMAIN rows, Trusted(rows'[i].image)
               PROVE  OwnRow(rows'[i])
    BY <1>0, <2>6, OwnRowsNext
  <2> DEFINE own == Places(Offers[rows[i].image][rows[i].at].layers)
  <2>7. /\ Offers[rows[i].image][rows[i].at] # NoContent
        /\ rows[i].packages \subseteq Offers[rows[i].image][rows[i].at].packages
        /\ rows[i].layers \in {{}, own}
    BY <2>6, OwnRowsNow DEF OwnRow
  <2> HIDE DEF own
  <2>8. rows'[i].layers \in {{}, own}
    <3>1. CASE i = k
      BY <2>5, <2>6, <2>7, <3>1 DEF own
    <3>2. CASE i # k
      BY <2>6, <2>7, <3>2
    <3> QED
      BY <3>1, <3>2
  <2> QED
    BY <2>6, <2>7, <2>8 DEF own, OwnRow
<1> QED
  BY <1>1, <1>2, <1>3, <1>4, StepContents


LEMMA StartOwn ==
    ASSUME TypeInv, NEW s \in Scanners, OwnTars(s), OwnTodo(s), Start(s)
    PROVE  OwnTars(s)' /\ OwnSbom(s)' /\ OwnTodo(s)'
<1>1. /\ disk' = disk /\ failed' = failed /\ ~Busy(s) /\ task'[s].pc = "pull"
      /\ task'[s].pending \in {{}, task[s].pending}
  BY StartStep DEF NewPass
<1>2. OwnTars(s)'
  BY <1>1 DEF OwnTars, Busy, WithTar, FileOf, Trusted
<1>3. OwnSbom(s)'
  BY <1>1 DEF OwnSbom, WithSbom, WithTar
<1>4. OwnTodo(s)'
  BY <1>1 DEF OwnTodo, Busy
<1> QED
  BY <1>2, <1>3, <1>4

LEMMA OwnKept == ScanTypes /\ Own /\ [Next]_vars => Own'
<1> SUFFICES ASSUME ScanTypes, Own, [Next]_vars PROVE Own'
  OBVIOUS
<1>1. /\ TypeInv /\ OwnRows
      /\ \A e \in Scanners : Listed(e) /\ OwnTars(e) /\ OwnSbom(e) /\ OwnTodo(e)
  BY DEF ScanTypes, AllListed, Own, AllOwnTars, AllOwnSbom, AllOwnTodo
<1>2. CASE UpdateBase
  <2>1. task' = task /\ disk' = disk /\ failed' = failed /\ SameContents
    BY <1>1, <1>2, UpdateBaseTyped DEF BaseOf, SameContents, SameRows, history
  <2>2. OwnRows'
    BY <1>1, <2>1, SameContentsKept
  <2>3. \A e \in Scanners : OwnTars(e)' /\ OwnSbom(e)' /\ OwnTodo(e)'
    BY <1>1, <2>1, OwnFilesKept
  <2> QED
    BY <2>2, <2>3 DEF Own, AllOwnTars, AllOwnSbom, AllOwnTodo
<1>3. ASSUME NEW s \in Scanners, Start(s) \/ Scan(s) PROVE Own'
  <2>1. Frame(s)
    BY <1>1, <1>3, StepListed
  <2>2. \A e \in Scanners \ {s} : OwnTars(e)' /\ OwnSbom(e)' /\ OwnTodo(e)'
    BY <1>1, <2>1, OwnFilesKept DEF Frame
  <2>3. OwnTars(s)' /\ OwnSbom(s)' /\ OwnTodo(s)'
    BY <1>1, <1>3, StartOwn, StepOwnTars, StepOwnSbom, StepOwnTodo
  <2>4. OwnRows'
    <3>1. CASE Start(s)
      <4>1. rows' = rows /\ failed' = failed
        BY <1>1, <3>1, StartStep DEF tables
      <4> QED
        BY <1>1, <4>1 DEF OwnRows, Places, Trusted
    <3>2. CASE Scan(s)
      BY <1>1, <3>2, StepOwnRows
    <3> QED
      BY <1>3, <3>1, <3>2
  <2> QED
    BY <2>2, <2>3, <2>4 DEF Own, AllOwnTars, AllOwnSbom, AllOwnTodo
<1>4. CASE UNCHANGED vars
  <2>1. UNCHANGED <<disk, rows, task, failed>>
    BY <1>4 DEF vars, tables, history
  <2>2. OwnRows'
    BY <1>1, <2>1 DEF OwnRows, Places, Trusted
  <2>3. \A e \in Scanners : OwnTars(e)' /\ OwnSbom(e)' /\ OwnTodo(e)'
    BY <1>1, <2>1, OwnFilesKept
  <2> QED
    BY <2>2, <2>3 DEF Own, AllOwnTars, AllOwnSbom, AllOwnTodo
<1> QED
  BY <1>2, <1>3, <1>4 DEF Next

LEMMA InitialOwn == Init => Own
<1> SUFFICES ASSUME Init PROVE Own
  OBVIOUS
<1>1. rows = <<>> /\ \A s \in Scanners : task[s].pc = "idle" /\ task[s].pending = {}
  BY DEF Init, Idle
<1>2. \A s \in Scanners : \A f \in Files : disk[s].tars[f] = NoFile
  BY DEF Init
<1>3. AllOwnTars
  BY <1>2, FileIsNamed DEF AllOwnTars, OwnTars
<1>4. AllOwnSbom /\ AllOwnTodo /\ OwnRows
  BY <1>1 DEF AllOwnSbom, AllOwnTodo, OwnRows, OwnSbom, OwnTodo, WithSbom, WithTar
<1> QED
  BY <1>3, <1>4 DEF Own

LEMMA ScansKeepTheirOwn == Spec => [](ScanTypes /\ Own)
<1>1. Init => ScanTypes /\ Own
  BY InitialScans, InitialOwn
<1>2. ScanTypes /\ Own /\ [Next]_vars => ScanTypes' /\ Own'
  BY ScanTypesKept, OwnKept
<1> QED
  BY <1>1, <1>2, PTL DEF Spec

\* The row of a platform shows its own packages and layers, whatever tarballs
\* failed scans have left: they have the name of the platform, unless they are
\* named by the digest of the index.
THEOREM RowsShowTheirOwn == Spec => []RowsAreOwn
<1>1. Own => RowsAreOwn
  BY DEF Own, OwnRows, RowsAreOwn
<1> QED
  BY <1>1, ScansKeepTheirOwn, PTL

-----------------------------------------------------------------------------
(* A scan that ends well has left nothing out.                             *)

LEMMA CoveredKept ==
    ASSUME TablesGrow, NEW image, NEW at, Covered(image, at)
    PROVE  Covered(image, at)'
<1> SUFFICES ASSUME Offers[image][at] # NoContent PROVE Inventoried(image, at)'
  BY DEF Covered
<1>1. PICK i \in RowsOf(image, at) :
        /\ Offers[image][at].packages \subseteq rows[i].packages
        /\ Places(Offers[image][at].layers) \subseteq rows[i].layers
        /\ \A p \in Offers[image][at].packages : {p} \X Matches[p] \subseteq vulnerable
  BY DEF Covered, Inventoried
<1>2. /\ i \in RowsOf(image, at)'
      /\ rows[i].packages \subseteq rows'[i].packages
      /\ rows[i].layers \subseteq rows'[i].layers
      /\ vulnerable \subseteq vulnerable'
  BY RowsOfGrows DEF TablesGrow, RowsGrow, RowsOf
<1> QED
  BY <1>1, <1>2 DEF Inventoried, Places

\* What another scanner has stored, and is done with.
LEMMA StoredKept ==
    ASSUME TypeInv, TablesGrow, NEW e \in Scanners, Stored(e),
           task'[e] = task[e], disk'[e] = disk[e]
    PROVE  Stored(e)'
<1>1. Tar(e)' = Tar(e)
  BY DEF Tar, FileOf
<1>2. task[e].pc \in WithRow => rows[task[e].row].layers \subseteq rows'[task[e].row].layers
  BY RowHere DEF TablesGrow, RowsGrow
<1>3. vulnerable \subseteq vulnerable'
  BY DEF TablesGrow
<1> QED
  BY <1>1, <1>2, <1>3 DEF Stored, Places, WithRow

LEMMA BehindKept ==
    ASSUME TablesGrow, failed \subseteq failed', NEW e, Behind(e),
           task'[e] = task[e]
    PROVE  Behind(e)'
<1>1. \A image : Trusted(image)' => Trusted(image)
  BY DEF Trusted
<1> QED
  BY <1>1, CoveredKept DEF Behind

LEMMA StepStored ==
    ASSUME TypeInv, NEW s \in Scanners, Listed(s), Stored(s), Scan(s)
    PROVE  Stored(s)'
<1>1. CASE task'[s].pc \notin {"base", "matches", "delete"}
  BY <1>1 DEF Stored
<1>2. CASE SaveLayers(s) /\ ~GoesIdle(s)
  <2>1. /\ disk' = disk /\ task[s].pc = "layers" /\ task'[s].pc = "base"
        /\ ~disk[s].tars[Tar(s)].cut
        /\ AddsLayers(task[s].row, Places(disk[s].tars[Tar(s)].content.layers))
        /\ task'[s].row = task[s].row /\ Tar(s)' = Tar(s)
    BY <1>2, SaveLayersStep DEF NewPass, Tar, FileOf
  <2>2. task[s].row \in DOMAIN rows
    BY <2>1, RowHere DEF WithRow
  <2>3. Places(disk[s].tars[Tar(s)].content.layers) \subseteq rows'[task[s].row].layers
    BY <2>1, <2>2 DEF AddsLayers
  <2> QED
    BY <2>1, <2>3 DEF Stored, Places
<1>3. CASE DetectBase(s)
  <2>1. /\ disk' = disk /\ task[s].pc = "base" /\ task'[s].pc = "matches"
        /\ task'[s].row = task[s].row /\ Tar(s)' = Tar(s) /\ BaseOf(task[s].row)
    BY <1>3, DetectBaseStep DEF Moves, SamePass, Tar, FileOf
  <2>2. rows'[task[s].row].layers = rows[task[s].row].layers
    BY <2>1, RowHere DEF WithRow, BaseOf
  <2> QED
    BY <2>1, <2>2 DEF Stored, Places
<1>4. CASE StoreMatches(s)
  <2>1. /\ disk' = disk /\ rows' = rows /\ task[s].pc = "matches"
        /\ task'[s].row = task[s].row /\ Tar(s)' = Tar(s)
        /\ vulnerable' = vulnerable \union
             {x \in Packages \X Vulnerabilities :
                 x[1] \in disk[s].sbom /\ x[2] \in Matches[x[1]]}
    BY <1>4, StoreMatchesStep DEF Tar, FileOf
  <2>2. disk[s].sbom \subseteq Packages
    BY <2>1, Here DEF WithSbom, WithTar
  <2>3. \A p \in disk[s].sbom : {p} \X Matches[p] \subseteq vulnerable'
    BY <2>1, <2>2, ImageScanAssumption
  <2> QED
    BY <2>1, <2>3 DEF Stored, Places
<1>5. CASE (OperationalError(s) \/ IntegrityError(s)) /\ ~GoesIdle(s)
  <2>1. /\ disk' = disk /\ rows' = rows /\ vulnerable' = vulnerable /\ Retries(s)
    BY <1>5, ErrorsStep DEF ErrorStep, tables
  <2>2. /\ task'[s].pc = FirstPc(task[s].pc)
        /\ task'[s].row = task[s].row /\ Tar(s)' = Tar(s)
    BY <2>1 DEF Retries, Tar, FileOf
  <2>3. \/ task'[s].pc = "look"
        \/ task'[s].pc = "matches" /\ task[s].pc = "matches"
    BY <2>2 DEF FirstPc
  <2> QED
    BY <2>1, <2>2, <2>3 DEF Stored, Places
<1>6. \/ task'[s].pc \notin {"base", "matches", "delete"}
      \/ SaveLayers(s) /\ ~GoesIdle(s)
      \/ DetectBase(s) \/ StoreMatches(s)
      \/ (OperationalError(s) \/ IntegrityError(s)) /\ ~GoesIdle(s)
  <2>1. GoesIdle(s) => task'[s].pc \notin {"base", "matches", "delete"}
    BY DEF GoesIdle
  <2>2. CASE \/ Reuse(s) \/ Pull(s) \/ CutPull(s) \/ NotOffered(s) \/ Sbom(s)
             \/ DeleteFiles(s) \/ Fail(s)
    BY <2>1, <2>2, ReuseStep, PullStep, CutPullStep, NotOfferedStep, SbomStep,
       DeleteFilesStep, FailStep DEF Moves, NewPass
  <2>3. CASE \/ Look(s) \/ Insert(s) \/ Associate(s) \/ NewPackage(s)
             \/ NewLicense(s) \/ Associated(s)
    BY <2>1, <2>3, LookStep, InsertStep, AssociateStep, NewPackageStep,
       NewLicenseStep, AssociatedStep DEF Moves, TakesRow
  <2> QED
    BY <2>1, <2>2, <2>3 DEF Scan
<1> QED
  BY <1>1, <1>2, <1>3, <1>4, <1>5, <1>6

\* Before its files are deleted, the platform is in the tables.
LEMMA DeletedIsCovered ==
    ASSUME TypeInv, NEW s \in Scanners, Listed(s), Stored(s), OwnTars(s), OwnSbom(s),
           task[s].pc = "delete", NEW image, image = task[s].image, Trusted(image),
           NEW at, at = task[s].at
    PROVE  Covered(image, at)
<1>1. task[s].pc \in WithTar /\ task[s].pc \in WithSbom /\ task[s].pc \in WithRow
      /\ task[s].pc # "artifacts"
  BY DEF WithTar, WithSbom, WithRow
<1>2. /\ disk[s].tars[Tar(s)].content = Offers[image][at]
      /\ ~disk[s].tars[Tar(s)].cut
      /\ disk[s].sbom = Offers[image][at].packages
  BY <1>1, TarIsOffered DEF Offered, Stored, OwnSbom
<1>3. /\ disk[s].sbom \subseteq rows[task[s].row].packages
      /\ Places(disk[s].tars[Tar(s)].content.layers) \subseteq rows[task[s].row].layers
      /\ \A p \in disk[s].sbom : {p} \X Matches[p] \subseteq vulnerable
  BY <1>1 DEF Listed, Stored
<1>4. task[s].row \in RowsOf(image, at)
  BY <1>1, RowHere DEF RowsOf
<1> QED
  BY <1>2, <1>3, <1>4 DEF Covered, Inventoried

LEMMA StepBehind ==
    ASSUME TypeInv, NEW s \in Scanners, Listed(s), Stored(s), OwnTars(s), OwnSbom(s),
           Behind(s), Scan(s)
    PROVE  Behind(s)'
<1>0. TablesGrow /\ \A image : Trusted(image)' => Trusted(image)
  BY StepListed DEF Frame, Trusted
<1>1. CASE GoesIdle(s)
  BY <1>1 DEF GoesIdle, Behind
<1>2. CASE /\ task'[s].image = task[s].image /\ task'[s].at = task[s].at
           /\ task[s].pc # "idle" /\ task'[s].pc # "ended"
  BY <1>0, <1>2, CoveredKept DEF Behind
<1>3. CASE /\ NotOffered(s) \/ DeleteFiles(s)
           /\ NewPass(s, IF task[s].at = 1 THEN "pull" ELSE "ended")
           /\ task'[s].image = task[s].image /\ task'[s].at = 2
  <2> SUFFICES ASSUME NEW image \in Images, Trusted(image), task[s].image = image
               PROVE  Covered(image, 1)' /\ (task'[s].pc = "ended" => Covered(image, 2)')
    BY <1>0, <1>3 DEF Behind
  <2>1. task[s].at \in {1, 2} /\ task[s].pc # "idle"
    BY <1>3, Here DEF TaskSet, NotOffered, DeleteFiles
  <2>2. ASSUME NEW at, at = task[s].at PROVE Covered(image, at)
    <3>1. CASE NotOffered(s)
      BY <2>2, <3>1 DEF NotOffered, Offered, Covered
    <3>2. CASE DeleteFiles(s)
      BY <2>2, <3>2, DeletedIsCovered DEF DeleteFiles
    <3> QED
      BY <1>3, <3>1, <3>2
  <2>3. CASE task[s].at = 1
    BY <1>0, <1>3, <2>2, <2>3, CoveredKept DEF NewPass
  <2>4. CASE task[s].at = 2
    <3>1. Covered(image, 1) /\ Covered(image, 2)
      BY <2>1, <2>2, <2>4 DEF Behind
    <3> QED
      BY <1>0, <3>1, CoveredKept
  <2> QED
    BY <2>1, <2>3, <2>4
<1>4. \/ GoesIdle(s)
      \/ /\ task'[s].image = task[s].image /\ task'[s].at = task[s].at
         /\ task[s].pc # "idle" /\ task'[s].pc # "ended"
      \/ /\ NotOffered(s) \/ DeleteFiles(s)
         /\ NewPass(s, IF task[s].at = 1 THEN "pull" ELSE "ended")
         /\ task'[s].image = task[s].image /\ task'[s].at = 2
  <2>1. CASE Stays(s)
    BY <2>1 DEF Stays, WithTar, Reuse
  <2>2. CASE Pull(s)
    BY <2>2, PullStep DEF Moves, SamePass, Pull
  <2> QED
    BY <2>1, <2>2, StepTars, CutPullStep, NotOfferedStep, DeleteFilesStep
<1> QED
  BY <1>1, <1>2, <1>3, <1>4

LEMMA CoveredScansKept ==
    ScanTypes /\ Own /\ AllStored /\ AllBehind /\ [Next]_vars => AllStored' /\ AllBehind'
<1> SUFFICES ASSUME ScanTypes, Own, AllStored, AllBehind, [Next]_vars
             PROVE  AllStored' /\ AllBehind'
  OBVIOUS
<1>1. /\ TypeInv
      /\ \A e \in Scanners : /\ Listed(e) /\ OwnTars(e) /\ OwnSbom(e)
                             /\ Stored(e) /\ Behind(e)
  BY DEF ScanTypes, AllListed, Own, AllOwnTars, AllOwnSbom, AllStored, AllBehind
<1>2. CASE UpdateBase \/ UNCHANGED vars
  <2>1. task' = task /\ disk' = disk /\ failed' = failed /\ TablesGrow
    BY <1>1, <1>2, UpdateBaseTyped, UnchangedGrows DEF vars, tables, history
  <2> QED
    BY <1>1, <2>1, StoredKept, BehindKept DEF AllStored, AllBehind
<1>3. ASSUME NEW s \in Scanners, Start(s) \/ Scan(s) PROVE AllStored' /\ AllBehind'
  <2>1. Frame(s)
    BY <1>1, <1>3, StepListed
  <2>2. \A e \in Scanners \ {s} : Stored(e)' /\ Behind(e)'
    BY <1>1, <2>1, StoredKept, BehindKept DEF Frame
  <2>3. Stored(s)' /\ Behind(s)'
    <3>1. CASE Start(s)
      <4>1. task'[s].pc = "pull" /\ task'[s].at = 1
        BY <1>1, <3>1, StartStep DEF NewPass
      <4> QED
        BY <4>1 DEF Stored, Behind
    <3>2. CASE Scan(s)
      BY <1>1, <3>2, StepStored, StepBehind
    <3> QED
      BY <1>3, <3>1, <3>2
  <2> QED
    BY <2>2, <2>3 DEF AllStored, AllBehind
<1> QED
  BY <1>2, <1>3 DEF Next

\* A scan that ended well has stored each platform that is offered: with the
\* packages syft lists of the whole tarball, all associations committed before
\* the files are deleted, and a pass that is retried started from the sbom.
THEOREM ScansEndInventoried == Spec => []EndMeansInventoried
<1>1. Init => ScanTypes /\ Own /\ AllStored /\ AllBehind
  <2> SUFFICES ASSUME Init PROVE AllStored /\ AllBehind
    BY InitialScans, InitialOwn
  <2>1. \A s \in Scanners : task[s].pc = "idle"
    BY DEF Init, Idle
  <2> QED
    BY <2>1 DEF AllStored, AllBehind, Stored, Behind
<1>2. ScanTypes /\ Own /\ AllStored /\ AllBehind /\ [Next]_vars
        => (ScanTypes /\ Own /\ AllStored /\ AllBehind)'
  BY ScanTypesKept, OwnKept, CoveredScansKept
<1>3. ScanTypes /\ AllBehind => EndMeansInventoried
  <2> SUFFICES ASSUME ScanTypes, AllBehind, NEW s \in Scanners, task[s].pc = "ended",
                      Trusted(task[s].image), NEW at \in 1..2
               PROVE  Covered(task[s].image, at)
    BY DEF EndMeansInventoried, Covered
  <2>1. task[s].image \in Images
    BY Here DEF ScanTypes
  <2>2. Covered(task[s].image, 1) /\ Covered(task[s].image, 2)
    BY <2>1 DEF AllBehind, Behind
  <2>3. at = 1 \/ at = 2
    OBVIOUS
  <2> QED
    BY <2>2, <2>3
<1> QED
  BY <1>1, <1>2, <1>3, PTL DEF Spec

-----------------------------------------------------------------------------
(* The base image.                                                         *)

LEMMA AncestorsNow ==
    ASSUME Ancestors, NEW i \in DOMAIN rows, rows[i].base # NoRow,
           Trusted(rows[i].image), Trusted(rows[rows[i].base].image)
    PROVE  IsBuiltOn(rows[i], rows[rows[i].base])
BY DEF Ancestors

LEMMA AncestorsNext ==
    ASSUME failed \subseteq failed',
           \A i \in DOMAIN rows' :
             /\ rows'[i].base # NoRow
             /\ Trusted(rows'[i].image) /\ Trusted(rows'[rows'[i].base].image)
             => IsBuiltOn(rows'[i], rows'[rows'[i].base])
    PROVE  Ancestors'
<1> SUFFICES ASSUME NEW i \in DOMAIN rows', NEW j, j = rows'[i].base, j # NoRow,
                    Trusted(rows[i].image)', Trusted(rows[j].image)'
             PROVE  IsBuiltOn(rows'[i], rows'[j])
  BY DEF Ancestors, IsBuiltOn, IsParent, Trusted
<1>1. Trusted(rows'[i].image) /\ Trusted(rows'[j].image)
  BY DEF Trusted
<1> QED
  BY <1>1

\* Layers and base images stay.
SameBases ==
    /\ SameRows
    /\ \A i \in DOMAIN rows :
         rows'[i].layers = rows[i].layers /\ rows'[i].base = rows[i].base

LEMMA SameBasesKept ==
    ASSUME TablesTyped, Ancestors, SameBases, failed \subseteq failed'
    PROVE  Ancestors'
<1> SUFFICES ASSUME NEW i \in DOMAIN rows, rows[i].base # NoRow,
                    Trusted(rows'[i].image), Trusted(rows'[rows[i].base].image)
             PROVE  IsBuiltOn(rows'[i], rows'[rows[i].base])
  BY AncestorsNext DEF SameBases, SameRows
<1>1. rows[i].base \in DOMAIN rows
  BY DEF TablesTyped
<1> DEFINE j == rows[i].base
<1>2. /\ rows'[i].image = rows[i].image /\ rows'[j].image = rows[j].image
      /\ rows'[i].layers = rows[i].layers /\ rows'[j].layers = rows[j].layers
  BY <1>1 DEF SameBases, SameRows
<1>3. IsBuiltOn(rows[i], rows[j])
  BY <1>2, AncestorsNow
<1> QED
  BY <1>2, <1>3 DEF IsBuiltOn

LEMMA BaseOfKept ==
    ASSUME TablesTyped, Ancestors, NEW k \in DOMAIN rows, BaseOf(k),
           failed \subseteq failed'
    PROVE  Ancestors'
<1> SUFFICES ASSUME NEW i \in DOMAIN rows, NEW j, j = rows'[i].base, j # NoRow,
                    Trusted(rows'[i].image), Trusted(rows'[j].image)
             PROVE  IsBuiltOn(rows'[i], rows'[j])
  BY AncestorsNext DEF BaseOf
<1>1. CASE j = rows[i].base
  <2>1. j \in DOMAIN rows
    BY <1>1 DEF TablesTyped
  <2>2. /\ rows'[i].image = rows[i].image /\ rows'[j].image = rows[j].image
        /\ rows'[i].layers = rows[i].layers /\ rows'[j].layers = rows[j].layers
    BY <2>1 DEF BaseOf
  <2>3. IsBuiltOn(rows[i], rows[j])
    BY <1>1, <2>2, AncestorsNow
  <2> QED
    BY <2>2, <2>3 DEF IsBuiltOn
<1>2. CASE i = k /\ j \in Parents(i)
  <2>1. /\ j \in DOMAIN rows /\ rows[j].image \in Orgsre /\ rows[j].layers # {}
        /\ IsParent(rows[j].layers, rows[i].layers)
    BY <1>2 DEF Parents
  <2>2. /\ rows'[i].layers = rows[i].layers /\ rows'[j].layers = rows[j].layers
        /\ rows'[j].image = rows[j].image
    BY <2>1 DEF BaseOf
  <2> QED
    BY <2>1, <2>2 DEF IsBuiltOn
<1> QED
  BY <1>1, <1>2 DEF BaseOf

LEMMA InsertAncestors ==
    ASSUME TypeInv, Ancestors, NEW s \in Scanners, Insert(s)
    PROVE  Ancestors'
<1>0. TablesTyped /\ failed \subseteq failed'
  BY InsertStep, TypeParts DEF TypeInv, Frame
<1> DEFINE new == Len(rows) + 1
<1>1. /\ DOMAIN rows' = DOMAIN rows \union {new} /\ new \notin DOMAIN rows
      /\ \A i \in DOMAIN rows : rows'[i] = rows[i]
      /\ rows'[new] = [image |-> task[s].image, at |-> task[s].at,
                       packages |-> {}, layers |-> {}, base |-> NoRow]
  BY InsertStep
<1> HIDE DEF new
<1>2. rows'[new].base = NoRow
  BY <1>1
<1> SUFFICES ASSUME NEW i \in DOMAIN rows, rows[i].base # NoRow,
                    Trusted(rows[i].image), Trusted(rows'[rows[i].base].image)
             PROVE  IsBuiltOn(rows[i], rows'[rows[i].base])
  BY <1>0, <1>1, <1>2, AncestorsNext
<1>3. rows'[rows[i].base] = rows[rows[i].base]
  BY <1>0, <1>1 DEF TablesTyped
<1> QED
  BY <1>3, AncestorsNow

\* Layers that are stored again are those that are there.
LEMMA SaveLayersAncestors ==
    ASSUME TypeInv, Ancestors, OwnRows, NEW s \in Scanners, OwnTars(s), SaveLayers(s),
           rows' # rows
    PROVE  Ancestors'
<1> DEFINE k == task[s].row
           new == Places(disk[s].tars[Tar(s)].content.layers)
<1>1. TablesTyped /\ failed \subseteq failed' /\ AddsLayers(k, new)
  BY SaveLayersStep, TypeParts DEF TypeInv, Frame
<1>2. task[s].pc \in WithTar /\ task[s].pc \in WithRow
  BY SaveLayersStep DEF WithTar, WithRow
<1>3. k \in DOMAIN rows /\ rows[k].image = task[s].image /\ rows[k].at = task[s].at
  BY <1>2, RowHere
<1>4. Trusted(rows[k].image) => new = Places(Offers[rows[k].image][rows[k].at].layers)
  BY <1>2, <1>3, TarIsOffered DEF Offered
<1> HIDE DEF k, new
<1>5. Trusted(rows[k].image) => rows[k].layers \in {{}, new}
  BY <1>3, <1>4, OwnRowsNow DEF OwnRow
<1>6. /\ DOMAIN rows' = DOMAIN rows
      /\ \A i \in DOMAIN rows :
           /\ rows'[i].image = rows[i].image /\ rows'[i].base = rows[i].base
           /\ rows'[i].layers = IF i = k THEN rows[k].layers \union new
                                ELSE rows[i].layers
  BY <1>1 DEF AddsLayers
<1>7. ASSUME NEW i \in DOMAIN rows, Trusted(rows[i].image), rows[i].layers # {}
      PROVE  rows'[i].layers = rows[i].layers
  <2>1. CASE i = k
    BY <1>5, <1>6, <1>7, <2>1
  <2>2. CASE i # k
    BY <1>6, <2>2
  <2> QED
    BY <2>1, <2>2
<1> SUFFICES ASSUME NEW i \in DOMAIN rows, NEW j, j = rows[i].base, j # NoRow,
                    Trusted(rows'[i].image), Trusted(rows'[j].image)
             PROVE  IsBuiltOn(rows'[i], rows'[j])
  BY <1>1, <1>6, AncestorsNext
<1>8. j \in DOMAIN rows
  BY <1>1 DEF TablesTyped
<1>9. /\ rows'[i].image = rows[i].image /\ rows'[j].image = rows[j].image
  BY <1>6, <1>8
<1>10. IsBuiltOn(rows[i], rows[j])
  BY <1>9, AncestorsNow
<1>11. rows[j].layers # {} /\ rows[i].layers # {}
  BY <1>10 DEF IsBuiltOn, IsParent
<1>12. rows'[i].layers = rows[i].layers /\ rows'[j].layers = rows[j].layers
  BY <1>7, <1>8, <1>9, <1>11
<1> QED
  BY <1>9, <1>10, <1>12 DEF IsBuiltOn

LEMMA StepAncestors ==
    ASSUME TypeInv, Ancestors, OwnRows, NEW s \in Scanners, Listed(s), OwnTars(s), Scan(s)
    PROVE  Ancestors'
<1>0. TablesTyped /\ failed \subseteq failed'
  BY StepListed, TypeParts DEF TypeInv, Frame
<1>1. CASE rows' = rows
  <2>1. SameBases
    BY <1>1 DEF SameBases, SameRows
  <2> QED
    BY <1>0, <2>1, SameBasesKept
<1>2. CASE Insert(s)
  BY <1>2, InsertAncestors
<1>3. CASE NewPackage(s) \/ NewLicense(s) \/ Associated(s)
  <2>1. SameBases
    BY <1>3, NewPackageStep, NewLicenseStep, AssociatedStep
       DEF Commits, SameBases, SameRows
  <2> QED
    BY <1>0, <2>1, SameBasesKept
<1>4. CASE SaveLayers(s) /\ rows' # rows
  BY <1>4, SaveLayersAncestors
<1>5. CASE DetectBase(s)
  <2>1. task[s].row \in DOMAIN rows /\ BaseOf(task[s].row)
    BY <1>5, DetectBaseStep, RowHere DEF WithRow
  <2> QED
    BY <1>0, <2>1, BaseOfKept
<1>6. CASE \/ Reuse(s) \/ Pull(s) \/ CutPull(s) \/ NotOffered(s) \/ Sbom(s)
           \/ Look(s) \/ Associate(s) \/ OperationalError(s) \/ IntegrityError(s)
           \/ StoreMatches(s) \/ DeleteFiles(s) \/ Fail(s)
  <2>1. rows' = rows
    BY <1>6, ReuseStep, PullStep, CutPullStep, NotOfferedStep, SbomStep, LookStep,
       AssociateStep, ErrorsStep, StoreMatchesStep, DeleteFilesStep, FailStep
       DEF tables
  <2> QED
    BY <1>1, <2>1
<1> QED
  BY <1>1, <1>2, <1>3, <1>4, <1>5, <1>6 DEF Scan

LEMMA AncestorsKept == ScanTypes /\ Own /\ Ancestors /\ [Next]_vars => Ancestors'
<1> SUFFICES ASSUME ScanTypes, Own, Ancestors, [Next]_vars PROVE Ancestors'
  OBVIOUS
<1>1. /\ TypeInv /\ OwnRows /\ TablesTyped
      /\ \A e \in Scanners : Listed(e) /\ OwnTars(e)
  BY TypeParts DEF ScanTypes, AllListed, Own, AllOwnTars, TypeInv
<1>2. CASE UpdateBase
  <2>1. failed' = failed /\ \E k \in DOMAIN rows : BaseOf(k)
    BY <1>1, <1>2, UpdateBaseTyped DEF history
  <2> QED
    BY <1>1, <2>1, BaseOfKept
<1>3. CASE (\E s \in Scanners : Start(s)) \/ UNCHANGED vars
  <2>1. rows' = rows /\ failed' = failed
    BY <1>1, <1>3, StartStep DEF tables, vars, history
  <2>2. SameBases
    BY <2>1 DEF SameBases, SameRows
  <2> QED
    BY <1>1, <2>1, <2>2, SameBasesKept
<1>4. ASSUME NEW s \in Scanners, Scan(s) PROVE Ancestors'
  BY <1>1, <1>4, StepAncestors
<1> QED
  BY <1>2, <1>3, <1>4 DEF Next

LEMMA PlacesCounted ==
    ASSUME NEW seq \in Seq(Layers)
    PROVE  Cardinality(Places(seq)) = Len(seq)
<1> DEFINE f == [n \in 1..Len(seq) |-> <<n, seq[n]>>]
<1>1. Len(seq) \in Nat /\ DOMAIN seq = 1..Len(seq)
  OBVIOUS
<1>2. f \in [1..Len(seq) -> Places(seq)]
  BY <1>1 DEF Places
<1>3. \A m, n \in 1..Len(seq) : f[m] = f[n] => m = n
  OBVIOUS
<1>4. \A x \in Places(seq) : \E n \in 1..Len(seq) : f[n] = x
  BY <1>1 DEF Places
<1> HIDE DEF f
<1>5. f \in Bijection(1..Len(seq), Places(seq))
  BY <1>2, <1>3, <1>4 DEF Bijection, Injection, Surjection, IsInjective
<1>6. ExistsBijection(1..Len(seq), Places(seq))
  BY <1>5 DEF ExistsBijection
<1> QED
  BY <1>1, <1>6, FS_CountingElements

\* The layers up to a place are those up to the number of the base's layers.
LEMMA ParentsAreFirst ==
    ASSUME NEW short \in Seq(Layers), NEW long \in Seq(Layers), Places(short) # {},
           IsParent(Places(short), Places(long))
    PROVE  /\ Len(short) \in 1..(Cardinality(Places(long)) - 1)
           /\ Places(short) = {x \in Places(long) : x[1] <= Len(short)}
<1>1. /\ Len(short) \in Nat /\ DOMAIN short = 1..Len(short)
      /\ Len(long) \in Nat /\ DOMAIN long = 1..Len(long)
  OBVIOUS
<1>2. /\ \A x \in Places(short) : x[1] \in 1..Len(short)
      /\ \A x \in Places(long) : x[1] \in 1..Len(long)
  BY <1>1 DEF Places
<1>3. Len(short) # 0
  BY <1>1, <1>2
<1>4. <<Len(short), short[Len(short)]>> \in Places(short)
  BY <1>1, <1>3 DEF Places
<1>5. /\ Places(short) # Places(long)
      /\ Places(short) = {x \in Places(long) : \E y \in Places(short) : x[1] <= y[1]}
  BY DEF IsParent
<1>6. Places(short) \subseteq {x \in Places(long) : x[1] <= Len(short)}
  BY <1>1, <1>2, <1>5
<1>7. {x \in Places(long) : x[1] <= Len(short)} \subseteq Places(short)
  BY <1>4, <1>5
<1>8. Len(short) < Len(long)
  <2> SUFFICES ASSUME Len(long) <= Len(short) PROVE FALSE
    BY <1>1
  <2>1. Places(long) \subseteq {x \in Places(long) : x[1] <= Len(short)}
    BY <1>1, <1>2
  <2> QED
    BY <1>5, <1>6, <1>7, <2>1
<1> QED
  BY <1>1, <1>3, <1>6, <1>7, <1>8, PlacesCounted

\* The base image of an image is one of the base images, and its layers are
\* the first ones of the image, and not all of them: is_parent_image_of
\* compares the layers by their places, and a row gets its layers at once.
THEOREM BasesAreAncestors == Spec => []BaseIsAncestor
<1>1. Init => ScanTypes /\ Own /\ Ancestors
  BY InitialScans, InitialOwn DEF Init, Ancestors
<1>2. ScanTypes /\ Own /\ Ancestors /\ [Next]_vars => (ScanTypes /\ Own /\ Ancestors)'
  BY ScanTypesKept, OwnKept, AncestorsKept
<1>3. ScanTypes /\ Own /\ Ancestors => BaseIsAncestor
  <2> SUFFICES ASSUME ScanTypes, Own, Ancestors, NEW i \in DOMAIN rows,
                      NEW j, j = rows[i].base, j # NoRow,
                      Trusted(rows[i].image), Trusted(rows[j].image)
               PROVE  /\ rows[j].image \in Orgsre
                      /\ \E n \in 1..(Cardinality(rows[i].layers) - 1) :
                             rows[j].layers = {x \in rows[i].layers : x[1] <= n}
    BY DEF BaseIsAncestor
  <2>1. TablesTyped /\ OwnRows /\ j \in DOMAIN rows
    BY TypeParts DEF ScanTypes, TypeInv, TablesTyped, Own
  <2>2. IsBuiltOn(rows[i], rows[j])
    BY AncestorsNow
  <2>3. ASSUME NEW r \in DOMAIN rows, Trusted(rows[r].image), rows[r].layers # {}
        PROVE  \E seq \in Seq(Layers) : rows[r].layers = Places(seq)
    <3> DEFINE own == Offers[rows[r].image][rows[r].at]
    <3>1. own # NoContent /\ rows[r].layers = Places(own.layers)
      BY <2>1, <2>3, OwnRowsNow DEF OwnRow
    <3>2. rows[r] \in Row
      BY <2>1 DEF TablesTyped
    <3>3. own.layers \in Seq(Layers)
      BY <3>1, <3>2, ImageScanAssumption DEF Contents, Row
    <3> QED
      BY <3>1, <3>3
  <2>4. rows[j].layers # {} /\ rows[i].layers # {}
    BY <2>2 DEF IsBuiltOn, IsParent
  <2>5. PICK short \in Seq(Layers) : rows[j].layers = Places(short)
    BY <2>1, <2>3, <2>4
  <2>6. PICK long \in Seq(Layers) : rows[i].layers = Places(long)
    BY <2>3, <2>4
  <2>7. /\ Len(short) \in 1..(Cardinality(Places(long)) - 1)
        /\ Places(short) = {x \in Places(long) : x[1] <= Len(short)}
    BY <2>2, <2>4, <2>5, <2>6, ParentsAreFirst DEF IsBuiltOn
  <2> QED
    BY <2>2, <2>5, <2>6, <2>7 DEF IsBuiltOn
<1> QED
  BY <1>1, <1>2, <1>3, PTL DEF Spec

===============================================================================
