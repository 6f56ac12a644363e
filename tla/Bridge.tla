------------------------------- MODULE Bridge -------------------------------
(***************************************************************************)
(* The table images under connect_using_queue_message_agreement            *)
(* (scanners/repository_scanner/bridge.py), run by daemons for the images  *)
(* that a deployment message names, while image scanners add rows for the  *)
(* same images and somebody connects images by hand (cli/bridge.py).       *)
(*                                                                         *)
(* An image is found by name, account, digest and platform, here its key,  *)
(* but nothing in the table makes a key unique.  Attempts at one message   *)
(* are not told apart: a wasp is the message it was made of.               *)
(***************************************************************************)
EXTENDS Naturals, FiniteSets

CONSTANTS
    Keys,          \* name, account, digest and platform of an image
    Name,          \* the name in a key
    Commits,       \* a commit is also the tag made of its first ten characters
    Tags,          \* tags of images, these short commits included
    Repositories,
    Messages,      \* deployment messages
    Daemons,
    RowIds,        \* bound: the rows that fit into images
    NoTag, NoCommit, NoRepository, NoWasp, NoMessage, NoRow, NoKey

ASSUME BridgeAssumption ==
    /\ Messages \subseteq [repository: Repositories, commit: Commits,
                           tag: Tags, images: SUBSET Keys]
    /\ NoTag \notin Tags /\ NoCommit \notin Commits
    /\ NoRepository \notin Repositories
    /\ NoWasp \notin Messages /\ NoMessage \notin Messages
    /\ NoRow \notin RowIds /\ NoKey \notin Keys

Rows == [key: Keys \union {NoKey}, tag: Tags \union {NoTag},
         commit: Commits \union {NoCommit},
         repository: Repositories \union {NoRepository},
         wasp: Messages \union {NoWasp}]

VARIABLES
    stored,     \* the ids of the rows of images
    rows,       \* the rows, by id
    task,       \* what each daemon is at
    bridged,    \* messages all of whose images were connected
    overlapped  \* history: two daemons were connecting at the same time, or
                \* somebody connected images by hand

vars == <<stored, rows, task, bridged, overlapped>>

\* todo: the images left; key: the current one; at: the row the daemon has
\* loaded of it; commit, repository: what the daemon knows of that row.
Idle == [pc |-> "idle", message |-> NoMessage, todo |-> {}, key |-> NoKey,
         at |-> NoRow, commit |-> NoCommit, repository |-> NoRepository]

NewRow(key, tag) ==
    [key |-> key, tag |-> tag, commit |-> NoCommit,
     repository |-> NoRepository, wasp |-> NoWasp]

RowsOf(key) == {i \in stored : rows[i].key = key}

TypeOK ==
    /\ stored \subseteq RowIds
    /\ rows \in [RowIds -> Rows]
    /\ task \in [Daemons ->
           [pc: {"idle", "next", "count", "count again", "first", "load",
                 "update", "own"},
            message: Messages \union {NoMessage}, todo: SUBSET Keys,
            key: Keys \union {NoKey}, at: stored \union {NoRow},
            commit: Commits \union {NoCommit},
            repository: Repositories \union {NoRepository}]]
    /\ bridged \subseteq Messages
    /\ overlapped \in BOOLEAN

Init ==
    /\ stored = {}
    /\ rows = [i \in RowIds |-> NewRow(NoKey, NoTag)]
    /\ task = [d \in Daemons |-> Idle]
    /\ bridged = {}
    /\ overlapped = FALSE

-----------------------------------------------------------------------------
\* The row the daemon works on, with the columns it read.
Loaded(t, i) == [t EXCEPT !.at = i, !.commit = rows[i].commit,
                          !.repository = rows[i].repository]

\* A daemon starts to connect the images of a message, any number of times.
Take(d) ==
    /\ task[d].pc = "idle"
    /\ \E m \in Messages :
        task' = [task EXCEPT ![d] =
                    [Idle EXCEPT !.pc = "next", !.message = m,
                                 !.todo = m.images]]
    /\ overlapped' = (overlapped \/ \E e \in Daemons \ {d} : task[e].pc # "idle")
    /\ UNCHANGED <<stored, rows, bridged>>

Matches(row, m) == row.tag \in {m.commit, m.tag} \/ row.commit = m.commit

\* The query for the rows of the next image, and the search for one that the
\* tag or the commit relates to the message.
Look(d) ==
    /\ task[d].pc = "next"
    /\ \E key \in task[d].todo :
        LET here == [task[d] EXCEPT !.todo = @ \ {key}, !.key = key]
            related == {i \in RowsOf(key) : Matches(rows[i], here.message)}
        IN  \/ /\ \E i \in related :
                    task' = [task EXCEPT ![d] =
                                Loaded([here EXCEPT !.pc = "update"], i)]
            \/ /\ related = {}
               /\ RowsOf(key) = {}
               /\ task' = [task EXCEPT ![d] = [here EXCEPT !.pc = "count"]]
            \/ /\ related = {}
               /\ \E i \in RowsOf(key) :
                    task' = [task EXCEPT ![d] =
                                Loaded([here EXCEPT !.pc = "count"], i)]
    /\ UNCHANGED <<stored, rows, bridged, overlapped>>

\* With many rows, none of them related, the attempt fails (BridgeError).
CountMany(d) ==
    /\ task[d].pc = "count"
    /\ task' = [task EXCEPT ![d] =
                   IF Cardinality(RowsOf(task[d].key)) > 1
                   THEN Idle ELSE [@ EXCEPT !.pc = "count again"]]
    /\ UNCHANGED <<stored, rows, bridged, overlapped>>

\* The second count finds one row,
CountOne(d) ==
    /\ task[d].pc = "count again"
    /\ Cardinality(RowsOf(task[d].key)) = 1
    /\ task' = [task EXCEPT ![d].pc = "first"]
    /\ UNCHANGED <<stored, rows, bridged, overlapped>>

\* or it does not, and one is created.
Create(d) ==
    /\ task[d].pc = "count again"
    /\ Cardinality(RowsOf(task[d].key)) # 1
    /\ \E i \in RowIds \ stored :
        /\ stored' = stored \union {i}
        /\ rows' = [rows EXCEPT ![i] = NewRow(task[d].key, NoTag)]
        /\ task' = [task EXCEPT ![d] =
                       [@ EXCEPT !.pc = "load", !.at = i, !.commit = NoCommit,
                                 !.repository = NoRepository]]
    /\ UNCHANGED <<bridged, overlapped>>

\* existing_images[0]: a row the session has loaded already is not read again.
First(d) ==
    /\ task[d].pc = "first"
    /\ \E i \in RowsOf(task[d].key) :
        task' = [task EXCEPT ![d] =
                    IF i = @.at THEN [@ EXCEPT !.pc = "update"]
                                ELSE Loaded([@ EXCEPT !.pc = "update"], i)]
    /\ UNCHANGED <<stored, rows, bridged, overlapped>>

\* A row that was just created is read after its commit, except for the
\* commit that the daemon has set on it.
Load(d) ==
    /\ task[d].pc = "load"
    /\ task' = [task EXCEPT ![d] =
                   [Loaded(@, @.at) EXCEPT !.pc = "update",
                                           !.commit = NoCommit]]
    /\ UNCHANGED <<stored, rows, bridged, overlapped>>

\* (mutant) A row switched to whatever repository comes.
NeverConflicts(t) == FALSE

\* update_safely: the row, as the daemon knows it, has another repository.
Conflicts(t) == t.repository \notin {NoRepository, t.message.repository}

\* (mutant) The tag written for the commit.
WithTag(row, t) ==
    [row EXCEPT !.commit = IF t.commit # t.message.commit
                           THEN t.message.tag ELSE @]

\* The UPDATE of the commit: only if it differs from what was loaded.
WithCommit(row, t) ==
    [row EXCEPT !.commit = IF t.commit # t.message.commit
                           THEN t.message.commit ELSE @]

\* (mutant) The repository only.
WithRepositoryOnly(row, t) ==
    [row EXCEPT !.repository = IF t.repository # t.message.repository
                               THEN t.message.repository ELSE @]

WithBoth(row, t) ==
    [WithCommit(row, t) EXCEPT
        !.repository = IF t.repository # t.message.repository
                       THEN t.message.repository ELSE @]

\* ConflictingInfoError ends the attempt, but the commit set before it is
\* still in the session and Wasp.__exit__ writes it.
Refuse(d) ==
    /\ task[d].pc = "update"
    /\ Conflicts(task[d])
    /\ rows' = [rows EXCEPT ![task[d].at] = WithCommit(@, task[d])]
    /\ task' = [task EXCEPT ![d] = Idle]
    /\ UNCHANGED <<stored, bridged, overlapped>>

Update(d) ==
    /\ task[d].pc = "update"
    /\ ~Conflicts(task[d])
    /\ rows' = [rows EXCEPT ![task[d].at] = WithBoth(@, task[d])]
    /\ task' = [task EXCEPT ![d].pc = "own"]
    /\ UNCHANGED <<stored, bridged, overlapped>>

\* (mutant) The wasp given to whatever row of the image comes first.
OwnAnyRow(d) ==
    /\ task[d].pc = "own"
    /\ \E i \in RowsOf(task[d].key) :
        rows' = [rows EXCEPT ![i].wasp = task[d].message]
    /\ task' = [task EXCEPT ![d] =
                   [Idle EXCEPT !.pc = "next", !.message = task[d].message,
                                !.todo = task[d].todo]]
    /\ UNCHANGED <<stored, bridged, overlapped>>

\* image.wasp = wasp, in a transaction of its own.
Own(d) ==
    /\ task[d].pc = "own"
    /\ rows' = [rows EXCEPT ![task[d].at].wasp = task[d].message]
    /\ task' = [task EXCEPT ![d] =
                   [Idle EXCEPT !.pc = "next", !.message = task[d].message,
                                !.todo = task[d].todo]]
    /\ UNCHANGED <<stored, bridged, overlapped>>

\* (mutant) The loop left at the first image index.
DoneEarly(d) ==
    /\ task[d].pc = "next"
    /\ bridged' = bridged \union {task[d].message}
    /\ task' = [task EXCEPT ![d] = Idle]
    /\ UNCHANGED <<stored, rows, overlapped>>

\* All images of the message are connected.
Done(d) ==
    /\ task[d].pc = "next"
    /\ task[d].todo = {}
    /\ bridged' = bridged \union {task[d].message}
    /\ task' = [task EXCEPT ![d] = Idle]
    /\ UNCHANGED <<stored, rows, overlapped>>

\* The daemon dies, or the database refuses a statement (an account that two
\* daemons create, a lost connection): what is not committed is rolled back.
Fail(d) ==
    /\ task[d].pc # "idle"
    /\ task' = [task EXCEPT ![d] = Idle]
    /\ UNCHANGED <<stored, rows, bridged, overlapped>>

\* parse_sbom_with_image_tar: get_or_create looks for a row of this tag that a
\* scanner made, not for one the bridge made; two scanners may both insert.
Inventory ==
    /\ \E key \in Keys, tag \in Tags \union {NoTag}, i \in RowIds \ stored :
        /\ stored' = stored \union {i}
        /\ rows' = [rows EXCEPT ![i] = NewRow(key, tag)]
    /\ UNCHANGED <<task, bridged, overlapped>>

\* The command connect: the images of a list that it made before, when one of
\* that name and tag had no repository, as every row at first, are given the
\* repository that has a commit of that tag; what they have meanwhile is not
\* looked at.
Manual ==
    /\ \E i \in stored, r \in Repositories :
        /\ rows[i].tag \in Commits
        /\ rows' = [j \in RowIds |->
               IF /\ j \in stored /\ rows[j].tag = rows[i].tag
                  /\ Name[rows[j].key] = Name[rows[i].key]
               THEN [rows[j] EXCEPT !.repository = r] ELSE rows[j]]
    /\ overlapped' = TRUE
    /\ UNCHANGED <<stored, task, bridged>>

Connect(d) ==
    \/ Take(d) \/ Look(d) \/ CountMany(d) \/ CountOne(d) \/ First(d)
    \/ Create(d) \/ Load(d) \/ Refuse(d) \/ Update(d) \/ Own(d)
    \/ Done(d) \/ Fail(d)

Next == Inventory \/ Manual \/ \E d \in Daemons : Connect(d)

Spec == Init /\ [][Next]_vars

-----------------------------------------------------------------------------
(* Properties.                                                             *)

\* Whatever fails, however daemons overlap, and with images connected by hand
\* at any moment, a row that has a commit has a
\* repository, and a row that belongs to a wasp has both: a half-connected
\* image never looks connected.
BridgedInOrder ==
    \A i \in stored :
        /\ rows[i].commit # NoCommit => rows[i].repository # NoRepository
        /\ rows[i].wasp # NoWasp => rows[i].commit # NoCommit

\* update_safely: as long as no two daemons connect at the same time, and
\* nobody by hand, an image that has a repository keeps it.
RepositoryIsKept ==
    [][~overlapped' =>
         \A i \in stored : rows[i].repository # NoRepository =>
             rows'[i].repository = rows[i].repository]_vars

\* Nor is an image then shown with a wasp of another repository, not even
\* after a conflict or a failure between the two commits of connect.
WaspIsOfRepository ==
    ~overlapped =>
        \A i \in stored : rows[i].wasp # NoWasp =>
            rows[i].wasp.repository = rows[i].repository

\* And each image of a message that was connected without complaint is shown
\* in the message's repository, for good.
BridgedMeansConnected ==
    ~overlapped =>
        \A m \in bridged : \A key \in m.images :
            \E i \in RowsOf(key) : rows[i].repository = m.repository
=============================================================================
