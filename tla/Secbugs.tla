------------------------------- MODULE Secbugs -------------------------------
(***************************************************************************)
(* secbugs-connect (jira_integration.py): the table secbugs follows the    *)
(* open issues of a Jira project, which change meanwhile.  A run deletes   *)
(* (softly) what a first query does not list, and creates or updates, one  *)
(* by one, what a second query lists.  Bugs are linked to rows of          *)
(* repositories, which daemons and the import from metapod create; the     *)
(* columns pod and subpod of both tables are left out.                     *)
(***************************************************************************)
EXTENDS Naturals, Sequences, FiniteSets

CONSTANTS
    Bugs,
    Repositories,     \* provider, organisation and name
    NameOf,           \* the name of a repository, all that an issue gives
    Names,
    Data,             \* the fields of an open issue: the name of its repository,
                      \* and whether a field that the run needs is missing or a
                      \* text is too long for its column
    Syncs, Creators,
    MaxRows,          \* bound: the rows that fit into repositories
    MaxChanges,       \* bound: the changes of issues in Jira
    MaxFailures,      \* bound: the runs that fail or are killed
    NoName, NoId, NoData, NoBug, NoRepository

ASSUME SecbugsAssumption ==
    /\ NameOf \in [Repositories -> Names]
    /\ Data \subseteq [name: Names \union {NoName},
                       fields: {"good", "missing", "long"}]
    /\ MaxRows \in Nat /\ MaxChanges \in Nat /\ MaxFailures \in Nat
    /\ NoName \notin Names /\ NoId \notin Nat
    /\ NoData \notin Data /\ NoBug \notin Bugs
    /\ NoRepository \notin Repositories

VARIABLES
    jira,        \* external: the fields of the issues, NoData unless open
    secbugs,     \* the table secbugs
    repos,       \* the table repositories: what the row of each id is for
    sync,        \* what each run is at
    creator,     \* what each creator of repositories is about to insert
    raced,       \* history: repositories that two creators met at once
    changes, failures

vars == <<jira, secbugs, repos, sync, creator, raced, changes, failures>>

\* listed: the answer to the first query; todo: what is left of the second;
\* bug, found: the issue at hand and the id of its repository; steady, known:
\* history, the issues unchanged, and the names of repositories known, since
\* this run and those that were going on when it began made their first query.
Idle == [pc |-> "idle", listed |-> {}, todo |-> [b \in Bugs |-> NoData],
         bug |-> NoBug, found |-> NoId, steady |-> {}, known |-> {}]

Ids == DOMAIN repos
RowsOf(r) == {i \in Ids : repos[i] = r}
RowsNamed(n) == {i \in Ids : NameOf[repos[i]] = n}

\* The row of a bug, deleted when deleted_at is set.
Entries == [state: {"absent", "active", "deleted"}, repository: Ids \union {NoId}]

TypeOK ==
    /\ jira \in [Bugs -> Data \union {NoData}]
    /\ secbugs \in [Bugs -> Entries]
    /\ repos \in Seq(Repositories)
    /\ sync \in [Syncs ->
           [pc: {"idle", "ended", "delete", "second", "next", "save"},
            listed: SUBSET Bugs, todo: [Bugs -> Data \union {NoData}],
            bug: Bugs \union {NoBug}, found: Ids \union {NoId},
            steady: SUBSET Bugs, known: SUBSET Names]]
    /\ \A s \in Syncs : sync[s].pc = "save" => sync[s].todo[sync[s].bug] # NoData
    /\ creator \in [Creators -> Repositories \union {NoRepository}]
    /\ raced \subseteq Repositories
    /\ changes \in 0..MaxChanges /\ failures \in 0..MaxFailures

Init ==
    /\ jira = [b \in Bugs |-> NoData]
    /\ secbugs = [b \in Bugs |-> [state |-> "absent", repository |-> NoId]]
    /\ repos = <<>>
    /\ sync = [s \in Syncs |-> Idle]
    /\ creator = [c \in Creators |-> NoRepository]
    /\ raced = {} /\ changes = 0 /\ failures = 0

-----------------------------------------------------------------------------
\* An issue is created or reopened, edited, or closed.
Change ==
    /\ changes < MaxChanges /\ changes' = changes + 1
    /\ \E b \in Bugs, issue \in Data \union {NoData} :
        /\ issue # jira[b]
        /\ jira' = [jira EXCEPT ![b] = issue]
        /\ sync' = [s \in Syncs |-> [sync[s] EXCEPT !.steady = @ \ {b}]]
    /\ UNCHANGED <<secbugs, repos, creator, raced, failures>>

Busy(s) == sync[s].pc \notin {"idle", "ended"}

\* The run begins with the query of the open issues, for the deletion.
Start(s) ==
    LET going == {e \in Syncs : Busy(e)}
    IN  /\ ~Busy(s)
        /\ sync' = [sync EXCEPT ![s] =
               [Idle EXCEPT
                   !.pc = "delete",
                   !.listed = {b \in Bugs : jira[b] # NoData},
                   !.steady = {b \in Bugs : \A e \in going : b \in sync[e].steady},
                   !.known = {n \in Names : /\ RowsNamed(n) # {}
                                            /\ \A e \in going : n \in sync[e].known}]]
        /\ UNCHANGED <<jira, secbugs, repos, creator, raced, changes, failures>>

\* delete_outdated_secbugs
Delete(s) ==
    /\ sync[s].pc = "delete"
    /\ secbugs' = [b \in Bugs |->
           IF secbugs[b].state = "active" /\ b \notin sync[s].listed
           THEN [secbugs[b] EXCEPT !.state = "deleted"] ELSE secbugs[b]]
    /\ sync' = [sync EXCEPT ![s].pc = "second", ![s].listed = {}]
    /\ UNCHANGED <<jira, repos, creator, raced, changes, failures>>

\* The query is made again, and its answer gone through.
Second(s) ==
    /\ sync[s].pc = "second"
    /\ sync' = [sync EXCEPT ![s].pc = "next", ![s].todo = jira]
    /\ UNCHANGED <<jira, secbugs, repos, creator, raced, changes, failures>>

\* Every field that is sliced, compared or parsed is there.
Complete(data) == data.fields # "missing"

Lookup(data) == IF data.name = NoName THEN {} ELSE RowsNamed(data.name)

\* A field that is missing ends the run, and so does a name that two
\* repositories have.
Resolve(s) ==
    /\ sync[s].pc = "next"
    /\ \E b \in Bugs :
        LET data == sync[s].todo[b]
            found == Lookup(data)
            At(id) == [sync EXCEPT ![s].pc = "save", ![s].bug = b, ![s].found = id]
        IN  /\ data # NoData
            /\ \/ /\ ~Complete(data) \/ Cardinality(found) > 1
                  /\ sync' = [sync EXCEPT ![s] = Idle]
               \/ /\ Complete(data) /\ found = {}
                  /\ sync' = At(NoId)
               \/ /\ Complete(data) /\ Cardinality(found) = 1
                  /\ \E i \in found : sync' = At(i)
    /\ UNCHANGED <<jira, secbugs, repos, creator, raced, changes, failures>>

\* (mutant) A bug that was deleted stays deleted.
StaysDeleted(old, id) ==
    [state |-> IF old.state = "absent" THEN "active" ELSE old.state,
     repository |-> id]

Written(old, id) == [state |-> "active", repository |-> id]

\* (mutant) The issue at hand kept for the next one.
ContinueWithSame(s) == sync' = [sync EXCEPT ![s].todo[sync[s].bug] = NoData]

\* The loop goes on with the next issue.
Continue(s) ==
    sync' = [sync EXCEPT ![s].pc = "next", ![s].bug = NoBug, ![s].found = NoId,
                         ![s].todo[sync[s].bug] = NoData]

\* A bug that is in the table, deleted or not, is updated, and the error of a
\* text that is too long swallowed (get_or_update_entry).
Update(s) ==
    LET b == sync[s].bug
    IN  /\ sync[s].pc = "save"
        /\ secbugs[b].state # "absent"
        /\ IF sync[s].todo[b].fields = "long"
           THEN UNCHANGED secbugs
           ELSE secbugs' = [secbugs EXCEPT ![b] = Written(@, sync[s].found)]
        /\ Continue(s)
        /\ UNCHANGED <<jira, repos, creator, raced, changes, failures>>

\* A new one is created, but for one whose repository is not known; here a
\* text that is too long ends the run.
Create(s) ==
    LET b == sync[s].bug
        data == sync[s].todo[b]
    IN  /\ sync[s].pc = "save"
        /\ secbugs[b].state = "absent"
        /\ \/ /\ data.name # NoName /\ sync[s].found = NoId
              /\ Continue(s)
              /\ UNCHANGED secbugs
           \/ /\ data.name = NoName \/ sync[s].found # NoId
              /\ IF data.fields = "long"
                 THEN /\ sync' = [sync EXCEPT ![s] = Idle]
                      /\ UNCHANGED secbugs
                 ELSE /\ secbugs' = [secbugs EXCEPT ![b] =
                                        Written(@, sync[s].found)]
                      /\ Continue(s)
        /\ UNCHANGED <<jira, repos, creator, raced, changes, failures>>

\* (mutant) The loop left at any issue.
EndEarly(s) ==
    /\ sync[s].pc = "next"
    /\ sync' = [sync EXCEPT ![s].pc = "ended", ![s].todo = Idle.todo]
    /\ UNCHANGED <<jira, secbugs, repos, creator, raced, changes, failures>>

End(s) ==
    /\ sync[s].pc = "next"
    /\ sync[s].todo = Idle.todo
    /\ sync' = [sync EXCEPT ![s].pc = "ended"]
    /\ UNCHANGED <<jira, secbugs, repos, creator, raced, changes, failures>>

\* Jira or the database fails, two runs insert the same bug, or one is killed.
Fail(s) ==
    /\ Busy(s)
    /\ failures < MaxFailures /\ failures' = failures + 1
    /\ sync' = [sync EXCEPT ![s] = Idle]
    /\ UNCHANGED <<jira, secbugs, repos, creator, raced, changes>>

-----------------------------------------------------------------------------
\* (mutant) A repository that is not looked up.
MeetUnseen(c) ==
    /\ creator[c] = NoRepository
    /\ \E r \in Repositories :
        /\ creator' = [creator EXCEPT ![c] = r]
        /\ raced' = IF \E e \in Creators : creator[e] = r
                    THEN raced \union {r} ELSE raced
    /\ UNCHANGED <<jira, secbugs, repos, sync, changes, failures>>

\* get_or_create(Repository), by a daemon or by the import from metapod, which
\* finds no row.  With two rows one_or_none raises, and with one it is taken:
\* neither changes the table.
Meet(c) ==
    /\ creator[c] = NoRepository
    /\ \E r \in Repositories :
        /\ RowsOf(r) = {}
        /\ creator' = [creator EXCEPT ![c] = r]
        /\ raced' = IF \E e \in Creators : creator[e] = r
                    THEN raced \union {r} ELSE raced
    /\ UNCHANGED <<jira, secbugs, repos, sync, changes, failures>>

\* The insertion: the constraint org_repo (models.py:278) is never attached.
Insert(c) ==
    /\ creator[c] # NoRepository
    /\ Len(repos) < MaxRows
    /\ repos' = Append(repos, creator[c])
    /\ creator' = [creator EXCEPT ![c] = NoRepository]
    /\ UNCHANGED <<jira, secbugs, sync, raced, changes, failures>>

\* It fails, or its process dies.
GiveUp(c) ==
    /\ creator[c] # NoRepository
    /\ creator' = [creator EXCEPT ![c] = NoRepository]
    /\ UNCHANGED <<jira, secbugs, repos, sync, raced, changes, failures>>

Work(s) ==
    Delete(s) \/ Second(s) \/ Resolve(s) \/ Update(s) \/ Create(s) \/ End(s)

Next ==
    \/ Change
    \/ \E s \in Syncs : Start(s) \/ Work(s) \/ Fail(s)
    \/ \E c \in Creators : Meet(c) \/ Insert(c) \/ GiveUp(c)

Spec == Init /\ [][Next]_vars

\* The run is scheduled again and again, and goes on once it has begun.
FairSpec == Spec /\ \A s \in Syncs : WF_vars(Start(s)) /\ WF_vars(Work(s))

-----------------------------------------------------------------------------
(* Properties.                                                             *)

\* The bug is in the table as Jira has it: deleted if the issue is closed,
\* otherwise active and linked to the repository it names, unless no such
\* repository was known, when a new bug is left out.
Mirrors(b, known) ==
    LET name == jira[b].name
        id == secbugs[b].repository
    IN  IF jira[b] = NoData THEN secbugs[b].state # "active"
        ELSE \/ /\ secbugs[b].state = "active"
                /\ IF id = NoId THEN name \notin known
                                ELSE NameOf[repos[id]] = name
             \/ /\ secbugs[b].state = "absent"
                /\ name \notin known \union {NoName}

\* After a run that ended, every bug that Jira did not change since it began
\* is mirrored, even a bug that earlier runs deleted, whatever creators did,
\* and however other runs overlapped with it or died.
EndedRunMirrors ==
    \A s \in Syncs : sync[s].pc = "ended" =>
        \A b \in sync[s].steady :
            jira[b] = NoData \/ jira[b].fields = "good"
                => Mirrors(b, sync[s].known)

\* A repository has one row until two creators meet it at the same time: from
\* then on every run that finds a bug of that name ends there.
OneRowPerRepository ==
    \A r \in Repositories \ raced : Cardinality(RowsOf(r)) <= 1

\* Nothing in Jira or in repositories makes the runs end early.
Manageable ==
    /\ \A b \in Bugs : jira[b] # NoData => jira[b].fields = "good"
    /\ \A n \in Names : Cardinality(RowsNamed(n)) <= 1

\* If that stays so, the table catches up with Jira for good, whatever was
\* done to it before.
CatchesUp ==
    <>[]Manageable =>
        <>[](\A b \in Bugs : Mirrors(b, {n \in Names : RowsNamed(n) # {}}))
=============================================================================
