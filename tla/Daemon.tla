------------------------------- MODULE Daemon -------------------------------
(***************************************************************************)
(* The queue consumer of libinv: several `libinv daemon` processes poll    *)
(* one SQS queue and take each received message through                    *)
(* process_sqs_message (main.py), with the Wasp (models.py) as the record  *)
(* of one attempt at one message.                                          *)
(*                                                                         *)
(* An attempt is identified by the SQS receipt it was started for: the     *)
(* pair of a message and the how-many-th delivery of it this is.  The      *)
(* Wasp row, the temporary project directory and the effects of an attempt *)
(* are all keyed by that receipt.                                          *)
(***************************************************************************)
EXTENDS Naturals, FiniteSets

CONSTANTS
    Daemons,           \* the `libinv daemon` processes
    Messages,          \* the messages sent to the queue
    Kind,              \* what each message looks like
    Java,              \* the messages of a commit written mostly in Java
    ImageScanEnabled,  \* the IMAGE_SCAN_ENABLED setting
    BatchMax,          \* MaxNumberOfMessages of receive_message (10 in sqs.py)
    MaxReceives,       \* bound: deliveries of one message
    MaxCrashes,        \* bound: processes killed from outside
    Failing            \* the stages whose external call may fail

\* What the handler can tell apart about a message.
\*   bridge     type "Bridge", every field present
\*   noTag      "Bridge" without repository.tag (allowed by the JSON schema)
\*   noEcrImage "Bridge" without ecr_image (allowed by the JSON schema)
\*   excluded   "Bridge" of a repository listed in EXCLUDED_REPOS
\*   malformed  not JSON, or "Bridge" and refused by the JSON schema
\*   otherType  any other type
\*   image      untyped legacy message naming an image
\*   badImage   untyped legacy message with an empty name, or digest and tag
BridgeKinds == {"bridge", "noTag", "noEcrImage", "excluded", "malformed"}
ImageKinds == {"image", "badImage"}
Kinds == BridgeKinds \union ImageKinds \union {"otherType"}

\* Stages that call a database, a subprocess or a remote service.
Stages == {"eat", "clone", "bridge", "cdxgen", "upload", "post", "delete",
           "semgrep", "commit", "cleanup", "image"}

ASSUME DaemonAssumption ==
    /\ Kind \in [Messages -> Kinds]
    /\ Java \subseteq Messages
    /\ ImageScanEnabled \in BOOLEAN
    /\ BatchMax \in Nat \ {0}
    /\ MaxReceives \in Nat \ {0}
    /\ MaxCrashes \in Nat
    /\ Failing \subseteq Stages

Receipts == Messages \X (1 .. MaxReceives)
NoReceipt == <<>>

\* Reasons given to Wasp.throw.
Reasons == {"clone", "stderr", "timeout", "scancodeio", "exception"}

\* What an attempt has got done outside the process.
Effects == {"bridged", "sbom", "uploaded", "answered", "project", "acked",
            "sast", "scanned"}

PCs == {"poll", "next", "clone", "bridge", "cdxgen", "upload", "post",
        "delete", "semgrep", "exit", "raise", "cleanup", "down"}

VARIABLES
    stored,      \* SQS: "visible", "inflight" or "deleted", per message
    received,    \* SQS: deliveries so far, per message
    pc,          \* where each daemon is
    batch,       \* receipts of the polled batch not yet looked at
    cur,         \* the receipt being processed
    mem,         \* complaints of the wasp in memory, not yet committed
    row,         \* wasps table: "absent", "eaten" or "closed", per receipt
    complaints,  \* wasps table: the committed complaints, per receipt
    effects,     \* what each attempt has got done
    dirs,        \* project directories on disk
    lost,        \* receipts whose process died while it worked on them
    crashes      \* processes killed so far

queueVars == <<stored, received>>
wholeRow == <<row, complaints>>
vars == <<stored, received, pc, batch, cur, mem, row, complaints, effects,
          dirs, lost, crashes>>

MsgOf(r) == r[1]
KindOf(r) == Kind[MsgOf(r)]

\* ate_successfully is set to False by throw, which also adds the complaint.
AteSuccessfully(r) == complaints[r] = {}

TypeOK ==
    /\ stored \in [Messages -> {"visible", "inflight", "deleted"}]
    /\ received \in [Messages -> 0 .. MaxReceives]
    /\ pc \in [Daemons -> PCs]
    /\ batch \in [Daemons -> SUBSET Receipts]
    /\ cur \in [Daemons -> Receipts \union {NoReceipt}]
    /\ mem \in [Daemons -> SUBSET Reasons]
    /\ row \in [Receipts -> {"absent", "eaten", "closed"}]
    /\ complaints \in [Receipts -> SUBSET Reasons]
    /\ effects \in [Receipts -> SUBSET Effects]
    /\ dirs \subseteq Receipts
    /\ lost \subseteq Receipts
    /\ crashes \in 0 .. MaxCrashes

Init ==
    /\ stored = [m \in Messages |-> "visible"]
    /\ received = [m \in Messages |-> 0]
    /\ pc = [d \in Daemons |-> "poll"]
    /\ batch = [d \in Daemons |-> {}]
    /\ cur = [d \in Daemons |-> NoReceipt]
    /\ mem = [d \in Daemons |-> {}]
    /\ row = [r \in Receipts |-> "absent"]
    /\ complaints = [r \in Receipts |-> {}]
    /\ effects = [r \in Receipts |-> {}]
    /\ dirs = {}
    /\ lost = {}
    /\ crashes = 0

-----------------------------------------------------------------------------
(* Control flow of one process.                                            *)

Goto(d, label) == pc' = [pc EXCEPT ![d] = label]

\* Wasp.throw: note the complaint on the wasp in memory.
Throw(d, why) == mem' = [mem EXCEPT ![d] = @ \union {why}]

Achieve(d, what) == effects' = [effects EXCEPT ![cur[d]] = @ \union what]

\* (mutants) A `finally` that deletes the message; a `with` without __exit__.
RaiseThenDelete(d) ==
    /\ Goto(d, "delete")
    /\ UNCHANGED <<queueVars, batch, cur, wholeRow, dirs, lost, crashes>>

RaiseWithoutExit(d) ==
    /\ Goto(d, "cleanup")
    /\ UNCHANGED <<queueVars, batch, cur, wholeRow, dirs, lost, crashes>>

\* A stage that raised: __exit__ runs with the exception.
Raise(d) ==
    /\ Goto(d, "raise")
    /\ UNCHANGED <<queueVars, batch, cur, wholeRow, dirs, lost, crashes>>

\* The handler's body fails at stage s without having done anything else.
Fail(d, s) ==
    /\ s \in Failing
    /\ Raise(d)
    /\ UNCHANGED <<mem, effects>>

\* The process ends: the daemon re-raises, or reports to Slack and returns.
\* The rest of the batch is abandoned.
Die(d) ==
    /\ Goto(d, "down")
    /\ batch' = [batch EXCEPT ![d] = {}]
    /\ cur' = [cur EXCEPT ![d] = NoReceipt]
    /\ mem' = [mem EXCEPT ![d] = {}]

-----------------------------------------------------------------------------
(* The queue (external: AWS SQS).                                          *)

\* A message in flight becomes visible again, whoever still works on it.
VisibilityTimeout(m) ==
    /\ stored[m] = "inflight"
    /\ stored' = [stored EXCEPT ![m] = "visible"]
    /\ UNCHANGED <<received, pc, batch, cur, mem, wholeRow, effects, dirs,
                   lost, crashes>>

\* The receipt handle of the next delivery of m.
NewReceipt(m) == <<m, received[m] + 1>>

\* poll(): receive between one and BatchMax visible messages.
Poll(d) ==
    /\ pc[d] = "poll"
    /\ \E got \in SUBSET {m \in Messages : /\ stored[m] = "visible"
                                           /\ received[m] < MaxReceives} :
        /\ got # {}
        /\ Cardinality(got) <= BatchMax
        /\ stored' = [m \in Messages |->
                         IF m \in got THEN "inflight" ELSE stored[m]]
        /\ received' = [m \in Messages |->
                         IF m \in got THEN received[m] + 1 ELSE received[m]]
        /\ batch' = [batch EXCEPT ![d] = {NewReceipt(m) : m \in got}]
    /\ Goto(d, "next")
    /\ UNCHANGED <<cur, mem, wholeRow, effects, dirs, lost, crashes>>

\* The message has been delivered again since r.
Overtaken(r) == r[2] < received[MsgOf(r)]

\* delete_message by receipt.  SQS honours the receipt of the latest
\* delivery; with an older one the message may or may not go.
AfterDelete(r) ==
    {[stored EXCEPT ![MsgOf(r)] = "deleted"]}
    \union (IF Overtaken(r) THEN {stored} ELSE {})

-----------------------------------------------------------------------------
(* for message in messages: process_sqs_message(message).                  *)

BatchDone(d) ==
    /\ pc[d] = "next"
    /\ batch[d] = {}
    /\ Goto(d, "poll")
    /\ UNCHANGED <<queueVars, batch, cur, mem, wholeRow, effects, dirs, lost,
                   crashes>>

\* (mutant) The type compared without casefold: "Bridge" is not "bridge".
IgnoredWithoutCasefold(r) ==
    \/ KindOf(r) \in {"otherType", "bridge"}
    \/ KindOf(r) \in ImageKinds /\ ~ImageScanEnabled

\* A typed message that is not "bridge", or a legacy one while image scans
\* are switched off, falls through: nothing is done and it is not deleted.
Ignored(r) ==
    \/ KindOf(r) = "otherType"
    \/ KindOf(r) \in ImageKinds /\ ~ImageScanEnabled

Skip(d) ==
    /\ pc[d] = "next"
    /\ \E r \in batch[d] :
        /\ Ignored(r)
        /\ batch' = [batch EXCEPT ![d] = @ \ {r}]
    /\ UNCHANGED <<queueVars, pc, cur, mem, wholeRow, effects, dirs, lost,
                   crashes>>

\* Messages for which the handler raises before a wasp exists, so outside
\* the `with`: json.loads, is_valid_raw_message, the KeyError on the missing
\* tag, and `with None` for an excluded repository.
Uneatable == {"malformed", "noTag", "excluded"}

Choke(d) ==
    /\ pc[d] = "next"
    /\ \E r \in batch[d] :
        \/ KindOf(r) \in Uneatable
        \/ KindOf(r) \in {"bridge", "noEcrImage"} /\ "eat" \in Failing
    /\ Die(d)
    /\ UNCHANGED <<queueVars, wholeRow, effects, dirs, lost, crashes>>

\* (mutant) The wasp of the message's first delivery used again.
EatKnownWasp(d) ==
    /\ pc[d] = "next"
    /\ \E r \in batch[d] :
        /\ KindOf(r) \in {"bridge", "noEcrImage"}
        /\ batch' = [batch EXCEPT ![d] = @ \ {r}]
        /\ cur' = [cur EXCEPT ![d] = <<MsgOf(r), 1>>]
        /\ row' = [row EXCEPT ![<<MsgOf(r), 1>>] = "eaten"]
    /\ Goto(d, "clone")
    /\ UNCHANGED <<queueVars, mem, complaints, effects, dirs, lost, crashes>>

\* Wasp.eat_caterpillar_message: the wasp is stored as eaten successfully,
\* with no complaint, before anything has been done about the message.
Eat(d) ==
    /\ pc[d] = "next"
    /\ \E r \in batch[d] :
        /\ KindOf(r) \in {"bridge", "noEcrImage"}
        /\ batch' = [batch EXCEPT ![d] = @ \ {r}]
        /\ cur' = [cur EXCEPT ![d] = r]
        /\ row' = [row EXCEPT ![r] = "eaten"]
    /\ Goto(d, "clone")
    /\ UNCHANGED <<queueVars, mem, complaints, effects, dirs, lost, crashes>>

\* The legacy branch: scan the image, or warn about an unusable message;
\* both are deleted.
ImageMessage(d) ==
    /\ pc[d] = "next"
    /\ ImageScanEnabled
    /\ \E r \in batch[d] :
        /\ KindOf(r) \in ImageKinds
        /\ batch' = [batch EXCEPT ![d] = @ \ {r}]
        /\ effects' = [effects EXCEPT ![r] = @ \union
                         (IF KindOf(r) = "image" THEN {"scanned", "acked"}
                                                 ELSE {"acked"})]
        /\ stored' \in AfterDelete(r)
    /\ UNCHANGED <<received, pc, cur, mem, wholeRow, dirs, lost, crashes>>

\* (mutant) The legacy message deleted before its image is scanned.
ImageMessageDeletedFirst(d) ==
    /\ pc[d] = "next"
    /\ ImageScanEnabled
    /\ \E r \in batch[d] :
        /\ KindOf(r) = "image"
        /\ stored' \in AfterDelete(r)
    /\ Die(d)
    /\ UNCHANGED <<received, wholeRow, effects, dirs, lost, crashes>>

\* The legacy branch raises (there is no wasp to note it on): the scan may
\* have been done when it is the deletion that failed.
ImageMessageFails(d) ==
    /\ pc[d] = "next"
    /\ ImageScanEnabled
    /\ \E r \in batch[d] :
        /\ KindOf(r) \in ImageKinds
        /\ \/ "image" \in Failing /\ KindOf(r) = "image" /\ UNCHANGED effects
              /\ UNCHANGED stored
           \/ /\ "delete" \in Failing
              /\ effects' = [effects EXCEPT ![r] = @ \union
                   (IF KindOf(r) = "image" THEN {"scanned"} ELSE {})]
              /\ stored' \in AfterDelete(r) \union {stored}
    /\ Die(d)
    /\ UNCHANGED <<received, wholeRow, dirs, lost, crashes>>

-----------------------------------------------------------------------------
(* with Wasp.eat_caterpillar_message(message) as wasp: ...                 *)

\* wasp.repo_dir: make the project directory, clone, check out the commit.
\* Wasp.clone throws for itself and re-raises.
Clone(d) ==
    /\ pc[d] = "clone"
    /\ dirs' = dirs \union {cur[d]}
    /\ \/ Goto(d, "bridge") /\ UNCHANGED mem
       \/ "clone" \in Failing /\ Goto(d, "raise") /\ Throw(d, "clone")
    /\ UNCHANGED <<queueVars, batch, cur, wholeRow, effects, lost, crashes>>

\* connect_using_queue_message_agreement: message["ecr_image"] is a KeyError
\* when the field is absent.  Bridge.tla looks inside.
BridgeImages(d) ==
    /\ pc[d] = "bridge"
    /\ \/ /\ KindOf(cur[d]) # "noEcrImage"
          /\ Goto(d, "cdxgen")
          /\ Achieve(d, {"bridged"})
          /\ UNCHANGED <<queueVars, batch, cur, mem, wholeRow, dirs, lost,
                         crashes>>
       \/ /\ KindOf(cur[d]) = "noEcrImage"
          /\ Raise(d)
          /\ UNCHANGED <<mem, effects>>
       \/ Fail(d, "bridge")

\* run_cdxgen_scan: a non-empty stderr is a complaint but the SBOM is used
\* all the same; subprocess.run's timeout leaves the `with` normally.
Cdxgen(d) ==
    /\ pc[d] = "cdxgen"
    /\ \/ /\ Goto(d, "upload")
          /\ Achieve(d, {"sbom"})
          /\ UNCHANGED mem \/ Throw(d, "stderr")
          /\ UNCHANGED <<queueVars, batch, cur, wholeRow, dirs, lost, crashes>>
       \/ /\ "cdxgen" \in Failing
          /\ Goto(d, "exit")
          /\ Throw(d, "timeout")
          /\ UNCHANGED <<queueVars, batch, cur, wholeRow, effects, dirs, lost,
                         crashes>>
       \/ Fail(d, "cdxgen")

\* upload_to_s3 turns a ClientError into False, which the handler ignores.
Upload(d) ==
    /\ pc[d] = "upload"
    /\ \/ /\ Goto(d, "post")
          /\ \/ Achieve(d, {"uploaded"})
             \/ "upload" \in Failing /\ UNCHANGED effects
          /\ UNCHANGED <<queueVars, batch, cur, mem, wholeRow, dirs, lost,
                         crashes>>
       \/ Fail(d, "upload")

\* run_scancodeio: any JSON answer is taken as success, whether or not it
\* created a project; another body is a complaint; in both cases the handler
\* goes on to delete the message.  The request may also raise after the
\* project was created.
PostScancodeio(d) ==
    /\ pc[d] = "post"
    /\ \/ /\ Goto(d, "delete")
          /\ \/ Achieve(d, {"answered", "project"}) /\ UNCHANGED mem
             \/ /\ "post" \in Failing
                /\ Achieve(d, {"answered"})
                /\ UNCHANGED mem \/ Throw(d, "scancodeio")
          /\ UNCHANGED <<queueVars, batch, cur, wholeRow, dirs, lost, crashes>>
       \/ /\ "post" \in Failing
          /\ Raise(d)
          /\ Achieve(d, {"project"})
          /\ UNCHANGED mem
       \/ Fail(d, "post")

\* delete_message(message_metadata["ReceiptHandle"]); when the call raises,
\* SQS may have deleted the message or not.
Delete(d) ==
    /\ pc[d] = "delete"
    /\ \/ /\ stored' \in AfterDelete(cur[d])
          /\ Achieve(d, {"acked"})
          /\ Goto(d, "semgrep")
          /\ UNCHANGED <<received, batch, cur, mem, wholeRow, dirs, lost,
                         crashes>>
       \/ /\ "delete" \in Failing
          /\ stored' \in AfterDelete(cur[d]) \union {stored}
          /\ Goto(d, "raise")
          /\ UNCHANGED <<received, batch, cur, mem, wholeRow, effects, dirs,
                         lost, crashes>>

\* semgrep.run_cicd: a commit that is not mostly Java is passed over without a
\* word.  The message is gone already, so a failure here is only noted on the
\* wasp and never tried again.
Semgrep(d) ==
    /\ pc[d] = "semgrep"
    /\ \/ /\ Goto(d, "exit")
          /\ IF MsgOf(cur[d]) \in Java
             THEN Achieve(d, {"sast"})
             ELSE UNCHANGED effects
          /\ UNCHANGED <<queueVars, batch, cur, mem, wholeRow, dirs, lost,
                         crashes>>
       \/ Fail(d, "semgrep")

\* (mutants) The exception suppressed without a complaint; one of a sort
\* that is no reason of Wasp.throw.
SilentComplaints(d) == mem[d]

UnknownComplaints(d) ==
    mem[d] \union (IF pc[d] = "raise" THEN {"unknown"} ELSE {})

\* What Wasp.__exit__ commits: the complaints in memory, and the exception
\* that ended the body if there was one.
FinalComplaints(d) ==
    mem[d] \union (IF pc[d] = "raise" THEN {"exception"} ELSE {})

\* Wasp.__exit__ up to the commit.
Exit(d) ==
    /\ pc[d] \in {"exit", "raise"}
    /\ complaints' = [complaints EXCEPT ![cur[d]] = FinalComplaints(d)]
    /\ row' = [row EXCEPT ![cur[d]] = "closed"]
    /\ mem' = [mem EXCEPT ![d] = {}]
    /\ Goto(d, "cleanup")
    /\ UNCHANGED <<queueVars, batch, cur, effects, dirs, lost, crashes>>

\* The commit itself raises: the exception leaves the `with`, the directory
\* stays and the complaints are lost.
ExitFails(d) ==
    /\ pc[d] \in {"exit", "raise"}
    /\ "commit" \in Failing
    /\ lost' = lost \union {cur[d]}
    /\ Die(d)
    /\ UNCHANGED <<queueVars, wholeRow, effects, dirs, crashes>>

\* (mutant) The directory left on disk.
CleanupKeepsDir(d) ==
    /\ pc[d] = "cleanup"
    /\ cur' = [cur EXCEPT ![d] = NoReceipt]
    /\ Goto(d, "next")
    /\ UNCHANGED <<queueVars, batch, mem, wholeRow, effects, dirs, lost,
                   crashes>>

\* Wasp.__exit__ after the commit: rmtree; True suppresses the exception and
\* the loop takes the next message.
Cleanup(d) ==
    /\ pc[d] = "cleanup"
    /\ dirs' = dirs \ {cur[d]}
    /\ cur' = [cur EXCEPT ![d] = NoReceipt]
    /\ Goto(d, "next")
    /\ UNCHANGED <<queueVars, batch, mem, wholeRow, effects, lost, crashes>>

\* rmtree raises: the exception leaves the `with`, and the directory, or what
\* is left of it, stays although the wasp is closed.
CleanupFails(d) ==
    /\ pc[d] = "cleanup"
    /\ "cleanup" \in Failing
    /\ lost' = lost \union {cur[d]}
    /\ Die(d)
    /\ UNCHANGED <<queueVars, wholeRow, effects, dirs, crashes>>

-----------------------------------------------------------------------------
(* The environment of the processes.                                       *)

\* The process is killed; a wasp in hand stays as last committed.
Crash(d) ==
    /\ pc[d] # "down"
    /\ crashes < MaxCrashes
    /\ crashes' = crashes + 1
    /\ lost' = lost \union ({cur[d]} \ {NoReceipt})
    /\ Die(d)
    /\ UNCHANGED <<queueVars, wholeRow, effects, dirs>>

\* `libinv daemon` is started again (external: the supervisor or a person).
Restart(d) ==
    /\ pc[d] = "down"
    /\ Goto(d, "poll")
    /\ UNCHANGED <<queueVars, batch, cur, mem, wholeRow, effects, dirs, lost,
                   crashes>>

-----------------------------------------------------------------------------
Stage(d) ==
    \/ Clone(d) \/ BridgeImages(d) \/ Cdxgen(d) \/ Upload(d)
    \/ PostScancodeio(d) \/ Delete(d) \/ Semgrep(d)
    \/ Exit(d) \/ ExitFails(d) \/ Cleanup(d) \/ CleanupFails(d)

Loop(d) ==
    \/ BatchDone(d) \/ Skip(d) \/ Choke(d) \/ Eat(d)
    \/ ImageMessage(d) \/ ImageMessageFails(d)

Next ==
    \/ \E m \in Messages : VisibilityTimeout(m)
    \/ \E d \in Daemons :
        Poll(d) \/ Loop(d) \/ Stage(d) \/ Crash(d) \/ Restart(d)

Spec == Init /\ [][Next]_vars

\* Every call a process makes returns in the end (the operating system
\* schedules the process; git, cdxgen, S3, ScanCode.io, semgrep and the
\* database answer), and SQS keeps its visibility timeout.  Nothing is
\* assumed of the outcome, of crashes or of restarts.
Fairness ==
    /\ \A d \in Daemons : WF_vars(Poll(d) \/ Loop(d) \/ Stage(d))
    /\ \A m \in Messages : WF_vars(VisibilityTimeout(m))

FairSpec == Spec /\ Fairness

-----------------------------------------------------------------------------
(* Properties.                                                             *)

\* Two processes never work on, or hold, the same receipt, so no attempt has
\* its wasp row or project directory written by two processes: a second
\* delivery of a message starts an attempt of its own.
OneProcessPerReceipt ==
    \A d1, d2 \in Daemons : d1 # d2 =>
        /\ cur[d1] # NoReceipt => cur[d1] # cur[d2]
        /\ cur[d1] \notin batch[d2]
        /\ batch[d1] \intersect batch[d2] = {}

HandedOver(r) ==
    \/ {"bridged", "sbom", "answered"} \subseteq effects[r]
    \/ "scanned" \in effects[r]

\* A message is gone from the queue only when some attempt at it took it all
\* the way: images bridged, SBOM made and an answer of ScanCode.io received
\* (legacy: image scanned).  Only an unusable legacy message is dropped.
DeletedWasHandedOver ==
    \A m \in Messages : stored[m] = "deleted" =>
        \/ Kind[m] = "badImage"
        \/ \E r \in Receipts : MsgOf(r) = m /\ HandedOver(r)

\* A finished wasp without a complaint stands for a complete attempt: images
\* bridged, SBOM made, ScanCode.io's answer received, and the SAST scan run if
\* the commit is Java, the only language it is meant for.  Its message is gone
\* for good, unless it was delivered again before the attempt could delete
\* it.  So any other stage that is skipped leaves a complaint.
CleanWaspIsComplete ==
    \A r \in Receipts : row[r] = "closed" /\ AteSuccessfully(r) =>
        /\ {"bridged", "sbom", "answered", "acked"} \subseteq effects[r]
        /\ MsgOf(r) \in Java => "sast" \in effects[r]
        /\ stored[MsgOf(r)] = "deleted" \/ Overtaken(r)

\* A wasp still open, or its project directory still on disk, means that a
\* process is working on it or died doing so: no failure inside the `with`
\* leaves either behind.
LeftoversOnlyAfterDeath ==
    \A r \in Receipts : row[r] = "eaten" \/ r \in dirs =>
        r \in lost \/ \E d \in Daemons : cur[d] = r

\* What __exit__ committed is the last word on a wasp: neither a later
\* delivery nor another process changes a closed row.
ClosedRowsAreFinal ==
    [][\A r \in Receipts : row[r] = "closed" =>
           row'[r] = "closed" /\ complaints'[r] = complaints[r]]_vars

\* Every attempt comes to an end: its wasp is closed or its process died.
AttemptsEnd ==
    \A r \in Receipts :
        row[r] = "eaten" ~> (row[r] = "closed" \/ r \in lost)

\* A complete Bridge message is deleted in the end, unless a process died, an
\* attempt at the message left a complaint, or an attempt asked for the deletion
\* with a receipt that a new delivery had overtaken, which SQS may ignore.  The
\* first attempt that gets as far as the deletion decides, so this does not
\* depend on MaxReceives; that a message delivered again and again during every
\* attempt is ever deleted, nothing promises.
BridgeMessagesAreDeleted ==
    \A m \in Messages : Kind[m] = "bridge" =>
        <>(\/ stored[m] = "deleted"
           \/ \E d \in Daemons : pc[d] = "down"
           \/ \E r \in Receipts :
                 /\ MsgOf(r) = m
                 /\ \/ ~AteSuccessfully(r)
                    \/ "acked" \in effects[r] /\ Overtaken(r))

\* README.rst: "repository.tag: Git tag or branch name (optional)".  A
\* message without the tag does not end the process that takes it.
TagIsOptional ==
    [][\A d \in Daemons :
          (\E r \in batch[d] : KindOf(r) = "noTag") /\ pc[d] = "next"
              => pc'[d] # "down"]_vars

-----------------------------------------------------------------------------
(* Daemon implements Delivery: a message is handed over once some attempt  *)
(* got an answer of ScanCode.io for it, and settled once it is deleted.    *)

Promise == INSTANCE Delivery WITH
    Messages <- Messages,
    Dropped <- {m \in Messages : Kind[m] = "badImage"},
    handed <- {m \in Messages :
                  \E r \in Receipts : MsgOf(r) = m /\ HandedOver(r)},
    settled <- {m \in Messages : stored[m] = "deleted"}

DeliverySpec == Promise!DSpec
=============================================================================
