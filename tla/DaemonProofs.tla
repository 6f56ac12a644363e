---------------------------- MODULE DaemonProofs ----------------------------
(***************************************************************************)
(* Proofs about Daemon for any daemons, messages, bounds and failures.     *)
(***************************************************************************)
EXTENDS Daemon, TLAPS

USE DEF Goto, Throw, Achieve, queueVars, wholeRow

-----------------------------------------------------------------------------
(* Type correctness.                                                       *)

LEMMA ReceiptParts ==
    ASSUME NEW r \in Receipts
    PROVE  MsgOf(r) \in Messages /\ r[2] \in 1 .. MaxReceives
BY DEF Receipts, MsgOf

LEMMA AfterDeleteType ==
    ASSUME TypeOK, NEW r \in Receipts, NEW s \in AfterDelete(r) \union {stored}
    PROVE  s \in [Messages -> {"visible", "inflight", "deleted"}]
BY ReceiptParts DEF TypeOK, AfterDelete

LEMMA DieType ==
    ASSUME TypeOK, NEW d \in Daemons, Die(d)
    PROVE  /\ pc' \in [Daemons -> PCs]
           /\ batch' \in [Daemons -> SUBSET Receipts]
           /\ cur' \in [Daemons -> Receipts \union {NoReceipt}]
           /\ mem' \in [Daemons -> SUBSET Reasons]
BY DEF TypeOK, Die, PCs

\* The daemon has a receipt in hand while it is inside the `with`.
Working == PCs \ {"poll", "next", "down"}

HasReceipt == \A d \in Daemons : pc[d] \in Working => cur[d] \in Receipts

TInv == TypeOK /\ HasReceipt
LEMMA TInvInit == Init => TInv
BY DaemonAssumption DEF Init, TInv, TypeOK, HasReceipt, Working, PCs

LEMMA TInvStep == TInv /\ [Next]_vars => TInv'
<1> SUFFICES ASSUME TInv, [Next]_vars
             PROVE  TInv'
  OBVIOUS
<1> USE DaemonAssumption DEF TInv
<1>1. ASSUME NEW m \in Messages, VisibilityTimeout(m)
      PROVE  TInv'
  BY <1>1 DEF VisibilityTimeout, TypeOK, HasReceipt
<1>2. CASE UNCHANGED vars
  BY <1>2 DEF vars, TypeOK, HasReceipt
<1>3. ASSUME NEW d \in Daemons, Poll(d)
      PROVE  TInv'
  BY <1>3 DEF Poll, NewReceipt, TypeOK, HasReceipt, Working, PCs, Receipts, NoReceipt
<1>4. ASSUME NEW d \in Daemons, BatchDone(d)
      PROVE  TInv'
  BY <1>4 DEF BatchDone, TypeOK, HasReceipt, Working, PCs
<1>5. ASSUME NEW d \in Daemons, Skip(d)
      PROVE  TInv'
  BY <1>5 DEF Skip, TypeOK, HasReceipt, Working, PCs
<1>6. ASSUME NEW d \in Daemons, Choke(d)
      PROVE  TInv'
  BY <1>6, DieType DEF Choke, TypeOK, HasReceipt, Working, PCs, Die
<1>7. ASSUME NEW d \in Daemons, Eat(d)
      PROVE  TInv'
  BY <1>7 DEF Eat, TypeOK, HasReceipt, Working, PCs
<1>8. ASSUME NEW d \in Daemons, ImageMessage(d)
      PROVE  TInv'
  BY <1>8, AfterDeleteType DEF ImageMessage, TypeOK, HasReceipt, Working, PCs, Effects
<1>9. ASSUME NEW d \in Daemons, ImageMessageFails(d)
      PROVE  TInv'
  BY <1>9, AfterDeleteType, DieType DEF ImageMessageFails, TypeOK, HasReceipt, Working, PCs, Effects, Die
<1>10. ASSUME NEW d \in Daemons, Clone(d)
      PROVE  TInv'
  BY <1>10 DEF Clone, TypeOK, HasReceipt, Working, PCs, Reasons
<1>11. ASSUME NEW d \in Daemons, BridgeImages(d)
      PROVE  TInv'
  BY <1>11 DEF BridgeImages, TypeOK, HasReceipt, Working, PCs, Raise, Fail, Effects
<1>12. ASSUME NEW d \in Daemons, Cdxgen(d)
      PROVE  TInv'
  BY <1>12 DEF Cdxgen, TypeOK, HasReceipt, Working, PCs, Raise, Fail, Effects, Reasons
<1>13. ASSUME NEW d \in Daemons, Upload(d)
      PROVE  TInv'
  BY <1>13 DEF Upload, TypeOK, HasReceipt, Working, PCs, Raise, Fail, Effects
<1>14. ASSUME NEW d \in Daemons, PostScancodeio(d)
      PROVE  TInv'
  BY <1>14 DEF PostScancodeio, TypeOK, HasReceipt, Working, PCs, Raise, Fail, Effects, Reasons
<1>15. ASSUME NEW d \in Daemons, Delete(d)
      PROVE  TInv'
  BY <1>15, AfterDeleteType DEF Delete, TypeOK, HasReceipt, Working, PCs, Raise, Fail, Effects
<1>16. ASSUME NEW d \in Daemons, Semgrep(d)
      PROVE  TInv'
  BY <1>16 DEF Semgrep, TypeOK, HasReceipt, Working, PCs, Raise, Fail, Effects
<1>17. ASSUME NEW d \in Daemons, Exit(d)
      PROVE  TInv'
  BY <1>17 DEF Exit, TypeOK, HasReceipt, Working, PCs, FinalComplaints, Reasons
<1>18. ASSUME NEW d \in Daemons, ExitFails(d)
      PROVE  TInv'
  BY <1>18, DieType DEF ExitFails, TypeOK, HasReceipt, Working, PCs, Die
<1>19. ASSUME NEW d \in Daemons, Cleanup(d)
      PROVE  TInv'
  BY <1>19 DEF Cleanup, TypeOK, HasReceipt, Working, PCs
<1>20. ASSUME NEW d \in Daemons, CleanupFails(d)
      PROVE  TInv'
  BY <1>20, DieType DEF CleanupFails, TypeOK, HasReceipt, Working, PCs, Die
<1>21. ASSUME NEW d \in Daemons, Crash(d)
      PROVE  TInv'
  BY <1>21, DieType DEF Crash, TypeOK, HasReceipt, Working, PCs, Die
<1>22. ASSUME NEW d \in Daemons, Restart(d)
      PROVE  TInv'
  BY <1>22 DEF Restart, TypeOK, HasReceipt, Working, PCs
<1>23. QED
  BY <1>1, <1>2, <1>3, <1>4, <1>5, <1>6, <1>7, <1>8, <1>9, <1>10, <1>11, <1>12, <1>13, <1>14, <1>15, <1>16, <1>17, <1>18, <1>19, <1>20, <1>21, <1>22 DEF Next, Loop, Stage

\* Every reachable state is well typed, and a process inside the `with` has
\* the receipt of a real delivery in hand.
THEOREM TypeCorrect == Spec => []TypeOK
<1>1. Spec => []TInv
  BY TInvInit, TInvStep, PTL DEF Spec
<1>2. TInv => TypeOK
  BY DEF TInv
<1>3. QED
  BY <1>1, <1>2, PTL

-----------------------------------------------------------------------------
(* Messages are deleted only after a complete attempt; clean wasps are complete. *)

\* What the attempt in hand has got done, by where its process is.
StageReached ==
    \A d \in Daemons :
        /\ pc[d] \in {"cdxgen", "upload", "post", "delete", "semgrep"}
               => "bridged" \in effects[cur[d]]
        /\ pc[d] \in {"upload", "post", "delete", "semgrep"}
               => "sbom" \in effects[cur[d]]
        /\ pc[d] \in {"delete", "semgrep"} => "answered" \in effects[cur[d]]
        /\ pc[d] = "semgrep" => "acked" \in effects[cur[d]]

\* The body is left without an exception either complete or with a complaint.
NormalExitIsAccounted ==
    \A d \in Daemons : pc[d] = "exit" /\ mem[d] = {} =>
        /\ {"bridged", "sbom", "answered", "acked"} \subseteq effects[cur[d]]
        /\ MsgOf(cur[d]) \in Java => "sast" \in effects[cur[d]]

\* A deletion that SQS accepted is for good, but for an overtaken receipt.
Gone(r) == stored[MsgOf(r)] = "deleted" \/ Overtaken(r)

AckedIsGone == \A r \in Receipts : "acked" \in effects[r] => Gone(r)

SInv ==
    /\ TInv
    /\ StageReached
    /\ NormalExitIsAccounted
    /\ DeletedWasHandedOver
    /\ AckedIsGone
    /\ CleanWaspIsComplete

\* Nothing an attempt has done is ever undone.
LEMMA EffectsGrow ==
    ASSUME TInv, [Next]_vars, NEW r \in Receipts
    PROVE  effects[r] \subseteq effects'[r]
<1> USE DEF TInv
<1>1. ASSUME NEW m \in Messages, VisibilityTimeout(m)
      PROVE  effects[r] \subseteq effects'[r]
  BY <1>1 DEF VisibilityTimeout, TypeOK
<1>2. CASE UNCHANGED vars
  BY <1>2 DEF vars, TypeOK
<1>3. ASSUME NEW d \in Daemons,
             \/ Poll(d) \/ BatchDone(d) \/ Skip(d) \/ Choke(d) \/ Eat(d)
             \/ Clone(d) \/ Exit(d) \/ ExitFails(d) \/ CleanupFails(d)
             \/ Cleanup(d)
             \/ Crash(d) \/ Restart(d)
      PROVE  effects[r] \subseteq effects'[r]
  BY <1>3 DEF Poll, NewReceipt, TypeOK, BatchDone, Skip, Choke, Die, Eat,
     Clone, Exit, FinalComplaints, ExitFails, CleanupFails, Cleanup, Crash,
     Restart
<1>4. ASSUME NEW d \in Daemons, ImageMessage(d)
      PROVE  effects[r] \subseteq effects'[r]
  BY <1>4 DEF ImageMessage, TypeOK
<1>5. ASSUME NEW d \in Daemons, ImageMessageFails(d)
      PROVE  effects[r] \subseteq effects'[r]
  BY <1>5 DEF ImageMessageFails, Die, TypeOK
<1>6. ASSUME NEW d \in Daemons, BridgeImages(d)
      PROVE  effects[r] \subseteq effects'[r]
  BY <1>6 DEF BridgeImages, Raise, Fail, TypeOK
<1>7. ASSUME NEW d \in Daemons, Cdxgen(d)
      PROVE  effects[r] \subseteq effects'[r]
  BY <1>7 DEF Cdxgen, Raise, Fail, TypeOK
<1>8. ASSUME NEW d \in Daemons, Upload(d)
      PROVE  effects[r] \subseteq effects'[r]
  BY <1>8 DEF Upload, Raise, Fail, TypeOK
<1>9. ASSUME NEW d \in Daemons, PostScancodeio(d)
      PROVE  effects[r] \subseteq effects'[r]
  BY <1>9 DEF PostScancodeio, Raise, Fail, TypeOK
<1>10. ASSUME NEW d \in Daemons, Delete(d)
      PROVE  effects[r] \subseteq effects'[r]
  BY <1>10 DEF Delete, Raise, Fail, TypeOK
<1>11. ASSUME NEW d \in Daemons, Semgrep(d)
      PROVE  effects[r] \subseteq effects'[r]
  BY <1>11 DEF Semgrep, Raise, Fail, TypeOK
<1>12. QED
  BY <1>1, <1>2, <1>3, <1>4, <1>5, <1>6, <1>7, <1>8, <1>9, <1>10, <1>11 DEF Next, Loop, Stage

LEMMA HandedOverStays ==
    ASSUME TInv, [Next]_vars, NEW r \in Receipts, HandedOver(r)
    PROVE  HandedOver(r)'
BY EffectsGrow DEF HandedOver

LEMMA StageReachedStep ==
    ASSUME SInv, [Next]_vars
    PROVE  StageReached'
<1> USE EffectsGrow DEF SInv, TInv, HasReceipt, Working, PCs
<1>1. ASSUME NEW m \in Messages, VisibilityTimeout(m)
      PROVE  StageReached'
  BY <1>1 DEF VisibilityTimeout, TypeOK, StageReached
<1>2. CASE UNCHANGED vars
  BY <1>2 DEF vars, TypeOK, StageReached
<1>3. ASSUME NEW d \in Daemons,
             \/ Poll(d) \/ BatchDone(d) \/ Skip(d) \/ Choke(d) \/ Eat(d)
             \/ ImageMessage(d) \/ ImageMessageFails(d) \/ Clone(d)
             \/ Exit(d) \/ ExitFails(d) \/ CleanupFails(d) \/ Cleanup(d)
             \/ Crash(d)
             \/ Restart(d)
      PROVE  StageReached'
  BY <1>3 DEF Poll, NewReceipt, TypeOK, StageReached, BatchDone, Skip,
     Choke, Die, Eat, ImageMessage, ImageMessageFails, Clone, Exit,
     FinalComplaints, ExitFails, CleanupFails, Cleanup, Crash, Restart
<1>4. ASSUME NEW d \in Daemons, BridgeImages(d)
      PROVE  StageReached'
  BY <1>4 DEF BridgeImages, Raise, Fail, TypeOK, StageReached
<1>5. ASSUME NEW d \in Daemons, Cdxgen(d)
      PROVE  StageReached'
  BY <1>5 DEF Cdxgen, Raise, Fail, TypeOK, StageReached
<1>6. ASSUME NEW d \in Daemons, Upload(d)
      PROVE  StageReached'
  BY <1>6 DEF Upload, Raise, Fail, TypeOK, StageReached
<1>7. ASSUME NEW d \in Daemons, PostScancodeio(d)
      PROVE  StageReached'
  BY <1>7 DEF PostScancodeio, Raise, Fail, TypeOK, StageReached
<1>8. ASSUME NEW d \in Daemons, Delete(d)
      PROVE  StageReached'
  BY <1>8 DEF Delete, Raise, Fail, TypeOK, StageReached
<1>9. ASSUME NEW d \in Daemons, Semgrep(d)
      PROVE  StageReached'
  BY <1>9 DEF Semgrep, Raise, Fail, TypeOK, StageReached
<1>10. QED
  BY <1>1, <1>2, <1>3, <1>4, <1>5, <1>6, <1>7, <1>8, <1>9 DEF Next, Loop, Stage

LEMMA NormalExitStep ==
    ASSUME SInv, [Next]_vars
    PROVE  NormalExitIsAccounted'
<1> USE EffectsGrow DEF SInv, TInv, HasReceipt, Working, PCs
<1>1. ASSUME NEW m \in Messages, VisibilityTimeout(m)
      PROVE  NormalExitIsAccounted'
  BY <1>1 DEF VisibilityTimeout, TypeOK, NormalExitIsAccounted
<1>2. CASE UNCHANGED vars
  BY <1>2 DEF vars, TypeOK, NormalExitIsAccounted
<1>3. ASSUME NEW d \in Daemons,
             \/ Poll(d) \/ BatchDone(d) \/ Skip(d) \/ Choke(d) \/ Eat(d)
             \/ ImageMessage(d) \/ ImageMessageFails(d) \/ Clone(d)
             \/ BridgeImages(d) \/ Upload(d) \/ PostScancodeio(d)
             \/ Delete(d) \/ Exit(d) \/ ExitFails(d) \/ CleanupFails(d)
             \/ Cleanup(d)
             \/ Crash(d) \/ Restart(d)
      PROVE  NormalExitIsAccounted'
  BY <1>3 DEF Poll, NewReceipt, TypeOK, NormalExitIsAccounted, BatchDone,
     Skip, Choke, Die, Eat, ImageMessage, ImageMessageFails, Clone,
     BridgeImages, Raise, Fail, Upload, PostScancodeio, Delete, Exit,
     FinalComplaints, ExitFails, CleanupFails, Cleanup, Crash, Restart
<1>4. ASSUME NEW d \in Daemons, Cdxgen(d)
      PROVE  NormalExitIsAccounted'
  <2>1. TypeOK
    OBVIOUS
  <2>2. pc'[d] = "exit" => "timeout" \in mem'[d]
    BY ONLY <1>4, <2>1 DEF Cdxgen, Raise, Fail, TypeOK
  <2>3. \A e \in Daemons \ {d} : pc'[e] = pc[e] /\ mem'[e] = mem[e]
    BY ONLY <1>4, <2>1 DEF Cdxgen, Raise, Fail, TypeOK
  <2>4. UNCHANGED cur
    BY ONLY <1>4 DEF Cdxgen, Raise, Fail
  <2>5. ASSUME NEW e \in Daemons, pc'[e] = "exit", mem'[e] = {}
        PROVE  pc[e] = "exit" /\ mem[e] = {} /\ cur'[e] = cur[e] /\ e # d
    BY ONLY <2>5, <2>2, <2>3, <2>4
  <2>6. ASSUME NEW e \in Daemons, pc[e] = "exit"
        PROVE  effects[cur[e]] \subseteq effects'[cur[e]]
    BY <2>6, EffectsGrow
  <2>7. QED
    BY <2>5, <2>6 DEF NormalExitIsAccounted
<1>5. ASSUME NEW d \in Daemons, Semgrep(d)
      PROVE  NormalExitIsAccounted'
  BY <1>5 DEF Semgrep, Raise, Fail, TypeOK, NormalExitIsAccounted, StageReached
<1>6. QED
  BY <1>1, <1>2, <1>3, <1>4, <1>5 DEF Next, Loop, Stage

\* The two steps that delete a message do it for an attempt that is done.
LEMMA DeletedStep ==
    ASSUME SInv, [Next]_vars
    PROVE  DeletedWasHandedOver'
<1> USE HandedOverStays, DaemonAssumption
    DEF SInv, TInv, HasReceipt, Working, PCs
<1>1. ASSUME NEW m \in Messages, VisibilityTimeout(m)
      PROVE  DeletedWasHandedOver'
  BY <1>1 DEF VisibilityTimeout, TypeOK, DeletedWasHandedOver
<1>2. CASE UNCHANGED vars
  BY <1>2 DEF vars, TypeOK, DeletedWasHandedOver
<1>3. ASSUME NEW d \in Daemons,
             \/ Poll(d) \/ BatchDone(d) \/ Skip(d) \/ Choke(d) \/ Eat(d)
             \/ Clone(d) \/ BridgeImages(d) \/ Cdxgen(d) \/ Upload(d)
             \/ PostScancodeio(d) \/ Semgrep(d) \/ Exit(d) \/ ExitFails(d)
             \/ CleanupFails(d)
             \/ Cleanup(d) \/ Crash(d) \/ Restart(d)
      PROVE  DeletedWasHandedOver'
  BY <1>3 DEF Poll, NewReceipt, TypeOK, DeletedWasHandedOver, BatchDone,
     Skip, Choke, Die, Eat, Clone, BridgeImages, Raise, Fail, Cdxgen, Upload,
     PostScancodeio, Semgrep, Exit, FinalComplaints, ExitFails, CleanupFails,
     Cleanup,
     Crash, Restart
<1>4. ASSUME NEW d \in Daemons, ImageMessage(d)
      PROVE  DeletedWasHandedOver'
  BY <1>4, ReceiptParts DEF ImageMessage, TypeOK, DeletedWasHandedOver, AfterDelete, HandedOver, KindOf, ImageKinds
<1>5. ASSUME NEW d \in Daemons, ImageMessageFails(d)
      PROVE  DeletedWasHandedOver'
  BY <1>5, ReceiptParts DEF ImageMessageFails, Die, TypeOK, DeletedWasHandedOver, AfterDelete, HandedOver, KindOf, ImageKinds
<1>6. ASSUME NEW d \in Daemons, Delete(d)
      PROVE  DeletedWasHandedOver'
  BY <1>6, ReceiptParts DEF Delete, Raise, Fail, TypeOK, DeletedWasHandedOver, AfterDelete, StageReached, HandedOver
<1>7. QED
  BY <1>1, <1>2, <1>3, <1>4, <1>5, <1>6 DEF Next, Loop, Stage

\* A message that is deleted stays so, and no delivery is taken back.
LEMMA GoneStays ==
    ASSUME TInv, [Next]_vars, NEW r \in Receipts, Gone(r)
    PROVE  Gone(r)'
<1> USE ReceiptParts, DaemonAssumption DEF TInv, Gone, Overtaken
<1>1. ASSUME NEW m \in Messages, VisibilityTimeout(m)
      PROVE  Gone(r)'
  BY <1>1 DEF VisibilityTimeout, TypeOK
<1>2. CASE UNCHANGED <<stored, received>>
  BY <1>2
<1>3. ASSUME NEW d \in Daemons, Poll(d)
      PROVE  Gone(r)'
  <2>1. /\ received'[MsgOf(r)] >= received[MsgOf(r)]
        /\ received[MsgOf(r)] \in Nat /\ received'[MsgOf(r)] \in Nat
    BY <1>3 DEF Poll, TypeOK
  <2>2. stored[MsgOf(r)] = "deleted" => stored'[MsgOf(r)] = "deleted"
    BY <1>3 DEF Poll, TypeOK
  <2>3. r[2] \in Nat
    BY ReceiptParts
  <2>4. QED
    BY <2>1, <2>2, <2>3
<1>4. ASSUME NEW d \in Daemons,
             Delete(d) \/ ImageMessage(d) \/ ImageMessageFails(d)
      PROVE  Gone(r)'
  <2>1. PICK q : stored' \in AfterDelete(q) \union {stored}
    BY <1>4 DEF Delete, ImageMessage, ImageMessageFails
  <2>2. UNCHANGED received
    BY <1>4 DEF Delete, ImageMessage, ImageMessageFails
  <2>3. stored' = stored \/ stored' = [stored EXCEPT ![MsgOf(q)] = "deleted"]
    BY <2>1 DEF AfterDelete
  <2>4. QED
    BY <2>2, <2>3 DEF TypeOK
<1>5. ASSUME NEW d \in Daemons,
             \/ BatchDone(d) \/ Skip(d) \/ Choke(d) \/ Eat(d)
             \/ Clone(d) \/ BridgeImages(d) \/ Cdxgen(d) \/ Upload(d)
             \/ PostScancodeio(d) \/ Semgrep(d) \/ Exit(d) \/ ExitFails(d)
             \/ Cleanup(d) \/ CleanupFails(d) \/ Crash(d) \/ Restart(d)
      PROVE  Gone(r)'
  BY <1>2, <1>5 DEF BatchDone, Skip, Choke, Eat, Clone, BridgeImages, Raise,
     Fail, Cdxgen, Upload, PostScancodeio, Semgrep, Exit, ExitFails, Cleanup,
     CleanupFails, Crash, Restart
<1>6. QED
  BY <1>1, <1>2, <1>3, <1>4, <1>5 DEF Next, Loop, Stage, vars

\* SQS accepts the deletion of an attempt's own message.
LEMMA DeletedIsGone ==
    ASSUME TInv, NEW r \in Receipts, stored' \in AfterDelete(r),
           UNCHANGED received
    PROVE  Gone(r)'
BY ReceiptParts DEF AfterDelete, Gone, Overtaken, TInv, TypeOK

\* Only the steps that delete acknowledge, each its own message.
LEMMA AckedStep ==
    ASSUME SInv, [Next]_vars
    PROVE  AckedIsGone'
<1> USE DEF SInv, TInv, HasReceipt, Working, PCs
<1> SUFFICES ASSUME NEW r \in Receipts, "acked" \in effects'[r]
             PROVE  Gone(r)'
  BY DEF AckedIsGone
<1>1. CASE "acked" \in effects[r]
  BY <1>1, GoneStays DEF AckedIsGone
<1>2. CASE "acked" \notin effects[r]
  <2>1. ASSUME NEW d \in Daemons, Delete(d)
        PROVE  Gone(r)'
    <3>1. r = cur[d] /\ stored' \in AfterDelete(r) /\ UNCHANGED received
      BY <1>2, <2>1 DEF Delete, TypeOK
    <3>2. QED
      BY <3>1, DeletedIsGone
  <2>2. ASSUME NEW d \in Daemons, ImageMessage(d)
        PROVE  Gone(r)'
    <3>1. stored' \in AfterDelete(r) /\ UNCHANGED received
      BY <1>2, <2>2 DEF ImageMessage, TypeOK
    <3>2. QED
      BY <3>1, DeletedIsGone
  <2>3. ASSUME NEW d \in Daemons,
               \/ BridgeImages(d) \/ Cdxgen(d) \/ Upload(d)
               \/ PostScancodeio(d) \/ Semgrep(d) \/ ImageMessageFails(d)
        PROVE  FALSE
    BY <1>2, <2>3 DEF BridgeImages, Raise, Fail, Cdxgen, Upload,
       PostScancodeio, Semgrep, ImageMessageFails, TypeOK
  <2>4. effects' # effects
    BY <1>2
  <2>5. QED
    BY <2>1, <2>2, <2>3, <2>4
       DEF Next, Loop, Stage, vars, VisibilityTimeout, Poll, BatchDone, Skip,
           Choke, Eat, Clone, Exit, ExitFails, Cleanup, CleanupFails, Crash,
           Restart
<1>3. QED
  BY <1>1, <1>2

\* Only __exit__ closes a wasp, and of a closed one nothing is taken away.
LEMMA CleanStep ==
    ASSUME SInv, AckedIsGone', [Next]_vars
    PROVE  CleanWaspIsComplete'
<1> USE DEF SInv, TInv, HasReceipt, Working, PCs
<1> DEFINE Done(done, r) ==
             /\ {"bridged", "sbom", "answered", "acked"} \subseteq done
             /\ MsgOf(r) \in Java => "sast" \in done
<1> SUFFICES ASSUME NEW r \in Receipts, row'[r] = "closed", complaints'[r] = {}
             PROVE  Done(effects'[r], r)
  BY DEF AckedIsGone, Gone, CleanWaspIsComplete, AteSuccessfully
<1>1. effects[r] \subseteq effects'[r]
  BY EffectsGrow
<1>2. Done(effects[r], r) => Done(effects'[r], r)
  BY <1>1
<1>3. CASE row[r] = "closed" /\ complaints[r] = {}
  BY <1>2, <1>3 DEF CleanWaspIsComplete, AteSuccessfully
<1>4. CASE ~(row[r] = "closed" /\ complaints[r] = {})
  <2>1. ASSUME NEW d \in Daemons, Exit(d)
        PROVE  Done(effects[r], r)
    <3>1. cur[d] \in Receipts
      BY <2>1 DEF Exit, TypeOK
    <3>2. r = cur[d] /\ complaints'[r] = FinalComplaints(d)
      BY <1>4, <2>1, <3>1 DEF Exit, TypeOK
    <3>3. pc[d] = "exit" /\ mem[d] = {}
      BY <2>1, <3>2 DEF Exit, FinalComplaints
    <3>4. QED
      BY <3>2, <3>3 DEF NormalExitIsAccounted
  <2>2. ASSUME NEW d \in Daemons, Eat(d)
        PROVE  FALSE
    BY <1>4, <2>2 DEF Eat, TypeOK
  <2>3. ~UNCHANGED wholeRow
    BY <1>4
  <2>4. QED
    BY <1>2, <2>1, <2>2, <2>3
       DEF Next, Loop, Stage, vars, VisibilityTimeout, Poll, BatchDone, Skip,
           Choke, ImageMessage, ImageMessageFails, Clone, BridgeImages, Raise,
           Fail, Cdxgen, Upload, PostScancodeio, Delete, Semgrep, ExitFails,
           Cleanup, CleanupFails, Crash, Restart
<1>5. QED
  BY <1>3, <1>4

LEMMA SInvInit == Init => SInv
<1> SUFFICES ASSUME Init PROVE SInv
  OBVIOUS
<1>1. TInv
  BY TInvInit
<1>2. StageReached /\ NormalExitIsAccounted
  BY DEF Init, StageReached, NormalExitIsAccounted
<1>3. DeletedWasHandedOver /\ AckedIsGone /\ CleanWaspIsComplete
  BY DEF Init, DeletedWasHandedOver, AckedIsGone, CleanWaspIsComplete
<1>4. QED
  BY <1>1, <1>2, <1>3 DEF SInv

LEMMA SInvStep == SInv /\ [Next]_vars => SInv'
BY TInvStep, StageReachedStep, NormalExitStep, DeletedStep, AckedStep,
   CleanStep DEF SInv

LEMMA SInvAlways == Spec => []SInv
BY SInvInit, SInvStep, PTL DEF Spec

\* A message leaves the queue only after some attempt bridged its images,
\* made its SBOM and had an answer of ScanCode.io (or scanned its image),
\* however deliveries, failures and crashes interleave.
THEOREM DeletedOnlyWhenHandedOver == Spec => []DeletedWasHandedOver
<1>1. SInv => DeletedWasHandedOver
  BY DEF SInv
<1>2. QED
  BY <1>1, SInvAlways, PTL

\* A closed wasp that says it ate successfully was carried through every
\* stage, SAST included if its commit is Java, and its message is deleted, or
\* was delivered again before this attempt asked for that.
THEOREM CleanWaspsAreComplete == Spec => []CleanWaspIsComplete
<1>1. SInv => CleanWaspIsComplete
  BY DEF SInv
<1>2. QED
  BY <1>1, SInvAlways, PTL
-----------------------------------------------------------------------------
(* Receipts belong to one process; closed rows are final; nothing is left behind. *)

Issued(r) == r[2] <= received[MsgOf(r)]

\* A receipt waiting in a batch is one SQS has issued, and nothing has been
\* done for it yet.
BatchIsFresh ==
    \A d \in Daemons : \A r \in batch[d] :
        Issued(r) /\ row[r] = "absent" /\ r \notin dirs

\* The receipt in hand, by where its process is.
CurIsOpen ==
    \A d \in Daemons :
        /\ pc[d] \notin Working => cur[d] = NoReceipt
        /\ cur[d] # NoReceipt =>
              Issued(cur[d]) /\ cur[d] \notin batch[d]
        /\ pc[d] \in Working =>
              row[cur[d]] = IF pc[d] = "cleanup" THEN "closed" ELSE "eaten"

\* Only issued receipts have left traces, so the next one is fresh.
TracesAreIssued ==
    \A r \in Receipts : row[r] # "absent" \/ r \in dirs => Issued(r)

OInv ==
    /\ TInv
    /\ BatchIsFresh
    /\ CurIsOpen
    /\ TracesAreIssued
    /\ OneProcessPerReceipt
    /\ LeftoversOnlyAfterDeath

LEMMA NoReceiptIsNone == NoReceipt \notin Receipts
BY DEF NoReceipt, Receipts

LEMMA IssuedStays ==
    ASSUME TInv, [Next]_vars, NEW r \in Receipts, Issued(r)
    PROVE  Issued(r)'
<1> USE ReceiptParts, DaemonAssumption DEF TInv
<1>1. ASSUME NEW m \in Messages, VisibilityTimeout(m)
      PROVE  Issued(r)'
  BY <1>1 DEF VisibilityTimeout, TypeOK, Issued
<1>2. CASE UNCHANGED vars
  BY <1>2 DEF vars, TypeOK, Issued
<1>3. ASSUME NEW d \in Daemons,
             \/ BatchDone(d) \/ Skip(d) \/ Choke(d) \/ Eat(d)
             \/ ImageMessage(d) \/ ImageMessageFails(d) \/ Clone(d)
             \/ BridgeImages(d) \/ Cdxgen(d) \/ Upload(d)
             \/ PostScancodeio(d) \/ Delete(d) \/ Semgrep(d) \/ Exit(d)
             \/ ExitFails(d) \/ CleanupFails(d) \/ Cleanup(d) \/ Crash(d)
             \/ Restart(d)
      PROVE  Issued(r)'
  BY <1>3 DEF BatchDone, TypeOK, Issued, Skip, Choke, Die, Eat,
     ImageMessage, ImageMessageFails, Clone, BridgeImages, Raise, Fail,
     Cdxgen, Upload, PostScancodeio, Delete, Semgrep, Exit, FinalComplaints,
     ExitFails, CleanupFails, Cleanup, Crash, Restart
<1>4. ASSUME NEW d \in Daemons, Poll(d)
      PROVE  Issued(r)'
  BY <1>4 DEF Poll, NewReceipt, TypeOK, Issued
<1>5. QED
  BY <1>1, <1>2, <1>3, <1>4 DEF Next, Loop, Stage

LEMMA BatchFreshStep ==
    ASSUME OInv, [Next]_vars
    PROVE  BatchIsFresh'
<1> USE IssuedStays, NoReceiptIsNone, ReceiptParts, DaemonAssumption
    DEF OInv, TInv, HasReceipt, Working, PCs
<1>1. ASSUME NEW m \in Messages, VisibilityTimeout(m)
      PROVE  BatchIsFresh'
  BY <1>1 DEF VisibilityTimeout, TypeOK, OneProcessPerReceipt, CurIsOpen, BatchIsFresh
<1>2. CASE UNCHANGED vars
  BY <1>2 DEF vars, TypeOK, OneProcessPerReceipt, CurIsOpen, BatchIsFresh
<1>0. ASSUME UNCHANGED <<received, row>>, dirs' \subseteq dirs,
             \A d \in Daemons : batch'[d] \subseteq batch[d]
      PROVE  BatchIsFresh'
  BY <1>0 DEF BatchIsFresh, Issued
<1>3. ASSUME NEW d \in Daemons,
             \/ BatchDone(d) \/ Skip(d) \/ Choke(d) \/ ImageMessage(d)
             \/ ImageMessageFails(d) \/ BridgeImages(d) \/ Cdxgen(d)
             \/ Upload(d) \/ PostScancodeio(d) \/ Delete(d) \/ Semgrep(d)
             \/ ExitFails(d) \/ CleanupFails(d) \/ Cleanup(d) \/ Crash(d)
             \/ Restart(d)
      PROVE  BatchIsFresh'
  <2>1. UNCHANGED <<received, row>> /\ dirs' \subseteq dirs
    BY <1>3 DEF BatchDone, Skip, Choke, ImageMessage, ImageMessageFails,
       BridgeImages, Raise, Fail, Cdxgen, Upload, PostScancodeio, Delete,
       Semgrep, ExitFails, CleanupFails, Cleanup, Crash, Restart
  <2>2. \/ UNCHANGED batch
        \/ \E r : batch' = [batch EXCEPT ![d] = @ \ {r}]
        \/ batch' = [batch EXCEPT ![d] = {}]
    BY <1>3 DEF BatchDone, Skip, Choke, Die, ImageMessage, ImageMessageFails,
       BridgeImages, Raise, Fail, Cdxgen, Upload, PostScancodeio, Delete,
       Semgrep, ExitFails, CleanupFails, Cleanup, Crash, Restart
  <2>3. QED
    BY <1>0, <2>1, <2>2 DEF TypeOK
<1>4. ASSUME NEW d \in Daemons, Poll(d)
      PROVE  BatchIsFresh'
  BY <1>4 DEF Poll, NewReceipt, TypeOK, OneProcessPerReceipt, CurIsOpen, BatchIsFresh, Issued, MsgOf, Receipts, TracesAreIssued
<1>5. ASSUME NEW d \in Daemons, Eat(d)
      PROVE  BatchIsFresh'
  BY <1>5 DEF Eat, TypeOK, OneProcessPerReceipt, CurIsOpen, BatchIsFresh
<1>6. ASSUME NEW d \in Daemons, Clone(d)
      PROVE  BatchIsFresh'
  BY <1>6 DEF Clone, TypeOK, OneProcessPerReceipt, CurIsOpen, BatchIsFresh
<1>7. ASSUME NEW d \in Daemons, Exit(d)
      PROVE  BatchIsFresh'
  BY <1>7 DEF Exit, FinalComplaints, TypeOK, OneProcessPerReceipt, CurIsOpen, BatchIsFresh
<1>8. QED
  BY <1>1, <1>2, <1>3, <1>4, <1>5, <1>6, <1>7 DEF Next, Loop, Stage

LEMMA CurOpenStep ==
    ASSUME OInv, [Next]_vars
    PROVE  CurIsOpen'
<1> USE IssuedStays, NoReceiptIsNone, ReceiptParts, DaemonAssumption
    DEF OInv, TInv, HasReceipt, Working, PCs
<1>1. ASSUME NEW m \in Messages, VisibilityTimeout(m)
      PROVE  CurIsOpen'
  BY <1>1 DEF VisibilityTimeout, TypeOK, OneProcessPerReceipt, BatchIsFresh, CurIsOpen
<1>2. CASE UNCHANGED vars
  BY <1>2 DEF vars, TypeOK, OneProcessPerReceipt, BatchIsFresh, CurIsOpen
<1>3. ASSUME NEW d \in Daemons,
             \/ BatchDone(d) \/ Skip(d) \/ Choke(d) \/ ImageMessage(d)
             \/ ImageMessageFails(d) \/ Clone(d) \/ BridgeImages(d)
             \/ Cdxgen(d) \/ Upload(d) \/ PostScancodeio(d) \/ Delete(d)
             \/ Semgrep(d) \/ ExitFails(d) \/ CleanupFails(d) \/ Crash(d)
             \/ Restart(d)
      PROVE  CurIsOpen'
  BY <1>3 DEF BatchDone, TypeOK, OneProcessPerReceipt, BatchIsFresh,
     CurIsOpen, Skip, Choke, Die, ImageMessage, ImageMessageFails, Clone,
     BridgeImages, Raise, Fail, Cdxgen, Upload, PostScancodeio, Delete,
     Semgrep, ExitFails, CleanupFails, Crash, Restart
<1>4. ASSUME NEW d \in Daemons, Poll(d)
      PROVE  CurIsOpen'
  BY <1>4 DEF Poll, NewReceipt, TypeOK, OneProcessPerReceipt, BatchIsFresh, CurIsOpen, Issued, MsgOf, Receipts, TracesAreIssued
<1>5. ASSUME NEW d \in Daemons, Eat(d)
      PROVE  CurIsOpen'
  BY <1>5 DEF Eat, TypeOK, OneProcessPerReceipt, BatchIsFresh, CurIsOpen
<1>6. ASSUME NEW d \in Daemons, Exit(d)
      PROVE  CurIsOpen'
  BY <1>6 DEF Exit, FinalComplaints, TypeOK, OneProcessPerReceipt, BatchIsFresh, CurIsOpen
<1>7. ASSUME NEW d \in Daemons, Cleanup(d)
      PROVE  CurIsOpen'
  BY <1>7 DEF Cleanup, TypeOK, OneProcessPerReceipt, BatchIsFresh, CurIsOpen
<1>8. QED
  BY <1>1, <1>2, <1>3, <1>4, <1>5, <1>6, <1>7 DEF Next, Loop, Stage

LEMMA TracesStep ==
    ASSUME OInv, [Next]_vars
    PROVE  TracesAreIssued'
<1> USE IssuedStays, NoReceiptIsNone, ReceiptParts, DaemonAssumption
    DEF OInv, TInv, HasReceipt, Working, PCs
<1>1. ASSUME NEW m \in Messages, VisibilityTimeout(m)
      PROVE  TracesAreIssued'
  BY <1>1 DEF VisibilityTimeout, TypeOK, BatchIsFresh, CurIsOpen, TracesAreIssued
<1>2. CASE UNCHANGED vars
  BY <1>2 DEF vars, TypeOK, BatchIsFresh, CurIsOpen, TracesAreIssued
<1>3. ASSUME NEW d \in Daemons,
             \/ Poll(d) \/ BatchDone(d) \/ Skip(d) \/ Choke(d)
             \/ ImageMessage(d) \/ ImageMessageFails(d) \/ BridgeImages(d)
             \/ Cdxgen(d) \/ Upload(d) \/ PostScancodeio(d) \/ Delete(d)
             \/ Semgrep(d) \/ ExitFails(d) \/ CleanupFails(d) \/ Cleanup(d)
             \/ Crash(d)
             \/ Restart(d)
      PROVE  TracesAreIssued'
  BY <1>3 DEF Poll, NewReceipt, TypeOK, BatchIsFresh, CurIsOpen,
     TracesAreIssued, BatchDone, Skip, Choke, Die, ImageMessage,
     ImageMessageFails, BridgeImages, Raise, Fail, Cdxgen, Upload,
     PostScancodeio, Delete, Semgrep, ExitFails, CleanupFails, Cleanup, Crash,
     Restart
<1>4. ASSUME NEW d \in Daemons, Eat(d)
      PROVE  TracesAreIssued'
  BY <1>4 DEF Eat, TypeOK, BatchIsFresh, CurIsOpen, TracesAreIssued
<1>5. ASSUME NEW d \in Daemons, Clone(d)
      PROVE  TracesAreIssued'
  BY <1>5 DEF Clone, TypeOK, BatchIsFresh, CurIsOpen, TracesAreIssued
<1>6. ASSUME NEW d \in Daemons, Exit(d)
      PROVE  TracesAreIssued'
  BY <1>6 DEF Exit, FinalComplaints, TypeOK, BatchIsFresh, CurIsOpen, TracesAreIssued
<1>7. QED
  BY <1>1, <1>2, <1>3, <1>4, <1>5, <1>6 DEF Next, Loop, Stage

LEMMA OneProcessStep ==
    ASSUME OInv, [Next]_vars
    PROVE  OneProcessPerReceipt'
<1> USE IssuedStays, NoReceiptIsNone, ReceiptParts, DaemonAssumption
    DEF OInv, TInv, HasReceipt, Working, PCs
<1>1. ASSUME NEW m \in Messages, VisibilityTimeout(m)
      PROVE  OneProcessPerReceipt'
  BY <1>1 DEF VisibilityTimeout, TypeOK, BatchIsFresh, CurIsOpen, OneProcessPerReceipt
<1>2. CASE UNCHANGED vars
  BY <1>2 DEF vars, TypeOK, BatchIsFresh, CurIsOpen, OneProcessPerReceipt
<1>3. ASSUME NEW d \in Daemons,
             \/ BatchDone(d) \/ Skip(d) \/ Choke(d) \/ ImageMessage(d)
             \/ ImageMessageFails(d) \/ Clone(d) \/ BridgeImages(d)
             \/ Cdxgen(d) \/ Upload(d) \/ PostScancodeio(d) \/ Delete(d)
             \/ Semgrep(d) \/ Exit(d) \/ ExitFails(d) \/ CleanupFails(d)
             \/ Cleanup(d)
             \/ Crash(d) \/ Restart(d)
      PROVE  OneProcessPerReceipt'
  BY <1>3 DEF BatchDone, TypeOK, BatchIsFresh, CurIsOpen,
     OneProcessPerReceipt, Skip, Choke, Die, ImageMessage, ImageMessageFails,
     Clone, BridgeImages, Raise, Fail, Cdxgen, Upload, PostScancodeio,
     Delete, Semgrep, Exit, FinalComplaints, ExitFails, CleanupFails, Cleanup,
     Crash,
     Restart
<1>4. ASSUME NEW d \in Daemons, Poll(d)
      PROVE  OneProcessPerReceipt'
  BY <1>4 DEF Poll, NewReceipt, TypeOK, BatchIsFresh, CurIsOpen, OneProcessPerReceipt, Issued, MsgOf, Receipts, TracesAreIssued
<1>5. ASSUME NEW d \in Daemons, Eat(d)
      PROVE  OneProcessPerReceipt'
  BY <1>5 DEF Eat, TypeOK, BatchIsFresh, CurIsOpen, OneProcessPerReceipt
<1>6. QED
  BY <1>1, <1>2, <1>3, <1>4, <1>5 DEF Next, Loop, Stage

LEMMA LeftoversStep ==
    ASSUME OInv, [Next]_vars
    PROVE  LeftoversOnlyAfterDeath'
<1> USE IssuedStays, NoReceiptIsNone, ReceiptParts, DaemonAssumption
    DEF OInv, TInv, HasReceipt, Working, PCs
<1>1. ASSUME NEW m \in Messages, VisibilityTimeout(m)
      PROVE  LeftoversOnlyAfterDeath'
  BY <1>1 DEF VisibilityTimeout, TypeOK, CurIsOpen, LeftoversOnlyAfterDeath
<1>2. CASE UNCHANGED vars
  BY <1>2 DEF vars, TypeOK, CurIsOpen, LeftoversOnlyAfterDeath
<1>3. ASSUME NEW d \in Daemons,
             \/ Poll(d) \/ BatchDone(d) \/ Skip(d) \/ Choke(d)
             \/ ImageMessage(d) \/ ImageMessageFails(d) \/ BridgeImages(d)
             \/ Cdxgen(d) \/ Upload(d) \/ PostScancodeio(d) \/ Delete(d)
             \/ Semgrep(d) \/ Restart(d)
      PROVE  LeftoversOnlyAfterDeath'
  BY <1>3 DEF Poll, NewReceipt, TypeOK, CurIsOpen,
     LeftoversOnlyAfterDeath, BatchDone, Skip, Choke, Die, ImageMessage,
     ImageMessageFails, BridgeImages, Raise, Fail, Cdxgen, Upload,
     PostScancodeio, Delete, Semgrep, Restart
<1>4. ASSUME NEW d \in Daemons, Eat(d)
      PROVE  LeftoversOnlyAfterDeath'
  BY <1>4 DEF Eat, TypeOK, CurIsOpen, LeftoversOnlyAfterDeath
<1>5. ASSUME NEW d \in Daemons, Clone(d)
      PROVE  LeftoversOnlyAfterDeath'
  BY <1>5 DEF Clone, TypeOK, CurIsOpen, LeftoversOnlyAfterDeath
<1>6. ASSUME NEW d \in Daemons, Exit(d)
      PROVE  LeftoversOnlyAfterDeath'
  BY <1>6 DEF Exit, FinalComplaints, TypeOK, CurIsOpen, LeftoversOnlyAfterDeath
<1>7. ASSUME NEW d \in Daemons, ExitFails(d)
      PROVE  LeftoversOnlyAfterDeath'
  BY <1>7 DEF ExitFails, Die, TypeOK, CurIsOpen, LeftoversOnlyAfterDeath
<1>8. ASSUME NEW d \in Daemons, Cleanup(d)
      PROVE  LeftoversOnlyAfterDeath'
  BY <1>8 DEF Cleanup, TypeOK, CurIsOpen, LeftoversOnlyAfterDeath
<1>9. ASSUME NEW d \in Daemons, Crash(d)
      PROVE  LeftoversOnlyAfterDeath'
  BY <1>9 DEF Crash, Die, TypeOK, CurIsOpen, LeftoversOnlyAfterDeath
<1>10. ASSUME NEW d \in Daemons, CleanupFails(d)
      PROVE  LeftoversOnlyAfterDeath'
  BY <1>10 DEF CleanupFails, Die, TypeOK, CurIsOpen, LeftoversOnlyAfterDeath
<1>11. QED
  BY <1>1, <1>2, <1>3, <1>4, <1>5, <1>6, <1>7, <1>8, <1>9, <1>10 DEF Next, Loop, Stage

LEMMA OInvInit == Init => OInv
<1> SUFFICES ASSUME Init PROVE OInv
  OBVIOUS
<1>1. TInv
  BY TInvInit
<1>2. BatchIsFresh /\ CurIsOpen /\ TracesAreIssued
  BY DEF Init, BatchIsFresh, CurIsOpen, TracesAreIssued, Working, PCs
<1>3. OneProcessPerReceipt /\ LeftoversOnlyAfterDeath
  BY DEF Init, OneProcessPerReceipt, LeftoversOnlyAfterDeath
<1>4. QED
  BY <1>1, <1>2, <1>3 DEF OInv

LEMMA OInvStep == OInv /\ [Next]_vars => OInv'
BY TInvStep, BatchFreshStep, CurOpenStep, TracesStep, OneProcessStep,
   LeftoversStep DEF OInv

LEMMA OInvAlways == Spec => []OInv
BY OInvInit, OInvStep, PTL DEF Spec

\* No attempt is ever in the hands of two processes, however many deliveries
\* of a message overlap.
THEOREM ReceiptsAreExclusive == Spec => []OneProcessPerReceipt
<1>1. OInv => OneProcessPerReceipt
  BY DEF OInv
<1>2. QED
  BY <1>1, OInvAlways, PTL

\* Only the death of a process leaves an open wasp or a project directory.
THEOREM NothingLeftBehind == Spec => []LeftoversOnlyAfterDeath
<1>1. OInv => LeftoversOnlyAfterDeath
  BY DEF OInv
<1>2. QED
  BY <1>1, OInvAlways, PTL

RowStays(r) ==
    row[r] = "closed" => row'[r] = "closed" /\ complaints'[r] = complaints[r]

LEMMA ClosedRowStep ==
    ASSUME OInv, [Next]_vars, NEW r \in Receipts
    PROVE  RowStays(r)
<1> USE NoReceiptIsNone DEF OInv, TInv, HasReceipt, Working, PCs
<1>1. ASSUME NEW m \in Messages, VisibilityTimeout(m)
      PROVE  RowStays(r)
  BY <1>1 DEF VisibilityTimeout, TypeOK, RowStays
<1>2. CASE UNCHANGED vars
  BY <1>2 DEF vars, TypeOK, RowStays
<1>3. ASSUME NEW d \in Daemons,
             \/ Poll(d) \/ BatchDone(d) \/ Skip(d) \/ Choke(d)
             \/ ImageMessage(d) \/ ImageMessageFails(d) \/ Clone(d)
             \/ BridgeImages(d) \/ Cdxgen(d) \/ Upload(d)
             \/ PostScancodeio(d) \/ Delete(d) \/ Semgrep(d) \/ ExitFails(d)
             \/ CleanupFails(d)
             \/ Cleanup(d) \/ Crash(d) \/ Restart(d)
      PROVE  RowStays(r)
  BY <1>3 DEF Poll, NewReceipt, TypeOK, RowStays, BatchDone, Skip, Choke,
     Die, ImageMessage, ImageMessageFails, Clone, BridgeImages, Raise, Fail,
     Cdxgen, Upload, PostScancodeio, Delete, Semgrep, ExitFails, CleanupFails,
     Cleanup,
     Crash, Restart
<1>4. ASSUME NEW d \in Daemons, Eat(d)
      PROVE  RowStays(r)
  BY <1>4 DEF Eat, TypeOK, RowStays, BatchIsFresh
<1>5. ASSUME NEW d \in Daemons, Exit(d)
      PROVE  RowStays(r)
  BY <1>5 DEF Exit, FinalComplaints, TypeOK, RowStays, CurIsOpen
<1>6. QED
  BY <1>1, <1>2, <1>3, <1>4, <1>5 DEF Next, Loop, Stage

\* Once __exit__ has committed a wasp its row never changes again.
THEOREM ClosedRowsStay == Spec => ClosedRowsAreFinal
<1>1. OInv /\ [Next]_vars =>
        [\A r \in Receipts : row[r] = "closed" =>
            row'[r] = "closed" /\ complaints'[r] = complaints[r]]_vars
  BY ClosedRowStep DEF RowStays
<1>2. QED
  BY <1>1, OInvAlways, PTL DEF Spec, ClosedRowsAreFinal

-----------------------------------------------------------------------------
(* Daemon implements Delivery.                                             *)

Handed == {m \in Messages : \E r \in Receipts : MsgOf(r) = m /\ HandedOver(r)}
Settled == {m \in Messages : stored[m] = "deleted"}
Dropped == {m \in Messages : Kind[m] = "badImage"}

\* Settling is for good, and what is settled was handed over or dropped.
LEMMA SettledIsHanded ==
    ASSUME DeletedWasHandedOver
    PROVE  Settled \subseteq Handed \union Dropped
BY DEF DeletedWasHandedOver, Settled, Handed, Dropped

\* An effect on the attempt r hands over no message but its own.
LEMMA HandedLocal ==
    ASSUME TInv, NEW r \in Receipts,
           effects[r] \subseteq effects'[r],
           \A q \in Receipts \ {r} : effects'[q] = effects[q]
    PROVE  Handed' = Handed \/ Handed' = Handed \union {MsgOf(r)}
BY ReceiptParts DEF Handed, HandedOver, TInv, TypeOK

MapsToStutter == Handed' = Handed /\ Settled' = Settled
MapsToHandOver(m) == Handed' = Handed \union {m} /\ Settled' = Settled
MapsToSettle(m) ==
    /\ m \in Handed \union Dropped
    /\ Settled' = Settled \union {m}
    /\ Handed' = Handed
MapsToBoth(m) == Handed' = Handed \union {m} /\ Settled' = Settled \union {m}

Mapped ==
    \/ MapsToStutter
    \/ \E m \in Messages : MapsToHandOver(m) \/ MapsToSettle(m) \/ MapsToBoth(m)

LEMMA MappedByParts ==
    ASSUME SInv', NEW m \in Messages,
           Handed' = Handed \/ Handed' = Handed \union {m},
           Settled' = Settled \/ Settled' = Settled \union {m}
    PROVE  Mapped
<1>1. CASE Settled' = Settled
  BY <1>1 DEF Mapped, MapsToStutter, MapsToHandOver
<1>2. CASE Settled' = Settled \union {m} /\ Handed' = Handed \union {m}
  BY <1>2 DEF Mapped, MapsToBoth
<1>3. CASE Settled' = Settled \union {m} /\ Handed' = Handed
  <2>1. Settled' \subseteq Handed' \union Dropped
    <3>1. DeletedWasHandedOver'
      BY DEF SInv
    <3>2. QED
      BY <3>1, SettledIsHanded DEF DeletedWasHandedOver, Settled, Handed, Dropped
  <2>2. m \in Handed \union Dropped
    BY <1>3, <2>1
  <2>3. QED
    BY <1>3, <2>2 DEF Mapped, MapsToSettle
<1>4. QED
  BY <1>1, <1>2, <1>3

\* Every step of the daemons is a step of the promise, or none.
LEMMA StepIsMapped ==
    ASSUME SInv, [Next]_vars, SInv'
    PROVE  Mapped
<1> USE DEF TInv, HasReceipt, Working, PCs
<1>0. TInv
  BY DEF SInv
<1>1. CASE UNCHANGED effects /\ UNCHANGED Settled
  BY <1>1 DEF Mapped, MapsToStutter, Handed, HandedOver
<1>2. ASSUME NEW m \in Messages, VisibilityTimeout(m)
      PROVE  Mapped
  BY <1>0, <1>1, <1>2 DEF VisibilityTimeout, Settled, TypeOK
<1>3. CASE UNCHANGED vars
  BY <1>1, <1>3 DEF vars, Settled
<1>4. ASSUME NEW d \in Daemons,
             \/ BatchDone(d) \/ Skip(d) \/ Choke(d) \/ Eat(d)
             \/ Clone(d) \/ Exit(d) \/ ExitFails(d) \/ CleanupFails(d)
             \/ Cleanup(d)
             \/ Crash(d) \/ Restart(d)
      PROVE  Mapped
  BY <1>1, <1>4 DEF BatchDone, Skip, Choke, Eat, Clone, Exit, ExitFails,
     CleanupFails, Cleanup, Crash, Restart, Settled
<1>5. ASSUME NEW d \in Daemons, Poll(d)
      PROVE  Mapped
  BY <1>0, <1>1, <1>5 DEF Poll, NewReceipt, Settled, TypeOK
<1>6. ASSUME NEW d \in Daemons,
             \/ BridgeImages(d) \/ Cdxgen(d) \/ Upload(d)
             \/ PostScancodeio(d) \/ Semgrep(d)
      PROVE  Mapped
  <2>1. cur[d] \in Receipts /\ UNCHANGED stored
    BY <1>0, <1>6 DEF BridgeImages, Cdxgen, Upload, PostScancodeio, Semgrep,
       Raise, Fail, TypeOK
  <2>2. \A q \in Receipts \ {cur[d]} : effects'[q] = effects[q]
    BY <1>0, <1>6 DEF BridgeImages, Cdxgen, Upload, PostScancodeio, Semgrep,
       Raise, Fail, TypeOK
  <2>3. Handed' = Handed \/ Handed' = Handed \union {MsgOf(cur[d])}
    BY <1>0, <2>1, <2>2, EffectsGrow, HandedLocal
  <2>4. QED
    BY <2>1, <2>3, ReceiptParts, MappedByParts DEF Settled
<1>7. ASSUME NEW d \in Daemons, Delete(d)
      PROVE  Mapped
  <2>1. cur[d] \in Receipts
    BY <1>0, <1>7 DEF Delete, TypeOK
  <2>2. \A q \in Receipts \ {cur[d]} : effects'[q] = effects[q]
    BY <1>0, <1>7 DEF Delete, TypeOK
  <2>3. Handed' = Handed \/ Handed' = Handed \union {MsgOf(cur[d])}
    BY <1>0, <2>1, <2>2, EffectsGrow, HandedLocal
  <2>4. Settled' = Settled \/ Settled' = Settled \union {MsgOf(cur[d])}
    BY <1>0, <1>7, <2>1, ReceiptParts DEF Delete, AfterDelete, Settled, TypeOK
  <2>5. QED
    BY <2>1, <2>3, <2>4, ReceiptParts, MappedByParts
<1>8. ASSUME NEW d \in Daemons, ImageMessage(d) \/ ImageMessageFails(d)
      PROVE  Mapped
  <2>1. PICK r \in batch[d] :
          /\ effects' \in {effects,
                 [effects EXCEPT ![r] = @ \union {"scanned", "acked"}],
                 [effects EXCEPT ![r] = @ \union {"acked"}],
                 [effects EXCEPT ![r] = @ \union {"scanned"}],
                 [effects EXCEPT ![r] = @ \union {}]}
          /\ stored' \in AfterDelete(r) \union {stored}
    BY <1>8 DEF ImageMessage, ImageMessageFails
  <2>2. r \in Receipts
    BY <1>0, <2>1 DEF TypeOK
  <2>3. \A q \in Receipts \ {r} : effects'[q] = effects[q]
    BY <1>0, <2>1, <2>2 DEF TypeOK
  <2>4. Handed' = Handed \/ Handed' = Handed \union {MsgOf(r)}
    BY <1>0, <2>2, <2>3, EffectsGrow, HandedLocal
  <2>5. Settled' = Settled \/ Settled' = Settled \union {MsgOf(r)}
    BY <1>0, <2>1, <2>2, ReceiptParts DEF AfterDelete, Settled, TypeOK
  <2>6. QED
    BY <2>2, <2>4, <2>5, ReceiptParts, MappedByParts
<1>9. QED
  BY <1>2, <1>3, <1>4, <1>5, <1>6, <1>7, <1>8 DEF Next, Loop, Stage

\* Any number of daemons on one queue, with all their failures, deliver what
\* Delivery promises: nothing is settled that was never handed over.
THEOREM DaemonImplementsDelivery == Spec => DeliverySpec
<1>1. Init => Promise!DInit
  BY DEF Init, Promise!DInit, HandedOver
<1>2. SInv /\ SInv' /\ [Next]_vars => [Promise!DNext]_(Promise!dvars)
  <2> SUFFICES ASSUME SInv, SInv', [Next]_vars
               PROVE  [Promise!DNext]_(Promise!dvars)
    OBVIOUS
  <2>1. Mapped
    BY StepIsMapped
  <2>2. QED
    BY <2>1 DEF Mapped, MapsToStutter, MapsToHandOver, MapsToSettle,
       MapsToBoth, Handed, Settled, Dropped, Promise!DNext, Promise!dvars,
       Promise!HandOver, Promise!Settle, Promise!ScanAndSettle
<1>3. QED
  BY <1>1, <1>2, SInvAlways, PTL DEF Spec, DeliverySpec, Promise!DSpec
=============================================================================
