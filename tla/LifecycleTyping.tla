-------------------------- MODULE LifecycleTyping --------------------------
(***************************************************************************)
(* Type correctness of KnowledgeLifecycle for every value of the           *)
(* constants: one lemma per component, one step per action.                *)
(***************************************************************************)
EXTENDS KnowledgeLifecycle, FiniteSetTheorems, TLAPS

(* Every initial state is well typed. *)
LEMMA InitType == Init => TypeOK
<1> SUFFICES ASSUME Init PROVE TypeOK
  OBVIOUS
<1> USE DEF Init, StoreInit, CommandsInit
<1>1. row \in Row
  BY DEF Row, ParseStatus, SummaryStatus
<1>2. doc \in [DocIds -> DocTask]
  <2>1. Blank \in Snapshot /\ 0 \in Runs
    BY StoreAssumption DEF Blank, Snapshot, Runs, ParseStatus, SummaryStatus
  <2>2. \A pc \in {"queued", "none"} : [NoDoc EXCEPT !.pc = pc] \in DocTask
    BY <2>1 DEF NoDoc, DocTask, DocPC
  <2>3. NoDoc \in DocTask
    BY <2>1 DEF NoDoc, DocTask, DocPC
  <2> QED
    BY <2>2, <2>3
<1>3. post \in [PostIds -> PostTask]
  BY StoreAssumption DEF PostTask, PostPC, Runs, NoPost
<1>4. sub \in [SubIds -> SubTask]
  BY StoreAssumption DEF SubTask, SubPC, Runs, Snapshot, ParseStatus, SummaryStatus, NoSub, Blank
<1>5. StoreTypeOK
  BY <1>1, <1>2, <1>3, <1>4, StoreAssumption DEF StoreTypeOK
<1>6. CommandsTypeOK
  <2>1. Blank \in Snapshot
    BY DEF Blank, Snapshot, ParseStatus, SummaryStatus
  <2>2. cancel \in Cancel /\ delete \in Delete
    BY <2>1, CommandsAssumption DEF Cancel, Delete
  <2>3. reparse \in [ReparseIds -> Reparse]
    BY <2>1 DEF Reparse
  <2>4. restarts \in 0..MaxRestart
    BY CommandsAssumption
  <2>5. sweep \in Sweep
    BY CommandsAssumption DEF Sweep
  <2> HIDE DEF Init, StoreInit, CommandsInit
  <2> QED
    BY <2>2, <2>3, <2>4, <2>5 DEF CommandsTypeOK
<1> QED
  BY <1>5, <1>6 DEF TypeOK

-----------------------------------------------------------------------------
(* Every SQL statement leaves a well-typed row. *)
LEMMA StatementType ==
  ASSUME row \in Row
  PROVE  /\ Snap \in Snapshot
         /\ \A status \in ParseStatus, summary \in SummaryStatus :
              SaveRow(status, summary) => row' \in Row
         /\ \A status \in ParseStatus : SetStatusColumn(status) => row' \in Row
         /\ \A status \in ParseStatus : SetStatusAndResetCount(status) => row' \in Row
         /\ \A summary \in SummaryStatus : SetSummaryColumn(summary) => row' \in Row
         /\ ResetCountColumn => row' \in Row
         /\ \A expected \in Nat : SetFinalizing(expected) => row' \in Row
         /\ DecrementCount => row' \in Row
         /\ PromoteRow => row' \in Row
<1>1. Snap \in Snapshot
  BY DEF Snap, Snapshot, Row
<1>2. \A status \in ParseStatus, summary \in SummaryStatus :
        SaveRow(status, summary) => row' \in Row
  BY DEF SaveRow, Row
<1>3. \A status \in ParseStatus : SetStatusColumn(status) => row' \in Row
  BY DEF SetStatusColumn, Row
<1>4. \A status \in ParseStatus : SetStatusAndResetCount(status) => row' \in Row
  <2>1. \A status \in ParseStatus : [row EXCEPT !.status = status, !.count = 0] \in Row
    BY DEF Row
  <2> QED
    BY <2>1 DEF SetStatusAndResetCount
<1>5. \A summary \in SummaryStatus : SetSummaryColumn(summary) => row' \in Row
  BY DEF SetSummaryColumn, Row
<1>6. ResetCountColumn => row' \in Row
  BY DEF ResetCountColumn, Row
<1>7. \A expected \in Nat : SetFinalizing(expected) => row' \in Row
  BY DEF SetFinalizing, Row, ParseStatus
<1>8. DecrementCount => row' \in Row
  BY DEF DecrementCount, Row
<1>9. PromoteRow => row' \in Row
  BY DEF PromoteRow, Row, ParseStatus
<1> QED
  BY <1>1, <1>2, <1>3, <1>4, <1>5, <1>6, <1>7, <1>8, <1>9

(* What a task record looks like before it is queued and after it ended.   *)
LEMMA BlankType ==
    /\ Blank \in Snapshot
    /\ NoDoc \in DocTask /\ DocGone \in DocTask
    /\ NoPost \in PostTask /\ PostGone \in PostTask
    /\ NoSub \in SubTask /\ SubGone \in SubTask
<1>1. Blank \in Snapshot /\ 0 \in Runs
  BY StoreAssumption DEF Blank, Snapshot, Runs, ParseStatus, SummaryStatus
<1>2. NoDoc \in DocTask /\ DocGone \in DocTask
  BY <1>1 DEF DocGone, NoDoc, DocTask, DocPC
<1>3. NoPost \in PostTask /\ PostGone \in PostTask
  BY <1>1 DEF PostGone, NoPost, PostTask, PostPC
<1>4. NoSub \in SubTask /\ SubGone \in SubTask
  BY <1>1 DEF SubGone, NoSub, SubTask, SubPC
<1> QED
  BY <1>1, <1>2, <1>3, <1>4

(* A task asynq queues again after an error or a crash.                    *)
LEMMA RetriedType ==
  /\ \A t \in DocTask : t.run < MaxRetry => Retried(NoDoc, t) \in DocTask
  /\ \A t \in PostTask : t.run < MaxRetry => Retried(NoPost, t) \in PostTask
  /\ \A t \in PostTask : AfterCrash(NoPost, t) \in PostTask
  /\ \A t \in SubTask : t.run < MaxRetry => Retried(NoSub, t) \in SubTask
  /\ \A t \in SubTask : AfterCrash(NoSub, t) \in SubTask
<1>1. ASSUME NEW n \in Runs, n < MaxRetry
      PROVE  n + 1 \in Runs
  BY <1>1, StoreAssumption DEF Runs
<1>2. ASSUME NEW t \in DocTask, t.run < MaxRetry
      PROVE  Retried(NoDoc, t) \in DocTask
  <2>1. t.run + 1 \in Runs /\ t.att \in Nat /\ "queued" \in DocPC
    BY <1>1, <1>2 DEF DocTask, DocPC
  <2> QED
    BY <2>1, BlankType DEF Retried, DocTask
<1>3. ASSUME NEW t \in PostTask, t.run < MaxRetry
      PROVE  Retried(NoPost, t) \in PostTask
  <2>1. t.run + 1 \in Runs /\ t.att \in Nat /\ "queued" \in PostPC
    BY <1>1, <1>3 DEF PostTask, PostPC
  <2> QED
    BY <2>1, BlankType DEF Retried, PostTask
<1>4. ASSUME NEW t \in SubTask, t.run < MaxRetry
      PROVE  Retried(NoSub, t) \in SubTask
  <2>1. t.run + 1 \in Runs /\ t.att \in Nat /\ "queued" \in SubPC
    BY <1>1, <1>4 DEF SubTask, SubPC
  <2> QED
    BY <2>1, BlankType DEF Retried, SubTask
<1>5. \A t \in PostTask : AfterCrash(NoPost, t) \in PostTask
  BY <1>3, BlankType DEF AfterCrash, PostGone
<1>6. \A t \in SubTask : AfterCrash(NoSub, t) \in SubTask
  BY <1>4, BlankType DEF AfterCrash, SubGone
<1> QED
  BY <1>2, <1>3, <1>4, <1>5, <1>6

(* A document task that moves on, ends, or is queued again stays well      *)
(* typed.                                                                  *)
LEMMA DocTaskType ==
  ASSUME NEW d \in DocIds, doc \in [DocIds -> DocTask]
  PROVE  /\ doc[d] \in DocTask
         /\ \A pc \in DocPC : DocGoto(d, pc) => doc' \in [DocIds -> DocTask]
         /\ doc[d].run < MaxRetry => DocRequeued(d) \in DocTask
<1>1. doc[d] \in DocTask
  OBVIOUS
<1>2. \A pc \in DocPC : DocGoto(d, pc) => doc' \in [DocIds -> DocTask]
  BY <1>1, BlankType DEF DocGoto, DocTask
<1>3. doc[d].run < MaxRetry => DocRequeued(d) \in DocTask
  <2>1. ASSUME NEW t \in DocTask, NEW opens \in BOOLEAN
        PROVE  [t EXCEPT !.opens = opens] \in DocTask
    BY DEF DocTask
  <2>2. doc[d].opens \in BOOLEAN
    BY <1>1 DEF DocTask
  <2> QED
    BY <1>1, <2>1, <2>2, RetriedType DEF DocRequeued
<1> QED
  BY <1>1, <1>2, <1>3

(* The same for post-processing and for the enrichment tasks.              *)
LEMMA PostTaskType ==
  ASSUME NEW p \in PostIds, post \in [PostIds -> PostTask]
  PROVE  /\ post[p] \in PostTask
         /\ \A pc \in PostPC : PostGoto(p, pc) => post' \in [PostIds -> PostTask]
<1>1. post[p] \in PostTask
  OBVIOUS
<1>2. \A pc \in PostPC : PostGoto(p, pc) => post' \in [PostIds -> PostTask]
  BY <1>1, BlankType DEF PostGoto, PostTask
<1> QED
  BY <1>1, <1>2

LEMMA SubTaskType ==
  ASSUME NEW s \in SubIds, sub \in [SubIds -> SubTask]
  PROVE  /\ sub[s] \in SubTask
         /\ \A pc \in SubPC : SubGoto(s, pc) => sub' \in [SubIds -> SubTask]
         /\ RetryOrDrain(s) => sub' \in [SubIds -> SubTask]
<1>1. sub[s] \in SubTask
  OBVIOUS
<1>2. \A pc \in SubPC : SubGoto(s, pc) => sub' \in [SubIds -> SubTask]
  BY <1>1, BlankType DEF SubGoto, SubTask
<1>3. RetryOrDrain(s) => sub' \in [SubIds -> SubTask]
  <2>1. [sub[s] EXCEPT !.pc = "drain"] \in SubTask
    BY <1>1 DEF SubTask, SubPC
  <2> QED
    BY <1>1, <2>1, RetriedType DEF RetryOrDrain
<1> QED
  BY <1>1, <1>2, <1>3

(* What a handler writes is told apart by its execution.                   *)
LEMMA OriginType ==
  /\ \A d \in DocIds : doc[d] \in DocTask => Text(d) \in TextOrigin
  /\ \A s \in SubIds : sub[s] \in SubTask => SummaryOf(s) \in SummaryOrigin
  /\ \A written \in SUBSET Origin : Erased(written) \subseteq SUBSET Origin
<1>1. \A d \in DocIds : doc[d] \in DocTask => Text(d) \in TextOrigin
  BY DEF DocTask, Text, TextOrigin
<1>2. \A s \in SubIds : sub[s] \in SubTask => SummaryOf(s) \in SummaryOrigin
  BY DEF SubTask, SummaryOf, SummaryOrigin
<1>3. \A written \in SUBSET Origin : Erased(written) \subseteq SUBSET Origin
  BY DEF Erased
<1> QED
  BY <1>1, <1>2, <1>3

-----------------------------------------------------------------------------
(* Every step of the parse worker keeps the shared state well typed.       *)
LEMMA DocStepType ==
  ASSUME StoreTypeOK, NEW d \in DocIds, DocStep(d) \/ DocCrash(d)
  PROVE  StoreTypeOK'
<1> USE DEF StoreTypeOK
<1>a. doc[d] \in DocTask
  OBVIOUS
<1>b. Snap \in Snapshot /\ Text(d) \in Origin
  BY <1>a, StatementType, OriginType DEF Origin
<1>c. doc[d].snap.summary \in SummaryStatus
  BY <1>a DEF DocTask, Snapshot
<1>1. CASE DocLoad(d)
  <2>1. doc' \in [DocIds -> DocTask]
    BY <1>1, <1>a, <1>b, DocTaskType DEF DocLoad, DocTask, DocPC
  <2> QED
    BY <1>1, <2>1 DEF DocLoad
<1>2. CASE DocDrop(d)
  BY <1>2, DocTaskType DEF DocDrop, DocPC
<1>3. CASE DocNoKnowledgeBase(d)
  BY <1>3, <1>a, <1>c, StatementType, DocTaskType
  DEF DocNoKnowledgeBase, SaveFailed, BestEffort, DocPC, ParseStatus
<1>4. CASE DocRecheck(d)
  BY <1>4, DocTaskType DEF DocRecheck, DocPC
<1>5. CASE DocMarkProcessing(d)
  <2>1. doc' \in [DocIds -> DocTask]
    BY <1>5, <1>a, <1>b, DocTaskType DEF DocMarkProcessing, DocTask, DocPC, Snapshot, ParseStatus
  <2> QED
    BY <1>5, <2>1, <1>c, StatementType DEF DocMarkProcessing, ParseStatus
<1>6. CASE DocOpenAttempt(d)
  <2>1. doc' \in [DocIds -> DocTask]
    BY <1>6, <1>a, <1>b, DocTaskType DEF DocOpenAttempt, DocTask, DocPC
  <2> QED
    BY <1>6, <2>1 DEF DocOpenAttempt
<1>7. CASE DocReject(d)
  BY <1>7, <1>a, <1>c, StatementType, DocTaskType
  DEF DocReject, SaveFailed, BestEffort, DocPC, ParseStatus
<1>8. CASE DocRetry(d)
  BY <1>8, DocTaskType DEF DocRetry, DocPC
<1>9. CASE DocGiveUp(d)
  BY <1>9, <1>a, <1>c, StatementType, DocTaskType
  DEF DocGiveUp, SaveFailed, BestEffort, DocPC, ParseStatus
<1>10. CASE DocDeadLetter(d)
  BY <1>10, StatementType, DocTaskType DEF DocDeadLetter, BestEffort, DocPC, ParseStatus
<1>11. CASE ChunksEntry(d)
  BY <1>11, DocTaskType DEF ChunksEntry, DocPC
<1>12. CASE ChunksClean(d)
  BY <1>12, DocTaskType, OriginType DEF ChunksClean, DocPC
<1>13. CASE ChunksRecheck(d)
  BY <1>13, DocTaskType DEF ChunksRecheck, DocPC
<1>14. CASE ChunksWrite(d)
  <2>1. doc' \in [DocIds -> DocTask]
    <3>1. PICK text \in BOOLEAN, pc \in DocPC :
            doc' = [doc EXCEPT ![d].pc = pc, ![d].text = text]
      BY <1>14 DEF ChunksWrite, DocPC
    <3>2. [doc[d] EXCEPT !.pc = pc, !.text = text] \in DocTask
      BY <1>a DEF DocTask
    <3> QED
      BY <3>1, <3>2
  <2> QED
    BY <1>14, <2>1, <1>b DEF ChunksWrite
<1>15. CASE ChunksWriteFailed(d)
  BY <1>15, <1>a, <1>c, StatementType, DocTaskType
  DEF ChunksWriteFailed, SaveFailed, BestEffort, DocPC, ParseStatus
<1>16. CASE ChunksPreIndex(d)
  BY <1>16, DocTaskType, OriginType DEF ChunksPreIndex, DocPC
<1>17. CASE ChunksIndex(d)
  BY <1>17, <1>b, DocTaskType DEF ChunksIndex, DocPC
<1>18. CASE ChunksIndexFailed(d)
  BY <1>18, <1>a, <1>b, <1>c, StatementType, DocTaskType
  DEF ChunksIndexFailed, BestEffort, DocPC, ParseStatus
<1>19. CASE ChunksUnindex(d)
  BY <1>19, DocTaskType, OriginType DEF ChunksUnindex, DocPC
<1>20. CASE ChunksPostIndex(d)
  BY <1>20, DocTaskType, OriginType DEF ChunksPostIndex, DocPC
<1>21. CASE ChunksSave(d)
  <2>1. PICK status \in {"processing", "completed"} :
          /\ BestEffort(SaveRow(status, "none"))
          /\ doc' = [doc EXCEPT ![d].pc = "fanout",
                                ![d].snap = [status |-> status, summary |-> "none"]]
    BY <1>21 DEF ChunksSave
  <2>2. [status |-> status, summary |-> "none"] \in Snapshot
    BY DEF Snapshot, ParseStatus, SummaryStatus
  <2>3. doc' \in [DocIds -> DocTask]
    <3>1. [doc[d] EXCEPT !.pc = "fanout",
                         !.snap = [status |-> status, summary |-> "none"]] \in DocTask
      BY <1>a, <2>2 DEF DocTask, DocPC
    <3> QED
      BY <2>1, <3>1
  <2>4. row' \in Row
    BY <2>1, StatementType DEF BestEffort, ParseStatus, SummaryStatus
  <2> QED
    BY <1>21, <2>3, <2>4 DEF ChunksSave
<1>22. CASE ChunksEnqueuePost(d)
  <2>1. doc' \in [DocIds -> DocTask]
    BY <1>22, DocTaskType DEF ChunksEnqueuePost, DocPC
  <2>2. [NoPost EXCEPT !.pc = "queued", !.att = doc[d].att] \in PostTask
    BY <1>a, BlankType DEF PostTask, PostPC, DocTask
  <2>3. post' \in [PostIds -> PostTask]
    BY <1>22, <2>2 DEF ChunksEnqueuePost
  <2> QED
    BY <1>22, <2>1, <2>3 DEF ChunksEnqueuePost
<1>23. CASE ChunksAccount(d)
  BY <1>23, DocTaskType DEF ChunksAccount, DocPC
<1>24. CASE DocCrash(d)
  <2>1. doc' \in [DocIds -> DocTask]
    BY <1>24, <1>a, DocTaskType, BlankType, StoreAssumption DEF DocCrash, DocTask, Runs
  <2>2. crashes' \in 0..MaxCrash
    BY <1>24, StoreAssumption DEF DocCrash
  <2> QED
    BY <1>24, <2>1, <2>2 DEF DocCrash
<1>25. CASE DocLearn(d)
  BY <1>25, <1>c, StatementType DEF DocLearn, BestEffort, ParseStatus
<1> QED
  BY <1>1, <1>2, <1>3, <1>4, <1>5, <1>6, <1>7, <1>8, <1>9, <1>10, <1>11, <1>12, <1>13, <1>14, <1>15, <1>16, <1>17, <1>18, <1>19, <1>20, <1>21, <1>22, <1>23, <1>24, <1>25
  DEF DocStep

(* Every step of post-processing keeps the shared state well typed.         *)
LEMMA PostStepType ==
  ASSUME StoreTypeOK, NEW p \in PostIds, PostStep(p) \/ PostCrash(p)
  PROVE  StoreTypeOK'
<1> USE DEF StoreTypeOK
<1>a. post[p] \in PostTask
  OBVIOUS
<1>b. post[p].todo \subseteq Slots /\ Cardinality(post[p].todo) \in Nat
  BY <1>a, StoreAssumption, FS_Subset, FS_CardinalityType DEF PostTask
<1>c. \A slot \in Slots : SubOf(p, slot) \in SubIds
  BY <1>a DEF SubOf, SubIds, PostTask
<1>1. CASE PostFail(p)
  <2>1. [post[p] EXCEPT !.pc = "dead"] \in PostTask
    BY <1>a DEF PostTask, PostPC
  <2>2. post' \in [PostIds -> PostTask]
    BY <1>1, <1>a, <2>1, RetriedType DEF PostFail
  <2> QED
    BY <1>1, <2>2 DEF PostFail
<1>2. CASE PostDeadLetter(p)
  BY <1>2, StatementType, PostTaskType
  DEF PostDeadLetter, BestEffort, PostPC, ParseStatus
<1>3. CASE PostLoad(p)
  BY <1>3, PostTaskType DEF PostLoad, PostPC
<1>4. CASE PostPlan(p)
  <2>1. PICK plan \in SUBSET Slots :
          post' = [post EXCEPT ![p].pc = "planned", ![p].todo = plan]
    BY <1>4 DEF PostPlan
  <2>2. [post[p] EXCEPT !.pc = "planned", !.todo = plan] \in PostTask
    BY <1>a DEF PostTask, PostPC
  <2>3. post' \in [PostIds -> PostTask]
    BY <2>1, <2>2
  <2> QED
    BY <1>4, <2>3 DEF PostPlan
<1>5. CASE PostNothingToEnrich(p)
  BY <1>5, <1>a, StatementType, PostTaskType
  DEF PostNothingToEnrich, BestEffort, PostPC, ParseStatus
<1>6. CASE PostSeed(p)
  BY <1>6, <1>a, <1>b, StatementType, PostTaskType DEF PostSeed, PostPC
<1>7. CASE PostSeedFailed(p)
  BY <1>7, <1>a, PostTaskType DEF PostSeedFailed, PostPC
<1>8. CASE PostSummaryStatus(p)
  BY <1>8, <1>a, StatementType, PostTaskType
  DEF PostSummaryStatus, BestEffort, PostPC, SummaryStatus
<1>9. CASE PostRelease(p)
  <2>1. post[p].short - 1 \in Nat
    BY <1>9, <1>a DEF PostRelease, PostTask
  <2>2. [post[p] EXCEPT !.pc = "promote", !.short = @ - 1] \in PostTask
    BY <1>a, <2>1 DEF PostTask, PostPC
  <2>3. post' \in [PostIds -> PostTask]
    BY <1>9, <2>2 DEF PostRelease
  <2> QED
    BY <1>9, <2>3, StatementType DEF PostRelease
<1>10. CASE PostPromote(p)
  BY <1>10, StatementType, PostTaskType DEF PostPromote, PostPC
<1>11. CASE PostReleased(p)
  BY <1>11, <1>a, PostTaskType DEF PostReleased, PostPC
<1>12. CASE PostCrash(p)
  <2>1. post' \in [PostIds -> PostTask]
    BY <1>12, <1>a, RetriedType DEF PostCrash
  <2>2. crashes' \in 0..MaxCrash
    BY <1>12, StoreAssumption DEF PostCrash
  <2> QED
    BY <1>12, <2>1, <2>2 DEF PostCrash
<1>13. ASSUME NEW slot \in Slots, PostEnqueue(p, slot)
      PROVE  StoreTypeOK'
  <2>1. [post[p] EXCEPT !.todo = @ \ {slot}] \in PostTask
    BY <1>a DEF PostTask
  <2>2. [NoSub EXCEPT !.pc = "queued", !.att = post[p].att] \in SubTask
    BY <1>a, BlankType DEF SubTask, SubPC, PostTask
  <2>3. post' \in [PostIds -> PostTask] /\ sub' \in [SubIds -> SubTask]
    BY <1>13, <1>c, <2>1, <2>2 DEF PostEnqueue
  <2> QED
    BY <1>13, <2>3 DEF PostEnqueue
<1>14. ASSUME NEW slot \in Slots, PostEnqueueFailed(p, slot)
      PROVE  StoreTypeOK'
  <2>1. PICK short \in Nat :
          post' = [post EXCEPT ![p].todo = @ \ {slot}, ![p].short = short]
    <3>1. post[p].short \in Nat /\ post[p].short + 1 \in Nat
      BY <1>a DEF PostTask
    <3> QED
      BY <1>14, <3>1 DEF PostEnqueueFailed
  <2>2. [post[p] EXCEPT !.todo = @ \ {slot}, !.short = short] \in PostTask
    BY <1>a DEF PostTask
  <2>3. post' \in [PostIds -> PostTask]
    BY <2>1, <2>2
  <2> QED
    BY <1>14, <2>3 DEF PostEnqueueFailed
<1> QED
  BY <1>1, <1>2, <1>3, <1>4, <1>5, <1>6, <1>7, <1>8, <1>9, <1>10, <1>11, <1>12, <1>13, <1>14
  DEF PostStep

(* Every step of an enrichment task keeps the shared state well typed.      *)
LEMMA SubStepType ==
  ASSUME StoreTypeOK, NEW s \in SubIds, SubStep(s) \/ SubCrash(s)
  PROVE  StoreTypeOK'
<1> USE DEF StoreTypeOK
<1>a. sub[s] \in SubTask /\ sub[s].snap.status \in ParseStatus
  BY DEF SubTask, Snapshot
<1>b. Snap \in Snapshot /\ SummaryOf(s) \in Origin
  BY <1>a, StatementType, OriginType DEF Origin
<1>1. CASE SubStart(s)
  BY <1>1, SubTaskType DEF SubStart, SubPC
<1>2. CASE SummaryLoad(s)
  <2>1. [sub[s] EXCEPT !.pc = "loaded", !.snap = Snap] \in SubTask
    BY <1>a, <1>b DEF SubTask, SubPC
  <2>2. sub' \in [SubIds -> SubTask]
    BY <1>2, <2>1, SubTaskType DEF SummaryLoad, SubPC
  <2> QED
    BY <1>2, <2>2 DEF SummaryLoad
<1>3. CASE SummaryMark(s)
  BY <1>3, <1>a, StatementType, SubTaskType
  DEF SummaryMark, BestEffort, SubPC, SummaryStatus
<1>4. CASE SummarySave(s)
  BY <1>4, <1>a, StatementType, SubTaskType DEF SummarySave, SubPC, SummaryStatus
<1>5. CASE SummarySaveFailed(s)
  BY <1>5, <1>a, StatementType, SubTaskType
  DEF SummarySaveFailed, BestEffort, SubPC, SummaryStatus
<1>6. CASE SummaryChunk(s)
  BY <1>6, <1>b, SubTaskType DEF SummaryChunk, SubPC
<1>7. CASE SummaryIndex(s)
  BY <1>7, <1>b, SubTaskType DEF SummaryIndex, SubPC
<1>8. CASE SubFinish(s)
  BY <1>8, SubTaskType DEF SubFinish, SubPC
<1>9. CASE SubFail(s)
  BY <1>9, SubTaskType DEF SubFail, SubPC
<1>10. CASE SubDrain(s)
  BY <1>10, StatementType, SubTaskType DEF SubDrain, SubPC
<1>11. CASE SubPromote(s)
  BY <1>11, StatementType, SubTaskType DEF SubPromote, SubPC
<1>12. CASE SubFinalizeFailed(s)
  BY <1>12, SubTaskType DEF SubFinalizeFailed, SubPC
<1>13. CASE SubCrash(s)
  <2>1. sub' \in [SubIds -> SubTask]
    BY <1>13, <1>a, RetriedType DEF SubCrash
  <2>2. crashes' \in 0..MaxCrash
    BY <1>13, StoreAssumption DEF SubCrash
  <2> QED
    BY <1>13, <2>1, <2>2 DEF SubCrash
<1> QED
  BY <1>1, <1>2, <1>3, <1>4, <1>5, <1>6, <1>7, <1>8, <1>9, <1>10, <1>11, <1>12, <1>13
  DEF SubStep

-----------------------------------------------------------------------------
(* Deleting queued tasks leaves the tables well typed.                      *)
LEMMA DequeueType ==
  ASSUME doc \in [DocIds -> DocTask], post \in [PostIds -> PostTask],
         sub \in [SubIds -> SubTask]
  PROVE  /\ Dequeue => /\ doc' \in [DocIds -> DocTask]
                       /\ post' \in [PostIds -> PostTask]
                       /\ sub' \in [SubIds -> SubTask]
         /\ ScrubWiki => sub' \in [SubIds -> SubTask]
<1>1. Dequeue => doc' \in [DocIds -> DocTask]
  BY BlankType DEF Dequeue
<1>2. Dequeue => post' \in [PostIds -> PostTask]
  BY BlankType DEF Dequeue
<1>3. Dequeue => sub' \in [SubIds -> SubTask]
  BY BlankType DEF Dequeue
<1>4. ScrubWiki => sub' \in [SubIds -> SubTask]
  BY BlankType DEF ScrubWiki
<1> QED
  BY <1>1, <1>2, <1>3, <1>4

(* Every step of a cancel call.                                             *)
LEMMA CancelStepType ==
  ASSUME TypeOK, CancelStep
  PROVE  StoreTypeOK' /\ cancel' \in Cancel
<1> USE DEF TypeOK, StoreTypeOK, CommandsTypeOK
<1>1. CASE CancelRead
  BY <1>1, CommandsAssumption DEF CancelRead, storeVars, Cancel
<1>2. CASE CancelWrite
  BY <1>2, StatementType, CommandsAssumption
  DEF CancelWrite, CancelGoto, Cancel, ParseStatus
<1>3. CASE CancelDequeue
  BY <1>3, DequeueType, CommandsAssumption DEF CancelDequeue, CancelGoto, Cancel
<1>4. CASE CancelScrub
  BY <1>4, DequeueType, CommandsAssumption DEF CancelScrub, CancelGoto, Cancel
<1> QED
  BY <1>1, <1>2, <1>3, <1>4 DEF CancelStep

(* Every step of a reparse call.                                            *)
LEMMA ReparseStepType ==
  ASSUME TypeOK, NEW n \in ReparseIds, ReparseStep(n)
  PROVE  StoreTypeOK' /\ reparse' \in [ReparseIds -> Reparse]
<1> USE DEF TypeOK, StoreTypeOK, CommandsTypeOK
<1>a. n \in DocIds /\ reparse[n] \in Reparse /\ reparse[n].snap.summary \in SummaryStatus
  BY DEF ReparseIds, Reparse, Snapshot
<1>1. CASE ReparseOpen(n)
  <2>1. [reparse[n] EXCEPT !.pc = "scrub", !.snap = Snap] \in Reparse
    BY <1>a, StatementType DEF Reparse
  <2>2. reparse' \in [ReparseIds -> Reparse]
    BY <1>1, <2>1 DEF ReparseOpen
  <2>3. ASSUME NEW att \in Nat
        PROVE  [doc EXCEPT ![n].att = att, ![n].opens = FALSE] \in [DocIds -> DocTask]
    <3>1. doc[n] \in DocTask
      BY <1>a
    <3>2. [doc[n] EXCEPT !.att = att, !.opens = FALSE] \in DocTask
      BY <3>1 DEF DocTask
    <3> QED
      BY <3>2
  <2>4. latest + 1 \in Nat
    OBVIOUS
  <2>5. doc' \in [DocIds -> DocTask] /\ latest' \in Nat
    BY <1>1, <2>3, <2>4 DEF ReparseOpen
  <2> QED
    BY <1>1, <2>2, <2>5 DEF ReparseOpen
<1>2. CASE ReparseScrub(n)
  BY <1>2, DequeueType, CommandsAssumption DEF ReparseScrub, ReparseGoto, Reparse
<1>3. CASE ReparseVectors(n)
  BY <1>3, CommandsAssumption DEF ReparseVectors, ReparseGoto, Reparse
<1>4. CASE ReparseChunks(n)
  BY <1>4, CommandsAssumption DEF ReparseChunks, ReparseGoto, Reparse
<1>5. CASE ReparseSave(n)
  BY <1>5, <1>a, StatementType, CommandsAssumption
  DEF ReparseSave, ReparseGoto, Reparse, ParseStatus
<1>6. CASE ReparseReset(n)
  BY <1>6, StatementType, CommandsAssumption DEF ReparseReset, ReparseGoto, Reparse
<1>7. CASE ReparseFail(n)
  BY <1>7, CommandsAssumption DEF ReparseFail, ReparseGoto, storeVars, Reparse
<1>8. CASE ReparseEnqueue(n)
  BY <1>8, CommandsAssumption DEF ReparseEnqueue, ReparseGoto, DocTask, DocPC, Reparse
<1> QED
  BY <1>1, <1>2, <1>3, <1>4, <1>5, <1>6, <1>7, <1>8 DEF ReparseStep

(* Every step of a delete call.                                             *)
LEMMA DeleteStepType ==
  ASSUME TypeOK, DeleteStep
  PROVE  StoreTypeOK' /\ delete' \in Delete
<1> USE DEF TypeOK, StoreTypeOK, CommandsTypeOK
<1>a. delete.snap.summary \in SummaryStatus
  BY DEF Delete, Snapshot
<1>1. CASE DeleteRead
  BY <1>1, <1>a, StatementType, CommandsAssumption DEF DeleteRead, storeVars, Delete
<1>2. CASE DeleteMark
  BY <1>2, <1>a, StatementType, CommandsAssumption
  DEF DeleteMark, DeleteGoto, BestEffort, Delete, ParseStatus
<1>3. CASE DeleteDequeue
  BY <1>3, DequeueType, CommandsAssumption DEF DeleteDequeue, DeleteGoto, Delete
<1>4. CASE DeleteFail
  BY <1>4, <1>a, CommandsAssumption DEF DeleteFail, storeVars, Delete
<1>5. CASE DeleteRow
  BY <1>5, <1>a, CommandsAssumption DEF DeleteRow, DeleteGoto, Row, Delete
<1>6. ASSUME NEW part \in {"vectors", "wiki", "chunks"}, DeleteClean(part)
      PROVE  StoreTypeOK' /\ delete' \in Delete
  BY <1>6, DequeueType DEF DeleteClean, Delete
<1> QED
  BY <1>1, <1>2, <1>3, <1>4, <1>5, <1>6 DEF DeleteStep

(* The steps of the sweep.                                                  *)
LEMMA SweepType ==
  ASSUME sweep \in Sweep, SweepStep
  PROVE  sweep' \in Sweep
<1>1. CASE SweepSelect
  BY <1>1 DEF SweepSelect, Sweep
<1>2. CASE SweepFail
  BY <1>2 DEF SweepFail, Sweep
<1>3. ASSUME NEW queue \in QueuesScanned, SweepProbe(queue)
      PROVE  sweep' \in Sweep
  <2>1. CASE Found(queue)
    BY <2>1 DEF Found, Sweep
  <2>2. CASE NotFound(queue)
    <3>1. /\ sweep'.misses \in 0..MaxMiss
          /\ sweep'.pc \in {"probe", "update"}
          /\ sweep'.left = sweep.left \ {queue}
      BY <2>2, CommandsAssumption DEF NotFound, Sweep
    <3>2. sweep' = [pc |-> sweep'.pc, left |-> sweep'.left, misses |-> sweep'.misses]
      BY <2>2 DEF NotFound
    <3> QED
      BY <3>1, <3>2 DEF Sweep
  <2> QED
    BY <1>3, <2>1, <2>2 DEF SweepProbe
<1> QED
  BY <1>1, <1>2, <1>3 DEF SweepStep

(* The sweeps and the startup reset.                                        *)
LEMMA SweepStepType ==
  ASSUME TypeOK, SweepStep \/ SweepSummary \/ StartupReset
  PROVE  StoreTypeOK' /\ restarts' \in 0..MaxRestart
<1> USE DEF TypeOK, StoreTypeOK, CommandsTypeOK
<1>1. CASE SweepSelect
  BY <1>1, CommandsAssumption DEF SweepSelect, storeVars
<1>2. CASE SweepFail \/ \E queue \in QueuesScanned : SweepProbe(queue)
  BY <1>2, StatementType, CommandsAssumption DEF SweepFail, SweepProbe, ParseStatus, storeVars
<1>3. CASE SweepSummary
  BY <1>3, StatementType DEF SweepSummary, commandVars, SummaryStatus
<1>4. CASE StartupReset
  <2>1. restarts' \in 0..MaxRestart
    BY <1>4, CommandsAssumption DEF StartupReset
  <2>2. ASSUME NEW status \in ParseStatus, NEW count \in Nat, NEW summary \in SummaryStatus
        PROVE  [row EXCEPT !.status = status, !.count = count, !.summary = summary] \in Row
    BY DEF Row
  <2>3. PICK status \in ParseStatus, count \in Nat, summary \in SummaryStatus :
          row' = IF row.gone THEN row ELSE
                 [row EXCEPT !.status = status, !.count = count, !.summary = summary]
    BY <1>4 DEF StartupReset, Row, ParseStatus, SummaryStatus
  <2>4. row' \in Row
    BY <2>2, <2>3
  <2> QED
    BY <1>4, <2>1, <2>4 DEF StartupReset
<1> QED
  BY <1>1, <1>2, <1>3, <1>4 DEF SweepStep

-----------------------------------------------------------------------------
(* A step that leaves a command's variables alone leaves them well typed.   *)
LEMMA CommandsFrame ==
  ASSUME CommandsTypeOK
  PROVE  /\ UNCHANGED cancel => cancel' \in Cancel
         /\ UNCHANGED reparse => reparse' \in [ReparseIds -> Reparse]
         /\ UNCHANGED delete => delete' \in Delete
         /\ UNCHANGED sweep => sweep' \in Sweep
         /\ UNCHANGED restarts => restarts' \in 0..MaxRestart
BY Zenon DEF CommandsTypeOK

(* Every command keeps the whole state well typed.                          *)
LEMMA CommandsStepType ==
  ASSUME TypeOK, CommandsNext
  PROVE  TypeOK'
<1>a. CommandsTypeOK
  BY DEF TypeOK
<1>1. CASE CancelStep
  <2>1. UNCHANGED <<reparse, delete, sweep, restarts>>
    BY <1>1 DEF CancelStep, CancelRead, CancelWrite, CancelDequeue, CancelScrub
  <2> QED
    BY <1>1, <1>a, <2>1, CancelStepType, CommandsFrame, Zenon DEF TypeOK, CommandsTypeOK
<1>2. ASSUME NEW n \in ReparseIds, ReparseStep(n)
      PROVE  TypeOK'
  <2>1. UNCHANGED <<cancel, delete, sweep, restarts>>
    BY <1>2 DEF ReparseStep, ReparseOpen, ReparseScrub, ReparseVectors, ReparseChunks,
                ReparseSave, ReparseReset, ReparseFail, ReparseEnqueue
  <2> QED
    BY <1>2, <1>a, <2>1, ReparseStepType, CommandsFrame, Zenon DEF TypeOK, CommandsTypeOK
<1>3. CASE DeleteStep
  <2>1. UNCHANGED <<cancel, reparse, sweep, restarts>>
    BY <1>3 DEF DeleteStep, DeleteRead, DeleteMark, DeleteDequeue, DeleteClean,
                DeleteFail, DeleteRow
  <2> QED
    BY <1>3, <1>a, <2>1, DeleteStepType, CommandsFrame, Zenon DEF TypeOK, CommandsTypeOK
<1>4. CASE SweepStep \/ SweepSummary \/ StartupReset
  <2>1. UNCHANGED <<cancel, reparse, delete>>
    BY <1>4 DEF SweepStep, SweepSelect, SweepProbe, SweepFail, SweepSummary, StartupReset,
                commandVars
  <2>2. SweepStep \/ UNCHANGED sweep
    BY <1>4 DEF SweepSummary, StartupReset, commandVars
  <2>3. sweep' \in Sweep
    BY <1>a, <2>2, SweepType DEF CommandsTypeOK
  <2> QED
    BY <1>4, <1>a, <2>1, <2>3, SweepStepType, CommandsFrame, Zenon DEF TypeOK, CommandsTypeOK
<1> QED
  BY <1>1, <1>2, <1>3, <1>4 DEF CommandsNext

(* Every step of the system.                                                *)
LEMMA NextType == TypeOK /\ [Next]_vars => TypeOK'
<1> SUFFICES ASSUME TypeOK, [Next]_vars PROVE TypeOK'
  OBVIOUS
<1>a. StoreTypeOK /\ CommandsTypeOK
  BY DEF TypeOK
<1>1. ASSUME StoreTypeOK', UNCHANGED commandVars
      PROVE  TypeOK'
  <2>1. UNCHANGED <<cancel, reparse, delete, sweep, restarts>>
    BY <1>1 DEF commandVars
  <2> QED
    BY <1>1, <1>a, <2>1, CommandsFrame, Zenon DEF TypeOK, CommandsTypeOK
<1>2. CASE DocNext /\ UNCHANGED commandVars
  BY <1>2, <1>1, <1>a, DocStepType DEF DocNext
<1>3. CASE FanoutNext /\ UNCHANGED commandVars
  BY <1>3, <1>1, <1>a, PostStepType, SubStepType DEF FanoutNext
<1>4. CASE CommandsNext
  BY <1>4, CommandsStepType
<1>5. CASE UNCHANGED vars
  <2>1. StoreTypeOK'
    BY <1>5, <1>a DEF vars, storeVars, StoreTypeOK
  <2> QED
    BY <1>5, <1>1, <2>1 DEF vars
<1> QED
  BY <1>2, <1>3, <1>4, <1>5 DEF Next, Pipeline

(***************************************************************************)
(* The row, the tables and every task record and call keep their type,     *)
(* however the handlers and the commands interleave.  In particular the    *)
(* counter of a row never goes below zero ("pending_subtasks_count > 0" in *)
(* FinalizeSubtask) and no task is ever redelivered beyond its retries.    *)
(***************************************************************************)
THEOREM TypeCorrect == Spec => []TypeOK
<1>1. Init => TypeOK
  BY InitType
<1>2. TypeOK /\ [Next]_vars => TypeOK'
  BY NextType
<1> QED
  BY <1>1, <1>2, PTL DEF Spec
=============================================================================
