-------------------------- MODULE LifecycleSafety --------------------------
(***************************************************************************)
(* Safety of KnowledgeLifecycle for every value of the constants.          *)
(*                                                                         *)
(* The state of one row decides what its queued tasks may still do, and    *)
(* where the tasks stand decides what the row may be: each invariant below *)
(* and in LifecycleInvariants relates the two.  First what holds of a      *)
(* deleted row, then what each kind of step does to the shared state, then *)
(* one invariant after the other, and the promises last.                   *)
(***************************************************************************)
EXTENDS LifecycleTyping, LifecycleInvariants

(***************************************************************************)
(* After a delete: a task may be picked up again, but a document task ends *)
(* at its load, a post-process task at its load or in the dead letter, and *)
(* a summary task drains without a chunk.                                  *)
(***************************************************************************)
DocBeforeLoad(d) == doc[d].pc \in {"none", "queued", "done"}
PostBeforePlan(p) == post[p].pc \in {"none", "queued", "dead", "done"}
SubBeforeSave(s) == sub[s].pc \in {"none", "queued", "running", "drain", "promote", "done"}

Deleted ==
    /\ row.gone
    /\ Clean
    /\ \A d \in DocIds : DocBeforeLoad(d)
    /\ \A p \in PostIds : PostBeforePlan(p)
    /\ \A s \in SubIds : SubBeforeSave(s)

(* A statement does not bring a soft-deleted row back.                     *)
LEMMA GoneStaysGone ==
  ASSUME row.gone
  PROVE  /\ \A status, summary : SaveRow(status, summary) => row' = row
         /\ \A status : SetStatusColumn(status) => row' = row
         /\ \A status : SetStatusAndResetCount(status) => row' = row
         /\ \A summary : SetSummaryColumn(summary) => row' = row
         /\ ResetCountColumn => row' = row
         /\ DecrementCount => row' = row
         /\ PromoteRow => row' = row
BY DEF SaveRow, SetStatusColumn, SetStatusAndResetCount, SetSummaryColumn,
       ResetCountColumn, DecrementCount, PromoteRow, PromoteMatches

(* What a goto does to the task it moves and to the others.                *)
LEMMA DocGotoMoves ==
  ASSUME doc \in [DocIds -> DocTask], NEW d \in DocIds, NEW pc, DocGoto(d, pc)
  PROVE  \A e \in DocIds : doc'[e].pc = IF e = d THEN pc ELSE doc[e].pc
BY DEF DocGoto, DocGone, NoDoc, DocTask

(* The same for a post-processing task ...                                *)
LEMMA PostGotoMoves ==
  ASSUME post \in [PostIds -> PostTask], NEW p \in PostIds, NEW pc, PostGoto(p, pc)
  PROVE  \A q \in PostIds : post'[q].pc = IF q = p THEN pc ELSE post[q].pc
BY DEF PostGoto, PostGone, NoPost, PostTask

(* ... and for an enrichment task.                                         *)
LEMMA SubGotoMoves ==
  ASSUME sub \in [SubIds -> SubTask], NEW s \in SubIds, NEW pc, SubGoto(s, pc)
  PROVE  \A t \in SubIds : sub'[t].pc = IF t = s THEN pc ELSE sub[t].pc
BY DEF SubGoto, SubGone, NoSub, SubTask

(* A retried task is queued, on its last run it is where the handler says. *)
LEMMA RetryMoves ==
  /\ \A t : Retried(NoPost, t).pc = "queued"
  /\ \A t : Retried(NoSub, t).pc = "queued"
BY DEF Retried, NoPost, NoSub

(* An inspector call only ends queued tasks.                               *)
LEMMA DequeueMoves ==
  /\ Dequeue =>
       /\ \A d \in DocIds : doc'[d].pc \in {doc[d].pc, "done"}
       /\ \A p \in PostIds : post'[p].pc \in {post[p].pc, "done"}
       /\ \A s \in SubIds : sub'[s].pc \in {sub[s].pc, "done"}
  /\ ScrubWiki => \A s \in SubIds : sub'[s].pc \in {sub[s].pc, "done"}
BY DEF Dequeue, ScrubWiki, DocGone, PostGone, SubGone, NoDoc, NoPost, NoSub

-----------------------------------------------------------------------------
(* On a deleted row a document task can only be dropped at its load.       *)
LEMMA DeletedDocStep ==
  ASSUME TypeOK, Deleted, NEW d \in DocIds, DocStep(d) \/ DocCrash(d)
  PROVE  Deleted'
<1>a. /\ doc \in [DocIds -> DocTask]
      /\ DocBeforeLoad(d)
      /\ row.gone
  BY DEF TypeOK, StoreTypeOK, Deleted
<1>1. DocLoad(d) \/ DocDrop(d)
  BY <1>a DEF DocBeforeLoad, DocStep, DocNoKnowledgeBase, DocRecheck, DocMarkProcessing,
       DocOpenAttempt, DocLearn, DocReject, DocRetry, DocGiveUp, DocDeadLetter, ChunksEntry, ChunksClean,
       ChunksRecheck, ChunksWrite, ChunksWriteFailed, ChunksPreIndex, ChunksIndex,
       ChunksIndexFailed, ChunksUnindex, ChunksPostIndex, ChunksSave, ChunksEnqueuePost,
       ChunksAccount, DocCrash, DocActive, Idle
<1>2. /\ DocGoto(d, "done")
      /\ UNCHANGED <<row, chunks, vectors, post, sub>>
  BY <1>a, <1>1 DEF DocLoad, DocDrop, AbortedNow
<1>3. \A e \in DocIds : DocBeforeLoad(e)'
  BY <1>a, <1>2, DocGotoMoves DEF Deleted, DocBeforeLoad
<1> QED
  BY <1>2, <1>3 DEF Deleted, Clean, PostBeforePlan, SubBeforeSave

(* A post-process task ends at its load, fails before it, or is            *)
(* dead-lettered, which does not touch a deleted row.                      *)
LEMMA DeletedPostStep ==
  ASSUME TypeOK, Deleted, NEW p \in PostIds, PostStep(p) \/ PostCrash(p)
  PROVE  Deleted'
<1>a. /\ post \in [PostIds -> PostTask]
      /\ PostBeforePlan(p)
      /\ row.gone
  BY DEF TypeOK, StoreTypeOK, Deleted
<1>1. PostFail(p) \/ PostLoad(p) \/ PostDeadLetter(p) \/ PostCrash(p)
  BY <1>a DEF PostBeforePlan, PostStep, PostPlan, PostNothingToEnrich, PostSeed,
       PostSeedFailed, PostSummaryStatus, PostEnqueue, PostEnqueueFailed, PostRelease,
       PostPromote, PostReleased
<1>2. UNCHANGED <<row, chunks, vectors, doc, sub>>
  BY <1>a, <1>1, GoneStaysGone DEF PostFail, PostLoad, PostDeadLetter, PostCrash, BestEffort
<1>3. \A q \in PostIds : PostBeforePlan(q)'
  <2>1. CASE PostLoad(p) \/ PostDeadLetter(p)
    <3>1. PostGoto(p, "done")
      BY <1>a, <2>1 DEF PostLoad, PostDeadLetter
    <3> QED
      BY <1>a, <3>1, PostGotoMoves DEF Deleted, PostBeforePlan
  <2>2. CASE PostFail(p) \/ PostCrash(p)
    <3>1. PICK t \in PostTask : /\ post' = [post EXCEPT ![p] = t]
                                /\ t.pc \in {"queued", "dead", "done"}
      <4>1. [post[p] EXCEPT !.pc = "dead"] \in PostTask
        BY <1>a DEF PostTask, PostPC
      <4>2. [post[p] EXCEPT !.pc = "dead"].pc = "dead" /\ [NoPost EXCEPT !.pc = "done"].pc = "done"
        BY <1>a DEF PostTask, NoPost
      <4> QED
        BY <1>a, <2>2, <4>1, <4>2, RetriedType, RetryMoves
        DEF PostFail, PostCrash, AfterCrash
    <3> QED
      BY <1>a, <3>1 DEF Deleted, PostBeforePlan
  <2> QED
    BY <1>1, <2>1, <2>2
<1> QED
  BY <1>2, <1>3 DEF Deleted, Clean, DocBeforeLoad, SubBeforeSave

(* A summary task does not get past its own look at the row, so no         *)
(* enrichment task writes.                                                 *)
LEMMA DeletedSubStep ==
  ASSUME TypeOK, Deleted, NEW s \in SubIds, SubStep(s) \/ SubCrash(s)
  PROVE  Deleted'
<1>a. /\ sub \in [SubIds -> SubTask]
      /\ SubBeforeSave(s)
      /\ row.gone
  BY DEF TypeOK, StoreTypeOK, Deleted
<1>1. \/ SubStart(s) \/ SummaryLoad(s) \/ SubFinish(s) \/ SubFail(s) \/ SubDrain(s)
      \/ SubPromote(s) \/ SubFinalizeFailed(s) \/ SubCrash(s)
  BY <1>a DEF SubBeforeSave, SubStep, SummaryMark, SummarySave, SummarySaveFailed,
       SummaryChunk, SummaryIndex
<1>2. UNCHANGED <<row, chunks, vectors, doc, post>>
  BY <1>a, <1>1, GoneStaysGone DEF SubStart, SummaryLoad, SubFinish, SubFail, SubDrain,
       SubPromote, SubFinalizeFailed, SubCrash
<1>3. \A t \in SubIds : SubBeforeSave(t)'
  <2>1. CASE SubStart(s) \/ SummaryLoad(s) \/ SubFinish(s) \/ SubDrain(s) \/ SubPromote(s)
             \/ SubFinalizeFailed(s)
    <3>1. PICK pc \in {"done", "running", "drain", "promote"} : SubGoto(s, pc)
      BY <1>a, <2>1 DEF SubStart, SummaryLoad, SubFinish, SubDrain, SubPromote, SubFinalizeFailed
    <3> QED
      BY <1>a, <3>1, SubGotoMoves DEF Deleted, SubBeforeSave
  <2>2. CASE SubFail(s) \/ SubCrash(s)
    <3>1. PICK t \in SubTask : /\ sub' = [sub EXCEPT ![s] = t]
                               /\ t.pc \in {"queued", "drain", "done"}
      <4>1. [sub[s] EXCEPT !.pc = "drain"] \in SubTask
        BY <1>a DEF SubTask, SubPC
      <4>2. [sub[s] EXCEPT !.pc = "drain"].pc = "drain" /\ [NoSub EXCEPT !.pc = "done"].pc = "done"
        BY <1>a DEF SubTask, NoSub
      <4> QED
        BY <1>a, <2>2, <4>1, <4>2, RetriedType, RetryMoves
        DEF SubFail, SubCrash, RetryOrDrain, AfterCrash
    <3> QED
      BY <1>a, <3>1 DEF Deleted, SubBeforeSave
  <2> QED
    BY <1>1, <2>1, <2>2
<1> QED
  BY <1>2, <1>3 DEF Deleted, Clean, DocBeforeLoad, PostBeforePlan

(* The commands read the row before they write anything but deletions, and *)
(* a reparse that had read it earlier only queues a document task.         *)
LEMMA DeletedCommandStep ==
  ASSUME TypeOK, Deleted, CommandsNext
  PROVE  Deleted'
<1>a. /\ doc \in [DocIds -> DocTask]
      /\ row.gone
      /\ chunks = {} /\ vectors = {}
  BY DEF TypeOK, StoreTypeOK, Deleted, Clean
<1>b. UNCHANGED <<row, post, sub>> /\ (\A d \in DocIds : doc'[d].pc \in {doc[d].pc, "queued"})
        /\ chunks' = {} /\ vectors' = {} => Deleted'
  BY DEF Deleted, Clean, DocBeforeLoad, PostBeforePlan, SubBeforeSave
<1>c. row' = row /\ UNCHANGED <<chunks, vectors>> /\ Dequeue => Deleted'
  BY DequeueMoves DEF Deleted, Clean, DocBeforeLoad, PostBeforePlan, SubBeforeSave
<1>d. row' = row /\ UNCHANGED <<doc, post>> /\ chunks' = {} /\ vectors' = {} /\ ScrubWiki => Deleted'
  BY DequeueMoves DEF Deleted, Clean, DocBeforeLoad, PostBeforePlan, SubBeforeSave
<1>1. CASE CancelStep
  BY <1>1, <1>a, <1>b, <1>c, <1>d, GoneStaysGone
  DEF CancelStep, CancelRead, CancelWrite, CancelDequeue, CancelScrub
<1>2. ASSUME NEW n \in ReparseIds, ReparseStep(n)
      PROVE  Deleted'
  <2>1. CASE ReparseScrub(n)
    BY <2>1, <1>a, <1>d DEF ReparseScrub
  <2>2. CASE ~ReparseScrub(n)
    <3>1. UNCHANGED <<row, post, sub>> /\ chunks' = {} /\ vectors' = {}
      BY <1>2, <2>2, <1>a, GoneStaysGone DEF ReparseStep, ReparseOpen, ReparseVectors,
           ReparseChunks, ReparseSave, ReparseReset, ReparseFail, ReparseEnqueue, storeVars
    <3>2. \A d \in DocIds : doc'[d].pc \in {doc[d].pc, "queued"}
      <4>1. ReparseEnqueue(n) \/ UNCHANGED doc
        BY <1>2, <2>2, <1>a DEF ReparseStep, ReparseOpen, ReparseVectors,
             ReparseChunks, ReparseSave, ReparseReset, ReparseFail, storeVars
      <4> QED
        BY <1>a, <4>1 DEF ReparseEnqueue, DocTask
    <3> QED
      BY <1>b, <3>1, <3>2
  <2> QED
    BY <2>1, <2>2
<1>3. CASE DeleteStep
  <2>1. CASE DeleteRead \/ DeleteMark \/ DeleteFail
    <3>1. UNCHANGED <<row, doc, post, sub, chunks, vectors>>
      BY <2>1, <1>a, GoneStaysGone DEF DeleteRead, DeleteMark, DeleteFail, BestEffort, storeVars
    <3> QED
      BY <3>1, <1>a, <1>b
  <2>2. CASE DeleteRow
    <3>1. row' = row
      BY <2>2, <1>a DEF DeleteRow, TypeOK, StoreTypeOK, Row
    <3> QED
      BY <2>2, <3>1, <1>a, <1>b DEF DeleteRow
  <2>3. CASE DeleteDequeue
    BY <2>3, <1>c DEF DeleteDequeue
  <2>4. ASSUME NEW part \in {"vectors", "wiki", "chunks"}, DeleteClean(part)
        PROVE  Deleted'
    BY <2>4, <1>a, <1>b, <1>d DEF DeleteClean
  <2> QED
    BY <1>3, <2>1, <2>2, <2>3, <2>4 DEF DeleteStep
<1>4. CASE SweepStep \/ SweepSummary \/ StartupReset
  <2>1. UNCHANGED <<row, doc, post, sub, chunks, vectors>>
    BY <1>4, <1>a, GoneStaysGone DEF SweepStep, SweepSelect, SweepProbe, SweepFail, SweepSummary,
         StartupReset, Stuck, storeVars
  <2> QED
    BY <2>1, <1>a, <1>b
<1> QED
  BY <1>1, <1>2, <1>3, <1>4 DEF CommandsNext

(* A deleted, cleaned row stays as it is whatever happens next.            *)
LEMMA DeletedNext == TypeOK /\ Deleted /\ [Next]_vars => Deleted'
<1> SUFFICES ASSUME TypeOK, Deleted, [Next]_vars PROVE Deleted'
  OBVIOUS
<1>1. CASE DocNext
  BY <1>1, DeletedDocStep DEF DocNext
<1>2. CASE FanoutNext
  BY <1>2, DeletedPostStep, DeletedSubStep DEF FanoutNext
<1>3. CASE CommandsNext
  BY <1>3, DeletedCommandStep
<1>4. CASE UNCHANGED vars
  BY <1>4 DEF vars, storeVars, Deleted, Clean, DocBeforeLoad, PostBeforePlan, SubBeforeSave
<1> QED
  BY <1>1, <1>2, <1>3, <1>4 DEF Next, Pipeline

(***************************************************************************)
(* Nothing of a deleted document is ever written again: for any number of  *)
(* subtasks, retries, reparses and crashes, and with every best-effort     *)
(* statement free to fail.                                                 *)
(***************************************************************************)
THEOREM DeletedForGood == Spec => DeletedStaysEmpty
<1>1. TypeOK /\ row.gone /\ NoneActive /\ Clean => Deleted
  BY DEF Deleted, NoneActive, DocActive, PostActive, SubActive, Idle,
         DocBeforeLoad, PostBeforePlan, SubBeforeSave
<1>2. TypeOK /\ Deleted /\ [Next]_vars => Deleted'
  BY DeletedNext
<1>3. Deleted => Clean
  BY DEF Deleted
<1>4. Spec => []TypeOK
  BY TypeCorrect
<1> QED
  BY <1>1, <1>2, <1>3, <1>4, PTL DEF Spec, DeletedStaysEmpty

-----------------------------------------------------------------------------
(***************************************************************************)
(* What one step of a document task does to the shared state, crashes      *)
(* apart: it moves its own task, never the counter, and queues at most the *)
(* one post-process task, on its way from "fanout" to "account".           *)
(***************************************************************************)
LEMMA DocFlow ==
  ASSUME TypeOK, NEW d \in DocIds, DocStep(d)
  PROVE  /\ doc[d].pc \notin Idle
         /\ doc'[d].pc # "none"
         /\ doc'[d].pc = "queued" => doc[d].pc = "convert"
         /\ doc'[d].pc = "account" => doc[d].pc = "fanout"
         /\ doc[d].pc \in {"account", "unindex", "dead"} => doc'[d].pc = "done"
         /\ \A e \in DocIds : e # d => doc'[e] = doc[e]
         /\ UNCHANGED <<sub, crashes>>
<1>a. doc \in [DocIds -> DocTask]
  BY DEF TypeOK, StoreTypeOK
<1>1. CASE \/ DocDrop(d) \/ DocNoKnowledgeBase(d) \/ DocRecheck(d) \/ DocReject(d)
           \/ DocGiveUp(d) \/ DocDeadLetter(d) \/ ChunksEntry(d) \/ ChunksClean(d)
           \/ ChunksRecheck(d) \/ ChunksWriteFailed(d) \/ ChunksPreIndex(d) \/ ChunksIndex(d)
           \/ ChunksIndexFailed(d) \/ ChunksUnindex(d) \/ ChunksPostIndex(d)
           \/ ChunksEnqueuePost(d) \/ ChunksAccount(d)
  <2>1. PICK pc \in DocPC : /\ DocGoto(d, pc)
                            /\ doc[d].pc \notin Idle
                            /\ pc \notin {"none", "queued"}
                            /\ pc = "account" => doc[d].pc = "fanout"
                            /\ doc[d].pc \in {"account", "unindex", "dead"} => pc = "done"
                            /\ UNCHANGED <<sub, crashes>>
    BY <1>1 DEF DocDrop, DocNoKnowledgeBase, DocRecheck, DocReject, DocGiveUp, DocDeadLetter,
         ChunksEntry, ChunksClean, ChunksRecheck, ChunksWriteFailed, ChunksPreIndex, ChunksIndex,
         ChunksIndexFailed, ChunksUnindex, ChunksPostIndex, ChunksEnqueuePost, ChunksAccount,
         SaveFailed, Idle, DocPC
  <2> QED
    BY <1>a, <2>1 DEF DocGoto, DocGone, NoDoc, DocTask
<1>2. CASE DocLoad(d)
  BY <1>a, <1>2 DEF DocLoad, DocGoto, DocGone, NoDoc, DocTask, Idle
<1>3. CASE DocMarkProcessing(d) \/ DocOpenAttempt(d) \/ ChunksWrite(d) \/ ChunksSave(d)
  BY <1>a, <1>3 DEF DocMarkProcessing, DocOpenAttempt, ChunksWrite, ChunksSave, DocTask, Idle
<1>4. CASE DocRetry(d)
  BY <1>a, <1>4 DEF DocRetry, DocRequeued, Retried, NoDoc, DocTask, Idle
<1>5. CASE DocLearn(d)
  BY <1>a, <1>5 DEF DocLearn, DocTask, DocPC, Idle
<1> QED
  BY <1>1, <1>2, <1>3, <1>4, <1>5 DEF DocStep

(* The post-process task it queues.                                        *)
LEMMA DocQueues ==
  ASSUME TypeOK, NEW d \in DocIds, DocStep(d)
  PROVE  \/ UNCHANGED post
         \/ /\ doc[d].pc = "fanout" /\ doc'[d].pc = "account"
            /\ post' = [post EXCEPT ![<<d, doc[d].run>>] =
                          [NoPost EXCEPT !.pc = "queued", !.att = doc[d].att]]
<1>1. CASE ChunksEnqueuePost(d)
  <2>1. doc'[d].pc = "account"
    BY <1>1, DocGotoMoves DEF ChunksEnqueuePost, TypeOK, StoreTypeOK
  <2> QED
    BY <1>1, <2>1 DEF ChunksEnqueuePost
<1>2. CASE ~ChunksEnqueuePost(d)
  BY <1>2 DEF DocStep, DocLoad, DocDrop, DocNoKnowledgeBase, DocRecheck, DocMarkProcessing,
       DocOpenAttempt, DocLearn, DocReject, DocRetry, DocGiveUp, DocDeadLetter, ChunksEntry, ChunksClean,
       ChunksRecheck, ChunksWrite, ChunksWriteFailed, ChunksPreIndex, ChunksIndex,
       ChunksIndexFailed, ChunksUnindex, ChunksPostIndex, ChunksSave, ChunksAccount, SaveFailed
<1> QED
  BY <1>1, <1>2

(***************************************************************************)
(* What it does to the row: a status it writes is a failure on the way out *)
(* of the handler, the mark of a run that starts, or the end of a run that *)
(* is past its index.                                                      *)
(***************************************************************************)
LEMMA DocRow ==
  ASSUME TypeOK, NEW d \in DocIds, DocStep(d)
  PROVE  /\ row'.count = row.count /\ row'.gone = row.gone
         /\ \/ row'.status = row.status
            \/ /\ row'.status = "failed" /\ doc[d].pc # "account"
               /\ doc'[d].pc \in {"unindex", "dead", "done"}
            \/ row'.status = "processing" /\ doc[d].pc \in {"rechecked", "convert"}
            \/ row'.status = "processing" /\ doc[d].pc = "save"
            \/ row'.status = "completed" /\ doc[d].pc = "save" /\ doc'[d].pc = "fanout"
<1>a. doc \in [DocIds -> DocTask] /\ row \in Row
  BY DEF TypeOK, StoreTypeOK
<1>b. \A status, summary :
         BestEffort(SaveRow(status, summary)) \/ SaveRow(status, summary)
         \/ BestEffort(SetStatusColumn(status)) =>
           /\ row'.count = row.count /\ row'.gone = row.gone
           /\ row'.status \in {row.status, status}
  BY <1>a DEF BestEffort, SaveRow, SetStatusColumn, Row
<1>1. CASE \/ DocNoKnowledgeBase(d) \/ DocReject(d) \/ DocGiveUp(d) \/ DocDeadLetter(d)
           \/ ChunksWriteFailed(d) \/ ChunksIndexFailed(d)
  <2>1. PICK pc \in {"unindex", "dead", "done"} : DocGoto(d, pc)
    BY <1>1 DEF DocNoKnowledgeBase, DocReject, DocGiveUp, DocDeadLetter, ChunksWriteFailed,
         ChunksIndexFailed, SaveFailed
  <2>2. doc'[d].pc = pc /\ doc[d].pc # "account"
    BY <1>a, <1>1, <2>1, DocGotoMoves DEF DocNoKnowledgeBase, DocReject, DocGiveUp,
         DocDeadLetter, ChunksWriteFailed, ChunksIndexFailed
  <2>3. PICK summary : BestEffort(SaveRow("failed", summary)) \/ BestEffort(SetStatusColumn("failed"))
    BY <1>1 DEF DocNoKnowledgeBase, DocReject, DocGiveUp, DocDeadLetter, ChunksWriteFailed,
         ChunksIndexFailed, SaveFailed
  <2> QED
    BY <1>b, <2>2, <2>3
<1>2. CASE DocMarkProcessing(d)
  BY <1>2, <1>b DEF DocMarkProcessing
<1>3. CASE ChunksSave(d)
  <2>1. doc'[d].pc = "fanout" /\ doc[d].pc = "save"
    BY <1>3, <1>a DEF ChunksSave, DocTask
  <2>2. PICK status \in {"processing", "completed"} : BestEffort(SaveRow(status, "none"))
    BY <1>3 DEF ChunksSave
  <2> QED
    BY <1>b, <2>1, <2>2
<1>4. CASE DocLearn(d)
  BY <1>4, <1>b DEF DocLearn
<1>5. CASE UNCHANGED row
  BY <1>5
<1> QED
  BY <1>1, <1>2, <1>3, <1>4, <1>5
  DEF DocStep, DocLoad, DocDrop, DocRecheck, DocOpenAttempt, DocRetry, ChunksEntry, ChunksClean,
      ChunksRecheck, ChunksWrite, ChunksPreIndex, ChunksIndex, ChunksUnindex, ChunksPostIndex,
      ChunksEnqueuePost, ChunksAccount

-----------------------------------------------------------------------------
(***************************************************************************)
(* One step of post-processing, crashes apart: it moves its own task, on   *)
(* to the fan-out only from the seed, and queues one enrichment task at a  *)
(* time out of what it still has to do.                                    *)
(***************************************************************************)
LEMMA PostFlow ==
  ASSUME TypeOK, NEW p \in PostIds, PostStep(p)
  PROVE  /\ post[p].pc \notin Idle
         /\ post'[p].pc # "none"
         /\ \A q \in PostIds : q # p => post'[q] = post[q]
         /\ post[p].pc \in {"enqueue", "promote"} => post'[p].pc \in {"enqueue", "promote", "done"}
         /\ UNCHANGED <<latest, chunks, vectors, doc, crashes>>
         /\ \/ UNCHANGED sub
            \/ /\ post[p].pc = "enqueue"
               /\ \E slot \in post[p].todo :
                    /\ SubOf(p, slot) \in SubIds
                    /\ sub' = [sub EXCEPT ![SubOf(p, slot)] =
                                 [NoSub EXCEPT !.pc = "queued", !.att = post[p].att]]
<1>a. post \in [PostIds -> PostTask]
  BY DEF TypeOK, StoreTypeOK
<1>b. \A slot \in post[p].todo : SubOf(p, slot) \in SubIds
  BY <1>a DEF SubOf, SubIds, PostTask
<1>1. CASE \/ PostDeadLetter(p) \/ PostLoad(p) \/ PostNothingToEnrich(p) \/ PostSeed(p)
           \/ PostSeedFailed(p) \/ PostSummaryStatus(p) \/ PostPromote(p) \/ PostReleased(p)
  <2>1. PICK pc \in PostPC : /\ PostGoto(p, pc)
                             /\ post[p].pc \notin Idle
                             /\ pc # "none"
                             /\ post[p].pc \in {"enqueue", "promote"} => pc \in {"enqueue", "done"}
                             /\ UNCHANGED <<latest, chunks, vectors, doc, sub, crashes>>
    BY <1>1 DEF PostDeadLetter, PostLoad, PostNothingToEnrich, PostSeed, PostSeedFailed,
         PostSummaryStatus, PostPromote, PostReleased, Idle, PostPC
  <2> QED
    BY <1>a, <2>1 DEF PostGoto, PostGone, NoPost, PostTask
<1>2. CASE PostFail(p)
  BY <1>a, <1>2 DEF PostFail, Retried, NoPost, PostTask, Idle
<1>3. CASE PostPlan(p) \/ PostRelease(p)
  BY <1>a, <1>3 DEF PostPlan, PostRelease, PostTask, Idle
<1>4. ASSUME NEW slot \in Slots, PostEnqueue(p, slot)
      PROVE  /\ post[p].pc = "enqueue" /\ post'[p].pc = "enqueue" /\ slot \in post[p].todo
             /\ \A q \in PostIds : q # p => post'[q] = post[q]
             /\ UNCHANGED <<latest, chunks, vectors, doc, crashes>>
             /\ sub' = [sub EXCEPT ![SubOf(p, slot)] =
                          [NoSub EXCEPT !.pc = "queued", !.att = post[p].att]]
  BY <1>a, <1>4 DEF PostEnqueue, NextToEnqueue, PostTask
<1>5. ASSUME NEW slot \in Slots, PostEnqueueFailed(p, slot)
      PROVE  /\ post[p].pc = "enqueue" /\ post'[p].pc = "enqueue"
             /\ \A q \in PostIds : q # p => post'[q] = post[q]
             /\ UNCHANGED <<latest, chunks, vectors, doc, sub, crashes>>
  BY <1>a, <1>5 DEF PostEnqueueFailed, PostTask
<1> QED
  BY <1>b, <1>1, <1>2, <1>3, <1>4, <1>5 DEF PostStep, Idle

(***************************************************************************)
(* The statuses it writes: a failure from the dead letter, completed with  *)
(* nothing planned or with the counter at zero, finalizing with the seed.  *)
(***************************************************************************)
LEMMA PostRow ==
  ASSUME TypeOK, NEW p \in PostIds, PostStep(p)
  PROVE  /\ row'.gone = row.gone
         /\ \/ row'.status = row.status
            \/ row'.status = "failed" /\ post[p].pc = "dead" /\ post'[p].pc = "done"
            \/ /\ row'.status = "completed" /\ post[p].pc = "planned"
               /\ post[p].todo = {} /\ post'[p].pc = "done"
            \/ row'.status = "completed" /\ post[p].pc = "promote" /\ PromoteMatches
            \/ row'.status = "finalizing" /\ post[p].pc = "planned" /\ row.status = "processing"
<1>a. post \in [PostIds -> PostTask] /\ row \in Row
  BY DEF TypeOK, StoreTypeOK
<1>b. \A status : BestEffort(SetStatusColumn(status)) =>
         row'.gone = row.gone /\ row'.status \in {row.status, status}
  BY <1>a DEF BestEffort, SetStatusColumn, Row
<1>1. CASE PostDeadLetter(p)
  <2>1. post'[p].pc = "done"
    BY <1>a, <1>1, PostGotoMoves DEF PostDeadLetter
  <2> QED
    BY <1>1, <1>b, <2>1 DEF PostDeadLetter
<1>2. CASE PostNothingToEnrich(p)
  <2>1. post'[p].pc = "done"
    BY <1>a, <1>2, PostGotoMoves DEF PostNothingToEnrich
  <2> QED
    BY <1>2, <1>b, <2>1 DEF PostNothingToEnrich
<1>3. CASE PostSeed(p)
  BY <1>3, <1>a DEF PostSeed, SeedMatches, SetFinalizing, Row
<1>4. CASE PostPromote(p)
  BY <1>4, <1>a DEF PostPromote, PromoteRow, PromoteMatches, Row
<1>5. CASE PostSummaryStatus(p)
  BY <1>5, <1>a DEF PostSummaryStatus, BestEffort, SetSummaryColumn, Row
<1>6. CASE PostRelease(p)
  BY <1>6, <1>a DEF PostRelease, DecrementCount, Row
<1>7. CASE UNCHANGED row
  BY <1>7
<1> QED
  BY <1>1, <1>2, <1>3, <1>4, <1>5, <1>6, <1>7
  DEF PostStep, PostFail, PostLoad, PostPlan, PostSeedFailed, PostEnqueue, PostEnqueueFailed, PostReleased

(***************************************************************************)
(* One step of an enrichment task, crashes apart: it moves its own task;   *)
(* only a load takes a copy of the row, only a summary task has one.       *)
(***************************************************************************)
LEMMA SubFlow ==
  ASSUME TypeOK, NEW s \in SubIds, SubStep(s)
  PROVE  /\ sub[s].pc \notin Idle
         /\ sub'[s].pc # "none"
         /\ \A t \in SubIds : t # s => sub'[t] = sub[t]
         /\ sub[s].pc = "promote" => sub'[s].pc = "done"
         /\ \/ sub'[s].pc \notin {"loaded", "marked"}
            \/ /\ sub[s].pc = "running" /\ s.slot = SummarySlot
               /\ row.status \notin Aborted /\ sub'[s].snap.status = row.status
            \/ sub[s].pc = "loaded" /\ sub'[s].snap = sub[s].snap
         /\ sub'[s].pc \in {"saved", "indexing"} => sub[s].pc \in {"marked", "saved"}
         /\ UNCHANGED <<latest, doc, post, crashes>>
<1>a. sub \in [SubIds -> SubTask]
  BY DEF TypeOK, StoreTypeOK
<1>b. ASSUME NEW pc \in SubPC, SubGoto(s, pc)
      PROVE  /\ sub'[s].pc = pc
             /\ pc # "done" => sub'[s].snap = sub[s].snap
             /\ \A t \in SubIds : t # s => sub'[t] = sub[t]
  BY <1>a, <1>b DEF SubGoto, SubGone, NoSub, SubTask
<1>c. ASSUME RetryOrDrain(s)
      PROVE  /\ sub'[s].pc \in {"queued", "drain"}
             /\ \A t \in SubIds : t # s => sub'[t] = sub[t]
  BY <1>a, <1>c DEF RetryOrDrain, Retried, NoSub, SubTask
<1>1. CASE SubStart(s) \/ SubFinish(s) \/ SubDrain(s) \/ SubPromote(s) \/ SubFinalizeFailed(s)
  <2>1. PICK pc \in {"done", "running", "drain", "promote"} :
          /\ SubGoto(s, pc)
          /\ sub[s].pc \notin Idle
          /\ sub[s].pc = "promote" => pc = "done"
          /\ UNCHANGED <<latest, doc, post, crashes>>
    BY <1>1 DEF SubStart, SubFinish, SubDrain, SubPromote, SubFinalizeFailed, Idle
  <2> QED
    BY <1>b, <2>1 DEF SubPC
<1>2. CASE SummaryLoad(s)
  <2>1. CASE SubGoto(s, "drain")
    BY <1>2, <1>b, <2>1 DEF SummaryLoad, SubPC, Idle
  <2>2. CASE row.status \notin Aborted /\ sub' = [sub EXCEPT ![s].pc = "loaded", ![s].snap = Snap]
    BY <1>2, <1>a, <2>2 DEF SummaryLoad, SubTask, Snap, Idle
  <2> QED
    BY <1>2, <2>1, <2>2 DEF SummaryLoad
<1>3. CASE SummaryMark(s) \/ SummarySave(s) \/ SummaryChunk(s) \/ SummaryIndex(s)
  <2>1. PICK pc \in {"marked", "saved", "indexing", "drain"} :
          /\ SubGoto(s, pc)
          /\ sub[s].pc \notin Idle \union {"promote"}
          /\ pc = "marked" => sub[s].pc = "loaded"
          /\ pc \in {"saved", "indexing"} => sub[s].pc \in {"marked", "saved"}
          /\ UNCHANGED <<latest, doc, post, crashes>>
    BY <1>3 DEF SummaryMark, SummarySave, SummaryChunk, SummaryIndex, Idle
  <2> QED
    BY <1>b, <2>1 DEF SubPC
<1>4. CASE SummarySaveFailed(s)
  <2>1. CASE SubGoto(s, "drain")
    BY <1>4, <1>b, <2>1 DEF SummarySaveFailed, SubPC, Idle
  <2>2. CASE RetryOrDrain(s)
    BY <1>4, <1>c, <2>2 DEF SummarySaveFailed, Idle
  <2> QED
    BY <1>4, <2>1, <2>2 DEF SummarySaveFailed
<1>5. CASE SubFail(s)
  BY <1>5, <1>c DEF SubFail, Idle
<1> QED
  BY <1>1, <1>2, <1>3, <1>4, <1>5 DEF SubStep

(* The statuses it writes: the one of its copy, or completed at zero.      *)
LEMMA SubRow ==
  ASSUME TypeOK, NEW s \in SubIds, SubStep(s)
  PROVE  /\ row'.gone = row.gone
         /\ \/ row'.status = row.status
            \/ sub[s].pc \in {"loaded", "marked"} /\ row'.status = sub[s].snap.status
            \/ row'.status = "completed" /\ sub[s].pc = "promote" /\ PromoteMatches
         /\ row'.count = row.count \/ (sub[s].pc = "drain" /\ DecrementCount)
<1>a. sub \in [SubIds -> SubTask] /\ row \in Row
  BY DEF TypeOK, StoreTypeOK
<1>1. CASE SummaryMark(s) \/ SummarySave(s) \/ SummarySaveFailed(s)
  <2>1. PICK summary \in SummaryStatus : \/ BestEffort(SaveRow(sub[s].snap.status, summary))
                        \/ SaveRow(sub[s].snap.status, summary)
    BY <1>1 DEF SummaryMark, SummarySave, SummarySaveFailed, SummaryStatus
  <2>2. sub[s].pc \in {"loaded", "marked"}
    BY <1>1 DEF SummaryMark, SummarySave, SummarySaveFailed
  <2> QED
    BY <1>a, <2>1, <2>2 DEF BestEffort, SaveRow, Row
<1>2. CASE SubDrain(s)
  BY <1>2, <1>a DEF SubDrain, DecrementCount, Row
<1>3. CASE SubPromote(s)
  BY <1>3, <1>a DEF SubPromote, PromoteRow, PromoteMatches, Row
<1>4. CASE UNCHANGED row
  BY <1>4
<1> QED
  BY <1>1, <1>2, <1>3, <1>4
  DEF SubStep, SubStart, SummaryLoad, SummaryChunk, SummaryIndex, SubFinish, SubFail, SubFinalizeFailed

-----------------------------------------------------------------------------
(***************************************************************************)
(* What the commands do to the tasks: they end queued ones, and a reparse  *)
(* queues its own document task.                                           *)
(***************************************************************************)
LEMMA CommandFlow ==
  ASSUME TypeOK, CommandsNext
  PROVE  /\ \A d \in DocIds : \/ doc'[d].pc = doc[d].pc
                              \/ doc[d].pc = "queued" /\ doc'[d].pc = "done"
                              \/ /\ d \in ReparseIds /\ doc'[d].pc = "queued"
                                 /\ reparse[d].pc = "enqueue"
         /\ \A d \in DocIds : d \notin ReparseIds /\ doc[d].pc # "queued" => doc'[d] = doc[d]
         /\ \A p \in PostIds : \/ post'[p] = post[p]
                               \/ post[p].pc = "queued" /\ post'[p] = PostGone
         /\ \A s \in SubIds : \/ sub'[s] = sub[s]
                              \/ sub[s].pc = "queued" /\ sub'[s] = SubGone
         /\ UNCHANGED crashes
<1>a. /\ doc \in [DocIds -> DocTask]
      /\ post \in [PostIds -> PostTask]
      /\ sub \in [SubIds -> SubTask]
      /\ DocGone.pc = "done"
  BY DEF TypeOK, StoreTypeOK, DocGone, NoDoc
<1>b. Dequeue =>
        /\ \A d \in DocIds : doc'[d] = doc[d] \/ (doc[d].pc = "queued" /\ doc'[d] = DocGone)
        /\ \A p \in PostIds : post'[p] = post[p] \/ (post[p].pc = "queued" /\ post'[p] = PostGone)
        /\ \A s \in SubIds : sub'[s] = sub[s] \/ (sub[s].pc = "queued" /\ sub'[s] = SubGone)
  BY DEF Dequeue
<1>c. ScrubWiki =>
        \A s \in SubIds : sub'[s] = sub[s] \/ (sub[s].pc = "queued" /\ sub'[s] = SubGone)
  BY DEF ScrubWiki
<1>1. CASE CancelStep
  <2>1. CASE CancelDequeue
    BY <2>1, <1>a, <1>b DEF CancelDequeue
  <2>2. CASE CancelRead \/ CancelWrite \/ CancelScrub
    BY <2>2, <1>c DEF CancelRead, CancelWrite, CancelScrub, storeVars
  <2> QED
    BY <1>1, <2>1, <2>2 DEF CancelStep
<1>2. ASSUME NEW n \in ReparseIds, ReparseStep(n)
      PROVE  /\ \A d \in DocIds : \/ doc'[d].pc = doc[d].pc
                                  \/ /\ d \in ReparseIds /\ doc'[d].pc = "queued"
                                     /\ reparse[d].pc = "enqueue"
             /\ \A d \in DocIds : d \notin ReparseIds => doc'[d] = doc[d]
             /\ UNCHANGED <<post, crashes>>
             /\ UNCHANGED sub \/ ScrubWiki
  <2>1. CASE ReparseOpen(n) \/ ReparseEnqueue(n)
    BY <1>a, <2>1 DEF ReparseOpen, ReparseEnqueue, DocTask
  <2>2. CASE ~(ReparseOpen(n) \/ ReparseEnqueue(n))
    BY <1>2, <2>2 DEF ReparseStep, ReparseScrub, ReparseVectors, ReparseChunks, ReparseSave,
         ReparseReset, ReparseFail, storeVars
  <2> QED
    BY <2>1, <2>2
<1>3. CASE DeleteStep
  <2>1. CASE DeleteDequeue
    BY <2>1, <1>a, <1>b DEF DeleteDequeue
  <2>2. CASE ~DeleteDequeue
    <3>1. /\ UNCHANGED <<doc, post, crashes>>
          /\ UNCHANGED sub \/ ScrubWiki
      BY <1>3, <2>2 DEF DeleteStep, DeleteRead, DeleteMark, DeleteClean, DeleteFail, DeleteRow, storeVars
    <3> QED
      BY <3>1, <1>c
  <2> QED
    BY <2>1, <2>2
<1>4. CASE SweepStep \/ SweepSummary \/ StartupReset
  BY <1>4 DEF SweepStep, SweepSelect, SweepProbe, SweepFail, SweepSummary, StartupReset, storeVars
<1> QED
  BY <1>1, <1>2, <1>3, <1>4, <1>c DEF CommandsNext

(***************************************************************************)
(* What they do to the row and to what is written: each has its moment, so *)
(* a call that is not made writes nothing.                                 *)
(***************************************************************************)
LEMMA CommandRow ==
  ASSUME TypeOK, CommandsNext
  PROVE  /\ \/ row'.status = row.status
            \/ row'.status = "cancelled" /\ cancel.pc = "write"
            \/ \E n \in ReparseIds : reparse[n].pc # "idle" /\ reparse'[n].pc # "idle"
            \/ row'.status = "deleting" /\ delete.pc = "mark"
            \/ row'.status = "failed" /\ sweep.pc = "update" /\ Stuck
            \/ row'.status = "failed" /\ restarts' # restarts
         /\ \/ row'.count = row.count
            \/ cancel.pc = "write"
            \/ \E n \in ReparseIds : reparse[n].pc # "idle" /\ reparse'[n].pc # "idle"
            \/ row'.status = "failed" /\ sweep.pc = "update"
            \/ restarts' # restarts
         /\ row'.gone = row.gone \/ (row'.gone /\ delete.pc = "clean")
         /\ \/ UNCHANGED <<chunks, vectors>>
            \/ \E n \in ReparseIds : reparse[n].pc # "idle" /\ reparse'[n].pc # "idle"
            \/ delete.pc = "clean"
         /\ chunks' \in {chunks, {}} /\ vectors' \in {vectors, {}}
<1>a. row \in Row /\ reparse \in [ReparseIds -> Reparse] /\ restarts \in Nat
  BY CommandsAssumption DEF TypeOK, StoreTypeOK, CommandsTypeOK
<1>1. CASE CancelStep
  BY <1>1, <1>a DEF CancelStep, CancelRead, CancelWrite, CancelDequeue, CancelScrub,
       SetStatusAndResetCount, Row, storeVars
<1>2. ASSUME NEW n \in ReparseIds, ReparseStep(n)
      PROVE  /\ \/ UNCHANGED <<row, chunks, vectors>>
                \/ /\ reparse[n].pc # "idle" /\ reparse'[n].pc # "idle"
                   /\ row'.gone = row.gone
             /\ chunks' \in {chunks, {}} /\ vectors' \in {vectors, {}}
  <2>1. CASE ReparseOpen(n) \/ ReparseScrub(n) \/ ReparseFail(n) \/ ReparseEnqueue(n)
    BY <2>1 DEF ReparseOpen, ReparseScrub, ReparseFail, ReparseEnqueue, storeVars
  <2>2. CASE ReparseVectors(n) \/ ReparseChunks(n)
    <3>1. reparse[n].pc # "idle" /\ reparse'[n].pc # "idle"
      BY <1>a, <2>2 DEF ReparseVectors, ReparseChunks, ReparseGoto, Reparse
    <3>2. UNCHANGED row /\ chunks' \in {chunks, {}} /\ vectors' \in {vectors, {}}
      BY <2>2 DEF ReparseVectors, ReparseChunks
    <3> QED
      BY <3>1, <3>2
  <2>3. CASE ReparseSave(n) \/ ReparseReset(n)
    <3>1. reparse[n].pc # "idle" /\ reparse'[n].pc # "idle"
      BY <1>a, <2>3 DEF ReparseSave, ReparseReset, ReparseGoto, Reparse
    <3>2. row'.gone = row.gone /\ UNCHANGED <<chunks, vectors>>
      BY <1>a, <2>3 DEF ReparseSave, ReparseReset, SaveRow, ResetCountColumn, Row
    <3> QED
      BY <3>1, <3>2
  <2> QED
    BY <1>2, <2>1, <2>2, <2>3 DEF ReparseStep
<1>3. CASE DeleteStep
  <2>1. CASE DeleteRead \/ DeleteMark \/ DeleteDequeue \/ DeleteFail \/ DeleteRow
    BY <2>1, <1>a DEF DeleteRead, DeleteMark, DeleteDequeue, DeleteFail, DeleteRow,
         BestEffort, SaveRow, Row, storeVars
  <2>2. ASSUME NEW part \in {"vectors", "wiki", "chunks"}, DeleteClean(part)
        PROVE  /\ delete.pc = "clean" /\ UNCHANGED row
               /\ chunks' \in {chunks, {}} /\ vectors' \in {vectors, {}}
    BY <2>2 DEF DeleteClean
  <2> QED
    BY <1>3, <2>1, <2>2 DEF DeleteStep
<1>4. CASE SweepStep
  BY <1>4, <1>a DEF SweepStep, SweepSelect, SweepProbe, SweepFail, SetStatusAndResetCount, Row, storeVars
<1>5. CASE SweepSummary
  BY <1>5, <1>a DEF SweepSummary, SetSummaryColumn, Row, storeVars
<1>6. CASE StartupReset
  BY <1>6, <1>a DEF StartupReset, Row
<1> QED
  BY <1>1, <1>2, <1>3, <1>4, <1>5, <1>6 DEF CommandsNext

-----------------------------------------------------------------------------
(* Disturbances only add up: what is undisturbed after a step was so       *)
(* before it.                                                              *)
LEMMA CallsGrow ==
  ASSUME TypeOK, CommandsNext
  PROVE  /\ cancel'.calls = 0 => cancel.calls = 0
         /\ delete'.calls = 0 => delete.calls = 0
         /\ restarts' = 0 => restarts = 0
         /\ restarts' \in {restarts, restarts + 1}
         /\ \A n \in ReparseIds : reparse'[n].pc = "idle" => reparse[n].pc = "idle"
         /\ SweepStep \/ UNCHANGED sweep
         /\ ScansRight' => ScansRight
<1>a. /\ cancel \in Cancel /\ delete \in Delete /\ restarts \in Nat
      /\ reparse \in [ReparseIds -> Reparse]
      /\ sweep \in Sweep /\ sweep.misses \in Nat
  BY CommandsAssumption DEF TypeOK, CommandsTypeOK, Sweep
<1>b. UNCHANGED sweep => (ScansRight' => ScansRight)
  BY DEF ScansRight
<1>1. CASE CancelStep
  BY <1>1, <1>a, <1>b, CommandsAssumption DEF CancelStep, CancelRead, CancelWrite, CancelDequeue,
       CancelScrub, CancelGoto, Cancel
<1>2. ASSUME NEW n \in ReparseIds, ReparseStep(n)
      PROVE  /\ UNCHANGED <<cancel, delete, sweep, restarts>>
             /\ \A m \in ReparseIds : reparse'[m].pc = "idle" => reparse[m].pc = "idle"
  BY <1>2, <1>a DEF ReparseStep, ReparseOpen, ReparseScrub, ReparseVectors, ReparseChunks,
       ReparseSave, ReparseReset, ReparseFail, ReparseEnqueue, ReparseGoto, Reparse
<1>3. CASE DeleteStep
  <2>a. delete.calls \in Nat
    BY <1>a, CommandsAssumption DEF Delete
  <2>1. UNCHANGED <<cancel, reparse, sweep, restarts>>
    BY <1>3 DEF DeleteStep, DeleteRead, DeleteMark, DeleteDequeue, DeleteClean, DeleteFail,
         DeleteRow
  <2>2. delete'.calls \in {delete.calls, delete.calls + 1}
    <3>1. CASE DeleteRead
      BY <3>1 DEF DeleteRead
    <3>2. CASE DeleteMark \/ DeleteDequeue \/ DeleteFail \/ DeleteRow
      BY <3>2, <1>a DEF DeleteMark, DeleteDequeue, DeleteFail, DeleteRow, DeleteGoto, Delete
    <3>3. ASSUME NEW part \in {"vectors", "wiki", "chunks"}, DeleteClean(part)
          PROVE  delete'.calls = delete.calls
      BY <3>3, <1>a DEF DeleteClean, Delete
    <3> QED
      BY <1>3, <3>1, <3>2, <3>3 DEF DeleteStep
  <2> QED
    BY <1>b, <2>a, <2>1, <2>2
<1>4. CASE SweepSummary \/ StartupReset
  BY <1>4, <1>a, <1>b DEF SweepSummary, StartupReset, commandVars
<1>5. CASE SweepStep
  <2>1. UNCHANGED <<cancel, reparse, delete, restarts>>
    BY <1>5 DEF SweepStep, SweepSelect, SweepProbe, SweepFail
  <2>2. sweep'.misses \in {sweep.misses, sweep.misses + 1}
    <3>1. CASE SweepSelect \/ SweepFail
      BY <3>1, <1>a DEF SweepSelect, SweepFail, Sweep
    <3>2. ASSUME NEW queue \in QueuesScanned, Found(queue)
          PROVE  sweep'.misses = sweep.misses
      BY <3>2, <1>a DEF Found, Sweep
    <3>3. ASSUME NEW queue \in QueuesScanned, NotFound(queue)
          PROVE  sweep'.misses \in {sweep.misses, sweep.misses + 1}
      BY <3>3, <1>a DEF NotFound, Sweep
    <3> QED
      BY <1>5, <3>1, <3>2, <3>3 DEF SweepStep, SweepProbe
  <2> QED
    BY <1>5, <1>a, <2>1, <2>2 DEF ScansRight
<1> QED
  BY <1>1, <1>2, <1>3, <1>4, <1>5, <1>b DEF CommandsNext

(* A crash, a restart, a reparse or a delete is never taken back: what a   *)
(* promise asks of the rest of the world has always been so.               *)
LEMMA DisturbancesGrow ==
  ASSUME TypeOK, [Next]_vars
  PROVE  /\ OneParse' => OneParse
         /\ OneRun' => OneRun
         /\ NoReparse' => NoReparse
         /\ NothingDropped' => NothingDropped
         /\ ScansRight' => ScansRight
         /\ CounterUndisturbed' => CounterUndisturbed
         /\ Undisturbed' => Undisturbed
         /\ Disturbed => Disturbed'
<1>a. crashes \in Nat /\ restarts \in Nat /\ crashes' \in Nat
  BY NextType, StoreAssumption, CommandsAssumption DEF TypeOK, StoreTypeOK, CommandsTypeOK
<1>1. \/ UNCHANGED commandVars
      \/ CommandsNext
  BY DEF Next, Pipeline, vars
<1>2. crashes' = crashes \/ crashes' = crashes + 1
  <2>1. ASSUME NEW d \in DocIds, DocStep(d)
        PROVE  crashes' = crashes
    BY <2>1, DocFlow
  <2>2. ASSUME NEW p \in PostIds, PostStep(p)
        PROVE  crashes' = crashes
    BY <2>2, PostFlow
  <2>3. ASSUME NEW s \in SubIds, SubStep(s)
        PROVE  crashes' = crashes
    BY <2>3, SubFlow
  <2>4. CASE CommandsNext
    BY <2>4, CommandFlow
  <2> QED
    BY <2>1, <2>2, <2>3, <2>4 DEF Next, Pipeline, DocNext, FanoutNext, DocCrash, PostCrash,
         SubCrash, vars, storeVars
<1>3. OneParse' => OneParse
  <2> SUFFICES ASSUME OneParse', NEW n \in ReparseIds
               PROVE  doc[n].pc = "none"
    BY DEF OneParse
  <2>a. n \in DocIds /\ doc'[n].pc = "none" /\ doc \in [DocIds -> DocTask]
    BY DEF OneParse, ReparseIds, TypeOK, StoreTypeOK
  <2>1. ASSUME NEW d \in DocIds, DocStep(d)
        PROVE  doc[n].pc = "none"
    BY <2>a, <2>1, DocFlow
  <2>2. ASSUME NEW d \in DocIds, DocCrash(d)
        PROVE  doc[n].pc = "none"
    BY <2>a, <2>2 DEF DocCrash, DocRequeued, Retried, DocGone, NoDoc, DocTask
  <2>3. ASSUME NEW p \in PostIds, PostStep(p) \/ PostCrash(p)
        PROVE  doc[n].pc = "none"
    BY <2>a, <2>3, PostFlow DEF PostCrash
  <2>4. ASSUME NEW s \in SubIds, SubStep(s) \/ SubCrash(s)
        PROVE  doc[n].pc = "none"
    BY <2>a, <2>4, SubFlow DEF SubCrash
  <2>5. CASE CommandsNext
    BY <2>a, <2>5, CommandFlow
  <2>6. CASE UNCHANGED vars
    BY <2>a, <2>6 DEF vars, storeVars
  <2> QED
    BY <2>1, <2>2, <2>3, <2>4, <2>5, <2>6 DEF Next, Pipeline, DocNext, FanoutNext
<1>4. /\ NoReparse' => NoReparse
      /\ cancel'.calls = 0 => cancel.calls = 0
      /\ delete'.calls = 0 => delete.calls = 0
      /\ restarts' = 0 => restarts = 0
      /\ restarts' \in {restarts, restarts + 1}
      /\ ScansRight' => ScansRight
  BY <1>1, CallsGrow DEF commandVars, NoReparse, ScansRight
<1> QED
  BY <1>a, <1>2, <1>3, <1>4
  DEF OneRun, NothingDropped, CounterUndisturbed, Undisturbed, Disturbed

-----------------------------------------------------------------------------
(* The steps that are left while there is one run: those of the first      *)
(* document task, of the later stages and of the commands.                 *)
LEMMA OneRunStep ==
  ASSUME TypeOK, [Next]_vars, OneRun'
  PROVE  /\ OneRun
         /\ \/ DocStep(0) /\ UNCHANGED commandVars
            \/ (\E p \in PostIds : PostStep(p)) /\ UNCHANGED commandVars
            \/ (\E s \in SubIds : SubStep(s)) /\ UNCHANGED commandVars
            \/ CommandsNext
            \/ UNCHANGED vars
<1>1. OneRun
  BY DisturbancesGrow
<1>2. crashes' # crashes + 1
  BY <1>1, StoreAssumption DEF OneRun
<1>3. ASSUME NEW d \in DocIds, DocStep(d)
      PROVE  d = 0
  BY <1>1, <1>3, DocFlow DEF OneRun, OneParse, ReparseIds, Idle
<1> QED
  BY <1>1, <1>2, <1>3 DEF Next, Pipeline, DocNext, FanoutNext, DocCrash, PostCrash, SubCrash

-----------------------------------------------------------------------------
(* Before anything happened there is nothing to bound.                     *)
LEMMA InitInvariants ==
  ASSUME Init
  PROVE  Shapes /\ Stages /\ QuietSweep /\ Counter /\ Failing /\ Indexing /\ Writing
<1> USE DEF Init, StoreInit, CommandsInit
<1>a. /\ \A d \in DocIds : doc[d].pc \in {"none", "queued"}
      /\ \A d \in ReparseIds : doc[d].pc = "none"
      /\ \A p \in PostIds : post[p] = NoPost
      /\ \A s \in SubIds : sub[s] = NoSub
      /\ row.status = "pending" /\ chunks = {} /\ vectors = {} /\ sweep.pc = "idle"
  BY DEF NoDoc, ReparseIds
<1>b. NoPost.pc = "none" /\ NoPost.short = 0 /\ NoSub.pc = "none"
  BY DEF NoPost, NoSub
<1>c. 0 \in DocIds
  BY StoreAssumption DEF DocIds
<1>1. Shapes
  BY <1>a, <1>b DEF Shapes
<1> HIDE DEF Init, StoreInit, CommandsInit
<1>2. Stages
  BY <1>a, <1>b DEF Stages, StagesInOrder
<1>3. QuietSweep
  BY <1>a DEF QuietSweep, ScanQuiet, Scanned
<1>4. Counter
  <2>1. Held = {} /\ \A p \in PostIds : Owed(p) = 0
    BY <1>a, <1>b DEF Held, Owed, Idle
  <2>2. row.count = 0
    BY DEF Init, StoreInit
  <2> QED
    BY <1>a, <1>b, <2>1, <2>2, FS_EmptySet DEF Counter, CounterOwned, Covered
<1>5. Failing
  BY <1>a, <1>b DEF Failing, FailedAtRest
<1>6. Indexing
  BY <1>a, <1>b, <1>c DEF Indexing, TextIndexed, TextChunks, TextVectors, BeforeWrite, PastIndex
<1>7. Writing
  BY <1>a DEF Writing, TextOnce, TextChunks
<1> QED
  BY <1>1, <1>2, <1>3, <1>4, <1>5, <1>6, <1>7

-----------------------------------------------------------------------------
(* Shapes: the post-process task, action by action.                        *)
LEMMA ShapesPostStep ==
  ASSUME TypeOK, Shapes, NEW p \in PostIds, PostStep(p) \/ PostCrash(p)
  PROVE  /\ post'[p].pc \notin {"enqueue", "promote"} => post'[p].short = 0
         /\ post'[p].pc = "promote" => post'[p].todo = {}
         /\ \A q \in PostIds : q # p => post'[q] = post[q]
<1>a. post \in [PostIds -> PostTask]
  BY DEF TypeOK, StoreTypeOK
<1>b. /\ post[p].pc \notin {"enqueue", "promote"} => post[p].short = 0
      /\ post[p].pc = "promote" => post[p].todo = {}
  BY DEF Shapes
<1>c. ASSUME NEW pc, PostGoto(p, pc)
      PROVE  /\ \A q \in PostIds : q # p => post'[q] = post[q]
             /\ post'[p].pc = pc
             /\ post'[p].short = IF pc = "done" THEN 0 ELSE post[p].short
             /\ post'[p].todo = IF pc = "done" THEN {} ELSE post[p].todo
  BY <1>a, <1>c DEF PostGoto, PostGone, NoPost, PostTask
<1>1. CASE \/ PostDeadLetter(p) \/ PostLoad(p) \/ PostNothingToEnrich(p) \/ PostSeed(p)
           \/ PostSeedFailed(p) \/ PostSummaryStatus(p) \/ PostPromote(p) \/ PostReleased(p)
  <2>1. PICK pc \in {"done", "loaded", "seeded", "enqueue"} :
          /\ PostGoto(p, pc)
          /\ post[p].pc \in {"enqueue", "promote"} => pc \in {"enqueue", "done"}
    BY <1>1 DEF PostDeadLetter, PostLoad, PostNothingToEnrich, PostSeed, PostSeedFailed,
         PostSummaryStatus, PostPromote, PostReleased
  <2> QED
    BY <1>b, <1>c, <2>1
<1>2. CASE PostFail(p) \/ PostCrash(p)
  <2>1. ASSUME NEW t, post' = [post EXCEPT ![p] = t], t.pc \in {"queued", "dead", "done"}, t.short = 0
        PROVE  /\ post'[p].pc \notin {"enqueue", "promote"} /\ post'[p].short = 0
               /\ \A q \in PostIds : q # p => post'[q] = post[q]
    BY <1>a, <2>1
  <2>2. CASE PostFail(p)
    <3>1. Retried(NoPost, post[p]).pc = "queued" /\ Retried(NoPost, post[p]).short = 0
      BY DEF Retried, NoPost
    <3>2. ~(post[p].run < MaxRetry) =>
            [post[p] EXCEPT !.pc = "dead"].pc = "dead" /\ [post[p] EXCEPT !.pc = "dead"].short = 0
      BY <1>a, <1>b, <2>2 DEF PostFail, PostTask
    <3>3. PICK t \in {Retried(NoPost, post[p]), [post[p] EXCEPT !.pc = "dead"]} :
             post' = [post EXCEPT ![p] = t] /\ t.pc \in {"queued", "dead"} /\ t.short = 0
      BY <1>a, <2>2, <3>1, <3>2 DEF PostFail
    <3> QED
      BY <2>1, <3>3
  <2>3. CASE PostCrash(p)
    <3>1. /\ AfterCrash(NoPost, post[p]).pc \in {"queued", "done"}
          /\ AfterCrash(NoPost, post[p]).short = 0
      BY DEF AfterCrash, Retried, NoPost
    <3>2. post' = [post EXCEPT ![p] = AfterCrash(NoPost, post[p])]
      BY <1>a, <2>3 DEF PostCrash
    <3> QED
      BY <2>1, <3>1, <3>2
  <2> QED
    BY <1>2, <2>2, <2>3
<1>3. CASE PostPlan(p)
  BY <1>a, <1>b, <1>3 DEF PostPlan, PostTask
<1>4. CASE PostRelease(p)
  BY <1>a, <1>4 DEF PostRelease, PostTask
<1>5. CASE \E slot \in Slots : PostEnqueue(p, slot) \/ PostEnqueueFailed(p, slot)
  BY <1>a, <1>5 DEF PostEnqueue, PostEnqueueFailed, PostTask
<1> QED
  BY <1>1, <1>2, <1>3, <1>4, <1>5 DEF PostStep

(* Shapes: the rest of the system.                                         *)
LEMMA ShapesNext == TypeOK /\ Shapes /\ [Next]_vars => Shapes'
<1> SUFFICES ASSUME TypeOK, Shapes, [Next]_vars PROVE Shapes'
  OBVIOUS
<1> DEFINE PostShape(p) == /\ post[p].pc \notin {"enqueue", "promote"} => post[p].short = 0
                           /\ post[p].pc = "promote" => post[p].todo = {}
           SubShape(s) == sub[s].pc \in {"loaded", "marked", "saved", "indexing"} =>
                            s.slot = SummarySlot
           CallShape == /\ cancel.calls = 0 => cancel.pc = "idle"
                        /\ delete.calls = 0 => delete.pc = "idle"
           ParseShape == \A n \in ReparseIds : reparse[n].pc = "idle" => doc[n].pc = "none"
<1>a. /\ doc \in [DocIds -> DocTask] /\ sub \in [SubIds -> SubTask]
      /\ \A n \in ReparseIds : n \in DocIds
  BY DEF TypeOK, StoreTypeOK, ReparseIds
<1>1. /\ \A p \in PostIds : PostShape(p)
      /\ \A s \in SubIds : SubShape(s)
      /\ CallShape /\ ParseShape
  BY DEF Shapes
<1>2. \A p \in PostIds : PostShape(p)'
  <2>1. ASSUME NEW d \in DocIds, DocStep(d) \/ DocCrash(d)
        PROVE  \A p \in PostIds : PostShape(p)'
    <3>1. \/ UNCHANGED post
          \/ post' = [post EXCEPT ![<<d, doc[d].run>>] =
                        [NoPost EXCEPT !.pc = "queued", !.att = doc[d].att]]
      BY <2>1, DocQueues DEF DocCrash
    <3> QED
      BY <1>1, <3>1 DEF TypeOK, StoreTypeOK, NoPost
  <2>2. ASSUME NEW p \in PostIds, PostStep(p) \/ PostCrash(p)
        PROVE  \A q \in PostIds : PostShape(q)'
    BY <1>1, <2>2, ShapesPostStep
  <2>3. ASSUME NEW s \in SubIds, SubStep(s) \/ SubCrash(s)
        PROVE  UNCHANGED post
    BY <2>3, SubFlow DEF SubCrash
  <2>4. CASE CommandsNext
    BY <1>1, <2>4, CommandFlow DEF PostGone, NoPost
  <2>5. CASE UNCHANGED post
    BY <1>1, <2>5
  <2> HIDE DEF PostShape
  <2> QED
    BY <2>1, <2>2, <2>3, <2>4, <2>5 DEF Next, Pipeline, DocNext, FanoutNext, vars, storeVars
<1>3. \A s \in SubIds : SubShape(s)'
  <2>1. ASSUME NEW d \in DocIds, DocStep(d) \/ DocCrash(d)
        PROVE  UNCHANGED sub
    BY <2>1, DocFlow DEF DocCrash
  <2>2. ASSUME NEW p \in PostIds, PostStep(p) \/ PostCrash(p)
        PROVE  \A s \in SubIds : SubShape(s)'
    <3>1. \/ UNCHANGED sub
          \/ \E t \in SubIds : sub' = [sub EXCEPT ![t] =
                                         [NoSub EXCEPT !.pc = "queued", !.att = post[p].att]]
      BY <2>2, PostFlow DEF PostCrash
    <3> QED
      BY <1>a, <1>1, <3>1 DEF NoSub
  <2>3. ASSUME NEW s \in SubIds, SubStep(s)
        PROVE  \A t \in SubIds : SubShape(t)'
    BY <1>1, <2>3, SubFlow
  <2>4. ASSUME NEW s \in SubIds, SubCrash(s)
        PROVE  \A t \in SubIds : SubShape(t)'
    BY <1>a, <1>1, <2>4 DEF SubCrash, AfterCrash, Retried, NoSub
  <2>5. CASE CommandsNext
    BY <1>1, <2>5, CommandFlow DEF SubGone, NoSub
  <2>6. CASE UNCHANGED sub
    BY <1>1, <2>6
  <2> HIDE DEF SubShape
  <2> QED
    BY <2>1, <2>2, <2>3, <2>4, <2>5, <2>6 DEF Next, Pipeline, DocNext, FanoutNext, vars, storeVars
<1>4. CallShape'
  <2>1. CASE UNCHANGED commandVars
    BY <1>1, <2>1 DEF commandVars
  <2>2. CASE CancelStep
    BY <1>1, <2>2, CommandsAssumption DEF CancelStep, CancelRead, CancelWrite, CancelDequeue,
         CancelScrub, CancelGoto, Cancel, TypeOK, CommandsTypeOK
  <2>3. CASE DeleteStep
    <3>a. delete \in Delete
      BY DEF TypeOK, CommandsTypeOK
    <3>1. CASE DeleteRead
      BY <1>1, <3>1, <3>a DEF DeleteRead, Delete
    <3>2. CASE DeleteMark \/ DeleteDequeue \/ DeleteFail \/ DeleteRow
      BY <1>1, <3>2, <3>a
      DEF DeleteMark, DeleteDequeue, DeleteFail, DeleteRow, DeleteGoto, Delete
    <3>3. ASSUME NEW part \in {"vectors", "wiki", "chunks"}, DeleteClean(part)
          PROVE  CallShape'
      BY <1>1, <3>3, <3>a DEF DeleteClean, Delete
    <3> QED
      BY <2>3, <3>1, <3>2, <3>3 DEF DeleteStep
  <2>4. ASSUME NEW n \in ReparseIds, ReparseStep(n)
        PROVE  UNCHANGED <<cancel, delete>>
    BY <2>4 DEF ReparseStep, ReparseOpen, ReparseScrub, ReparseVectors, ReparseChunks,
         ReparseSave, ReparseReset, ReparseFail, ReparseEnqueue
  <2>5. CASE SweepStep \/ SweepSummary \/ StartupReset
    BY <1>1, <2>5 DEF SweepStep, SweepSelect, SweepProbe, SweepFail, SweepSummary, StartupReset, commandVars
  <2>6. CASE UNCHANGED <<cancel, delete>>
    BY <1>1, <2>6
  <2> HIDE DEF CallShape
  <2> QED
    BY <2>1, <2>2, <2>3, <2>4, <2>5, <2>6 DEF Next, Pipeline, CommandsNext, vars
<1>5. ParseShape'
  <2> SUFFICES ASSUME NEW n \in ReparseIds, reparse'[n].pc = "idle"
               PROVE  doc'[n].pc = "none"
    OBVIOUS
  <2>1. ASSUME UNCHANGED reparse
        PROVE  doc[n].pc = "none"
    BY <1>1, <2>1
  <2>2. ASSUME NEW d \in DocIds, DocStep(d) \/ DocCrash(d), UNCHANGED commandVars
        PROVE  doc'[n].pc = "none"
    <3>1. doc[n].pc = "none"
      BY <2>1, <2>2 DEF commandVars
    <3>2. CASE DocStep(d)
      BY <1>a, <3>1, <3>2, DocFlow DEF Idle
    <3>3. CASE DocCrash(d)
      BY <1>a, <3>1, <3>3 DEF DocCrash, DocActive, Idle
    <3> QED
      BY <2>2, <3>2, <3>3
  <2>3. ASSUME FanoutNext, UNCHANGED commandVars
        PROVE  doc'[n].pc = "none"
    <3>1. UNCHANGED doc
      BY <2>3, PostFlow, SubFlow DEF FanoutNext, PostCrash, SubCrash
    <3> QED
      BY <2>1, <2>3, <3>1 DEF commandVars
  <2>4. CASE CommandsNext
    <3>1. reparse[n].pc = "idle"
      BY <2>4, CallsGrow
    <3> QED
      BY <1>a, <1>1, <2>4, <3>1, CommandFlow
  <2>5. CASE UNCHANGED vars
    BY <2>1, <2>5 DEF vars, storeVars, commandVars
  <2> QED
    BY <2>2, <2>3, <2>4, <2>5 DEF Next, Pipeline, DocNext
<1> QED
  BY <1>2, <1>3, <1>4, <1>5 DEF Shapes

-----------------------------------------------------------------------------
(* The stages follow one another as long as nothing is run twice.          *)
LEMMA StagesNext == TypeOK /\ Stages /\ [Next]_vars => Stages'
<1> SUFFICES ASSUME TypeOK, Stages, [Next]_vars, OneRun'
             PROVE  StagesInOrder'
  BY DEF Stages
<1>a. /\ OneRun /\ StagesInOrder
      /\ doc \in [DocIds -> DocTask] /\ post \in [PostIds -> PostTask] /\ sub \in [SubIds -> SubTask]
      /\ 0 \in DocIds /\ 0 \notin ReparseIds
  BY OneRunStep, StoreAssumption DEF Stages, TypeOK, StoreTypeOK, DocIds, ReparseIds
<1>1. CASE DocStep(0)
  <2>1. /\ doc[0].pc \notin Idle
        /\ doc[0].pc = "account" => doc'[0].pc = "done"
        /\ UNCHANGED sub
    BY <1>a, <1>1, DocFlow
  <2>2. CASE UNCHANGED post
    BY <1>a, <2>1, <2>2 DEF StagesInOrder, Idle
  <2>3. CASE /\ doc[0].pc = "fanout" /\ doc'[0].pc = "account"
             /\ post' = [post EXCEPT ![<<0, doc[0].run>>] =
                           [NoPost EXCEPT !.pc = "queued", !.att = doc[0].att]]
    <3>1. \A p \in PostIds : post[p].pc = "none"
      BY <1>a, <2>3 DEF StagesInOrder
    <3>2. \A s \in SubIds : sub[s].pc = "none"
      BY <1>a, <3>1 DEF StagesInOrder
    <3>3. \A p \in PostIds : p # <<0, doc[0].run>> => post'[p].pc = "none"
      BY <1>a, <2>3, <3>1
    <3> QED
      BY <2>1, <2>3, <3>2, <3>3 DEF StagesInOrder
  <2> QED
    BY <1>a, <1>1, <2>2, <2>3, DocQueues
<1>2. ASSUME NEW p \in PostIds, PostStep(p)
      PROVE  StagesInOrder'
  <2>1. /\ post[p].pc \notin Idle
        /\ \A q \in PostIds : q # p => post'[q] = post[q]
        /\ post[p].pc \in {"enqueue", "promote"} => post'[p].pc \in {"enqueue", "promote", "done"}
        /\ UNCHANGED doc
    BY <1>2, PostFlow
  <2>2. \A q \in PostIds : q # p => post'[q].pc = "none"
    BY <1>a, <2>1 DEF StagesInOrder, Idle
  <2>3. doc'[0].pc \in {"account", "done"}
    BY <1>a, <2>1 DEF StagesInOrder, Idle
  <2>4. \A s \in SubIds : sub'[s].pc # "none" => post'[p].pc \in {"enqueue", "promote", "done"}
    <3>1. CASE UNCHANGED sub
      <4>1. ASSUME NEW s \in SubIds, sub[s].pc # "none"
            PROVE  post[p].pc \in {"enqueue", "promote", "done"}
        BY <1>a, <2>1, <4>1 DEF StagesInOrder, Idle
      <4> QED
        BY <2>1, <3>1, <4>1 DEF Idle
    <3>2. CASE post[p].pc = "enqueue"
      BY <2>1, <3>2
    <3> QED
      BY <1>2, <3>1, <3>2, PostFlow
  <2> QED
    BY <2>2, <2>3, <2>4 DEF StagesInOrder
<1>3. ASSUME NEW s \in SubIds, SubStep(s)
      PROVE  StagesInOrder'
  <2>1. /\ sub[s].pc # "none"
        /\ \A t \in SubIds : t # s => sub'[t] = sub[t]
        /\ UNCHANGED <<doc, post>>
    BY <1>3, SubFlow DEF Idle
  <2> QED
    BY <1>a, <2>1 DEF StagesInOrder
<1>4. CASE CommandsNext
  <2>1. /\ doc[0].pc \in {"account", "done"} => doc'[0].pc \in {"account", "done"}
        /\ \A p \in PostIds : \/ post'[p].pc = post[p].pc
                              \/ post[p].pc = "queued" /\ post'[p].pc = "done"
        /\ \A t \in SubIds : sub'[t].pc = "none" <=> sub[t].pc = "none"
    BY <1>a, <1>4, CommandFlow DEF PostGone, SubGone, NoPost, NoSub
  <2>2. \A p \in PostIds : /\ post'[p].pc = "none" <=> post[p].pc = "none"
                           /\ post[p].pc \in {"enqueue", "promote", "done"} =>
                                post'[p].pc \in {"enqueue", "promote", "done"}
    BY <2>1
  <2>3. \A p \in PostIds : post'[p].pc # "none" => doc'[0].pc \in {"account", "done"}
    BY <1>a, <2>1, <2>2 DEF StagesInOrder
  <2>4. \A p, q \in PostIds : post'[p].pc # "none" /\ post'[q].pc # "none" => p = q
    BY <1>a, <2>2 DEF StagesInOrder
  <2>5. \A s \in SubIds : sub'[s].pc # "none" =>
          \E p \in PostIds : post'[p].pc \in {"enqueue", "promote", "done"}
    BY <1>a, <2>1, <2>2 DEF StagesInOrder
  <2> QED
    BY <2>3, <2>4, <2>5 DEF StagesInOrder
<1>5. CASE UNCHANGED vars
  BY <1>a, <1>5 DEF vars, storeVars, StagesInOrder
<1> QED
  BY <1>1, <1>2, <1>3, <1>4, <1>5, OneRunStep

(***************************************************************************)
(* Work flows one way: unless a reparse queues its document task, a task   *)
(* enters a queue only while one of an earlier stage is there.             *)
(***************************************************************************)
NoneReparsed == \A n \in ReparseIds : reparse[n].pc = "enqueue" => doc'[n].pc # "queued"

LEMMA WorkFlows ==
  ASSUME TypeOK, [Next]_vars, NoneReparsed
  PROVE  /\ \A d \in DocIds : doc'[d].pc \notin Idle => doc[d].pc \notin Idle
         /\ \A p \in PostIds : post'[p].pc \notin Idle =>
              post[p].pc \notin Idle \/ \E d \in DocIds : doc[d].pc \notin Idle
         /\ \A s \in SubIds : sub'[s].pc \notin Idle =>
              sub[s].pc \notin Idle \/ \E p \in PostIds : post[p].pc \notin Idle
<1>a. doc \in [DocIds -> DocTask] /\ post \in [PostIds -> PostTask] /\ sub \in [SubIds -> SubTask]
  BY DEF TypeOK, StoreTypeOK
<1>1. ASSUME NEW d \in DocIds, DocStep(d)
      PROVE  /\ doc[d].pc \notin Idle
             /\ \A e \in DocIds : e # d => doc'[e] = doc[e]
             /\ UNCHANGED sub
  BY <1>1, DocFlow
<1>2. ASSUME NEW d \in DocIds, DocCrash(d)
      PROVE  /\ doc[d].pc \notin Idle
             /\ \A e \in DocIds : e # d => doc'[e] = doc[e]
             /\ UNCHANGED <<post, sub>>
  BY <1>a, <1>2 DEF DocCrash, DocActive
<1>3. ASSUME NEW p \in PostIds, PostStep(p) \/ PostCrash(p)
      PROVE  /\ post[p].pc \notin Idle
             /\ \A q \in PostIds : q # p => post'[q] = post[q]
             /\ UNCHANGED doc
  BY <1>a, <1>3, PostFlow DEF PostCrash, PostActive
<1>4. ASSUME NEW s \in SubIds, SubStep(s) \/ SubCrash(s)
      PROVE  /\ sub[s].pc \notin Idle
             /\ \A t \in SubIds : t # s => sub'[t] = sub[t]
             /\ UNCHANGED <<doc, post>>
  BY <1>a, <1>4, SubFlow DEF SubCrash, SubActive
<1>5. CASE CommandsNext
  BY <1>5, CommandFlow DEF NoneReparsed, Idle, PostGone, SubGone, NoPost, NoSub
<1>6. CASE UNCHANGED vars
  BY <1>6 DEF vars, storeVars
<1> QED
  BY <1>1, <1>2, <1>3, <1>4, <1>5, <1>6 DEF Next, Pipeline, DocNext, FanoutNext

(* Once the pipeline is idle only a reparse can wake it.                   *)
LEMMA IdleNext ==
  ASSUME TypeOK, PipelineIdle, [Next]_vars, OneParse'
  PROVE  PipelineIdle'
<1>1. NoneReparsed
  BY DEF NoneReparsed, OneParse
<1> QED
  BY <1>1, WorkFlows DEF PipelineIdle

(* A queue the scan has left behind is empty and stays so.                 *)
LEMMA ScanNext ==
  ASSUME TypeOK, ScanQuiet, [Next]_vars, ScansRight', sweep.pc = "idle" \/ NoneReparsed
  PROVE  ScanQuiet'
<1>a. sweep \in Sweep /\ InspectorSees
  BY DEF TypeOK, CommandsTypeOK, ScansRight
<1>b. \A s \in SubIds : s.slot # WikiSlot => s.slot \in QueuesScanned
  BY DEF SubIds, QueuesScanned
<1>1. CASE UNCHANGED sweep
  <2>1. CASE sweep.pc = "idle"
    BY <1>1, <2>1 DEF ScanQuiet, Scanned
  <2>2. CASE sweep.pc # "idle" /\ DefaultQueue \in sweep.left
    <3>1. sweep.pc = "probe" /\ QueuesScanned \subseteq sweep.left
      BY <1>a, <2>2 DEF ScanQuiet, Sweep
    <3> QED
      BY <1>1, <1>b, <2>2, <3>1 DEF ScanQuiet, Scanned
  <2>3. CASE sweep.pc # "idle" /\ DefaultQueue \notin sweep.left
    <3>1. /\ \A d \in DocIds : doc[d].pc \in Idle
          /\ \A p \in PostIds : post[p].pc \in Idle
      BY <2>3 DEF ScanQuiet, Scanned
    <3>2. /\ \A d \in DocIds : doc'[d].pc \in Idle
          /\ \A p \in PostIds : post'[p].pc \in Idle
          /\ \A s \in SubIds : sub[s].pc \in Idle => sub'[s].pc \in Idle
      BY <2>3, <3>1, WorkFlows
    <3> QED
      BY <1>1, <2>3, <3>2 DEF ScanQuiet, Scanned
  <2> QED
    BY <2>1, <2>2, <2>3
<1>2. CASE SweepSelect
  <2>1. sweep' = [sweep EXCEPT !.pc = "probe", !.left = QueuesScanned]
    BY <1>2, <1>a DEF SweepSelect
  <2>2. sweep'.pc = "probe" /\ sweep'.left = QueuesScanned /\ DefaultQueue \in QueuesScanned
    BY <1>a, <2>1 DEF Sweep, QueuesScanned
  <2> QED
    BY <1>b, <2>2 DEF ScanQuiet, Scanned
<1>3. CASE SweepFail
  BY <1>a, <1>3 DEF SweepFail, Sweep, ScanQuiet, Scanned
<1>4. ASSUME NEW queue \in QueuesScanned, SweepProbe(queue)
      PROVE  ScanQuiet'
  <2>1. CASE Found(queue)
    BY <1>a, <2>1 DEF Found, Sweep, ScanQuiet, Scanned
  <2>2. CASE NotFound(queue)
    <3>1. /\ sweep'.left = sweep.left \ {queue}
          /\ sweep'.pc = "update" => sweep.left = {queue}
          /\ sweep.pc = "probe" /\ queue \in sweep.left
          /\ queue = DefaultQueue \/ DefaultQueue \notin sweep.left
          /\ UNCHANGED <<doc, post, sub>>
      BY <1>4, <2>2 DEF SweepProbe, NotFound, InOrder, storeVars
    <3>2. ~Holds(queue)
      BY <1>a, <2>2, CommandsAssumption DEF NotFound, ScansRight, Sweep
    <3>3. sweep'.pc = "probe" \/ sweep'.left = {}
      BY <2>2, <3>1 DEF NotFound
    <3>4. DefaultQueue \notin sweep'.left
      BY <3>1
    <3>5. /\ \A d \in DocIds : doc[d].pc \in Idle
          /\ \A p \in PostIds : post[p].pc \in Idle
      BY <3>1, <3>2 DEF Holds, ScanQuiet, Scanned
    <3>6. \A s \in SubIds : s.slot # WikiSlot /\ s.slot \notin sweep'.left => sub[s].pc \in Idle
      BY <3>1, <3>2 DEF Holds, ScanQuiet, Scanned
    <3> QED
      BY <2>2, <3>1, <3>3, <3>4, <3>5, <3>6 DEF NotFound, ScanQuiet, Scanned
  <2> QED
    BY <1>4, <2>1, <2>2 DEF SweepProbe
<1>5. SweepStep \/ UNCHANGED sweep
  <2>1. UNCHANGED commandVars \/ CommandsNext
    BY DEF Next, Pipeline, vars
  <2> QED
    BY <2>1, CallsGrow DEF commandVars
<1> QED
  BY <1>1, <1>2, <1>3, <1>4, <1>5 DEF SweepStep

(* When the sweep has read them all, none is left to be at work.           *)
LEMMA ScanOver == ASSUME ScanQuiet, sweep.pc = "update" PROVE PipelineIdle
BY DEF ScanQuiet, Scanned, PipelineIdle

LEMMA QuietSweepNext == TypeOK /\ QuietSweep /\ [Next]_vars => QuietSweep'
<1> SUFFICES ASSUME TypeOK, QuietSweep, [Next]_vars, ScansRight', OneParse'
             PROVE  ScanQuiet'
  BY DEF QuietSweep
<1>1. ScanQuiet
  BY DisturbancesGrow DEF QuietSweep
<1>2. NoneReparsed
  BY DEF NoneReparsed, OneParse
<1> QED
  BY <1>1, <1>2, ScanNext

-----------------------------------------------------------------------------
(* What is held and owed are finite counts.                                *)
LEMMA HeldShrinks ==
  ASSUME IsFiniteSet(Held), Held' \subseteq Held
  PROVE  /\ IsFiniteSet(Held)'
         /\ Cardinality(Held)' \in Nat /\ Cardinality(Held) \in Nat
         /\ Cardinality(Held)' <= Cardinality(Held)
BY FS_Subset, FS_CardinalityType

(* What post-processing still has to hand out or to release is a number.   *)
LEMMA OwedType ==
  ASSUME post \in [PostIds -> PostTask], NEW p \in PostIds
  PROVE  /\ IsFiniteSet(post[p].todo) /\ Cardinality(post[p].todo) \in Nat
         /\ post[p].short \in Nat
         /\ Owed(p) \in Nat
<1>1. post[p].todo \subseteq Slots /\ post[p].short \in Nat
  BY DEF PostTask
<1>2. IsFiniteSet(post[p].todo)
  BY <1>1, StoreAssumption, FS_Subset
<1>3. Cardinality(post[p].todo) \in Nat
  BY <1>2, FS_CardinalityType
<1> QED
  BY <1>1, <1>2, <1>3 DEF Owed

(* One slot is taken out of what is owed.                                  *)
LEMMA TodoShrinks ==
  ASSUME post \in [PostIds -> PostTask], NEW p \in PostIds, NEW slot \in post[p].todo
  PROVE  /\ Cardinality(post[p].todo \ {slot}) = Cardinality(post[p].todo) - 1
         /\ Cardinality(post[p].todo) > 0
<1>1. IsFiniteSet(post[p].todo) /\ Cardinality(post[p].todo) \in Nat
  BY OwedType
<1>2. Cardinality(post[p].todo \ {slot}) = Cardinality(post[p].todo) - 1
  BY <1>1, FS_RemoveElement
<1>3. Cardinality(post[p].todo) # 0
  BY <1>1, FS_EmptySet
<1> QED
  BY <1>1, <1>2, <1>3

(* Nothing is held before post-processing reaches its fan-out.             *)
LEMMA NothingHeld ==
  ASSUME StagesInOrder, \A p \in PostIds : post[p].pc \notin {"enqueue", "promote", "done"}
  PROVE  Held = {} /\ \A s \in SubIds : sub[s].pc = "none"
BY DEF StagesInOrder, Held, Idle

(* The parse worker never touches the counter; it completes a row only     *)
(* before anything is planned.                                             *)
LEMMA CounterDocStep ==
  ASSUME TypeOK, OneRun, StagesInOrder, CounterOwned, DocStep(0)
  PROVE  CounterOwned'
<1>a. /\ 0 \in DocIds /\ doc[0].pc \notin Idle /\ UNCHANGED sub
      /\ row'.count = row.count
      /\ post \in [PostIds -> PostTask]
  BY DocFlow, DocRow, StoreAssumption DEF DocIds, TypeOK, StoreTypeOK
<1>1. Covered
  BY <1>a DEF CounterOwned, GivenUp, PipelineIdle
<1>2. Held' = Held
  BY <1>a DEF Held
<1>3. \A p \in PostIds : Owed(p)' = Owed(p)
  <2>1. CASE UNCHANGED post
    BY <2>1 DEF Owed
  <2>2. CASE doc[0].pc = "fanout" /\ post' = [post EXCEPT ![<<0, doc[0].run>>] =
                                  [NoPost EXCEPT !.pc = "queued", !.att = doc[0].att]]
    <3>1. \A p \in PostIds : post[p].pc = "none" /\ post'[p].pc \in {"none", "queued"}
      BY <1>a, <2>2 DEF StagesInOrder, NoPost
    <3> QED
      BY <3>1 DEF Owed
  <2> QED
    BY <1>a, <2>1, <2>2, DocQueues
<1>4. row'.status = "completed" => Held = {} /\ \A p \in PostIds : Owed(p) = 0
  <2>1. CASE row'.status = row.status
    BY <2>1 DEF CounterOwned
  <2>2. CASE doc[0].pc = "save"
    <3>1. \A p \in PostIds : post[p].pc = "none"
      BY <2>2 DEF StagesInOrder
    <3> QED
      BY <3>1, NothingHeld DEF Owed
  <2> QED
    BY <1>a, <2>1, <2>2, DocRow
<1>5. Covered'
  BY <1>a, <1>1, <1>2, <1>3 DEF Covered
<1>6. IsFiniteSet(Held)'
  BY <1>2 DEF CounterOwned
<1> HIDE DEF Held, Owed, Covered
<1> QED
  BY <1>a, <1>2, <1>3, <1>4, <1>5, <1>6 DEF CounterOwned

(* A set that gains at most one element.                                   *)
LEMMA AtMostOneMore ==
  ASSUME NEW H, IsFiniteSet(H), NEW x, NEW G, G \subseteq H \union {x}
  PROVE  /\ IsFiniteSet(G) /\ Cardinality(G) \in Nat
         /\ Cardinality(G) <= Cardinality(H) + 1
<1>1. /\ IsFiniteSet(H \union {x})
      /\ Cardinality(H \union {x}) <= Cardinality(H) + 1
      /\ Cardinality(H \union {x}) \in Nat /\ Cardinality(H) \in Nat
  BY FS_AddElement, FS_CardinalityType
<1>2. /\ IsFiniteSet(G)
      /\ Cardinality(G) <= Cardinality(H \union {x})
      /\ Cardinality(G) \in Nat
  BY <1>1, FS_Subset, FS_CardinalityType
<1> QED
  BY <1>1, <1>2

(* Post-processing seeds the counter with what it plans, and hands every   *)
(* slot on or releases it: the counter keeps covering a set of tasks to    *)
(* which at most the one is added that gets the slot.                      *)
LEMMA PostBalance ==
  ASSUME TypeOK, Shapes, NEW p \in PostIds, PostStep(p), NEW H, NEW G,
         IsFiniteSet(H), row.count >= Cardinality(H) + Owed(p),
         row.status = "completed" => H = {} /\ Owed(p) = 0,
         post[p].pc \notin {"enqueue", "promote"} => H = {},
         UNCHANGED sub => G \subseteq H,
         \A slot \in Slots : PostEnqueue(p, slot) => G \subseteq H \union {SubOf(p, slot)}
  PROVE  /\ IsFiniteSet(G) /\ Owed(p)' \in Nat
         /\ row'.count >= Cardinality(G) + Owed(p)'
         /\ row'.status = "completed" => G = {} /\ Owed(p)' = 0
<1> DEFINE Balanced == /\ IsFiniteSet(G) /\ Owed(p)' \in Nat
                       /\ row'.count >= Cardinality(G) + Owed(p)'
                       /\ row'.status = "completed" => G = {} /\ Owed(p)' = 0
<1>a. /\ post \in [PostIds -> PostTask] /\ sub \in [SubIds -> SubTask]
      /\ row \in Row /\ row.count \in Nat /\ row'.count \in Nat
      /\ post[p].pc \notin Idle
  <2>1. row \in Row /\ row.count \in Nat
    BY DEF TypeOK, StoreTypeOK, Row
  <2>2. row' \in Row
    BY PostStepType DEF TypeOK, StoreTypeOK
  <2> QED
    BY <2>1, <2>2, PostFlow DEF TypeOK, StoreTypeOK, Row
<1>b. /\ IsFiniteSet(H) /\ Cardinality(H) \in Nat
      /\ row.count >= Cardinality(H) + Owed(p)
      /\ row.status = "completed" => H = {} /\ Owed(p) = 0
  BY FS_CardinalityType
<1>c. /\ Owed(p) \in Nat /\ Cardinality(post[p].todo) \in Nat /\ post[p].short \in Nat
      /\ post[p].pc \notin {"enqueue", "promote"} => post[p].short = 0
      /\ post[p].pc = "promote" => post[p].todo = {}
  BY <1>a, OwedType DEF Shapes
<1>e. ASSUME NEW pc, PostGoto(p, pc)
      PROVE  post'[p].pc = pc /\ (pc # "done" => post'[p].todo = post[p].todo
                                                /\ post'[p].short = post[p].short)
  BY <1>a, <1>e DEF PostGoto, PostGone, NoPost, PostTask
<1>f. UNCHANGED sub => /\ IsFiniteSet(G) /\ Cardinality(G) \in Nat
                       /\ Cardinality(G) <= Cardinality(H) /\ (H = {} => G = {})
  BY <1>b, FS_Subset, FS_CardinalityType
<1>g. post[p].pc \notin {"enqueue", "promote"} => H = {} /\ (UNCHANGED sub => G = {})
  OBVIOUS
<1>1. ASSUME post[p].pc \notin {"enqueue", "promote", "done", "seeded"},
             post'[p].pc \notin {"enqueue", "promote", "seeded"},
             UNCHANGED sub, row'.count = row.count
      PROVE  Balanced
  <2>1. H = {} /\ G = {}
    BY <1>a, <1>1, <1>f, <1>g
  <2>2. Owed(p)' = 0
    BY <1>1 DEF Owed
  <2> QED
    BY <1>a, <1>b, <1>1, <2>1, <2>2, FS_EmptySet
<1>2. CASE PostFail(p) \/ PostLoad(p) \/ PostPlan(p)
  <2>1. post'[p].pc \in {"queued", "dead", "done", "loaded", "planned"}
    <3>1. CASE PostFail(p)
      BY <1>a, <3>1 DEF PostFail, Retried, NoPost, PostTask
    <3>2. CASE PostLoad(p)
      BY <1>e, <3>2 DEF PostLoad
    <3>3. CASE PostPlan(p)
      BY <1>a, <3>3 DEF PostPlan, PostTask
    <3> QED
      BY <1>2, <3>1, <3>2, <3>3
  <2> QED
    BY <1>1, <1>2, <2>1 DEF PostFail, PostLoad, PostPlan
<1>3. CASE PostDeadLetter(p) \/ PostNothingToEnrich(p) \/ PostSeedFailed(p)
  <2>1. post'[p].pc = "done"
    BY <1>e, <1>3 DEF PostDeadLetter, PostNothingToEnrich, PostSeedFailed
  <2>2. row'.count = row.count
    BY <1>a, <1>3 DEF PostDeadLetter, PostNothingToEnrich, PostSeedFailed, BestEffort, SetStatusColumn, Row
  <2> QED
    BY <1>1, <1>3, <2>1, <2>2 DEF PostDeadLetter, PostNothingToEnrich, PostSeedFailed
<1>4. CASE PostSeed(p)
  <2>1. CASE SeedMatches
    <3>1. H = {} /\ G = {}
      BY <1>a, <1>4, <1>f, <1>g DEF PostSeed
    <3>2. /\ row'.count = Cardinality(post[p].todo) /\ row'.status = "finalizing"
          /\ post'[p].pc = "seeded" /\ post'[p].todo = post[p].todo /\ post'[p].short = 0
      <4>1. SetFinalizing(Cardinality(post[p].todo)) /\ PostGoto(p, "seeded") /\ post[p].pc = "planned"
        BY <1>4, <2>1 DEF PostSeed
      <4>2. row'.count = Cardinality(post[p].todo) /\ row'.status = "finalizing"
        BY <1>a, <4>1 DEF SetFinalizing, Row
      <4> QED
        BY <1>c, <1>e, <4>1, <4>2
    <3>3. Owed(p)' = Cardinality(post[p].todo)
      BY <1>c, <3>2 DEF Owed
    <3> QED
      BY <1>c, <3>1, <3>2, <3>3, FS_EmptySet
  <2>2. CASE ~SeedMatches
    BY <1>1, <1>e, <1>4, <2>2 DEF PostSeed
  <2> QED
    BY <2>1, <2>2
<1>5. CASE PostSummaryStatus(p)
  <2>1. Owed(p)' = Owed(p)
    BY <1>e, <1>5 DEF PostSummaryStatus, Owed
  <2>2. row'.count = row.count /\ row'.status = row.status
    BY <1>a, <1>5 DEF PostSummaryStatus, BestEffort, SetSummaryColumn, Row
  <2> QED
    BY <1>a, <1>b, <1>c, <1>f, <1>5, <2>1, <2>2 DEF PostSummaryStatus
<1>6. ASSUME NEW slot \in Slots, PostEnqueue(p, slot)
      PROVE  Balanced
  <2>a. slot \in post[p].todo /\ post[p].pc = "enqueue" /\ UNCHANGED row
    BY <1>6 DEF PostEnqueue, NextToEnqueue
  <2>1. /\ Owed(p)' = Owed(p) - 1 /\ Owed(p) > 0 /\ Owed(p)' \in Nat
    <3>1. /\ post'[p].pc = "enqueue" /\ post'[p].todo = post[p].todo \ {slot}
          /\ post'[p].short = post[p].short
      BY <1>a, <1>6 DEF PostEnqueue, PostTask
    <3>2. Owed(p)' = Cardinality(post[p].todo \ {slot}) + post[p].short
      BY <3>1 DEF Owed
    <3>3. Owed(p) = Cardinality(post[p].todo) + post[p].short
      BY <2>a DEF Owed
    <3>4. /\ Cardinality(post[p].todo \ {slot}) = Cardinality(post[p].todo) - 1
          /\ Cardinality(post[p].todo) > 0
      BY <1>a, <2>a, TodoShrinks
    <3> QED
      BY <1>c, <3>1, <3>2, <3>3, <3>4
  <2>2. G \subseteq H \union {SubOf(p, slot)}
    BY <1>6
  <2>3. /\ IsFiniteSet(G) /\ Cardinality(G) \in Nat
        /\ Cardinality(G) <= Cardinality(H) + 1
    BY <1>b, <2>2, AtMostOneMore
  <2>4. row'.status # "completed"
    BY <1>b, <2>a, <2>1
  <2>5. row'.count >= Cardinality(G) + Owed(p)'
    BY <1>a, <1>b, <1>c, <2>a, <2>1, <2>3
  <2> QED
    BY <1>a, <2>a, <2>1, <2>3, <2>4, <2>5
<1>7. ASSUME NEW slot \in Slots, PostEnqueueFailed(p, slot)
      PROVE  Balanced
  <2>a. slot \in post[p].todo /\ post[p].pc = "enqueue" /\ UNCHANGED <<row, sub>>
    BY <1>7 DEF PostEnqueueFailed, NextToEnqueue
  <2>1. Owed(p)' <= Owed(p) /\ Owed(p) > 0 /\ Owed(p)' \in Nat
    <3>1. /\ post'[p].pc = "enqueue" /\ post'[p].todo = post[p].todo \ {slot}
          /\ post'[p].short \in {post[p].short, post[p].short + 1}
      BY <1>a, <1>7 DEF PostEnqueueFailed, PostTask
    <3>2. Owed(p)' = Cardinality(post[p].todo \ {slot}) + post'[p].short
      BY <3>1 DEF Owed
    <3>3. Owed(p) = Cardinality(post[p].todo) + post[p].short
      BY <2>a DEF Owed
    <3>4. /\ Cardinality(post[p].todo \ {slot}) = Cardinality(post[p].todo) - 1
          /\ Cardinality(post[p].todo) > 0
      BY <1>a, <2>a, TodoShrinks
    <3> QED
      BY <1>c, <3>1, <3>2, <3>3, <3>4
  <2> QED
    BY <1>a, <1>b, <1>c, <1>f, <2>a, <2>1
<1>8. CASE PostRelease(p)
  <2>1. /\ post'[p].pc = "promote" /\ post'[p].todo = post[p].todo
        /\ post'[p].short = post[p].short - 1 /\ post[p].short > 0
        /\ post[p].pc = "enqueue"
    BY <1>a, <1>8 DEF PostRelease, PostTask
  <2>2. Owed(p)' = Owed(p) - 1 /\ Owed(p) > 0 /\ Owed(p)' \in Nat
    BY <1>c, <2>1 DEF Owed
  <2>3. row'.count \in {row.count, row.count - 1} /\ row'.status = row.status
    BY <1>a, <1>8 DEF PostRelease, DecrementCount, Row
  <2>4. UNCHANGED sub
    BY <1>8 DEF PostRelease
  <2> QED
    BY <1>a, <1>b, <1>c, <1>f, <2>2, <2>3, <2>4
<1>9. CASE PostPromote(p)
  <2>1. Owed(p)' = Owed(p)
    BY <1>e, <1>9 DEF PostPromote, Owed
  <2>2. /\ row'.count = row.count
        /\ row'.status = row.status \/ row.count = 0
    BY <1>a, <1>9 DEF PostPromote, PromoteRow, PromoteMatches, Row
  <2>3. row.count = 0 => H = {} /\ Owed(p) = 0
    BY <1>a, <1>b, <1>c, FS_EmptySet
  <2>4. UNCHANGED sub
    BY <1>9 DEF PostPromote
  <2> QED
    BY <1>a, <1>b, <1>c, <1>f, <2>1, <2>2, <2>3, <2>4
<1>10. CASE PostReleased(p)
  <2>1. Owed(p)' = 0
    BY <1>e, <1>10 DEF PostReleased, Owed
  <2> QED
    BY <1>a, <1>b, <1>c, <1>f, <1>10, <2>1 DEF PostReleased
<1> QED
  BY <1>2, <1>3, <1>4, <1>5, <1>6, <1>7, <1>8, <1>9, <1>10 DEF PostStep

(* While the pipeline runs once, what is held is a set of that kind.       *)
LEMMA CounterPostStep ==
  ASSUME TypeOK, Shapes, StagesInOrder, CounterOwned, NEW p \in PostIds, PostStep(p)
  PROVE  CounterOwned'
<1>a. /\ post \in [PostIds -> PostTask] /\ sub \in [SubIds -> SubTask]
      /\ post[p].pc \notin Idle
      /\ \A q \in PostIds : q # p => post[q].pc = "none" /\ post'[q].pc = "none"
  BY PostFlow DEF TypeOK, StoreTypeOK, StagesInOrder, Idle
<1>b. Covered
  BY <1>a DEF CounterOwned, GivenUp, PipelineIdle
<1>c. post[p].pc \notin {"enqueue", "promote"} => Held = {}
  BY <1>a, NothingHeld DEF Idle
<1>d. ASSUME NEW slot \in Slots, PostEnqueue(p, slot)
      PROVE  Held' \subseteq Held \union {SubOf(p, slot)}
  BY <1>a, <1>d DEF PostEnqueue, Held
<1>1. /\ IsFiniteSet(Held)' /\ Owed(p)' \in Nat
      /\ row'.count >= Cardinality(Held)' + Owed(p)'
      /\ row'.status = "completed" => Held' = {} /\ Owed(p)' = 0
  <2> DEFINE H == Held
             G == Held'
  <2>1. /\ IsFiniteSet(H) /\ row.count >= Cardinality(H) + Owed(p)
        /\ row.status = "completed" => H = {} /\ Owed(p) = 0
        /\ post[p].pc \notin {"enqueue", "promote"} => H = {}
        /\ UNCHANGED sub => G \subseteq H
        /\ \A slot \in Slots : PostEnqueue(p, slot) => G \subseteq H \union {SubOf(p, slot)}
    BY <1>b, <1>c, <1>d DEF CounterOwned, Covered, Held
  <2> HIDE DEF H, G
  <2>2. /\ IsFiniteSet(G) /\ Owed(p)' \in Nat
        /\ row'.count >= Cardinality(G) + Owed(p)'
        /\ row'.status = "completed" => G = {} /\ Owed(p)' = 0
    BY <2>1, PostBalance
  <2> QED
    BY <2>2 DEF G
<1>2. \A q \in PostIds : q # p => Owed(q)' = 0
  BY <1>a DEF Owed
<1>3. Covered'
  <2>1. Cardinality(Held)' \in Nat /\ row'.count \in Nat
    BY <1>1, FS_CardinalityType, PostStepType DEF TypeOK, StoreTypeOK, Row
  <2>2. \A q \in PostIds : row'.count >= Cardinality(Held)' + Owed(q)'
    BY <1>1, <1>2, <2>1
  <2> QED
    BY <2>2 DEF Covered
<1>4. \A s \in SubIds : sub'[s].pc \in {"loaded", "marked"} => sub'[s].snap.status # "completed"
  BY <1>a, PostFlow DEF CounterOwned, NoSub
<1> QED
  BY <1>1, <1>2, <1>3, <1>4 DEF CounterOwned

(* An enrichment task gives its slot back with its decrement or loses it;  *)
(* what finds the counter at zero finds nothing held.                      *)
LEMMA CounterSubStep ==
  ASSUME TypeOK, Shapes, CounterOwned, NEW s \in SubIds, SubStep(s), [Next]_vars, OneParse'
  PROVE  CounterOwned'
<1>a. /\ row \in Row /\ row.count \in Nat /\ post \in [PostIds -> PostTask]
      /\ sub[s].pc \notin Idle
      /\ \A t \in SubIds : t # s => sub'[t] = sub[t]
      /\ UNCHANGED post
  BY SubFlow DEF TypeOK, StoreTypeOK, Row
<1>b. IsFiniteSet(Held) /\ Cardinality(Held) \in Nat
  BY FS_CardinalityType DEF CounterOwned
<1>c. \A p \in PostIds : Owed(p)' = Owed(p) /\ Owed(p) \in Nat
  BY <1>a, OwedType DEF Owed
<1>d. Held' \subseteq Held
  BY <1>a, SubFlow DEF Held, Idle
<1>e. IsFiniteSet(Held)' /\ Cardinality(Held)' \in Nat /\ Cardinality(Held)' <= Cardinality(Held)
  BY <1>b, <1>d, HeldShrinks
<1>1. Covered' \/ GivenUp'
  <2>1. CASE GivenUp
    <3>1. PipelineIdle'
      BY <2>1, IdleNext DEF GivenUp
    <3>2. s.slot = WikiSlot
      BY <1>a, <2>1 DEF GivenUp, PipelineIdle
    <3>3. row'.status = row.status
      BY <2>1, <3>2, SubRow, StoreAssumption DEF Shapes, GivenUp, PromoteMatches
    <3> QED
      BY <2>1, <3>1, <3>3 DEF GivenUp
  <2>2. CASE Covered /\ row'.count = row.count
    <3>1. \A p \in PostIds : row'.count >= Cardinality(Held)' + Owed(p)'
      BY <1>a, <1>b, <1>c, <1>e, <2>2 DEF Covered
    <3> QED
      BY <3>1 DEF Covered
  <2>3. CASE Covered /\ sub[s].pc = "drain" /\ DecrementCount /\ SubDrain(s)
    <3>1. s \in Held /\ s \notin Held'
      BY <2>3, SubGotoMoves DEF Held, Idle, SubDrain, TypeOK, StoreTypeOK
    <3>2. Cardinality(Held)' <= Cardinality(Held) - 1
      <4>1. IsFiniteSet(Held \ {s}) /\ Cardinality(Held \ {s}) = Cardinality(Held) - 1
        BY <1>b, <3>1, FS_RemoveElement
      <4>2. Held' \subseteq Held \ {s}
        BY <1>d, <3>1
      <4> QED
        BY <4>1, <4>2, FS_Subset
    <3>3. row'.count \in {row.count, row.count - 1}
      BY <1>a, <2>3 DEF DecrementCount, Row
    <3>4. \A p \in PostIds : row'.count >= Cardinality(Held)' + Owed(p)'
      BY <1>a, <1>b, <1>c, <1>e, <2>3, <3>2, <3>3 DEF Covered
    <3> QED
      BY <3>4 DEF Covered
  <2>4. row'.count = row.count \/ SubDrain(s)
    BY <1>a DEF SubStep, SubStart, SummaryLoad, SummaryMark, SummarySave, SummarySaveFailed,
         SummaryChunk, SummaryIndex, SubFinish, SubFail, SubPromote, SubFinalizeFailed,
         BestEffort, SaveRow, PromoteRow, Row
  <2> QED
    BY <2>1, <2>2, <2>3, <2>4 DEF CounterOwned, SubDrain
<1>2. row'.status = "completed" => Held = {} /\ \A p \in PostIds : Owed(p) = 0
  <2>1. CASE row'.status = row.status
    BY <2>1 DEF CounterOwned
  <2>2. CASE PromoteMatches
    <3>1. Covered /\ row.count = 0
      BY <2>2 DEF PromoteMatches, CounterOwned, GivenUp
    <3>2. \A p \in PostIds : Cardinality(Held) = 0 /\ Owed(p) = 0
      BY <1>b, <1>c, <3>1 DEF Covered
    <3>3. <<0, 0>> \in PostIds
      BY StoreAssumption DEF PostIds, DocIds, Runs
    <3> QED
      BY <1>b, <3>2, <3>3, FS_EmptySet
  <2>3. CASE sub[s].pc \in {"loaded", "marked"} /\ row'.status = sub[s].snap.status
    BY <2>3 DEF CounterOwned
  <2> QED
    BY <2>1, <2>2, <2>3, SubRow
<1>3. row'.status = "completed" => Held' = {} /\ \A p \in PostIds : Owed(p)' = 0
  BY <1>c, <1>d, <1>2
<1>4. ASSUME NEW t \in SubIds, sub'[t].pc \in {"loaded", "marked"}
      PROVE  sub'[t].snap.status # "completed"
  <2>1. CASE t # s
    BY <1>a, <1>4, <2>1 DEF CounterOwned
  <2>2. CASE t = s /\ sub[s].pc = "running" /\ sub'[s].snap.status = row.status
    <3>1. s \in Held
      BY <2>2 DEF Held, Idle
    <3> QED
      BY <2>2, <3>1 DEF CounterOwned
  <2>3. CASE t = s /\ sub[s].pc = "loaded" /\ sub'[s].snap = sub[s].snap
    BY <2>3 DEF CounterOwned
  <2> QED
    BY <1>4, <2>1, <2>2, <2>3, SubFlow
<1> QED
  BY <1>e, <1>1, <1>3, <1>4 DEF CounterOwned

(* Of the commands that are left only the sweep takes the counter, when    *)
(* nothing but wiki ops can still drain.                                   *)
LEMMA CounterCommandStep ==
  ASSUME TypeOK, Shapes, QuietSweep, CounterOwned, CommandsNext, [Next]_vars,
         CounterUndisturbed, CounterUndisturbed'
  PROVE  CounterOwned'
<1>a. /\ row \in Row /\ row.count \in Nat /\ post \in [PostIds -> PostTask]
      /\ cancel.pc = "idle" /\ restarts' = restarts
      /\ \A n \in ReparseIds : reparse[n].pc = "idle"
      /\ sweep.pc = "update" => PipelineIdle
  BY ScanOver DEF TypeOK, StoreTypeOK, Row, Shapes, CounterUndisturbed, NoReparse, QuietSweep, OneRun
<1>b. IsFiniteSet(Held) /\ Cardinality(Held) \in Nat
  BY FS_CardinalityType DEF CounterOwned
<1>c. \A p \in PostIds : Owed(p)' = Owed(p) /\ Owed(p) \in Nat
  <2>1. \A p \in PostIds : post'[p] = post[p]
                           \/ (post[p].pc = "queued" /\ post'[p].pc = "done")
    BY CommandFlow DEF PostGone, NoPost
  <2> QED
    BY <1>a, <2>1, OwedType DEF Owed
<1>d. Held' \subseteq Held
  BY CommandFlow DEF Held, Idle, SubGone, NoSub
<1>e. IsFiniteSet(Held)' /\ Cardinality(Held)' \in Nat /\ Cardinality(Held)' <= Cardinality(Held)
  BY <1>b, <1>d, HeldShrinks
<1>f. PipelineIdle => PipelineIdle'
  BY IdleNext DEF CounterUndisturbed, OneRun
<1>1. row'.status \in {row.status, "deleting", "failed"}
  BY <1>a, CommandRow
<1>2. Covered' \/ GivenUp'
  <2>1. CASE row'.status = "failed" /\ sweep.pc = "update"
    BY <1>a, <1>f, <2>1 DEF GivenUp
  <2>2. CASE GivenUp
    BY <1>1, <1>f, <2>2 DEF GivenUp
  <2>3. CASE Covered /\ row'.count = row.count
    <3>1. \A p \in PostIds : row'.count >= Cardinality(Held)' + Owed(p)'
      BY <1>a, <1>b, <1>c, <1>e, <2>3 DEF Covered
    <3> QED
      BY <3>1 DEF Covered
  <2> QED
    BY <1>a, <2>1, <2>2, <2>3, CommandRow DEF CounterOwned
<1>3. row'.status = "completed" => Held' = {} /\ \A p \in PostIds : Owed(p)' = 0
  BY <1>c, <1>d, <1>1 DEF CounterOwned
<1>4. \A s \in SubIds : sub'[s].pc \in {"loaded", "marked"} => sub'[s].snap.status # "completed"
  BY CommandFlow DEF CounterOwned, SubGone, NoSub
<1> QED
  BY <1>e, <1>2, <1>3, <1>4 DEF CounterOwned

(* The counter covers what is held and owed until the sweep gives it up.   *)
LEMMA CounterNext ==
  TypeOK /\ Shapes /\ Stages /\ QuietSweep /\ Counter /\ [Next]_vars => Counter'
<1> SUFFICES ASSUME TypeOK, Shapes, Stages, QuietSweep, Counter, [Next]_vars,
                    CounterUndisturbed'
             PROVE  CounterOwned'
  BY DEF Counter
<1>a. /\ CounterUndisturbed /\ CounterOwned /\ StagesInOrder
      /\ OneRun /\ OneRun' /\ OneParse'
  BY DisturbancesGrow DEF Counter, CounterUndisturbed, Stages, OneRun
<1>1. CASE UNCHANGED vars
  BY <1>a, <1>1 DEF vars, storeVars, CounterOwned, Held, Covered, GivenUp, PipelineIdle, Owed
<1> QED
  BY <1>a, <1>1, OneRunStep, CounterDocStep, CounterPostStep, CounterSubStep, CounterCommandStep

-----------------------------------------------------------------------------
(* A failed row stays at rest, task by task.                               *)
LEMMA FailingDocStep ==
  ASSUME TypeOK, StagesInOrder, FailedAtRest, DocStep(0)
  PROVE  FailedAtRest'
<1>a. /\ 0 \in DocIds /\ UNCHANGED sub
      /\ doc[0].pc \notin Idle
      /\ doc[0].pc \in {"account", "unindex", "dead"} => doc'[0].pc = "done"
      /\ doc'[0].pc = "account" => doc[0].pc = "fanout"
  BY DocFlow, StoreAssumption DEF DocIds
<1>1. CASE row'.status = "failed" /\ row.status = "failed"
  <2>1. doc[0].pc \in {"account", "unindex", "dead"}
    BY <1>a, <1>1 DEF FailedAtRest, Idle
  <2>2. UNCHANGED post
    BY <1>a, <2>1, DocQueues
  <2> QED
    BY <1>a, <1>1, <2>1, <2>2 DEF FailedAtRest
<1>2. CASE row'.status = "failed" /\ row.status # "failed"
  <2>1. /\ doc'[0].pc \in {"unindex", "dead", "done"}
        /\ doc[0].pc # "account"
    BY <1>a, <1>2, DocRow
  <2>2. UNCHANGED post
    BY <1>a, <2>1, DocQueues
  <2>3. \A p \in PostIds : post[p].pc = "none"
    BY <1>a, <2>1 DEF StagesInOrder, Idle
  <2>4. \A s \in SubIds : sub[s].pc = "none"
    BY <2>3, NothingHeld
  <2> QED
    BY <1>a, <1>2, <2>1, <2>2, <2>3, <2>4 DEF FailedAtRest, Idle
<1>3. CASE row'.status # "failed"
  BY <1>a, <1>3 DEF FailedAtRest
<1> QED
  BY <1>1, <1>2, <1>3

(* Post-processing fails a row only from its dead letter.                  *)
LEMMA FailingPostStep ==
  ASSUME TypeOK, StagesInOrder, FailedAtRest, NEW p \in PostIds, PostStep(p)
  PROVE  FailedAtRest'
<1>a. /\ post[p].pc \notin Idle
      /\ \A q \in PostIds : q # p => post[q].pc = "none" /\ post'[q] = post[q]
      /\ UNCHANGED doc
      /\ sub \in [SubIds -> SubTask]
  BY PostFlow DEF StagesInOrder, Idle, TypeOK, StoreTypeOK
<1>b. row.status # "failed"
  BY <1>a DEF FailedAtRest
<1>1. \A s \in SubIds : sub'[s].pc \in {"loaded", "marked"} => sub'[s].snap.status # "failed"
  BY <1>a, PostFlow DEF FailedAtRest, NoSub
<1>2. ASSUME row'.status = "failed"
      PROVE  /\ doc'[0].pc \in {"account", "done"}
             /\ \A q \in PostIds : post'[q].pc \in Idle
             /\ \A s \in SubIds : sub'[s].pc \in Idle
  <2>1. post[p].pc = "dead" /\ post'[p].pc = "done"
    BY <1>b, <1>2, PostRow
  <2>2. UNCHANGED sub
    BY <2>1, PostFlow
  <2>3. \A s \in SubIds : sub[s].pc = "none"
    BY <1>a, <2>1, NothingHeld
  <2> QED
    BY <1>a, <2>1, <2>2, <2>3 DEF StagesInOrder, Idle
<1> QED
  BY <1>1, <1>2 DEF FailedAtRest

(* An enrichment task that is at work holds a row that was not failed.     *)
LEMMA FailingSubStep ==
  ASSUME TypeOK, Shapes, FailedAtRest, NEW s \in SubIds, SubStep(s)
  PROVE  FailedAtRest'
<1>a. /\ sub[s].pc \notin Idle
      /\ \A t \in SubIds : t # s => sub'[t] = sub[t]
      /\ UNCHANGED <<doc, post>>
  BY SubFlow
<1>b. row.status = "failed" => s.slot = WikiSlot
  BY <1>a DEF FailedAtRest
<1>c. s.slot = WikiSlot => s.slot # SummarySlot
  BY StoreAssumption
<1>1. row'.status = "failed" => row.status = "failed"
  BY SubRow DEF FailedAtRest
<1>2. ASSUME NEW t \in SubIds, sub'[t].pc \in {"loaded", "marked"}
      PROVE  sub'[t].snap.status # "failed"
  <2>1. CASE t # s
    BY <1>a, <1>2, <2>1 DEF FailedAtRest
  <2>2. CASE t = s
    BY <1>b, <1>c, <1>2, <2>2, SubFlow DEF FailedAtRest
  <2> QED
    BY <2>1, <2>2
<1> QED
  BY <1>a, <1>b, <1>1, <1>2 DEF FailedAtRest

(* The sweep fails a row only over an idle pipeline.                       *)
LEMMA FailingCommandStep ==
  ASSUME TypeOK, Shapes, QuietSweep, FailedAtRest, CommandsNext, [Next]_vars,
         Undisturbed, Undisturbed'
  PROVE  FailedAtRest'
<1>a. /\ cancel.pc = "idle" /\ delete.pc = "idle" /\ restarts' = restarts
      /\ \A n \in ReparseIds : reparse[n].pc = "idle"
      /\ sweep.pc = "update" => PipelineIdle
      /\ PipelineIdle => PipelineIdle'
      /\ 0 \in DocIds /\ 0 \notin ReparseIds
  BY IdleNext, ScanOver, StoreAssumption DEF Shapes, Undisturbed, CounterUndisturbed, NoReparse,
     QuietSweep, OneRun, DocIds, ReparseIds
<1>1. \A s \in SubIds : sub'[s].pc \in {"loaded", "marked"} => sub'[s].snap.status # "failed"
  BY CommandFlow DEF FailedAtRest, SubGone, NoSub
<1>2. CASE row'.status = "failed" /\ row.status # "failed"
  <2>1. PipelineIdle'
    BY <1>a, <1>2, CommandRow
  <2> QED
    BY <1>a, <1>1, <2>1 DEF FailedAtRest, PipelineIdle, Idle
<1>3. CASE row'.status = "failed" /\ row.status = "failed"
  <2>1. doc'[0].pc = doc[0].pc \/ doc'[0].pc = "done"
    BY <1>a, CommandFlow
  <2> QED
    BY <1>1, <1>3, <2>1, CommandFlow
    DEF FailedAtRest, Idle, PostGone, SubGone, NoPost, NoSub
<1>4. CASE row'.status # "failed"
  BY <1>1, <1>4 DEF FailedAtRest
<1> QED
  BY <1>2, <1>3, <1>4

(* Nobody who finds a failed row has a status of his own to write.         *)
LEMMA FailingNext ==
  TypeOK /\ Shapes /\ Stages /\ QuietSweep /\ Failing /\ [Next]_vars => Failing'
<1> SUFFICES ASSUME TypeOK, Shapes, Stages, QuietSweep, Failing, [Next]_vars, Undisturbed'
             PROVE  FailedAtRest'
  BY DEF Failing
<1>a. /\ Undisturbed /\ FailedAtRest /\ StagesInOrder /\ OneRun'
  BY DisturbancesGrow DEF Failing, Undisturbed, CounterUndisturbed, Stages
<1>1. CASE UNCHANGED vars
  BY <1>a, <1>1 DEF vars, storeVars, FailedAtRest
<1> QED
  BY <1>a, <1>1, OneRunStep, FailingDocStep, FailingPostStep, FailingSubStep, FailingCommandStep

(* So a step that finds the row failed leaves it failed.                   *)
LEMMA FailedStays ==
  ASSUME TypeOK, Shapes, Stages, Failing, [Next]_vars, row.status = "failed", Undisturbed'
  PROVE  row'.status = "failed"
<1>a. /\ Undisturbed /\ FailedAtRest /\ OneRun'
      /\ 0 \in DocIds
  BY DisturbancesGrow, StoreAssumption DEF Failing, Undisturbed, CounterUndisturbed, DocIds
<1>1. ASSUME DocStep(0)
      PROVE  row'.status = "failed"
  BY <1>a, <1>1, DocRow DEF FailedAtRest
<1>2. ASSUME NEW p \in PostIds, PostStep(p)
      PROVE  FALSE
  BY <1>a, <1>2, PostFlow DEF FailedAtRest
<1>3. ASSUME NEW s \in SubIds, SubStep(s)
      PROVE  row'.status = "failed"
  <2>1. s.slot = WikiSlot
    BY <1>a, <1>3, SubFlow DEF FailedAtRest
  <2> QED
    BY <1>3, <2>1, SubRow, StoreAssumption DEF Shapes, PromoteMatches
<1>4. ASSUME CommandsNext
      PROVE  row'.status = "failed"
  BY <1>a, <1>4, CommandRow DEF Undisturbed, CounterUndisturbed, NoReparse, Shapes
<1> QED
  BY <1>a, <1>1, <1>2, <1>3, <1>4, OneRunStep DEF vars, storeVars

-----------------------------------------------------------------------------
(* A summary chunk is no text: the enrichment tasks leave the text alone.  *)
LEMMA SubText ==
  ASSUME TypeOK, NEW s \in SubIds, SubStep(s) \/ SubCrash(s)
  PROVE  TextChunks' = TextChunks /\ TextVectors' = TextVectors
<1>1. SummaryOf(s) \notin TextOrigin
  BY DEF SummaryOf, TextOrigin
<1>2. chunks' \in {chunks, chunks \union {SummaryOf(s)}}
  BY DEF SubStep, SubStart, SummaryLoad, SummaryMark, SummarySave, SummarySaveFailed, SummaryChunk,
     SummaryIndex, SubFinish, SubFail, SubDrain, SubPromote, SubFinalizeFailed, SubCrash
<1>3. vectors' \in {vectors, vectors \union {SummaryOf(s)}}
  BY DEF SubStep, SubStart, SummaryLoad, SummaryMark, SummarySave, SummarySaveFailed, SummaryChunk,
     SummaryIndex, SubFinish, SubFail, SubDrain, SubPromote, SubFinalizeFailed, SubCrash
<1> QED
  BY <1>1, <1>2, <1>3 DEF TextChunks, TextVectors

(* The parse worker by its place: before the write, between the writes,    *)
(* and past the index.                                                     *)
LEMMA IndexingDocStep ==
  ASSUME TypeOK, StagesInOrder, TextIndexed, NeedsEmbedding, DocStep(0)
  PROVE  TextIndexed'
<1>a. /\ doc \in [DocIds -> DocTask] /\ 0 \in DocIds
      /\ doc[0].pc \in DocPC /\ doc[0].pc \notin Idle
      /\ Text(0) \in TextOrigin
  BY DocFlow, OriginType, StoreAssumption DEF TypeOK, StoreTypeOK, DocIds, DocTask
<1>b. ASSUME NEW pc, DocGoto(0, pc)
      PROVE  /\ doc'[0].pc = pc
             /\ pc # "done" => doc'[0].run = doc[0].run /\ doc'[0].text = doc[0].text
  BY <1>a, <1>b DEF DocGoto, DocGone, NoDoc, DocTask
<1>c. doc[0].pc # "account" =>
        /\ \A p \in PostIds : post[p].pc = "none"
        /\ doc[0].pc # "fanout" => row.status # "completed" /\ UNCHANGED post
  BY <1>a, DocQueues DEF StagesInOrder, TextIndexed, Idle
<1>d. doc[0].pc \notin {"account", "fanout", "save"} => row'.status # "completed"
  BY <1>a, <1>c, DocRow
<1>1. CASE \/ DocLoad(0) \/ DocDrop(0) \/ DocNoKnowledgeBase(0) \/ DocRecheck(0)
           \/ DocMarkProcessing(0) \/ DocOpenAttempt(0) \/ DocLearn(0) \/ DocReject(0)
           \/ DocRetry(0) \/ DocGiveUp(0) \/ ChunksEntry(0) \/ ChunksClean(0) \/ ChunksRecheck(0)
  <2>1. doc[0].pc \in BeforeWrite \ {"write"}
    BY <1>1 DEF DocLoad, DocDrop, DocNoKnowledgeBase, DocRecheck, DocMarkProcessing,
         DocOpenAttempt, DocLearn, DocReject, DocRetry, DocGiveUp, ChunksEntry, ChunksClean,
         ChunksRecheck, BeforeWrite
  <2>2. doc'[0].pc \in BeforeWrite \union {"dead", "done"}
    <3>1. CASE DocMarkProcessing(0) \/ DocOpenAttempt(0)
      BY <1>a, <3>1 DEF DocMarkProcessing, DocOpenAttempt, DocTask, BeforeWrite
    <3>2. CASE DocRetry(0)
      BY <1>a, <3>2 DEF DocRetry, DocRequeued, Retried, NoDoc, BeforeWrite
    <3>3. CASE doc' = [doc EXCEPT ![0].pc = "loaded", ![0].snap = Snap]
      BY <1>a, <3>3 DEF DocTask, BeforeWrite
    <3>4. CASE \E pc \in BeforeWrite \union {"dead", "done"} : DocGoto(0, pc)
      BY <1>b, <3>4
    <3>5. CASE DocLearn(0)
      BY <2>1, <3>5 DEF DocLearn
    <3> QED
      BY <1>1, <3>1, <3>2, <3>3, <3>4, <3>5
      DEF DocLoad, DocDrop, DocNoKnowledgeBase, DocRecheck, DocReject, DocGiveUp, ChunksEntry,
          ChunksClean, ChunksRecheck, SaveFailed, BeforeWrite
  <2>3. chunks' \in {chunks, {}} /\ vectors' \in {vectors, {}}
    BY <1>1 DEF DocLoad, DocDrop, DocNoKnowledgeBase, DocRecheck, DocMarkProcessing,
         DocOpenAttempt, DocLearn, DocReject, DocRetry, DocGiveUp, ChunksEntry, ChunksClean,
         ChunksRecheck, SaveFailed, Erased
  <2>4. TextChunks' = {} /\ TextVectors' = {}
    BY <2>1, <2>3 DEF TextIndexed, TextChunks, TextVectors
  <2>5. row'.status # "completed"
    BY <1>d, <2>1 DEF BeforeWrite
  <2> QED
    BY <2>2, <2>4, <2>5 DEF TextIndexed, BeforeWrite
<1>2. CASE ChunksWrite(0)
  <2>1. PICK text \in BOOLEAN :
          /\ chunks' = IF text THEN chunks \union {Text(0)} ELSE chunks
          /\ doc' = [doc EXCEPT ![0].pc = "preindex", ![0].text = text]
          /\ doc[0].pc = "write"
          /\ UNCHANGED vectors
    BY <1>2 DEF ChunksWrite
  <2>2. doc'[0].pc = "preindex" /\ doc'[0].text = text /\ Text(0)' = Text(0)
    BY <1>a, <2>1 DEF DocTask, Text
  <2>3. TextChunks = {} /\ TextVectors = {}
    BY <2>1 DEF TextIndexed, BeforeWrite
  <2>4. /\ TextChunks' = IF doc'[0].text THEN {Text(0)'} ELSE {}
        /\ TextVectors' = {}
    BY <1>a, <2>1, <2>2, <2>3 DEF TextChunks, TextVectors
  <2>5. row'.status # "completed" /\ \A p \in PostIds : post'[p].pc = "none"
    BY <1>c, <1>d, <2>1
  <2> QED
    BY <2>2, <2>4, <2>5 DEF TextIndexed, BeforeWrite, PastIndex
<1>3. CASE \/ DocDeadLetter(0) \/ ChunksWriteFailed(0) \/ ChunksUnindex(0) \/ ChunksIndexFailed(0)
  <2>1. doc'[0].pc \in {"unindex", "done"} /\ doc[0].pc \notin {"account", "fanout", "save"}
    BY <1>b, <1>3 DEF DocDeadLetter, ChunksWriteFailed, ChunksUnindex, ChunksIndexFailed, SaveFailed
  <2>2. row'.status # "completed" /\ \A p \in PostIds : post'[p].pc = "none"
    BY <1>c, <1>d, <2>1
  <2> QED
    BY <2>1, <2>2 DEF TextIndexed, BeforeWrite, PastIndex
<1>4. CASE ChunksPreIndex(0)
  <2>1. row'.status # "completed" /\ \A p \in PostIds : post'[p].pc = "none"
    BY <1>c, <1>d, <1>4 DEF ChunksPreIndex
  <2>2. CASE DocGoto(0, "done")
    BY <1>b, <2>1, <2>2 DEF TextIndexed, BeforeWrite, PastIndex
  <2>3. CASE DocGoto(0, "index") /\ UNCHANGED <<chunks, vectors>>
    <3>1. doc'[0].pc = "index" /\ doc'[0].text = doc[0].text /\ Text(0)' = Text(0)
      BY <1>b, <2>3 DEF Text
    <3>2. TextChunks' = TextChunks /\ TextVectors' = TextVectors
      BY <2>3 DEF TextChunks, TextVectors
    <3> QED
      BY <1>4, <2>1, <3>1, <3>2 DEF TextIndexed, BeforeWrite, PastIndex, ChunksPreIndex
  <2> QED
    BY <1>4, <2>2, <2>3 DEF ChunksPreIndex, DeletingNow, AbortedNow, Aborted
<1>5. CASE ChunksIndex(0)
  <2>1. doc[0].pc = "index" /\ doc'[0].pc = "postindex"
    BY <1>b, <1>5 DEF ChunksIndex
  <2>2. TextChunks' = TextVectors'
    BY <1>a, <1>5, <2>1 DEF ChunksIndex, TextIndexed, TextChunks, TextVectors
  <2>3. row'.status # "completed"
    BY <1>d, <2>1
  <2> QED
    BY <2>1, <2>2, <2>3 DEF TextIndexed, BeforeWrite, PastIndex
<1>6. CASE ChunksPostIndex(0)
  <2>1. row'.status # "completed" /\ \A p \in PostIds : post'[p].pc = "none"
    BY <1>c, <1>d, <1>6 DEF ChunksPostIndex
  <2>2. CASE DocGoto(0, "done")
    BY <1>b, <2>1, <2>2 DEF TextIndexed, BeforeWrite, PastIndex
  <2>3. CASE DocGoto(0, "save") /\ UNCHANGED <<chunks, vectors>>
    <3>1. doc'[0].pc = "save"
      BY <1>b, <2>3
    <3>2. TextChunks' = TextVectors'
      BY <1>6, <2>3 DEF ChunksPostIndex, TextIndexed, PastIndex, TextChunks, TextVectors
    <3> QED
      BY <2>1, <3>1, <3>2 DEF TextIndexed, BeforeWrite, PastIndex
  <2> QED
    BY <1>6, <2>2, <2>3 DEF ChunksPostIndex, DeletingNow, AbortedNow, Aborted
<1>7. CASE ChunksSave(0) \/ ChunksEnqueuePost(0) \/ ChunksAccount(0)
  <2>1. doc[0].pc \in PastIndex
    BY <1>7 DEF ChunksSave, ChunksEnqueuePost, ChunksAccount, PastIndex
  <2>2. doc'[0].pc \in {"fanout", "account", "done"}
    BY <1>a, <1>b, <1>7 DEF ChunksSave, ChunksEnqueuePost, ChunksAccount, DocTask
  <2>3. TextChunks' = TextVectors'
    BY <1>7, <2>1 DEF ChunksSave, ChunksEnqueuePost, ChunksAccount, TextIndexed, TextChunks, TextVectors
  <2> QED
    BY <2>2, <2>3 DEF TextIndexed, BeforeWrite
<1> QED
  BY <1>1, <1>2, <1>3, <1>4, <1>5, <1>6, <1>7 DEF DocStep

(* The text is indexed before the one run leaves the parse stage.          *)
LEMMA IndexingNext ==
  TypeOK /\ Shapes /\ Stages /\ Indexing /\ [Next]_vars => Indexing'
<1> SUFFICES ASSUME TypeOK, Shapes, Stages, Indexing, [Next]_vars,
                    OneRun', NothingDropped', NeedsEmbedding
             PROVE  TextIndexed'
  BY DEF Indexing
<1>a. /\ OneRun /\ NothingDropped /\ StagesInOrder /\ TextIndexed
      /\ 0 \in DocIds /\ 0 \notin ReparseIds
  BY DisturbancesGrow, StoreAssumption DEF Indexing, Stages, DocIds, ReparseIds
<1>1. CASE DocStep(0)
  BY <1>a, <1>1, IndexingDocStep
<1>2. ASSUME NEW p \in PostIds, PostStep(p)
      PROVE  TextIndexed'
  <2>1. post[p].pc # "none" /\ UNCHANGED <<chunks, vectors, doc>>
    BY <1>2, PostFlow DEF Idle
  <2>2. TextChunks' = TextVectors' /\ doc'[0].pc \in {"account", "done"}
    BY <1>a, <2>1 DEF TextIndexed, TextChunks, TextVectors, StagesInOrder
  <2> QED
    BY <2>2 DEF TextIndexed, BeforeWrite
<1>3. ASSUME NEW s \in SubIds, SubStep(s)
      PROVE  TextIndexed'
  <2>1. sub[s].pc # "none" /\ UNCHANGED <<doc, post>>
    BY <1>3, SubFlow DEF Idle
  <2>2. PICK p \in PostIds : post[p].pc # "none"
    BY <1>a, <2>1 DEF StagesInOrder
  <2>3. TextChunks' = TextVectors' /\ doc'[0].pc \in {"account", "done"}
    BY <1>a, <1>3, <2>1, <2>2, SubText DEF TextIndexed, StagesInOrder
  <2> QED
    BY <2>3 DEF TextIndexed, BeforeWrite
<1>4. CASE CommandsNext
  <2>1. UNCHANGED <<chunks, vectors>>
    BY <1>a, <1>4, CommandRow DEF NothingDropped, NoReparse, Shapes
  <2>2. row'.status = "completed" => row.status = "completed"
    BY <1>a, <1>4, CommandRow DEF NothingDropped, NoReparse
  <2>3. \A p \in PostIds : post'[p].pc # "none" => post[p].pc # "none"
    BY <1>4, CommandFlow
  <2>4. CASE doc'[0] = doc[0]
    BY <1>a, <2>1, <2>2, <2>3, <2>4 DEF TextIndexed, TextChunks, TextVectors, Text
  <2>5. CASE doc[0].pc = "queued" /\ doc'[0].pc \in {"queued", "done"}
    <3>1. TextChunks' = {} /\ TextVectors' = {} /\ row'.status # "completed"
      BY <1>a, <2>1, <2>2, <2>5 DEF TextIndexed, TextChunks, TextVectors, BeforeWrite
    <3> QED
      BY <2>5, <3>1 DEF TextIndexed
  <2> QED
    BY <1>a, <1>4, <2>4, <2>5, CommandFlow
<1>5. CASE UNCHANGED vars
  BY <1>a, <1>5 DEF vars, storeVars, TextIndexed, TextChunks, TextVectors, Text
<1> QED
  BY <1>1, <1>2, <1>3, <1>4, <1>5, OneRunStep

-----------------------------------------------------------------------------
(* A run cleans before it writes: if no statement is lost, the one text is *)
(* that of the last run, whatever crashes between its steps.               *)
LEMMA WritingDocStep ==
  ASSUME TypeOK, ~FlakyStore, TextOnce, DocStep(0) \/ DocCrash(0)
  PROVE  TextOnce'
<1>a. doc \in [DocIds -> DocTask] /\ 0 \in DocIds /\ Text(0) \in TextOrigin
  BY OriginType, StoreAssumption DEF TypeOK, StoreTypeOK, DocIds
<1>1. CASE ChunksClean(0)
  <2>1. TextChunks' = {}
    BY <1>1 DEF ChunksClean, Erased, TextChunks
  <2> QED
    BY <2>1 DEF TextOnce
<1>2. CASE ChunksWrite(0)
  <2>1. TextChunks = {}
    BY <1>2 DEF ChunksWrite, TextOnce
  <2>2. TextChunks' \subseteq {Text(0)}
    BY <1>2, <2>1 DEF ChunksWrite, TextChunks
  <2>3. doc'[0].pc \notin {"prewrite", "write"}
    BY <1>a, <1>2 DEF ChunksWrite, DocTask
  <2> QED
    BY <2>2, <2>3 DEF TextOnce
<1>3. CASE ChunksRecheck(0)
  BY <1>3 DEF ChunksRecheck, TextOnce, TextChunks
<1>4. CASE ~(ChunksClean(0) \/ ChunksWrite(0) \/ ChunksRecheck(0))
  <2>1. chunks' \in {chunks, {}}
    BY <1>4 DEF DocStep, DocLoad, DocDrop, DocNoKnowledgeBase, DocRecheck, DocMarkProcessing,
         DocOpenAttempt, DocLearn, DocReject, DocRetry, DocGiveUp, DocDeadLetter, ChunksEntry,
         ChunksWriteFailed, ChunksPreIndex, ChunksIndex, ChunksIndexFailed, ChunksUnindex,
         ChunksPostIndex, ChunksSave, ChunksEnqueuePost, ChunksAccount, DocCrash, SaveFailed, Erased
  <2>2. doc'[0].pc \notin {"prewrite", "write"}
    <3>1. CASE \/ doc' = [doc EXCEPT ![0].pc = "loaded", ![0].snap = Snap]
               \/ DocMarkProcessing(0) \/ DocOpenAttempt(0) \/ DocLearn(0) \/ ChunksSave(0)
      BY <1>a, <3>1 DEF DocMarkProcessing, DocOpenAttempt, DocLearn, ChunksSave, DocTask
    <3>2. CASE DocRetry(0) \/ DocCrash(0)
      BY <1>a, <3>2 DEF DocRetry, DocCrash, DocRequeued, Retried, DocGone, NoDoc
    <3>3. CASE \E pc \in DocPC \ {"prewrite", "write"} : DocGoto(0, pc)
      BY <1>a, <3>3, DocGotoMoves
    <3> QED
      BY <1>4, <3>1, <3>2, <3>3
      DEF DocStep, DocLoad, DocDrop, DocNoKnowledgeBase, DocRecheck, DocReject, DocGiveUp,
          DocDeadLetter, ChunksEntry, ChunksWriteFailed, ChunksPreIndex, ChunksIndex,
          ChunksIndexFailed, ChunksUnindex, ChunksPostIndex, ChunksEnqueuePost, ChunksAccount,
          SaveFailed, DocPC
  <2> QED
    BY <2>1, <2>2 DEF TextOnce, TextChunks
<1> QED
  BY <1>1, <1>2, <1>3, <1>4

(* One text at a time, as long as there is one document task.              *)
LEMMA WritingNext == TypeOK /\ Writing /\ [Next]_vars => Writing'
<1> SUFFICES ASSUME TypeOK, Writing, [Next]_vars, ~FlakyStore, OneParse'
             PROVE  TextOnce'
  BY DEF Writing
<1>a. /\ OneParse /\ TextOnce
      /\ 0 \in DocIds /\ 0 \notin ReparseIds
      /\ \A d \in DocIds : d = 0 \/ d \in ReparseIds
  BY DisturbancesGrow, StoreAssumption DEF Writing, DocIds, ReparseIds
<1>1. ASSUME NEW d \in DocIds, DocStep(d) \/ DocCrash(d)
      PROVE  TextOnce'
  <2>1. doc[d].pc # "none"
    BY <1>1, DocFlow DEF DocCrash, DocActive, Idle
  <2>2. d = 0
    BY <1>a, <2>1 DEF OneParse
  <2> QED
    BY <1>a, <1>1, <2>2, WritingDocStep
<1>2. ASSUME NEW p \in PostIds, PostStep(p) \/ PostCrash(p)
      PROVE  UNCHANGED <<doc, chunks>>
  BY <1>2, PostFlow DEF PostCrash
<1>3. ASSUME NEW s \in SubIds, SubStep(s) \/ SubCrash(s)
      PROVE  TextOnce'
  <2>1. UNCHANGED doc /\ TextChunks' = TextChunks
    BY <1>3, SubFlow, SubText DEF SubCrash
  <2> QED
    BY <1>a, <2>1 DEF TextOnce
<1>4. CASE CommandsNext
  <2>1. chunks' \in {chunks, {}}
    BY <1>4, CommandRow
  <2>2. doc'[0].pc \in {"prewrite", "write"} => doc'[0].pc = doc[0].pc
    BY <1>a, <1>4, CommandFlow
  <2> QED
    BY <1>a, <2>1, <2>2 DEF TextOnce, TextChunks
<1>5. CASE UNCHANGED <<doc, chunks>>
  BY <1>a, <1>5 DEF TextOnce, TextChunks
<1> QED
  BY <1>1, <1>2, <1>3, <1>4, <1>5 DEF Next, Pipeline, DocNext, FanoutNext, vars, storeVars

-----------------------------------------------------------------------------
(* A cancelled row at rest stays at rest: queued tasks end at their load,  *)
(* and a late write can only be that of a failure.                         *)
LEMMA CancelledNext ==
  TypeOK /\ Shapes /\ Stages /\ Cancelled /\ [Next]_vars => Cancelled'
<1> SUFFICES ASSUME TypeOK, Shapes, Stages, Cancelled, [Next]_vars, ~row'.gone, ~Disturbed'
             PROVE  CancelledAtRest'
  BY DEF Cancelled
<1>a. crashes \in Nat /\ restarts \in Nat /\ crashes' \in Nat /\ restarts' \in Nat
  BY NextType, StoreAssumption, CommandsAssumption DEF TypeOK, StoreTypeOK, CommandsTypeOK
<1>b. /\ ~Disturbed /\ NoReparse /\ NoReparse' /\ restarts' = restarts
  BY <1>a, DisturbancesGrow DEF Disturbed
<1>c. OneRun' /\ OneRun
  <2>1. OneParse'
    BY <1>b, ShapesNext DEF Shapes, NoReparse, OneParse
  <2>2. OneRun'
    BY <1>a, <2>1 DEF OneRun, Disturbed
  <2> QED
    BY <2>2, DisturbancesGrow
<1>d. StagesInOrder /\ 0 \in DocIds /\ 0 \notin ReparseIds
  BY <1>c, StoreAssumption DEF Stages, DocIds, ReparseIds
<1>e. /\ doc \in [DocIds -> DocTask] /\ post \in [PostIds -> PostTask] /\ sub \in [SubIds -> SubTask]
      /\ row \in Row
  BY DEF TypeOK, StoreTypeOK
<1>1. CASE row.gone
  <2>1. row'.gone
    <3>1. ASSUME NEW p \in PostIds, PostStep(p)
          PROVE  row'.gone
      BY <1>1, <3>1, PostRow
    <3>2. ASSUME NEW s \in SubIds, SubStep(s)
          PROVE  row'.gone
      BY <1>1, <3>2, SubRow
    <3> QED
      BY <1>1, <1>c, <1>d, <3>1, <3>2, OneRunStep, DocRow, CommandRow DEF vars, storeVars
  <2> QED
    BY <2>1
<1>2. CASE CancelledAtRest /\ DocStep(0)
  <2>1. /\ doc[0].pc = "queued" /\ row.status \in Aborted /\ row.status # "failed"
    BY <1>2, <1>d, DocFlow DEF CancelledAtRest, Aborted, Idle
  <2>2. DocLoad(0) \/ DocDrop(0)
    BY <1>2, <2>1 DEF DocStep, DocNoKnowledgeBase, DocRecheck, DocMarkProcessing, DocOpenAttempt,
         DocLearn, DocReject, DocRetry, DocGiveUp, DocDeadLetter, ChunksEntry, ChunksClean, ChunksRecheck,
         ChunksWrite, ChunksWriteFailed, ChunksPreIndex, ChunksIndex, ChunksIndexFailed,
         ChunksUnindex, ChunksPostIndex, ChunksSave, ChunksEnqueuePost, ChunksAccount
  <2>3. DocGoto(0, "done") /\ UNCHANGED <<row, post, sub>>
    BY <2>1, <2>2 DEF DocLoad, DocDrop, AbortedNow
  <2>4. \A d \in DocIds : doc'[d].pc = IF d = 0 THEN "done" ELSE doc[d].pc
    BY <1>d, <1>e, <2>3, DocGotoMoves
  <2> QED
    BY <1>2, <2>3, <2>4 DEF CancelledAtRest
<1>3. ASSUME CancelledAtRest, NEW p \in PostIds, PostStep(p)
      PROVE  CancelledAtRest'
  <2>1. /\ post[p].pc \in {"queued", "dead"}
        /\ \A q \in PostIds : q # p => post'[q] = post[q]
        /\ UNCHANGED <<doc, sub>>
    BY <1>3, PostFlow DEF CancelledAtRest, Idle
  <2>2. post'[p].pc \in {"queued", "dead", "done"}
    <3>1. PostFail(p) \/ PostLoad(p) \/ PostDeadLetter(p)
      BY <1>3, <2>1 DEF PostStep, PostPlan, PostNothingToEnrich, PostSeed, PostSeedFailed,
           PostSummaryStatus, PostEnqueue, PostEnqueueFailed, PostRelease, PostPromote, PostReleased
    <3>2. CASE PostLoad(p) \/ PostDeadLetter(p)
      <4>1. PostGoto(p, "done")
        BY <1>3, <3>2 DEF PostLoad, PostDeadLetter, CancelledAtRest
      <4> QED
        BY <1>e, <4>1, PostGotoMoves
    <3>3. CASE PostFail(p)
      BY <1>e, <3>3 DEF PostFail, Retried, NoPost, PostTask
    <3> QED
      BY <3>1, <3>2, <3>3
  <2>3. row'.status \in {row.status, "failed"}
    BY <1>3, <2>1, PostRow
  <2>4. \A d \in DocIds : doc[d].pc # "queued"
    <3>1. doc[0].pc # "queued"
      BY <1>d, <2>1 DEF StagesInOrder
    <3>2. \A d \in DocIds : d = 0 \/ d \in ReparseIds
      BY DEF ReparseIds
    <3> QED
      BY <1>c, <3>1, <3>2 DEF OneRun, OneParse
  <2> QED
    BY <1>3, <2>1, <2>2, <2>3, <2>4 DEF CancelledAtRest
<1>4. ASSUME CancelledAtRest, NEW s \in SubIds, SubStep(s)
      PROVE  CancelledAtRest'
  <2>1. /\ sub[s].pc # "none"
        /\ \A t \in SubIds : t # s => sub'[t] = sub[t]
        /\ UNCHANGED <<doc, post>>
    BY <1>4, SubFlow DEF Idle
  <2>2. row'.status \in {row.status, "failed"}
    BY <1>4, SubRow DEF CancelledAtRest, PromoteMatches
  <2>3. sub'[s].pc \in {"loaded", "marked"} => sub'[s].snap.status = "failed"
    BY <1>4, SubFlow DEF CancelledAtRest, Aborted
  <2>4. \A d \in DocIds : doc[d].pc # "queued"
    <3>1. doc[0].pc # "queued"
      BY <1>d, <2>1 DEF StagesInOrder
    <3>2. \A d \in DocIds : d = 0 \/ d \in ReparseIds
      BY DEF ReparseIds
    <3> QED
      BY <1>c, <3>1, <3>2 DEF OneRun, OneParse
  <2> QED
    BY <1>4, <2>1, <2>2, <2>3, <2>4 DEF CancelledAtRest
<1>5. CASE CancelledAtRest /\ CommandsNext
  <2>1. /\ row'.status \in {row.status, "cancelled", "deleting"}
    BY <1>5, <1>b, CommandRow DEF CancelledAtRest, Stuck, NoReparse
  <2>2. \A d \in DocIds : doc'[d].pc = doc[d].pc \/ doc'[d].pc = "done"
    BY <1>5, <1>b, CommandFlow DEF NoReparse
  <2>3. /\ \A p \in PostIds : post'[p].pc \in {"none", "queued", "dead", "done"}
        /\ \A s \in SubIds : sub'[s].pc \in {"loaded", "marked"} => sub'[s].snap.status = "failed"
    BY <1>5, CommandFlow DEF CancelledAtRest, PostGone, SubGone, NoPost, NoSub
  <2> QED
    BY <1>5, <2>1, <2>2, <2>3 DEF CancelledAtRest
<1>6. CASE CancelledAtRest /\ UNCHANGED vars
  BY <1>6 DEF vars, storeVars, CancelledAtRest
<1> QED
  BY <1>b, <1>c, <1>1, <1>2, <1>3, <1>4, <1>5, <1>6, OneRunStep DEF Cancelled

-----------------------------------------------------------------------------
(* Across reparses and restarts: what is left to happen in an orderly run. *)

(* What an orderly step can be, and that it was orderly before.            *)
LEMMA OrderlyStep ==
  ASSUME TypeOK, [Next]_vars, Orderly'
  PROVE  /\ Orderly
         /\ \/ \E d \in DocIds : DocStep(d) /\ UNCHANGED commandVars
            \/ \E p \in PostIds : PostStep(p) /\ UNCHANGED commandVars
            \/ \E s \in SubIds : SubStep(s) /\ UNCHANGED commandVars
            \/ CommandsNext
            \/ UNCHANGED vars
<1>a. crashes \in Nat /\ crashes' # crashes + 1
  BY StoreAssumption DEF Orderly, TypeOK, StoreTypeOK
<1>1. \/ \E d \in DocIds : DocStep(d) /\ UNCHANGED commandVars
      \/ \E p \in PostIds : PostStep(p) /\ UNCHANGED commandVars
      \/ \E s \in SubIds : SubStep(s) /\ UNCHANGED commandVars
      \/ CommandsNext
      \/ UNCHANGED vars
  BY <1>a DEF Next, Pipeline, DocNext, FanoutNext, DocCrash, PostCrash, SubCrash
<1>2. crashes' = crashes
  BY <1>1, DocFlow, PostFlow, SubFlow, CommandFlow DEF vars, storeVars
<1>3. (cancel'.calls = 0 => cancel.calls = 0) /\ (ScansRight' => ScansRight)
  BY <1>1, CallsGrow DEF vars, commandVars, ScansRight
<1> QED
  BY <1>1, <1>2, <1>3 DEF Orderly

(* The commands that are left.                                             *)
LEMMA OrderlyCommand ==
  ASSUME TypeOK, Shapes, CommandsNext, Orderly, Orderly'
  PROVE  \/ \E n \in ReparseIds : ReparseStep(n)
         \/ DeleteStep \/ SweepStep \/ SweepSummary \/ StartupReset
<1>1. ~CancelStep
  BY DEF CancelStep, CancelRead, CancelWrite, CancelDequeue, CancelScrub, Orderly, Shapes
<1> QED
  BY <1>1 DEF CommandsNext

(* Every task stays as it is, or ends in the queue.                        *)
TasksEnd ==
    /\ \A d \in DocIds : doc'[d] = doc[d] \/ (doc[d].pc = "queued" /\ doc'[d] = DocGone)
    /\ \A p \in PostIds : post'[p] = post[p] \/ (post[p].pc = "queued" /\ post'[p] = PostGone)
    /\ \A s \in SubIds : sub'[s] = sub[s] \/ (sub[s].pc = "queued" /\ sub'[s] = SubGone)

LEMMA DequeueEnds == ASSUME Dequeue PROVE TasksEnd
BY DEF Dequeue, TasksEnd

LEMMA ScrubEnds == ASSUME ScrubWiki, UNCHANGED <<doc, post>> PROVE TasksEnd
BY DEF ScrubWiki, TasksEnd

(* The commands that leave the attempt and the reparse calls alone.        *)
LEMMA DeleteMoves ==
  ASSUME TypeOK, DeleteStep
  PROVE  /\ TasksEnd
         /\ row'.status \in {row.status, "deleting"} /\ row'.count = row.count
         /\ UNCHANGED <<latest, reparse, sweep, restarts>>
<1>a. row \in Row
  BY DEF TypeOK, StoreTypeOK
<1>1. CASE DeleteRead \/ DeleteMark \/ DeleteFail \/ DeleteRow
  BY <1>1, <1>a DEF DeleteRead, DeleteMark, DeleteFail, DeleteRow, BestEffort, SaveRow, Row, TasksEnd, storeVars
<1>2. CASE DeleteDequeue
  BY <1>2, DequeueEnds DEF DeleteDequeue
<1>3. ASSUME NEW part \in {"vectors", "wiki", "chunks"}, DeleteClean(part)
      PROVE  /\ TasksEnd
             /\ UNCHANGED <<row, latest, reparse, sweep, restarts>>
  <2>1. UNCHANGED <<row, latest, reparse, sweep, restarts, doc, post>>
    BY <1>3 DEF DeleteClean
  <2>2. UNCHANGED sub \/ ScrubWiki
    BY <1>3 DEF DeleteClean
  <2> QED
    BY <2>1, <2>2, ScrubEnds DEF TasksEnd
<1> QED
  BY <1>1, <1>2, <1>3 DEF DeleteStep

LEMMA SweepMoves ==
  ASSUME TypeOK, SweepStep \/ SweepSummary \/ StartupReset
  PROVE  /\ UNCHANGED <<latest, doc, post, sub, reparse>>
         /\ \/ row'.status = row.status /\ row'.count = row.count
            \/ row'.status = "failed" /\ sweep.pc = "update"
            \/ row'.status = "failed" /\ restarts' # restarts
         /\ sweep'.pc # "idle" => sweep.pc # "idle" \/ Stuck
<1>a. row \in Row /\ restarts \in Nat
  BY CommandsAssumption DEF TypeOK, StoreTypeOK, CommandsTypeOK
<1>1. CASE SweepSelect \/ \E queue \in QueuesScanned : SweepProbe(queue)
  BY <1>1 DEF SweepSelect, SweepProbe, storeVars
<1>2. CASE SweepFail
  BY <1>2, <1>a DEF SweepFail, SetStatusAndResetCount, Row
<1>3. CASE SweepSummary
  BY <1>3, <1>a DEF SweepSummary, SetSummaryColumn, Row, commandVars
<1>4. CASE StartupReset
  BY <1>4, <1>a DEF StartupReset, Row
<1> QED
  BY <1>1, <1>2, <1>3, <1>4 DEF SweepStep

(* A reparse opens an attempt, works for itself, and queues its task last. *)
LEMMA ReparseMoves ==
  ASSUME TypeOK, NEW n \in ReparseIds, ReparseStep(n)
  PROVE  /\ reparse[n].pc # "done" /\ reparse'[n].pc # "idle"
         /\ \A m \in ReparseIds : m # n => reparse'[m] = reparse[m]
         /\ UNCHANGED <<post, sweep, restarts>>
         /\ \A s \in SubIds : sub'[s] = sub[s] \/ (sub[s].pc = "queued" /\ sub'[s] = SubGone)
         /\ row'.status \in {row.status, "pending"} /\ row'.count \in {row.count, 0}
         /\ \/ /\ reparse[n].pc = "idle" /\ reparse'[n].pc = "scrub"
               /\ UNCHANGED <<row, sub>>
               /\ ~FlakyStore => /\ latest' = latest + 1
                                 /\ doc' = [doc EXCEPT ![n].att = latest + 1, ![n].opens = FALSE]
            \/ /\ reparse[n].pc # "idle" /\ UNCHANGED <<doc, latest>>
            \/ /\ reparse[n].pc = "enqueue" /\ reparse'[n].pc = "done"
               /\ doc' = [doc EXCEPT ![n].pc = "queued"] /\ UNCHANGED <<row, sub, latest>>
<1>a. reparse \in [ReparseIds -> Reparse] /\ row \in Row
  BY DEF TypeOK, StoreTypeOK, CommandsTypeOK
<1>b. ASSUME NEW pc, ReparseGoto(n, pc)
      PROVE  reparse'[n].pc = pc /\ \A m \in ReparseIds : m # n => reparse'[m] = reparse[m]
  BY <1>a, <1>b DEF ReparseGoto, Reparse
<1>1. CASE ReparseOpen(n)
  BY <1>1, <1>a DEF ReparseOpen, Reparse
<1>2. CASE ReparseScrub(n)
  <2>1. \A s \in SubIds : sub'[s] = sub[s] \/ (sub[s].pc = "queued" /\ sub'[s] = SubGone)
    BY <1>2 DEF ReparseScrub, ScrubWiki
  <2> QED
    BY <1>2, <1>b, <2>1 DEF ReparseScrub
<1>3. CASE ReparseVectors(n)
  BY <1>3, <1>a DEF ReparseVectors, ReparseGoto, Reparse
<1>4. CASE ReparseChunks(n)
  BY <1>4, <1>a DEF ReparseChunks, ReparseGoto, Reparse
<1>5. CASE ReparseSave(n)
  BY <1>5, <1>a, <1>b DEF ReparseSave, SaveRow, Row
<1>6. CASE ReparseReset(n)
  BY <1>6, <1>a, <1>b DEF ReparseReset, ResetCountColumn, Row
<1>7. CASE ReparseFail(n)
  BY <1>7, <1>b DEF ReparseFail, storeVars
<1>8. CASE ReparseEnqueue(n)
  BY <1>8, <1>b DEF ReparseEnqueue
<1> QED
  BY <1>1, <1>2, <1>3, <1>4, <1>5, <1>6, <1>7, <1>8 DEF ReparseStep

-----------------------------------------------------------------------------
(***************************************************************************)
(* The attempt of a task.  A document task without one opens it before it  *)
(* can fail or queue anything; what it queues, and a retry, keeps it.      *)
(***************************************************************************)
DocOpened(d) ==
    \/ Opened(doc[d].att)
    \/ doc[d].opens /\ doc[d].pc \in {"queued", "loaded", "rechecked", "marked"}

LEMMA DocAttempt ==
  ASSUME TypeOK, ~FlakyStore, NEW d \in DocIds, DocStep(d), DocOpened(d)
  PROVE  /\ latest \in Nat /\ latest' \in {latest, latest + 1}
         /\ doc'[d].pc \in Idle \/ DocOpened(d)'
<1>a. doc \in [DocIds -> DocTask] /\ latest \in Nat
  BY DEF TypeOK, StoreTypeOK
<1>b. ASSUME NEW pc, DocGoto(d, pc)
      PROVE  /\ doc'[d].pc = pc
             /\ pc # "done" => doc'[d].att = doc[d].att /\ doc'[d].opens = doc[d].opens
  BY <1>a, <1>b DEF DocGoto, DocGone, NoDoc, DocTask
<1>1. CASE DocOpenAttempt(d)
  BY <1>1, <1>a DEF DocOpenAttempt, DocOpened, Opened, DocTask
<1>2. CASE DocLoad(d)
  <2>1. CASE DocGoto(d, "done")
    BY <1>2, <1>a, <1>b, <2>1 DEF DocLoad, Idle
  <2>2. CASE doc' = [doc EXCEPT ![d].pc = "loaded", ![d].snap = Snap]
    BY <1>2, <1>a, <2>2 DEF DocLoad, DocOpened, Opened, DocTask
  <2> QED
    BY <1>2, <2>1, <2>2 DEF DocLoad
<1>3. CASE DocRecheck(d)
  BY <1>3, <1>a, <1>b DEF DocRecheck, DocOpened, Opened, Idle
<1>4. CASE DocMarkProcessing(d)
  BY <1>4, <1>a DEF DocMarkProcessing, DocOpened, Opened, DocTask
<1>5. CASE DocRetry(d)
  BY <1>5, <1>a DEF DocRetry, DocRequeued, Retried, NoDoc, DocOpened, Opened, DocTask
<1>6. CASE DocDrop(d) \/ DocNoKnowledgeBase(d)
  BY <1>6, <1>a, <1>b DEF DocDrop, DocNoKnowledgeBase, SaveFailed, Idle
<1>7. CASE ChunksWrite(d) \/ ChunksSave(d)
  BY <1>7, <1>a DEF ChunksWrite, ChunksSave, DocOpened, Opened, DocTask
<1>8. CASE \/ DocReject(d) \/ DocGiveUp(d) \/ DocDeadLetter(d) \/ ChunksEntry(d) \/ ChunksClean(d)
           \/ ChunksRecheck(d) \/ ChunksWriteFailed(d) \/ ChunksPreIndex(d) \/ ChunksIndex(d)
           \/ ChunksIndexFailed(d) \/ ChunksUnindex(d) \/ ChunksPostIndex(d)
           \/ ChunksEnqueuePost(d) \/ ChunksAccount(d)
  <2>1. PICK pc \in DocPC : /\ DocGoto(d, pc)
                            /\ doc[d].pc \notin {"queued", "loaded", "rechecked", "marked"}
                            /\ UNCHANGED latest
    BY <1>8 DEF DocReject, DocGiveUp, DocDeadLetter,
         ChunksEntry, ChunksClean, ChunksRecheck, ChunksWriteFailed, ChunksPreIndex, ChunksIndex,
         ChunksIndexFailed, ChunksUnindex, ChunksPostIndex, ChunksEnqueuePost, ChunksAccount,
         SaveFailed, DocPC
  <2> QED
    BY <1>a, <1>b, <2>1 DEF DocOpened, Opened, Idle
<1>9. CASE DocLearn(d)
  BY <1>9, <1>a DEF DocLearn, DocOpened, Opened
<1> QED
  BY <1>1, <1>2, <1>3, <1>4, <1>5, <1>6, <1>7, <1>8, <1>9 DEF DocStep

LEMMA PostAttempt ==
  ASSUME TypeOK, NEW p \in PostIds, PostStep(p)
  PROVE  post'[p].pc = "done" \/ post'[p].att = post[p].att
<1>a. post \in [PostIds -> PostTask]
  BY DEF TypeOK, StoreTypeOK
<1>b. ASSUME NEW pc, PostGoto(p, pc)
      PROVE  post'[p].pc = "done" \/ post'[p].att = post[p].att
  BY <1>a, <1>b DEF PostGoto, PostGone, NoPost, PostTask
<1>1. CASE PostFail(p)
  BY <1>1, <1>a DEF PostFail, Retried, NoPost, PostTask
<1>2. CASE PostPlan(p) \/ PostRelease(p)
  BY <1>2, <1>a DEF PostPlan, PostRelease, PostTask
<1>3. ASSUME NEW slot \in Slots, PostEnqueue(p, slot) \/ PostEnqueueFailed(p, slot)
      PROVE  post'[p].att = post[p].att
  BY <1>3, <1>a DEF PostEnqueue, PostEnqueueFailed, PostTask
<1> QED
  BY <1>b, <1>1, <1>2, <1>3 DEF PostStep, PostDeadLetter, PostLoad, PostNothingToEnrich, PostSeed,
       PostSeedFailed, PostSummaryStatus, PostPromote, PostReleased

LEMMA SubAttempt ==
  ASSUME TypeOK, NEW s \in SubIds, SubStep(s)
  PROVE  /\ sub'[s].pc = "done" \/ sub'[s].att = sub[s].att
         /\ ~FlakyStore /\ sub[s].pc = "queued" /\ Superseded(s) => sub'[s].pc = "done"
<1>a. sub \in [SubIds -> SubTask]
  BY DEF TypeOK, StoreTypeOK
<1>b. ASSUME NEW pc, SubGoto(s, pc)
      PROVE  /\ sub'[s].pc = pc
             /\ pc = "done" \/ sub'[s].att = sub[s].att
  BY <1>a, <1>b DEF SubGoto, SubGone, NoSub, SubTask
<1>c. RetryOrDrain(s) => sub'[s].att = sub[s].att
  BY <1>a DEF RetryOrDrain, Retried, NoSub, SubTask
<1>1. CASE SummaryLoad(s)
  BY <1>1, <1>a, <1>b DEF SummaryLoad, SubTask
<1>2. CASE SubStart(s)
  BY <1>2, <1>b DEF SubStart
<1> QED
  BY <1>b, <1>c, <1>1, <1>2 DEF SubStep, SummaryMark, SummarySave, SummarySaveFailed, SummaryChunk,
       SummaryIndex, SubFinish, SubFail, SubDrain, SubPromote, SubFinalizeFailed

LEMMA AttemptsNext ==
  ASSUME TypeOK, Shapes, [Next]_vars, Orderly, Orderly', OneAtATime, AttemptsOpened
  PROVE  AttemptsOpened' /\ latest \in Nat /\ latest' \in {latest, latest + 1}
<1>a. /\ latest \in Nat
      /\ doc \in [DocIds -> DocTask] /\ post \in [PostIds -> PostTask] /\ sub \in [SubIds -> SubTask]
  BY DEF TypeOK, StoreTypeOK
<1>b. /\ \A d \in DocIds : doc[d].att \in Nat
      /\ \A p \in PostIds : post[p].att \in Nat
      /\ \A s \in SubIds : sub[s].att \in Nat
      /\ DocGone.pc = "done" /\ PostGone.pc = "done" /\ SubGone.pc = "done"
  BY <1>a DEF DocTask, PostTask, SubTask, DocGone, PostGone, SubGone, NoDoc, NoPost, NoSub
<1>1. ASSUME NEW d \in DocIds, DocStep(d), UNCHANGED commandVars
      PROVE  AttemptsOpened' /\ latest' \in {latest, latest + 1}
  <2>a. /\ doc[d].pc \notin Idle /\ DocOpened(d)
        /\ \A e \in DocIds : e # d => doc'[e] = doc[e]
        /\ UNCHANGED sub
    BY <1>1, DocFlow DEF AttemptsOpened, DocOpened
  <2>1. latest' \in {latest, latest + 1} /\ (doc'[d].pc \in Idle \/ DocOpened(d)')
    BY <1>1, <2>a, DocAttempt DEF Orderly
  <2>2. \A p \in PostIds : post'[p].pc \notin Idle => post'[p].att > 0 /\ post'[p].att <= latest'
    <3>1. CASE UNCHANGED post
      BY <1>a, <1>b, <2>1, <3>1 DEF AttemptsOpened, Opened
    <3>2. CASE doc[d].pc = "fanout" /\ post' = [post EXCEPT ![<<d, doc[d].run>>] =
                                    [NoPost EXCEPT !.pc = "queued", !.att = doc[d].att]]
      <4>1. Opened(doc[d].att)
        BY <2>a, <3>2 DEF DocOpened
      <4>2. \A p \in PostIds : post'[p] = post[p] \/ post'[p].att = doc[d].att
        BY <1>a, <3>2 DEF NoPost
      <4> QED
        BY <1>a, <1>b, <2>1, <4>1, <4>2 DEF AttemptsOpened, Opened
    <3> QED
      BY <1>1, <3>1, <3>2, DocQueues
  <2>3. \A n \in ReparseIds : Reparsing(n)' => Opened(doc[n].att)' /\ ~doc'[n].opens
    <3>1. \A n \in ReparseIds : Reparsing(n)' => Reparsing(n) /\ n # d /\ n \in DocIds
      BY <1>1, <2>a DEF commandVars, Reparsing, OneAtATime, ReparseIds
    <3> QED
      BY <1>a, <1>b, <2>a, <2>1, <3>1 DEF AttemptsOpened, Opened
  <2>4. \A e \in DocIds : doc'[e].pc \notin Idle => DocOpened(e)'
    BY <1>a, <1>b, <2>a, <2>1 DEF AttemptsOpened, DocOpened, Opened
  <2>5. \A s \in SubIds : sub'[s].pc \notin Idle => Opened(sub[s].att)'
    BY <1>a, <1>b, <2>a, <2>1 DEF AttemptsOpened, Opened
  <2> QED
    BY <2>1, <2>2, <2>3, <2>4, <2>5 DEF AttemptsOpened, DocOpened, Opened
<1>2. ASSUME NEW p \in PostIds, PostStep(p), UNCHANGED commandVars
      PROVE  AttemptsOpened' /\ latest' \in {latest, latest + 1}
  <2>a. /\ post[p].pc \notin Idle /\ Opened(post[p].att)
        /\ \A q \in PostIds : q # p => post'[q] = post[q]
        /\ post'[p].pc = "done" \/ post'[p].att = post[p].att
        /\ UNCHANGED <<doc, latest, reparse>>
    BY <1>2, PostFlow, PostAttempt DEF AttemptsOpened, commandVars
  <2>1. \A s \in SubIds : sub'[s] = sub[s] \/ sub'[s].att = post[p].att
    <3>1. CASE UNCHANGED sub
      BY <3>1
    <3>2. ASSUME NEW t \in SubIds,
                 sub' = [sub EXCEPT ![t] = [NoSub EXCEPT !.pc = "queued", !.att = post[p].att]]
          PROVE  \A s \in SubIds : sub'[s] = sub[s] \/ sub'[s].att = post[p].att
      BY <1>a, <3>2 DEF NoSub
    <3> QED
      BY <1>2, <3>1, <3>2, PostFlow
  <2> QED
    BY <1>a, <1>b, <2>a, <2>1 DEF AttemptsOpened, Opened, Reparsing, Idle
<1>3. ASSUME NEW s \in SubIds, SubStep(s), UNCHANGED commandVars
      PROVE  AttemptsOpened' /\ latest' \in {latest, latest + 1}
  <2>1. /\ sub[s].pc \notin Idle
        /\ \A t \in SubIds : t # s => sub'[t] = sub[t]
        /\ sub'[s].pc = "done" \/ sub'[s].att = sub[s].att
        /\ UNCHANGED <<doc, post, latest, reparse>>
    BY <1>3, SubFlow, SubAttempt DEF commandVars
  <2> QED
    BY <1>a, <1>b, <2>1 DEF AttemptsOpened, Opened, Reparsing, Idle
<1>4. ASSUME TasksEnd, UNCHANGED <<latest, reparse>>
      PROVE  AttemptsOpened' /\ latest' \in {latest, latest + 1}
  <2>1. \A n \in ReparseIds : Reparsing(n) => doc'[n] = doc[n]
    BY <1>4 DEF TasksEnd, OneAtATime, ReparseIds, Idle
  <2> QED
    BY <1>b, <1>4, <2>1 DEF AttemptsOpened, Opened, Reparsing, TasksEnd, Idle
<1>5. ASSUME NEW n \in ReparseIds, ReparseStep(n)
      PROVE  AttemptsOpened' /\ latest' \in {latest, latest + 1}
  <2>a. n \in DocIds /\ reparse \in [ReparseIds -> Reparse]
    BY DEF ReparseIds, TypeOK, CommandsTypeOK
  <2>b. /\ reparse[n].pc # "done" /\ reparse'[n].pc # "idle"
        /\ \A m \in ReparseIds : m # n => reparse'[m] = reparse[m]
        /\ UNCHANGED post
        /\ \A s \in SubIds : sub'[s] = sub[s] \/ sub'[s] = SubGone
    BY <1>5, ReparseMoves
  <2>1. CASE /\ latest' = latest + 1 /\ reparse[n].pc = "idle"
             /\ doc' = [doc EXCEPT ![n].att = latest + 1, ![n].opens = FALSE]
    <3>1. /\ doc[n].pc = "none"
          /\ doc'[n].att = latest + 1 /\ doc'[n].opens = FALSE /\ doc'[n].pc = "none"
          /\ \A d \in DocIds : d # n => doc'[d] = doc[d]
      BY <1>a, <2>a, <2>1 DEF Shapes, DocTask
    <3> QED
      BY <1>a, <1>b, <2>a, <2>b, <2>1, <3>1 DEF AttemptsOpened, Opened, Reparsing, Idle, ReparseIds
  <2>2. CASE reparse[n].pc # "idle" /\ UNCHANGED <<doc, latest>>
    BY <1>b, <2>b, <2>2 DEF AttemptsOpened, Opened, Reparsing, Idle
  <2>3. CASE /\ reparse[n].pc = "enqueue" /\ reparse'[n].pc = "done" /\ UNCHANGED latest
             /\ doc' = [doc EXCEPT ![n].pc = "queued"]
    <3>1. /\ doc'[n].att = doc[n].att
          /\ \A d \in DocIds : d # n => doc'[d] = doc[d]
      BY <1>a, <2>a, <2>3 DEF DocTask
    <3> QED
      BY <1>b, <2>a, <2>b, <2>3, <3>1 DEF AttemptsOpened, Opened, Reparsing, Idle, ReparseIds
  <2> QED
    BY <1>5, <2>1, <2>2, <2>3, ReparseMoves DEF Orderly
<1>6. CASE UNCHANGED vars
  BY <1>a, <1>6 DEF vars, storeVars, commandVars, AttemptsOpened, Opened, Reparsing
<1>7. CASE CommandsNext
  <2>1. ASSUME SweepStep \/ SweepSummary \/ StartupReset
        PROVE  AttemptsOpened' /\ latest' \in {latest, latest + 1}
    <3>1. UNCHANGED <<latest, doc, post, sub, reparse>>
      BY <2>1, SweepMoves
    <3>2. TasksEnd
      BY <3>1 DEF TasksEnd
    <3> QED
      BY <1>4, <3>1, <3>2
  <2>2. ASSUME DeleteStep
        PROVE  AttemptsOpened' /\ latest' \in {latest, latest + 1}
    BY <1>4, <2>2, DeleteMoves
  <2> QED
    BY <1>a, <1>5, <1>7, <2>1, <2>2, OrderlyCommand
<1> QED
  BY <1>a, <1>1, <1>2, <1>3, <1>6, <1>7, OrderlyStep

(* One at a time: a reparse waits for rest, and the sweep finds it.        *)
LEMMA OneAtATimeNext ==
  ASSUME TypeOK, Shapes, [Next /\ Patient]_vars, Orderly, Orderly', OneAtATime, OldOver
  PROVE  OneAtATime'
<1>a. /\ doc \in [DocIds -> DocTask] /\ post \in [PostIds -> PostTask] /\ sub \in [SubIds -> SubTask]
      /\ DocGone.pc = "done" /\ PostGone.pc = "done" /\ SubGone.pc = "done"
  BY DEF TypeOK, StoreTypeOK, DocGone, PostGone, SubGone, NoDoc, NoPost, NoSub
<1>b. \A s \in SubIds : (\E n \in ReparseIds : Reparsing(n)) =>
         sub[s].pc \in Idle \union {"queued"}
  BY DEF OldOver, NewAttempt, Outstanding, Idle
<1>c. ScanQuiet'
  <2>1. sweep.pc = "idle" \/ NoneReparsed
    BY DEF OneAtATime, Reparsing, NoneReparsed
  <2> QED
    BY <2>1, ScanNext DEF OneAtATime, Orderly
<1>1. ASSUME NEW d \in DocIds, DocStep(d), UNCHANGED commandVars
      PROVE  OneAtATime'
  <2>1. /\ doc[d].pc \notin Idle
        /\ \A e \in DocIds : e # d => doc'[e] = doc[e]
        /\ doc[d].pc = "account" => doc'[d].pc = "done"
        /\ UNCHANGED <<reparse, sweep>>
    BY <1>1, DocFlow DEF commandVars
  <2>2. \A n \in ReparseIds : ~Reparsing(n)'
    BY <2>1 DEF OneAtATime, Reparsing
  <2>3. /\ \A e \in DocIds : e # d => doc'[e].pc \in Idle
        /\ doc[d].pc # "account" => \A p \in PostIds : post[p].pc \in Idle
    BY <2>1 DEF OneAtATime, Idle
  <2>4. CASE UNCHANGED post
    BY <1>c, <2>1, <2>2, <2>3, <2>4 DEF OneAtATime, Idle
  <2>5. CASE /\ doc[d].pc = "fanout" /\ doc'[d].pc = "account"
             /\ post' = [post EXCEPT ![<<d, doc[d].run>>] =
                           [NoPost EXCEPT !.pc = "queued", !.att = doc[d].att]]
    <3>1. \A p \in PostIds : p # <<d, doc[d].run>> => post'[p] = post[p]
      BY <1>a, <2>5
    <3> QED
      BY <1>c, <2>1, <2>2, <2>3, <2>5, <3>1 DEF OneAtATime, Idle
  <2> QED
    BY <1>1, <2>4, <2>5, DocQueues
<1>2. ASSUME NEW p \in PostIds, PostStep(p), UNCHANGED commandVars
      PROVE  OneAtATime'
  <2>1. /\ post[p].pc \notin Idle
        /\ \A q \in PostIds : q # p => post'[q] = post[q]
        /\ UNCHANGED <<doc, reparse, sweep>>
    BY <1>2, PostFlow DEF commandVars
  <2>2. \A n \in ReparseIds : ~Reparsing(n)'
    BY <2>1 DEF OneAtATime, Reparsing
  <2> QED
    BY <1>c, <2>1, <2>2 DEF OneAtATime, Idle
<1>3. ASSUME NEW s \in SubIds, SubStep(s), UNCHANGED commandVars
      PROVE  OneAtATime'
  <2>1. /\ sub[s].pc \notin Idle
        /\ \A t \in SubIds : t # s => sub'[t] = sub[t]
        /\ UNCHANGED <<doc, post, reparse, sweep>>
    BY <1>3, SubFlow DEF commandVars
  <2>2. (\E n \in ReparseIds : Reparsing(n)) => row'.status = row.status
    <3>1. sub[s].pc \notin {"loaded", "marked", "promote"} => row'.status = row.status
      BY <1>3, SubRow
    <3> QED
      BY <1>b, <3>1 DEF Idle
  <2> QED
    BY <1>c, <2>1, <2>2 DEF OneAtATime, Reparsing
<1>4. ASSUME TasksEnd, UNCHANGED reparse,
             row'.status \in {row.status, "deleting", "failed"},
             sweep'.pc # "idle" => sweep.pc # "idle" \/ Stuck
      PROVE  OneAtATime'
  <2>1. /\ \A d \in DocIds : doc'[d].pc \in {doc[d].pc, "done"}
        /\ \A p \in PostIds : post'[p].pc \in {post[p].pc, "done"}
        /\ \A s \in SubIds : sub'[s].pc \in {sub[s].pc, "done"}
    BY <1>a, <1>4 DEF TasksEnd
  <2>2. sweep'.pc # "idle" => \A n \in ReparseIds : ~Reparsing(n)
    BY <1>4 DEF OneAtATime, Stuck
  <2> QED
    BY <1>4, <1>c, <2>1, <2>2 DEF OneAtATime, Reparsing, Idle
<1>5. ASSUME NEW n \in ReparseIds, ReparseStep(n), Patient
      PROVE  OneAtATime'
  <2>a. n \in DocIds
    BY DEF ReparseIds
  <2>b. /\ reparse[n].pc # "done" /\ reparse'[n].pc # "idle"
        /\ \A m \in ReparseIds : m # n => reparse'[m] = reparse[m]
        /\ UNCHANGED <<post, sweep>>
        /\ \A s \in SubIds : sub'[s] = sub[s] \/ sub'[s] = SubGone
        /\ row'.status \in {row.status, "pending"}
    BY <1>5, ReparseMoves
  <2>c. /\ \A m \in ReparseIds : m # n => ~Reparsing(m)'
        /\ \A d \in DocIds : doc[d].pc \in Idle
        /\ \A p \in PostIds : post[p].pc \in Idle
        /\ row.status \notin {"processing", "finalizing"} /\ sweep.pc = "idle"
    <3>1. CASE reparse[n].pc = "idle"
      BY <1>5, <2>b, <3>1 DEF Patient, Rested, Reparsing
    <3>2. CASE Reparsing(n)
      BY <2>b, <3>2 DEF OneAtATime, Reparsing
    <3> QED
      BY <2>b, <3>1, <3>2 DEF Reparsing
  <2>1. CASE \A d \in DocIds : doc'[d].pc = doc[d].pc
    BY <1>c, <2>b, <2>c, <2>1 DEF OneAtATime, Reparsing
  <2>2. CASE reparse'[n].pc = "done" /\ doc' = [doc EXCEPT ![n].pc = "queued"]
    <3>1. \A d \in DocIds : d # n => doc'[d] = doc[d]
      BY <1>a, <2>2
    <3>2. \A m \in ReparseIds : ~Reparsing(m)'
      BY <2>c, <2>2 DEF Reparsing
    <3> QED
      BY <1>c, <2>b, <2>c, <3>1, <3>2 DEF OneAtATime
  <2>3. ASSUME doc' = [doc EXCEPT ![n].att = latest + 1, ![n].opens = FALSE]
        PROVE  \A d \in DocIds : doc'[d].pc = doc[d].pc
    BY <1>a, <2>a, <2>3 DEF DocTask
  <2> QED
    BY <1>5, <2>1, <2>2, <2>3, ReparseMoves DEF Orderly
<1>6. CASE UNCHANGED vars
  BY <1>c, <1>6 DEF vars, storeVars, commandVars, OneAtATime, Reparsing
<1>7. CASE CommandsNext /\ Patient
  <2>1. ASSUME SweepStep \/ SweepSummary \/ StartupReset
        PROVE  OneAtATime'
    <3>1. /\ UNCHANGED <<doc, post, sub, reparse>>
          /\ row'.status \in {row.status, "failed"}
          /\ sweep'.pc # "idle" => sweep.pc # "idle" \/ Stuck
      BY <2>1, SweepMoves
    <3>2. TasksEnd
      BY <3>1 DEF TasksEnd
    <3> QED
      BY <1>4, <3>1, <3>2
  <2>2. ASSUME DeleteStep
        PROVE  OneAtATime'
    BY <1>4, <2>2, DeleteMoves
  <2> QED
    BY <1>5, <1>7, <2>1, <2>2, OrderlyCommand
<1> QED
  BY <1>1, <1>2, <1>3, <1>6, <1>7, OrderlyStep

(* A task that does not move, or ends, is not outstanding anew.            *)
LEMMA OutstandingStays ==
  ASSUME TypeOK, latest' \in {latest, latest + 1}, NEW s \in SubIds,
         sub'[s] = sub[s] \/ sub'[s] = SubGone, s \in Outstanding'
  PROVE  s \in Outstanding
<1>a. latest \in Nat /\ sub[s].att \in Nat /\ SubGone.pc = "done"
  BY DEF TypeOK, StoreTypeOK, SubTask, SubGone, NoSub
<1> QED
  BY <1>a DEF Outstanding, Superseded, Idle

(* ... nor is one that an enrichment worker moves.                         *)
LEMMA SubOutstanding ==
  ASSUME TypeOK, NEW s \in SubIds, SubStep(s), Orderly
  PROVE  Outstanding' \subseteq Outstanding
<1>a. /\ sub[s].pc \notin Idle
      /\ \A t \in SubIds : t # s => sub'[t] = sub[t]
      /\ sub[s].pc = "promote" => sub'[s].pc = "done"
      /\ sub[s].pc = "queued" /\ Superseded(s) => sub'[s].pc = "done"
      /\ UNCHANGED latest
  BY SubFlow, SubAttempt DEF Orderly
<1> QED
  BY <1>a DEF Outstanding, Superseded, Idle

LEMMA OldOverNext ==
  ASSUME TypeOK, Shapes, [Next /\ Patient]_vars, Orderly, Orderly',
         OneAtATime, AttemptsOpened, OldOver
  PROVE  OldOver'
<1>a. /\ doc \in [DocIds -> DocTask] /\ post \in [PostIds -> PostTask] /\ sub \in [SubIds -> SubTask]
      /\ DocGone.pc = "done" /\ PostGone.pc = "done" /\ SubGone.pc = "done"
  BY DEF TypeOK, StoreTypeOK, DocGone, PostGone, SubGone, NoDoc, NoPost, NoSub
<1>b. latest \in Nat /\ latest' \in {latest, latest + 1}
  BY AttemptsNext
<1>c. ASSUME NewAttempt, \A s \in SubIds : sub'[s] = sub[s] \/ sub'[s] = SubGone
      PROVE  OldOver'
  <2>1. Outstanding' \subseteq Outstanding
    BY <1>b, <1>c, OutstandingStays DEF Outstanding
  <2> QED
    BY <1>a, <1>c, <2>1 DEF OldOver
<1>1. ASSUME NEW d \in DocIds, DocStep(d), UNCHANGED commandVars
      PROVE  OldOver'
  <2>1. /\ doc[d].pc \notin Idle
        /\ \A e \in DocIds : e # d => doc'[e] = doc[e]
        /\ doc[d].pc = "account" => doc'[d].pc = "done"
        /\ UNCHANGED <<reparse, sub>>
    BY <1>1, DocFlow DEF commandVars
  <2>2. CASE doc[d].pc # "account"
    <3>1. NewAttempt
      BY <2>1, <2>2 DEF NewAttempt
    <3> QED
      BY <1>c, <2>1, <3>1
  <2>3. CASE doc[d].pc = "account"
    <3>1. UNCHANGED post
      BY <1>1, <2>3, DocQueues
    <3>2. NewAttempt' => NewAttempt
      BY <2>1, <2>3, <3>1 DEF NewAttempt, Reparsing, Idle
    <3>3. NewAttempt => OldOver'
      BY <1>c, <2>1
    <3> QED
      BY <3>2, <3>3 DEF OldOver
  <2> QED
    BY <2>2, <2>3
<1>2. ASSUME NEW p \in PostIds, PostStep(p), UNCHANGED commandVars
      PROVE  OldOver'
  <2>1. /\ post[p].pc \notin Idle
        /\ \A q \in PostIds : q # p => post'[q] = post[q]
        /\ post[p].pc \in {"enqueue", "promote"} => post'[p].pc \in {"enqueue", "promote", "done"}
        /\ post[p].pc # "enqueue" => UNCHANGED sub
        /\ UNCHANGED <<doc, reparse>>
    BY <1>2, PostFlow DEF commandVars
  <2>2. CASE post[p].pc \in {"enqueue", "promote"}
    <3>1. ~NewAttempt'
      BY <2>1, <2>2 DEF NewAttempt, OneAtATime, Reparsing, Idle
    <3> QED
      BY <3>1 DEF OldOver
  <2>3. CASE post[p].pc \notin {"enqueue", "promote"}
    <3>1. NewAttempt
      BY <2>1, <2>3 DEF NewAttempt
    <3> QED
      BY <1>c, <2>1, <2>3, <3>1
  <2> QED
    BY <2>2, <2>3
<1>3. ASSUME NEW s \in SubIds, SubStep(s), UNCHANGED commandVars
      PROVE  OldOver'
  <2>1. /\ sub[s].pc \notin Idle
        /\ \A t \in SubIds : t # s => sub'[t] = sub[t]
        /\ sub[s].pc = "queued" /\ Superseded(s) => sub'[s].pc = "done"
        /\ UNCHANGED <<doc, post, reparse>>
    BY <1>3, SubFlow, SubAttempt DEF commandVars, Orderly
  <2>2. Outstanding' \subseteq Outstanding
    BY <1>3, SubOutstanding
  <2>3. NewAttempt' => NewAttempt
    BY <2>1 DEF NewAttempt, Reparsing
  <2>4. NewAttempt => sub'[s].pc = "done"
    BY <2>1 DEF OldOver, Outstanding, Idle
  <2> QED
    BY <2>1, <2>2, <2>3, <2>4 DEF OldOver
<1>4. ASSUME TasksEnd, UNCHANGED reparse
      PROVE  OldOver'
  <2>1. NewAttempt' => NewAttempt
    BY <1>a, <1>4 DEF NewAttempt, TasksEnd, Reparsing, Idle
  <2>2. NewAttempt => OldOver'
    BY <1>c, <1>4 DEF TasksEnd
  <2> QED
    BY <2>1, <2>2 DEF OldOver
<1>5. ASSUME NEW n \in ReparseIds, ReparseStep(n), Patient
      PROVE  OldOver'
  <2>1. /\ reparse[n].pc # "done" /\ reparse'[n].pc # "idle"
        /\ \A s \in SubIds : sub'[s] = sub[s] \/ sub'[s] = SubGone
    BY <1>5, ReparseMoves
  <2>2. CASE reparse[n].pc # "idle"
    <3>1. NewAttempt
      BY <2>1, <2>2 DEF NewAttempt, Reparsing
    <3> QED
      BY <1>c, <2>1, <3>1
  <2>3. CASE reparse[n].pc = "idle"
    <3>1. /\ latest' = latest + 1 /\ UNCHANGED sub
          /\ \A s \in SubIds : sub[s].pc \in Idle \/ (sub[s].pc = "queued" /\ s.slot # WikiSlot)
      BY <1>5, <2>1, <2>3, ReparseMoves DEF Patient, Rested, Orderly
    <3>2. \A s \in SubIds : sub[s].pc = "queued" => sub[s].att > 0 /\ sub[s].att <= latest /\ sub[s].att \in Nat
      BY <1>a DEF AttemptsOpened, Opened, Idle, SubTask
    <3>3. Outstanding' = {}
      BY <1>b, <3>1, <3>2 DEF Outstanding, Superseded, Idle
    <3>4. \A s \in SubIds : sub'[s].pc # "promote"
      BY <3>1 DEF Idle
    <3> QED
      BY <3>3, <3>4 DEF OldOver
  <2> QED
    BY <2>2, <2>3
<1>6. CASE UNCHANGED vars
  BY <1>6 DEF vars, storeVars, commandVars, OldOver, NewAttempt, Outstanding, Superseded, Reparsing
<1>7. CASE CommandsNext /\ Patient
  <2>1. ASSUME SweepStep \/ SweepSummary \/ StartupReset
        PROVE  OldOver'
    <3>1. UNCHANGED <<doc, post, sub, reparse>>
      BY <2>1, SweepMoves
    <3>2. TasksEnd
      BY <3>1 DEF TasksEnd
    <3> QED
      BY <1>4, <3>1, <3>2
  <2>2. ASSUME DeleteStep
        PROVE  OldOver'
    BY <1>4, <2>2, DeleteMoves
  <2> QED
    BY <1>5, <1>7, <2>1, <2>2, OrderlyCommand
<1> QED
  BY <1>1, <1>2, <1>3, <1>6, <1>7, OrderlyStep

-----------------------------------------------------------------------------
(* A step after which no more is outstanding or owed keeps the counter.    *)
LEMMA KeptShrinks ==
  ASSUME TypeOK, CounterKept, Outstanding' \subseteq Outstanding,
         \A p \in PostIds : Owed(p)' \in {Owed(p), 0},
         \/ CoveredNow' \/ GivenUpNow'
         \/ CoveredNow /\ row'.count = row.count,
         row'.status = "completed" =>
           \/ row.status = "completed"
           \/ Outstanding = {} /\ \A p \in PostIds : Owed(p) = 0,
         \A s \in SubIds : sub'[s].pc \in {"loaded", "marked"} => sub'[s].snap.status # "completed"
  PROVE  CounterKept'
<1>a. /\ post \in [PostIds -> PostTask] /\ row.count \in Nat
      /\ \A p \in PostIds : Owed(p) \in Nat
  BY OwedType DEF TypeOK, StoreTypeOK, Row
<1>1. /\ IsFiniteSet(Outstanding)' /\ Cardinality(Outstanding)' \in Nat
      /\ Cardinality(Outstanding) \in Nat /\ Cardinality(Outstanding)' <= Cardinality(Outstanding)
  BY FS_Subset, FS_CardinalityType DEF CounterKept
<1>2. CASE CoveredNow /\ row'.count = row.count
  <2>1. \A p \in PostIds : row'.count >= Cardinality(Outstanding)' + Owed(p)'
    BY <1>a, <1>1, <1>2 DEF CoveredNow
  <2>2. CoveredNow'
    BY <2>1 DEF CoveredNow
  <2> QED
    BY <1>1, <2>2 DEF CounterKept
<1> QED
  BY <1>1, <1>2 DEF CounterKept

(* The parse worker completes a row only while nothing is outstanding.     *)
LEMMA KeptDocStep ==
  ASSUME TypeOK, OneAtATime, OldOver, CounterKept, NEW d \in DocIds, DocStep(d),
         latest' \in {latest, latest + 1}
  PROVE  CounterKept'
<1>a. /\ doc[d].pc \notin Idle /\ UNCHANGED sub /\ row'.count = row.count
      /\ post \in [PostIds -> PostTask]
  BY DocFlow, DocRow DEF TypeOK, StoreTypeOK
<1>1. CoveredNow
  BY <1>a DEF CounterKept, GivenUpNow
<1>2. Outstanding' \subseteq Outstanding
  BY <1>a, OutstandingStays DEF Outstanding
<1>3. \A p \in PostIds : Owed(p)' \in {Owed(p), 0}
  <2>1. CASE UNCHANGED post
    BY <2>1 DEF Owed
  <2>2. ASSUME NEW q \in PostIds,
               post' = [post EXCEPT ![q] = [NoPost EXCEPT !.pc = "queued", !.att = doc[d].att]],
               NEW p \in PostIds
        PROVE  Owed(p)' \in {Owed(p), 0}
    <3>1. post'[p] = post[p] \/ post'[p].pc = "queued"
      BY <1>a, <2>2 DEF NoPost
    <3> QED
      BY <3>1 DEF Owed
  <2>3. <<d, doc[d].run>> \in PostIds
    BY DEF PostIds, TypeOK, StoreTypeOK, DocTask
  <2> QED
    BY <2>1, <2>2, <2>3, DocQueues
<1>4. doc[d].pc = "save" => Outstanding = {} /\ \A p \in PostIds : Owed(p) = 0
  <2>1. doc[d].pc = "save" => NewAttempt /\ \A p \in PostIds : post[p].pc \in Idle
    BY DEF NewAttempt, OneAtATime, Idle
  <2> QED
    BY <2>1 DEF OldOver, Owed, Idle
<1>5. \A s \in SubIds : sub'[s].pc \in {"loaded", "marked"} => sub'[s].snap.status # "completed"
  BY <1>a DEF CounterKept
<1>6. row'.status = "completed" => row.status = "completed" \/ doc[d].pc = "save"
  BY DocRow
<1> QED
  BY <1>a, <1>1, <1>2, <1>3, <1>4, <1>5, <1>6, KeptShrinks

(* Post-processing: the balance, with what is outstanding.                 *)
LEMMA KeptPostStep ==
  ASSUME TypeOK, Shapes, OneAtATime, OldOver, CounterKept, NEW p \in PostIds, PostStep(p)
  PROVE  CounterKept'
<1>a. /\ post \in [PostIds -> PostTask] /\ sub \in [SubIds -> SubTask]
      /\ post[p].pc \notin Idle /\ UNCHANGED latest
      /\ \A q \in PostIds : q # p => post'[q].pc \in Idle
  BY PostFlow DEF TypeOK, StoreTypeOK, OneAtATime
<1>b. CoveredNow
  BY <1>a DEF CounterKept, GivenUpNow
<1>c. post[p].pc \notin {"enqueue", "promote"} => Outstanding = {}
  BY <1>a DEF OldOver, NewAttempt
<1>d. UNCHANGED sub => Outstanding' \subseteq Outstanding
  BY <1>a DEF Outstanding, Superseded
<1>e. ASSUME NEW slot \in Slots, PostEnqueue(p, slot)
      PROVE  Outstanding' \subseteq Outstanding \union {SubOf(p, slot)}
  <2>1. \A s \in SubIds : s # SubOf(p, slot) => sub'[s] = sub[s]
    BY <1>a, <1>e DEF PostEnqueue
  <2> QED
    BY <1>a, <2>1 DEF Outstanding, Superseded
<1>1. /\ IsFiniteSet(Outstanding)' /\ Owed(p)' \in Nat
      /\ row'.count >= Cardinality(Outstanding)' + Owed(p)'
      /\ row'.status = "completed" => Outstanding' = {} /\ Owed(p)' = 0
  <2> DEFINE H == Outstanding
             G == Outstanding'
  <2>1. /\ IsFiniteSet(H) /\ row.count >= Cardinality(H) + Owed(p)
        /\ row.status = "completed" => H = {} /\ Owed(p) = 0
        /\ post[p].pc \notin {"enqueue", "promote"} => H = {}
        /\ UNCHANGED sub => G \subseteq H
        /\ \A slot \in Slots : PostEnqueue(p, slot) => G \subseteq H \union {SubOf(p, slot)}
    BY <1>b, <1>c, <1>d, <1>e DEF CounterKept, CoveredNow
  <2> HIDE DEF H, G
  <2>2. /\ IsFiniteSet(G) /\ Owed(p)' \in Nat
        /\ row'.count >= Cardinality(G) + Owed(p)'
        /\ row'.status = "completed" => G = {} /\ Owed(p)' = 0
    BY <2>1, PostBalance
  <2> QED
    BY <2>2 DEF G
<1>2. \A q \in PostIds : q # p => Owed(q)' = 0
  BY <1>a DEF Owed, Idle
<1>3. CoveredNow'
  <2>1. Cardinality(Outstanding)' \in Nat /\ row'.count \in Nat
    BY <1>1, FS_CardinalityType, PostStepType DEF TypeOK, StoreTypeOK, Row
  <2>2. \A q \in PostIds : row'.count >= Cardinality(Outstanding)' + Owed(q)'
    BY <1>1, <1>2, <2>1
  <2> QED
    BY <2>2 DEF CoveredNow
<1>4. \A s \in SubIds : sub'[s].pc \in {"loaded", "marked"} => sub'[s].snap.status # "completed"
  <2>1. \A s \in SubIds : sub'[s] = sub[s] \/ sub'[s].pc = "queued"
    <3>1. ASSUME NEW t \in SubIds,
                 sub' = [sub EXCEPT ![t] = [NoSub EXCEPT !.pc = "queued", !.att = post[p].att]]
          PROVE  \A s \in SubIds : sub'[s] = sub[s] \/ sub'[s].pc = "queued"
      BY <1>a, <3>1 DEF NoSub
    <3> QED
      BY <3>1, PostFlow
  <2> QED
    BY <2>1 DEF CounterKept
<1> QED
  BY <1>1, <1>2, <1>3, <1>4 DEF CounterKept

(* An enrichment task gives its slot back with its decrement or loses it.  *)
LEMMA KeptSubStep ==
  ASSUME TypeOK, Shapes, Orderly, CounterKept, NEW s \in SubIds, SubStep(s), UNCHANGED commandVars
  PROVE  CounterKept'
<1>a. /\ row \in Row /\ row.count \in Nat /\ post \in [PostIds -> PostTask]
      /\ sub[s].pc \notin Idle
      /\ \A t \in SubIds : t # s => sub'[t] = sub[t]
      /\ UNCHANGED <<doc, post, latest, reparse>>
  BY SubFlow DEF TypeOK, StoreTypeOK, Row, commandVars
<1>b. IsFiniteSet(Outstanding) /\ Cardinality(Outstanding) \in Nat
  BY FS_CardinalityType DEF CounterKept
<1>c. \A p \in PostIds : Owed(p)' = Owed(p) /\ Owed(p) \in Nat
  BY <1>a, OwedType DEF Owed
<1>d. Outstanding' \subseteq Outstanding
  BY SubOutstanding
<1>1. ASSUME NEW t \in SubIds, sub'[t].pc \in {"loaded", "marked"}
      PROVE  \/ sub[t].pc \in {"loaded", "marked"} /\ sub'[t].snap = sub[t].snap
             \/ t \in Outstanding /\ sub'[t].snap.status = row.status
  <2>1. CASE t # s
    BY <1>a, <1>1, <2>1
  <2>2. CASE t = s /\ sub[s].pc = "running" /\ sub'[s].snap.status = row.status
    BY <2>2 DEF Outstanding, Idle
  <2>3. CASE t = s /\ sub[s].pc = "loaded" /\ sub'[s].snap = sub[s].snap
    BY <2>3
  <2> QED
    BY <1>1, <2>1, <2>2, <2>3, SubFlow
<1>2. CASE GivenUpNow
  <2>1. row'.status \notin {"finalizing", "completed"}
    BY <1>2, SubRow DEF GivenUpNow, PromoteMatches
  <2>2. GivenUpNow'
    BY <1>a, <1>1, <1>2, <2>1 DEF GivenUpNow, Reparsing
  <2>3. \A t \in SubIds : sub'[t].pc \in {"loaded", "marked"} => sub'[t].snap.status # "completed"
    BY <2>2 DEF GivenUpNow
  <2> QED
    BY <1>c, <1>d, <2>1, <2>2, <2>3, KeptShrinks
<1>3. CASE CoveredNow
  <2>1. CoveredNow' \/ row'.count = row.count
    <3>1. CASE SubDrain(s)
      <4>1. s \in Outstanding /\ s \notin Outstanding'
        BY <3>1, SubGotoMoves DEF Outstanding, Idle, SubDrain, TypeOK, StoreTypeOK
      <4>2. Cardinality(Outstanding)' <= Cardinality(Outstanding) - 1 /\ Cardinality(Outstanding)' \in Nat
        <5>1. IsFiniteSet(Outstanding \ {s}) /\ Cardinality(Outstanding \ {s}) = Cardinality(Outstanding) - 1
          BY <1>b, <4>1, FS_RemoveElement
        <5>2. Outstanding' \subseteq Outstanding \ {s}
          BY <1>d, <4>1
        <5> QED
          BY <5>1, <5>2, FS_Subset, FS_CardinalityType
      <4>3. row'.count \in {row.count, row.count - 1}
        BY <1>a, <3>1 DEF SubDrain, DecrementCount, Row
      <4>4. \A p \in PostIds : row'.count >= Cardinality(Outstanding)' + Owed(p)'
        BY <1>a, <1>b, <1>c, <1>3, <4>2, <4>3 DEF CoveredNow
      <4> QED
        BY <4>4 DEF CoveredNow
    <3>2. row'.count = row.count \/ SubDrain(s)
      BY <1>a DEF SubStep, SubStart, SummaryLoad, SummaryMark, SummarySave, SummarySaveFailed,
           SummaryChunk, SummaryIndex, SubFinish, SubFail, SubPromote, SubFinalizeFailed,
           BestEffort, SaveRow, PromoteRow, Row
    <3> QED
      BY <3>1, <3>2
  <2>2. PromoteMatches => Outstanding = {} /\ \A p \in PostIds : Owed(p) = 0
    <3>1. ASSUME PromoteMatches
          PROVE  \A p \in PostIds : Cardinality(Outstanding) = 0 /\ Owed(p) = 0
      BY <1>b, <1>c, <1>3, <3>1 DEF PromoteMatches, CoveredNow
    <3>2. <<0, 0>> \in PostIds
      BY StoreAssumption DEF PostIds, DocIds, Runs
    <3> QED
      BY <1>b, <3>1, <3>2, FS_EmptySet
  <2>3. row'.status = "completed" => \/ row.status = "completed"
                                     \/ Outstanding = {} /\ \A p \in PostIds : Owed(p) = 0
    BY <2>2, SubRow DEF CounterKept
  <2>4. \A t \in SubIds : sub'[t].pc \in {"loaded", "marked"} => sub'[t].snap.status # "completed"
    BY <1>1 DEF CounterKept
  <2> QED
    BY <1>c, <1>d, <1>3, <2>1, <2>3, <2>4, KeptShrinks
<1> QED
  BY <1>2, <1>3 DEF CounterKept

(* The sweep and a startup reset take the counter when nobody promotes any *)
(* more, or when the new attempt has not planned yet.                      *)
LEMMA KeptSweepStep ==
  ASSUME TypeOK, Shapes, OneAtATime, OldOver, CounterKept, Patient,
         SweepStep \/ SweepSummary \/ StartupReset, row' \in Row
  PROVE  CounterKept'
<1>a. /\ UNCHANGED <<latest, doc, post, sub, reparse>>
      /\ \/ row'.status = row.status /\ row'.count = row.count
         \/ row'.status = "failed" /\ sweep.pc = "update"
         \/ row'.status = "failed" /\ restarts' # restarts
  BY SweepMoves
<1>b. /\ Outstanding' = Outstanding /\ \A p \in PostIds : Owed(p)' = Owed(p)
      /\ \A s \in SubIds : sub'[s].pc \in {"loaded", "marked"} => sub'[s].snap.status # "completed"
  BY <1>a DEF Outstanding, Superseded, Owed, CounterKept
<1>1. CASE row'.status = row.status /\ row'.count = row.count
  <2>1. GivenUpNow => GivenUpNow'
    BY <1>a, <1>1 DEF GivenUpNow, Reparsing
  <2> QED
    BY <1>b, <1>1, <2>1, KeptShrinks DEF CounterKept
<1>2. ASSUME row'.status = "failed",
             \A n \in ReparseIds : ~Reparsing(n),
             \A d \in DocIds : doc[d].pc \in Idle, \A p \in PostIds : post[p].pc \in Idle,
             \A s \in SubIds : sub[s].pc \notin {"loaded", "marked"}
      PROVE  CounterKept'
  <2>1. GivenUpNow'
    BY <1>a, <1>2 DEF GivenUpNow, Reparsing
  <2> QED
    BY <1>b, <1>2, <2>1, KeptShrinks
<1>3. CASE row'.status = "failed" /\ sweep.pc = "update"
  <2>1. PipelineIdle /\ \A n \in ReparseIds : ~Reparsing(n)
    BY <1>3, ScanOver DEF OneAtATime
  <2>2. \A s \in SubIds : sub[s].pc \notin {"loaded", "marked"}
    BY <2>1, StoreAssumption DEF PipelineIdle, Shapes, Idle
  <2> QED
    BY <1>2, <1>3, <2>1, <2>2 DEF PipelineIdle
<1>4. CASE row'.status = "failed" /\ restarts' # restarts
  <2>1. NoneActive
    BY <1>4 DEF Patient
  <2>2. CASE NewAttempt
    <3>1. /\ Outstanding = {}
          /\ \A p \in PostIds : Owed(p) = 0
      BY <2>1, <2>2 DEF OldOver, NoneActive, PostActive, Owed, Idle
    <3>2. row'.count \in Nat /\ Cardinality({}) = 0
      BY FS_EmptySet DEF Row
    <3>3. \A p \in PostIds : row'.count >= Cardinality(Outstanding)' + Owed(p)'
      BY <1>b, <3>1, <3>2
    <3>4. CoveredNow'
      BY <3>3 DEF CoveredNow
    <3> QED
      BY <1>b, <1>4, <3>4, KeptShrinks
  <2>3. CASE ~NewAttempt
    <3>1. /\ \A n \in ReparseIds : ~Reparsing(n)
          /\ \A d \in DocIds : doc[d].pc \in Idle
          /\ \A p \in PostIds : post[p].pc \in Idle
          /\ \A s \in SubIds : sub[s].pc \notin {"loaded", "marked"}
      BY <2>1, <2>3 DEF NewAttempt, NoneActive, DocActive, PostActive, SubActive, Idle
    <3> QED
      BY <1>2, <1>4, <3>1
  <2> QED
    BY <2>2, <2>3
<1> QED
  BY <1>a, <1>1, <1>3, <1>4

(* A delete ends tasks and leaves the counter alone.                       *)
LEMMA KeptDeleteStep ==
  ASSUME TypeOK, CounterKept, DeleteStep
  PROVE  CounterKept'
<1>a. /\ TasksEnd
      /\ row'.status \in {row.status, "deleting"} /\ row'.count = row.count
      /\ UNCHANGED <<latest, reparse>>
  BY DeleteMoves
<1>b. DocGone.pc = "done" /\ PostGone.pc = "done" /\ SubGone.pc = "done"
  BY DEF DocGone, PostGone, SubGone, NoDoc, NoPost, NoSub
<1>1. Outstanding' \subseteq Outstanding
  BY <1>a, OutstandingStays DEF TasksEnd, Outstanding
<1>2. \A p \in PostIds : Owed(p)' \in {Owed(p), 0}
  BY <1>a, <1>b DEF TasksEnd, Owed
<1>3. GivenUpNow => GivenUpNow'
  BY <1>a, <1>b DEF GivenUpNow, TasksEnd, Reparsing, Idle
<1>4. \A s \in SubIds : sub'[s].pc \in {"loaded", "marked"} => sub'[s].snap.status # "completed"
  BY <1>a, <1>b DEF TasksEnd, CounterKept
<1> QED
  BY <1>a, <1>1, <1>2, <1>3, <1>4, KeptShrinks DEF CounterKept

(* A reparse resets the counter when nothing of the old attempt can drain. *)
LEMMA KeptReparseStep ==
  ASSUME TypeOK, OneAtATime, OldOver, OldOver', CounterKept, Patient,
         NEW n \in ReparseIds, ReparseStep(n), latest' \in {latest, latest + 1}, row' \in Row
  PROVE  CounterKept'
<1>a. /\ reparse[n].pc # "done" /\ reparse'[n].pc # "idle" /\ UNCHANGED post
      /\ \A s \in SubIds : sub'[s] = sub[s] \/ sub'[s] = SubGone
      /\ row'.status \in {row.status, "pending"}
      /\ reparse[n].pc = "idle" => reparse'[n].pc = "scrub"
      /\ SubGone.pc = "done"
  BY ReparseMoves DEF SubGone, NoSub
<1>1. \A p \in PostIds : post[p].pc \in Idle
  BY <1>a DEF OneAtATime, Reparsing, Patient, Rested
<1>2. \A p \in PostIds : Owed(p) = 0 /\ Owed(p)' = 0
  BY <1>a, <1>1 DEF Owed, Idle
<1>3. Outstanding' = {}
  <2>1. CASE reparse[n].pc = "idle"
    BY <1>a, <2>1 DEF OldOver, NewAttempt, Reparsing
  <2>2. CASE reparse[n].pc # "idle"
    <3>1. Outstanding = {}
      BY <1>a, <2>2 DEF OldOver, NewAttempt, Reparsing
    <3>2. Outstanding' \subseteq Outstanding
      BY <1>a, OutstandingStays DEF Outstanding
    <3> QED
      BY <3>1, <3>2
  <2> QED
    BY <2>1, <2>2
<1>4. CoveredNow'
  <2>1. row'.count \in Nat /\ Cardinality({}) = 0
    BY FS_EmptySet DEF Row
  <2>2. \A p \in PostIds : row'.count >= Cardinality(Outstanding)' + Owed(p)'
    BY <1>2, <1>3, <2>1
  <2> QED
    BY <2>2 DEF CoveredNow
<1>5. \A s \in SubIds : sub'[s].pc \in {"loaded", "marked"} => sub'[s].snap.status # "completed"
  BY <1>a DEF CounterKept
<1>6. row'.status = "completed" => row.status = "completed"
  BY <1>a
<1> QED
  BY <1>2, <1>3, <1>4, <1>5, <1>6, KeptShrinks

LEMMA CounterKeptNext ==
  ASSUME TypeOK, Shapes, [Next /\ Patient]_vars, Orderly, Orderly',
         OneAtATime, AttemptsOpened, OldOver, OldOver', CounterKept
  PROVE  CounterKept'
<1>a. latest' \in {latest, latest + 1} /\ row' \in Row
  BY AttemptsNext, NextType DEF TypeOK, StoreTypeOK
<1>1. CASE UNCHANGED vars
  BY <1>1 DEF vars, storeVars, commandVars, CounterKept, CoveredNow, GivenUpNow, Owed,
       Outstanding, Superseded, Reparsing
<1>2. ASSUME NEW d \in DocIds, DocStep(d)
      PROVE  CounterKept'
  BY <1>a, <1>2, KeptDocStep
<1>3. ASSUME NEW p \in PostIds, PostStep(p)
      PROVE  CounterKept'
  BY <1>3, KeptPostStep
<1>4. ASSUME NEW s \in SubIds, SubStep(s), UNCHANGED commandVars
      PROVE  CounterKept'
  BY <1>4, KeptSubStep
<1>5. CASE CommandsNext /\ Patient
  BY <1>a, <1>5, OrderlyCommand, KeptSweepStep, KeptDeleteStep, KeptReparseStep
<1> QED
  BY <1>1, <1>2, <1>3, <1>4, <1>5, OrderlyStep

LEMMA AcrossNext == TypeOK /\ Shapes /\ Across /\ [Next /\ Patient]_vars => Across'
<1> SUFFICES ASSUME TypeOK, Shapes, Across, [Next /\ Patient]_vars, Orderly'
             PROVE  (OneAtATime /\ AttemptsOpened /\ OldOver /\ CounterKept)'
  BY DEF Across
<1>1. Orderly
  BY OrderlyStep
<1>2. OneAtATime /\ AttemptsOpened /\ OldOver /\ CounterKept
  BY <1>1 DEF Across
<1>3. OneAtATime'
  BY <1>1, <1>2, OneAtATimeNext
<1>4. AttemptsOpened'
  BY <1>1, <1>2, AttemptsNext
<1>5. OldOver'
  BY <1>1, <1>2, OldOverNext
<1>6. CounterKept'
  BY <1>1, <1>2, <1>5, CounterKeptNext
<1> QED
  BY <1>3, <1>4, <1>5, <1>6

LEMMA InitAcross == Init => Across
<1> SUFFICES ASSUME Init
             PROVE  OneAtATime /\ AttemptsOpened /\ OldOver /\ CounterKept
  BY DEF Across
<1>a. /\ row.status = "pending" /\ row.count = 0 /\ sweep.pc = "idle"
      /\ \A n \in ReparseIds : reparse[n].pc = "idle"
      /\ \A p \in PostIds : post[p].pc = "none"
      /\ \A s \in SubIds : sub[s].pc = "none"
  BY DEF Init, StoreInit, CommandsInit, NoPost, NoSub
<1>b. \A d \in DocIds : doc[d].pc = "none" \/ (d = 0 /\ doc[d].pc = "queued" /\ doc[d].opens)
  BY DEF Init, StoreInit, NoDoc
<1>1. Outstanding = {} /\ \A p \in PostIds : Owed(p) = 0
  BY <1>a DEF Outstanding, Owed, Idle
<1>2. OneAtATime /\ AttemptsOpened /\ OldOver
  BY <1>a, <1>b, <1>1 DEF OneAtATime, AttemptsOpened, OldOver, Reparsing, ScanQuiet, Scanned, Idle
<1>3. CoveredNow /\ IsFiniteSet(Outstanding)
  BY <1>a, <1>1, FS_EmptySet DEF CoveredNow
<1> QED
  BY <1>a, <1>1, <1>2, <1>3 DEF CounterKept

-----------------------------------------------------------------------------
(***************************************************************************)
(* The invariants of LifecycleInvariants hold of every run of the          *)
(* pipeline: where the tasks of the document stand bounds what the row,    *)
(* its counter, the chunks and the vectors may be.                         *)
(***************************************************************************)
THEOREM InvariantsHold ==
  Spec => [](Shapes /\ Stages /\ QuietSweep /\ Counter /\ Failing /\ Indexing /\ Writing)
<1> DEFINE Inv == Shapes /\ Stages /\ QuietSweep /\ Counter /\ Failing /\ Indexing /\ Writing
<1>1. Init => Inv
  BY InitInvariants
<1>2. TypeOK /\ Inv /\ [Next]_vars => Inv'
  BY ShapesNext, StagesNext, QuietSweepNext, CounterNext, FailingNext, IndexingNext, WritingNext
<1>3. Spec => []TypeOK
  BY TypeCorrect
<1> QED
  BY <1>1, <1>2, <1>3, PTL DEF Spec

(***************************************************************************)
(* While the row is finalizing, pending_subtasks_count covers every        *)
(* enrichment task that has not drained and every slot not yet handed out, *)
(* however many tasks, retries and deletes there are, as long as nobody    *)
(* but the drains and the sweep writes the counter.                        *)
(***************************************************************************)
THEOREM CounterCovers == Spec => [](CounterUndisturbed => CounterCoversOutstanding)
<1>1. ASSUME TypeOK, Counter, CounterUndisturbed, ~row.gone, row.status = "finalizing",
             NEW p \in PostIds
      PROVE  row.count >= Cardinality(Outstanding) + Unspent(p)
  <2>1. Covered /\ IsFiniteSet(Held)
    BY <1>1 DEF Counter, CounterOwned, GivenUp
  <2>2. Outstanding \subseteq Held
    BY DEF Outstanding, Held
  <2>3. /\ Cardinality(Outstanding) <= Cardinality(Held)
        /\ Cardinality(Outstanding) \in Nat /\ Cardinality(Held) \in Nat
    BY <2>1, <2>2, FS_Subset, FS_CardinalityType
  <2>4. Unspent(p) \in Nat /\ Owed(p) \in Nat /\ Unspent(p) <= Owed(p)
    BY <1>1, OwedType DEF Unspent, Owed, TypeOK, StoreTypeOK
  <2>5. row.count \in Nat /\ row.count >= Cardinality(Held) + Owed(p)
    BY <1>1, <2>1 DEF Covered, TypeOK, StoreTypeOK, Row
  <2> QED
    BY <2>3, <2>4, <2>5
<1>2. TypeOK /\ Counter => (CounterUndisturbed => CounterCoversOutstanding)
  BY <1>1 DEF CounterCoversOutstanding
<1> QED
  BY <1>2, TypeCorrect, InvariantsHold, PTL

(***************************************************************************)
(* No drain completes the row under a task that is still at work: under    *)
(* the same condition a completed row has no enrichment left to run.       *)
(***************************************************************************)
THEOREM CompletesLast == Spec => [](CounterUndisturbed => NoEarlyCompletion)
<1>1. Counter => (CounterUndisturbed => NoEarlyCompletion)
  BY DEF Counter, CounterOwned, NoEarlyCompletion, Outstanding, Held
<1> QED
  BY <1>1, InvariantsHold, PTL

(* What holds across reparses and restarts does so of every patient run.   *)
LEMMA AcrossHolds == PatientSpec => [](TypeOK /\ Shapes /\ Across)
<1>1. Init => Across
  BY InitAcross
<1>2. TypeOK /\ Shapes /\ Across /\ [Next /\ Patient]_vars => Across'
  BY AcrossNext
<1>3. [Next /\ Patient]_vars => [Next]_vars
  OBVIOUS
<1>4. PatientSpec => Spec
  BY <1>3, PTL DEF PatientSpec, Spec
<1> QED
  BY <1>1, <1>2, <1>4, TypeCorrect, InvariantsHold, PTL DEF PatientSpec

(***************************************************************************)
(* ... and across any number of reparses and restarts, of users who        *)
(* reparse what is finished and servers that start with no worker at work: *)
(* the counter covers the new attempt, and what the old one left in the    *)
(* queue is superseded before it could drain.                              *)
(***************************************************************************)
THEOREM CounterCoversAcross == PatientSpec => [](Orderly => CounterCoversOutstanding)
<1>1. ASSUME TypeOK, Across, Orderly, ~row.gone, row.status = "finalizing", NEW p \in PostIds
      PROVE  row.count >= Cardinality(Outstanding) + Unspent(p)
  <2>1. CoveredNow /\ IsFiniteSet(Outstanding)
    BY <1>1 DEF Across, CounterKept, GivenUpNow
  <2>2. Unspent(p) \in Nat /\ Owed(p) \in Nat /\ Unspent(p) <= Owed(p)
    BY <1>1, OwedType DEF Unspent, Owed, TypeOK, StoreTypeOK
  <2>3. row.count \in Nat /\ Cardinality(Outstanding) \in Nat
    BY <1>1, <2>1, FS_CardinalityType DEF TypeOK, StoreTypeOK, Row
  <2> QED
    BY <2>1, <2>2, <2>3 DEF CoveredNow
<1>2. TypeOK /\ Across => (Orderly => CounterCoversOutstanding)
  BY <1>1 DEF CounterCoversOutstanding
<1> QED
  BY <1>2, AcrossHolds, PTL

(* ... and a completed row has no enrichment left to run.                  *)
THEOREM CompletesLastAcross == PatientSpec => [](Orderly => NoEarlyCompletion)
<1>1. Across => (Orderly => NoEarlyCompletion)
  BY DEF Across, CounterKept, NoEarlyCompletion
<1> QED
  BY <1>1, AcrossHolds, PTL

(***************************************************************************)
(* A row that one run of the pipeline completed has every chunk of its     *)
(* text in the vector index, with every best-effort statement free to fail *)
(* and whatever a cancel, a sweep or a restart does meanwhile.             *)
(***************************************************************************)
THEOREM IndexedWhenCompleted ==
  Spec => [](OneRun /\ NothingDropped => CompletedIsIndexed)
<1>1. Indexing => (OneRun /\ NothingDropped => CompletedIsIndexed)
  BY DEF Indexing, TextIndexed, CompletedIsIndexed, TextChunks, TextVectors
<1> QED
  BY <1>1, InvariantsHold, PTL

(***************************************************************************)
(* The clean-up before the write works: whatever crashes and retries there *)
(* are, the text of two executions is never stored at once, unless the     *)
(* clean-up failed or a reparse runs a second task.                        *)
(***************************************************************************)
THEOREM TextStoredOnce == Spec => [](~FlakyStore /\ OneParse => NoDuplicateText)
<1>1. ASSUME TextOnce
      PROVE  NoDuplicateText
  <2>1. CASE TextChunks = {}
    BY <2>1, FS_EmptySet DEF NoDuplicateText, TextChunks
  <2>2. CASE TextChunks # {}
    <3>1. PICK x : x \in TextChunks
      BY <2>2
    <3>2. TextChunks = {x}
      BY <1>1, <3>1 DEF TextOnce
    <3>3. Cardinality(TextChunks) = 1
      BY <3>2, FS_Singleton
    <3> QED
      BY <3>3 DEF NoDuplicateText, TextChunks
  <2> QED
    BY <2>1, <2>2
<1>2. Writing => (~FlakyStore /\ OneParse => NoDuplicateText)
  BY <1>1 DEF Writing
<1> QED
  BY <1>2, InvariantsHold, PTL

(***************************************************************************)
(* A failed document is not revived by a late worker or a late drain: its  *)
(* row stays failed as long as the pipeline and the cron have it alone.    *)
(***************************************************************************)
THEOREM FailedForGood == Spec => FailedIsFinal
<1>1. TypeOK /\ Shapes /\ Stages /\ Failing /\ [Next]_vars
        => [row.status = "failed" /\ Undisturbed' => row'.status = "failed"]_vars
  BY FailedStays
<1> QED
  BY <1>1, TypeCorrect, InvariantsHold, PTL DEF Spec, FailedIsFinal

(***************************************************************************)
(* For every set of queues, every order of those behind the default one    *)
(* and whatever the pipeline does between two reads: if none of the reads  *)
(* missed a task, a row is failed only when no asynq task of it is left.   *)
(***************************************************************************)
THEOREM SweepSpares == Spec => SweepSparesScanned
<1>1. TypeOK /\ QuietSweep /\ [Next]_vars => [Swept /\ ScansRight /\ OneParse' => ~Backlogged]_vars
  <2> SUFFICES ASSUME TypeOK, QuietSweep, [Next]_vars, Swept, ScansRight, OneParse',
                      NEW queue \in QueuesScanned
               PROVE  ~Holds(queue)
    BY DEF Backlogged
  <2>1. PipelineIdle
    BY DisturbancesGrow, ScanOver DEF QuietSweep, Swept
  <2>2. queue # WikiSlot
    BY CommandsAssumption DEF QueuesScanned
  <2> QED
    BY <2>1, <2>2 DEF PipelineIdle, Holds
<1> QED
  BY <1>1, TypeCorrect, InvariantsHold, PTL DEF Spec, SweepSparesScanned

(***************************************************************************)
(* A cancel holds: the tasks still queued when the row is cancelled and no *)
(* worker is inside a handler never make the document live again.          *)
(***************************************************************************)
THEOREM CancelledForGood == Spec => CancelHolds
<1>1. TypeOK /\ Stages /\ row.status = "cancelled" /\ NoneActive => Cancelled
  BY DEF Cancelled, CancelledAtRest, NoneActive, DocActive, PostActive, SubActive, Idle
<1>2. TypeOK /\ Shapes /\ Stages /\ Cancelled /\ [Next]_vars => Cancelled'
  BY CancelledNext
<1>3. Cancelled => row.gone \/ row.status \in {"cancelled", "failed", "deleting"} \/ Disturbed
  BY DEF Cancelled, CancelledAtRest
<1> QED
  BY <1>1, <1>2, <1>3, TypeCorrect, InvariantsHold, PTL DEF Spec, CancelHolds

-----------------------------------------------------------------------------
(* The pipeline implements DocumentJob.  Before the seed nothing is owed.  *)
LEMMA NothingPromised ==
  ASSUME StagesInOrder, \A p \in PostIds : post[p].pc \notin {"seeded", "enqueue", "promote", "done"}
  PROVE  Promised = {} /\ \A s \in SubIds : sub[s].pc = "none"
BY NothingHeld DEF Promised, Planned, SubIds

(* With nothing owed the row may fail, and complete if it has not failed.  *)
LEMMA JobFails ==
  ASSUME Promised' = Promised, Promised \subseteq WikiOps, row'.status = "failed"
  PROVE  [Job!Next]_(Job!vars)
BY DEF Job!Next, Job!Fail, Phase

LEMMA JobCompletes ==
  ASSUME Promised = {}, Promised' = {}, row'.status = "completed",
         row.status \in {"pending", "processing", "finalizing", "completed"}
  PROVE  [Job!Next]_(Job!vars)
BY DEF Job!Next, Job!Complete, Job!vars, Phase

LEMMA JobStutters ==
  ASSUME Promised' = Promised,
         \/ row'.status = row.status
         \/ {row.status, row'.status} \subseteq {"pending", "processing"}
  PROVE  [Job!Next]_(Job!vars)
BY DEF Job!vars, Phase

LEMMA JobSettles ==
  ASSUME NEW t, Promised' \in {Promised, Promised \ {t}}, row'.status = row.status
  PROVE  [Job!Next]_(Job!vars)
<1>1. CASE t \in Promised /\ Promised' = Promised \ {t}
  BY <1>1 DEF Job!Next, Job!Settle, Phase
<1>2. CASE Promised' = Promised
  BY <1>2, JobStutters
<1> QED
  BY <1>1, <1>2

(* What is finished by the parse worker was not planned yet.               *)
LEMMA JobDocStep ==
  ASSUME TypeOK, StagesInOrder, FailedAtRest, JobInOrder, DocStep(0)
  PROVE  JobInOrder' /\ [Job!Next]_(Job!vars)
<1>a. /\ 0 \in DocIds /\ doc[0].pc \notin Idle /\ UNCHANGED sub
      /\ post \in [PostIds -> PostTask]
  BY DocFlow, StoreAssumption DEF DocIds, TypeOK, StoreTypeOK
<1>b. \A p \in PostIds : post[p].pc = "none" \/ doc[0].pc = "account"
  BY <1>a DEF StagesInOrder, Idle
<1>c. doc[0].pc # "account" => Promised = {} /\ \A s \in SubIds : sub[s].pc = "none"
  BY <1>b, NothingPromised
<1>1. Promised' = Promised /\ (doc[0].pc = "account" => UNCHANGED post)
  <2>1. CASE UNCHANGED post
    BY <1>a, <2>1 DEF Promised, Held, Planned
  <2>2. CASE doc[0].pc = "fanout" /\ post' = [post EXCEPT ![<<0, doc[0].run>>] =
                                  [NoPost EXCEPT !.pc = "queued", !.att = doc[0].att]]
    <3>1. \A p \in PostIds : post[p].pc = "none" /\ post'[p].pc \in {"none", "queued"}
      BY <1>a, <1>b, <2>2 DEF NoPost
    <3>2. Planned' = {} /\ Planned = {}
      BY <3>1 DEF Planned, SubIds
    <3>3. Held' = Held
      BY <1>a DEF Held
    <3> QED
      BY <2>2, <3>2, <3>3 DEF Promised
  <2> QED
    BY <1>a, <2>1, <2>2, DocQueues
<1>2. doc[0].pc \in {"fanout", "account"} => doc'[0].pc \in {"account", "done"}
  <2>1. doc[0].pc = "fanout" => ChunksEnqueuePost(0)
    BY DEF DocStep, DocLoad, DocDrop, DocNoKnowledgeBase, DocRecheck, DocMarkProcessing,
         DocOpenAttempt, DocLearn, DocReject, DocRetry, DocGiveUp, DocDeadLetter, ChunksEntry, ChunksClean,
         ChunksRecheck, ChunksWrite, ChunksWriteFailed, ChunksPreIndex, ChunksIndex,
         ChunksIndexFailed, ChunksUnindex, ChunksPostIndex, ChunksSave, ChunksAccount
  <2>2. ChunksEnqueuePost(0) => doc'[0].pc = "account"
    BY <1>a, DocGotoMoves DEF ChunksEnqueuePost, TypeOK, StoreTypeOK
  <2> QED
    BY <1>a, <2>1, <2>2, DocFlow
<1>3. CASE row'.status = row.status
  <2>1. JobInOrder'
    <3>1. row'.status = "finalizing" => doc[0].pc = "account"
      BY <1>a, <1>b, <1>3 DEF JobInOrder, Idle
    <3> QED
      BY <1>a, <1>1, <1>2, <1>3, <3>1 DEF JobInOrder, Idle
  <2> QED
    BY <1>1, <1>3, <2>1, JobStutters
<1>4. CASE row'.status = "failed" /\ doc[0].pc # "account"
  BY <1>a, <1>c, <1>1, <1>4, JobFails DEF JobInOrder, Aborted
<1>5. CASE row'.status = "processing" /\ doc[0].pc \in {"rechecked", "convert", "save"}
  <2>1. row.status \in {"pending", "processing"}
    BY <1>5 DEF JobInOrder, FailedAtRest
  <2>2. JobInOrder'
    BY <1>a, <1>c, <1>1, <1>5 DEF JobInOrder, Aborted
  <2> QED
    BY <1>1, <1>5, <2>1, <2>2, JobStutters
<1>6. CASE row'.status = "completed" /\ doc[0].pc = "save" /\ doc'[0].pc = "fanout"
  <2>1. row.status \in {"pending", "processing"}
    BY <1>6 DEF JobInOrder, FailedAtRest
  <2>2. JobInOrder'
    BY <1>a, <1>c, <1>1, <1>6 DEF JobInOrder, Aborted
  <2> QED
    BY <1>c, <1>1, <1>6, <2>1, <2>2, JobCompletes
<1> QED
  BY <1>a, <1>3, <1>4, <1>5, <1>6, DocRow

(* Post-processing plans when nothing is owed, and hands on what is.       *)
LEMMA JobPostStep ==
  ASSUME TypeOK, Shapes, StagesInOrder, CounterOwned, FailedAtRest, JobInOrder,
         NEW p \in PostIds, PostStep(p)
  PROVE  JobInOrder' /\ [Job!Next]_(Job!vars)
<1>a. /\ post \in [PostIds -> PostTask] /\ sub \in [SubIds -> SubTask] /\ row \in Row
      /\ post[p].pc \notin Idle /\ post'[p].pc # "none" /\ UNCHANGED doc
      /\ \A q \in PostIds : q # p => post[q].pc = "none" /\ post'[q].pc = "none"
      /\ row.status \notin Aborted \union {"failed"}
      /\ doc[0].pc \in {"account", "done"}
  <2>1. /\ post \in [PostIds -> PostTask] /\ sub \in [SubIds -> SubTask] /\ row \in Row
    BY DEF TypeOK, StoreTypeOK
  <2>2. /\ post[p].pc \notin Idle /\ post'[p].pc # "none" /\ UNCHANGED doc
        /\ \A q \in PostIds : q # p => post'[q] = post[q]
    BY PostFlow
  <2>3. post[p].pc # "none"
    BY <2>2 DEF Idle
  <2>4. /\ \A q \in PostIds : q # p => post[q].pc = "none"
        /\ doc[0].pc \in {"account", "done"}
    BY <2>3 DEF StagesInOrder
  <2>5. row.status \notin Aborted \union {"failed"}
    BY <2>2 DEF FailedAtRest, JobInOrder
  <2> QED
    BY <2>1, <2>2, <2>4, <2>5
<1>b. row.status \in {"pending", "processing", "finalizing", "completed"}
  BY <1>a DEF Row, ParseStatus, Aborted
<1>c. ASSUME NEW pc, PostGoto(p, pc)
      PROVE  post'[p].pc = pc /\ (pc # "done" => post'[p].todo = post[p].todo
                                                /\ post'[p].run = post[p].run)
  BY <1>a, <1>c DEF PostGoto, PostGone, NoPost, PostTask
<1>d. Planned = IF post[p].pc \in {"seeded", "enqueue"}
                  THEN {s \in SubIds : s.post = p /\ s.slot \in post[p].todo /\ s.run = post[p].run}
                  ELSE {}
  BY <1>a DEF Planned, SubIds
<1>e. Planned' = IF post'[p].pc \in {"seeded", "enqueue"}
                  THEN {s \in SubIds : s.post = p /\ s.slot \in post'[p].todo /\ s.run = post'[p].run}
                  ELSE {}
  BY <1>a DEF Planned, SubIds
<1>f. UNCHANGED sub => Held' = Held
  BY DEF Held
<1>1. CASE post[p].pc \notin {"seeded", "enqueue", "promote"}
  <2>1. Promised = {} /\ (\A s \in SubIds : sub[s].pc = "none") /\ Held = {} /\ row.status # "finalizing"
    BY <1>a, <1>1, NothingPromised DEF Promised, JobInOrder, Idle
  <2>2. ASSUME UNCHANGED sub, post'[p].pc \notin {"seeded", "enqueue", "promote"}, row'.status # "finalizing"
        PROVE  JobInOrder' /\ [Job!Next]_(Job!vars)
    <3>1. Promised' = {}
      BY <1>e, <1>f, <2>1, <2>2 DEF Promised
    <3>2. row'.status \in {row.status, "failed", "completed"}
      BY <2>2, PostRow
    <3>3. JobInOrder'
      BY <1>a, <2>1, <2>2, <3>1, <3>2 DEF JobInOrder, Aborted
    <3> QED
      BY <1>b, <2>1, <3>1, <3>2, <3>3, JobFails, JobCompletes, JobStutters
  <2>3. CASE PostSeed(p) /\ SeedMatches
    <3>1. /\ row'.status = "finalizing" /\ row.status = "processing"
          /\ post'[p].pc = "seeded" /\ UNCHANGED sub
      BY <1>a, <1>c, <2>3 DEF PostSeed, SeedMatches, SetFinalizing, Row
    <3>2. Job!Plan
      BY <2>1, <3>1 DEF Job!Plan, Phase, Promised, Held, Planned
    <3>3. JobInOrder'
      BY <1>a, <2>1, <3>1 DEF JobInOrder, Aborted
    <3> QED
      BY <3>2, <3>3 DEF Job!Next
  <2>4. CASE ~(PostSeed(p) /\ SeedMatches)
    <3>1. UNCHANGED sub
      BY <1>1, PostFlow
    <3>2. post'[p].pc \notin {"seeded", "enqueue", "promote"}
      <4>1. PostFail(p) => post'[p].pc \in {"queued", "dead"}
        BY <1>a DEF PostFail, Retried, NoPost, PostTask
      <4>2. PostPlan(p) => post'[p].pc = "planned"
        BY <1>a DEF PostPlan, PostTask
      <4>3. \/ PostFail(p) \/ PostPlan(p)
            \/ PostGoto(p, "done") \/ PostGoto(p, "loaded")
        BY <1>1, <2>4 DEF PostStep, PostDeadLetter, PostLoad, PostNothingToEnrich, PostSeed,
           PostSeedFailed, PostSummaryStatus, PostEnqueue, PostEnqueueFailed, PostRelease,
           PostPromote, PostReleased
      <4> QED
        BY <1>c, <4>1, <4>2, <4>3
    <3>3. row'.status # "finalizing"
      <4>1. post[p].pc = "planned" /\ row'.status = "finalizing" => PostSeed(p) /\ SeedMatches
        BY <1>a, <1>1, <2>1 DEF PostStep, PostFail, PostDeadLetter, PostLoad, PostPlan,
           PostNothingToEnrich, PostSeed, PostSeedFailed, PostSummaryStatus, PostEnqueue,
           PostEnqueueFailed, PostRelease, PostPromote, PostReleased, BestEffort, SetStatusColumn, Row
      <4> QED
        BY <2>1, <2>4, <4>1, PostRow
    <3> QED
      BY <2>2, <3>1, <3>2, <3>3
  <2> QED
    BY <2>3, <2>4
<1>2. ASSUME post[p].pc \in {"seeded", "enqueue", "promote"},
             post'[p].pc \in {"seeded", "enqueue", "promote", "done"},
             Promised' = Promised \/ \E t : Promised' = Promised \ {t},
             \/ row'.status = row.status
             \/ row'.status = "completed" /\ Promised = {} /\ row.status = "finalizing",
             \A s \in SubIds : sub'[s] = sub[s] \/ sub'[s].pc = "queued"
      PROVE  JobInOrder' /\ [Job!Next]_(Job!vars)
  <2>1. JobInOrder'
    BY <1>a, <1>2 DEF JobInOrder, Aborted
  <2>2. CASE row'.status = row.status
    BY <1>2, <2>1, <2>2, JobSettles, JobStutters
  <2>3. CASE row'.status = "completed" /\ Promised = {} /\ row.status = "finalizing"
    BY <1>2, <2>1, <2>3, JobCompletes
  <2> QED
    BY <1>2, <2>2, <2>3
<1>3. CASE PostSummaryStatus(p)
  <2>1. /\ post'[p].pc = "enqueue" /\ post[p].pc = "seeded"
        /\ post'[p].todo = post[p].todo /\ post'[p].run = post[p].run /\ UNCHANGED sub
    BY <1>c, <1>3 DEF PostSummaryStatus
  <2>2. row'.status = row.status
    BY <1>a, <1>3 DEF PostSummaryStatus, BestEffort, SetSummaryColumn, Row
  <2>3. Promised' = Promised
    BY <1>d, <1>e, <1>f, <2>1 DEF Promised
  <2> QED
    BY <1>2, <2>1, <2>2, <2>3
<1>4. ASSUME NEW slot \in Slots, PostEnqueue(p, slot)
      PROVE  JobInOrder' /\ [Job!Next]_(Job!vars)
  <2>1. /\ post[p].pc = "enqueue" /\ post'[p].pc = "enqueue" /\ slot \in post[p].todo
        /\ post'[p].todo = post[p].todo \ {slot} /\ post'[p].run = post[p].run
        /\ UNCHANGED row
    BY <1>a, <1>4 DEF PostEnqueue, NextToEnqueue, PostTask
  <2>2. /\ SubOf(p, slot) \in SubIds
        /\ sub' = [sub EXCEPT ![SubOf(p, slot)] = [NoSub EXCEPT !.pc = "queued", !.att = post[p].att]]
    BY <1>a, <1>4 DEF PostEnqueue, SubOf, SubIds, PostTask
  <2>3. \A s \in SubIds : IF s = SubOf(p, slot) THEN sub'[s].pc = "queued" ELSE sub'[s] = sub[s]
    BY <1>a, <2>2 DEF NoSub
  <2>4. Held' = Held \union {SubOf(p, slot)}
    BY <2>2, <2>3 DEF Held, Idle
  <2>5. /\ SubOf(p, slot) \in Planned
        /\ Planned \ {SubOf(p, slot)} = Planned'
    <3>1. \A s \in SubIds : s = SubOf(p, slot) <=> s.post = p /\ s.run = post[p].run /\ s.slot = slot
      BY DEF SubOf, SubIds
    <3> QED
      BY <1>d, <1>e, <2>1, <2>2, <3>1
  <2>6. Promised' = Promised
    BY <2>4, <2>5 DEF Promised
  <2> QED
    BY <1>2, <2>1, <2>3, <2>6
<1>5. ASSUME NEW slot \in Slots, PostEnqueueFailed(p, slot)
      PROVE  JobInOrder' /\ [Job!Next]_(Job!vars)
  <2>1. /\ post[p].pc = "enqueue" /\ post'[p].pc = "enqueue" /\ slot \in post[p].todo
        /\ post'[p].todo = post[p].todo \ {slot} /\ post'[p].run = post[p].run
        /\ UNCHANGED <<row, sub>>
    BY <1>a, <1>5 DEF PostEnqueueFailed, NextToEnqueue, PostTask
  <2>2. Planned' = Planned \ {SubOf(p, slot)}
    <3>1. \A s \in SubIds : s = SubOf(p, slot) <=> s.post = p /\ s.run = post[p].run /\ s.slot = slot
      BY DEF SubOf, SubIds
    <3> QED
      BY <1>d, <1>e, <2>1, <3>1
  <2>3. Promised' = Promised \/ Promised' = Promised \ {SubOf(p, slot)}
    BY <1>f, <2>1, <2>2 DEF Promised
  <2>4. row'.status = row.status /\ \A s \in SubIds : sub'[s] = sub[s]
    BY <2>1
  <2>5. post[p].pc \in {"seeded", "enqueue", "promote"}
        /\ post'[p].pc \in {"seeded", "enqueue", "promote", "done"}
    BY <2>1
  <2> QED
    BY <1>2, <2>3, <2>4, <2>5
<1>6. CASE PostRelease(p) \/ PostPromote(p) \/ PostReleased(p)
  <2>1. /\ post[p].pc \in {"enqueue", "promote"} /\ post'[p].pc \in {"enqueue", "promote", "done"}
        /\ UNCHANGED sub
    BY <1>6, PostFlow DEF PostRelease, PostPromote, PostReleased
  <2>2. Planned = {} /\ Planned' = {}
    <3>1. post[p].todo = {}
      BY <1>6 DEF PostRelease, PostPromote, PostReleased, Shapes
    <3>2. post'[p].pc = "done" \/ post'[p].todo = {}
      <4>1. PostRelease(p) => post'[p].todo = post[p].todo
        BY <1>a DEF PostRelease, PostTask
      <4> QED
        BY <1>c, <1>6, <3>1, <4>1 DEF PostPromote, PostReleased
    <3> QED
      BY <1>d, <1>e, <3>1, <3>2
  <2>3. Promised' = Promised
    BY <1>f, <2>1, <2>2 DEF Promised
  <2>4. PromoteMatches => Promised = {}
    <3>1. Covered /\ row.count \in Nat
      BY <1>a DEF CounterOwned, GivenUp, PipelineIdle, Row
    <3>2. PromoteMatches => Cardinality(Held) = 0
      <4>1. Owed(p) \in Nat /\ Cardinality(Held) \in Nat
        BY <1>a, OwedType, FS_CardinalityType DEF CounterOwned
      <4> QED
        BY <3>1, <4>1 DEF PromoteMatches, Covered
    <3> QED
      BY <2>2, <3>2, FS_EmptySet DEF Promised, CounterOwned
  <2>5. \/ row'.status = row.status
        \/ row'.status = "completed" /\ Promised = {} /\ row.status = "finalizing"
    BY <2>1, <2>4, PostRow DEF PromoteMatches
  <2> QED
    BY <1>2, <2>1, <2>3, <2>5
<1> QED
  BY <1>1, <1>3, <1>4, <1>5, <1>6 DEF PostStep, PostFail, PostDeadLetter, PostLoad, PostPlan,
       PostNothingToEnrich, PostSeed, PostSeedFailed

(* An enrichment task is settled with its decrement, or gives up on it;    *)
(* what finds the counter at zero finds nothing owed.                      *)
LEMMA JobSubStep ==
  ASSUME TypeOK, Shapes, StagesInOrder, CounterOwned, JobInOrder, NEW s \in SubIds, SubStep(s)
  PROVE  JobInOrder' /\ [Job!Next]_(Job!vars)
<1>a. /\ sub[s].pc \notin Idle /\ sub'[s].pc # "none"
      /\ \A t \in SubIds : t # s => sub'[t] = sub[t]
      /\ UNCHANGED <<doc, post>>
  BY SubFlow
<1>b. /\ doc[0].pc \in {"account", "done"}
      /\ \E p \in PostIds : post[p].pc \in {"seeded", "enqueue", "promote", "done"}
  <2>1. sub[s].pc # "none"
    BY <1>a DEF Idle
  <2>2. PICK p \in PostIds : post[p].pc \in {"enqueue", "promote", "done"}
    BY <2>1 DEF StagesInOrder
  <2> QED
    BY <2>2 DEF StagesInOrder
<1>c. sub[s].pc \in {"running", "loaded", "marked"} /\ s.slot # WikiSlot =>
        row.status = "finalizing"
  BY DEF JobInOrder, Promised, Held, Idle
<1>1. Promised' = Promised \/ Promised' = Promised \ {s}
  <2>1. Planned' = Planned
    BY <1>a DEF Planned
  <2>2. CASE sub'[s].pc \notin Idle \union {"promote"}
    <3>1. sub[s].pc # "promote"
      BY <2>2, SubFlow DEF Idle
    <3>2. Held' = Held
      BY <1>a, <2>2, <3>1 DEF Held
    <3> QED
      BY <2>1, <3>2 DEF Promised
  <2>3. CASE sub'[s].pc \in Idle \union {"promote"}
    <3>1. Held' = Held \ {s}
      BY <1>a, <2>3 DEF Held
    <3>2. CASE s \in Planned
      BY <2>1, <3>1, <3>2 DEF Promised
    <3>3. CASE s \notin Planned
      BY <2>1, <3>1, <3>3 DEF Promised
    <3> QED
      BY <3>2, <3>3
  <2> QED
    BY <2>2, <2>3
<1>2. \/ row'.status = row.status
      \/ row.status = "finalizing" /\ row'.status = "completed" /\ Promised = {}
  <2>1. CASE sub[s].pc \in {"loaded", "marked"} /\ row'.status = sub[s].snap.status
    BY <1>c, <2>1, StoreAssumption DEF JobInOrder, Shapes
  <2>2. CASE row'.status = "completed" /\ PromoteMatches
    <3>1. row.status = "finalizing" /\ row.count = 0 /\ Covered /\ IsFiniteSet(Held)
      BY <2>2 DEF PromoteMatches, CounterOwned, GivenUp
    <3>2. /\ Cardinality(Held) \in Nat
          /\ \A p \in PostIds : Owed(p) \in Nat
      BY <3>1, OwedType, FS_CardinalityType DEF TypeOK, StoreTypeOK
    <3>3. \A p \in PostIds : Cardinality(Held) = 0 /\ Owed(p) = 0
      BY <3>1, <3>2 DEF Covered
    <3>4. Held = {}
      BY <1>b, <3>1, <3>3, FS_EmptySet
    <3>5. Planned = {}
      <4>1. \A p \in PostIds : post[p].pc \in {"seeded", "enqueue"} => post[p].todo = {}
        BY <3>3, OwedType, FS_EmptySet DEF TypeOK, StoreTypeOK, Owed
      <4> QED
        BY <4>1 DEF Planned, SubIds
    <3> QED
      BY <2>2, <3>1, <3>4, <3>5 DEF Promised
  <2> QED
    BY <2>1, <2>2, SubRow
<1>3. ASSUME NEW t \in SubIds, sub'[t].pc \in {"loaded", "marked"}
      PROVE  sub'[t].snap.status = "finalizing"
  <2>1. CASE t # s
    BY <1>a, <1>3, <2>1 DEF JobInOrder
  <2>2. CASE t = s
    BY <1>c, <1>3, <2>2, SubFlow, StoreAssumption DEF JobInOrder
  <2> QED
    BY <2>1, <2>2
<1>4. JobInOrder'
  BY <1>a, <1>b, <1>1, <1>2, <1>3 DEF JobInOrder, Aborted
<1>5. [Job!Next]_(Job!vars)
  <2>1. CASE row'.status = row.status
    BY <1>1, <2>1, JobSettles, JobStutters
  <2>2. CASE row.status = "finalizing" /\ row'.status = "completed" /\ Promised = {}
    BY <1>1, <2>2, JobCompletes
  <2> QED
    BY <1>2, <2>1, <2>2
<1> QED
  BY <1>4, <1>5

-----------------------------------------------------------------------------
(* Of the commands only the sweep is left.                                 *)
LEMMA UndisturbedCommand ==
  ASSUME TypeOK, Shapes, CommandsNext, Undisturbed, Undisturbed'
  PROVE  SweepStep \/ SweepSummary
<1>a. /\ cancel.pc = "idle" /\ delete.pc = "idle" /\ restarts' = restarts /\ restarts = 0
      /\ cancel'.calls = 0 /\ delete'.calls = 0 /\ cancel.calls = 0 /\ delete.calls = 0
      /\ \A n \in ReparseIds : reparse[n].pc = "idle" /\ reparse'[n].pc = "idle"
  BY DEF Shapes, Undisturbed, CounterUndisturbed, NoReparse
<1>1. ~CancelStep
  BY <1>a DEF CancelStep, CancelRead, CancelWrite, CancelDequeue, CancelScrub
<1>2. ~DeleteStep
  BY <1>a DEF DeleteStep, DeleteRead, DeleteMark, DeleteDequeue, DeleteClean, DeleteFail, DeleteRow
<1>3. ASSUME NEW n \in ReparseIds, ReparseStep(n)
      PROVE  FALSE
  <2>1. ReparseOpen(n)
    BY <1>a, <1>3 DEF ReparseStep, ReparseOpen, ReparseScrub, ReparseVectors, ReparseChunks,
       ReparseSave, ReparseReset, ReparseFail, ReparseEnqueue
  <2>2. reparse'[n].pc = "scrub"
    BY <2>1 DEF ReparseOpen, TypeOK, CommandsTypeOK, Reparse
  <2> QED
    BY <1>a, <2>2
<1>4. ~StartupReset
  BY <1>a DEF StartupReset
<1> QED
  BY <1>1, <1>2, <1>3, <1>4 DEF CommandsNext

(* It fails a row only over an idle pipeline, which owes no watched task.  *)
LEMMA JobCommandStep ==
  ASSUME TypeOK, Shapes, QuietSweep, JobInOrder, CommandsNext, Undisturbed, Undisturbed'
  PROVE  JobInOrder' /\ [Job!Next]_(Job!vars)
<1>a. /\ SweepStep \/ SweepSummary
      /\ UNCHANGED <<doc, post, sub>> /\ restarts' = restarts
  BY UndisturbedCommand, SweepMoves DEF Undisturbed, CounterUndisturbed
<1>1. Promised' = Promised
  BY <1>a DEF Promised, Held, Planned
<1>2. CASE row'.status = row.status
  <2>1. JobInOrder'
    BY <1>a, <1>1, <1>2 DEF JobInOrder
  <2> QED
    BY <1>1, <1>2, <2>1, JobStutters
<1>3. CASE row'.status = "failed" /\ sweep.pc = "update"
  <2>1. PipelineIdle
    BY <1>3, ScanOver DEF QuietSweep, Undisturbed, CounterUndisturbed, OneRun
  <2>2. Promised \subseteq WikiOps
    BY <2>1 DEF PipelineIdle, Promised, Held, Planned, WikiOps, SubIds, Idle
  <2>3. JobInOrder'
    <3>1. \A s \in SubIds : sub[s].pc \notin {"loaded", "marked"}
      BY <2>1, StoreAssumption DEF Shapes, PipelineIdle, Idle
    <3> QED
      BY <1>a, <1>1, <1>3, <2>2, <3>1 DEF JobInOrder, Aborted, WikiOps
  <2> QED
    BY <1>1, <1>3, <2>2, <2>3, JobFails
<1> QED
  BY <1>a, <1>2, <1>3, SweepMoves

(* So every step of the lifecycle is one of the job, or none.              *)
LEMMA JobsNext ==
  ASSUME TypeOK, Shapes, Stages, QuietSweep, Counter, Failing, Jobs, [Next]_vars, Undisturbed'
  PROVE  JobInOrder' /\ [Job!Next]_(Job!vars)
<1>a. /\ Undisturbed /\ CounterUndisturbed /\ OneRun'
      /\ FailedAtRest /\ StagesInOrder /\ CounterOwned /\ JobInOrder
  BY DisturbancesGrow DEF Failing, Undisturbed, CounterUndisturbed, Stages, Counter, Jobs
<1>1. CASE UNCHANGED vars
  <2>1. Promised' = Promised /\ UNCHANGED <<row, doc, post, sub>>
    BY <1>1 DEF vars, storeVars, Promised, Held, Planned
  <2> QED
    BY <1>a, <2>1, JobStutters DEF JobInOrder
<1> QED
  BY <1>a, <1>1, OneRunStep, JobDocStep, JobPostStep, JobSubStep, JobCommandStep

LEMMA InitJob == Init => JobInOrder /\ Job!Init
<1> SUFFICES ASSUME Init
             PROVE  JobInOrder /\ Job!Init
  OBVIOUS
<1>1. /\ row.status = "pending"
      /\ \A p \in PostIds : post[p].pc = "none"
      /\ \A s \in SubIds : sub[s].pc = "none"
  BY DEF Init, StoreInit, NoPost, NoSub
<1>2. Promised = {}
  BY <1>1 DEF Promised, Held, Planned, SubIds, Idle
<1> QED
  BY <1>1, <1>2 DEF JobInOrder, Aborted, Job!Init, Phase

(***************************************************************************)
(* Left alone with its tasks and the cron, a document of the pipeline is a *)
(* DocumentJob: the plan of its post-processing is made once and seeded as *)
(* a whole, its tasks are settled one by one, whoever finds the counter at *)
(* zero completes the row with nothing owed, and nothing fails the row     *)
(* while an asynq task of it is owed.                                      *)
(***************************************************************************)
THEOREM JobImplemented == Spec /\ []Undisturbed => ImplementsJob
<1>1. Init => Jobs /\ Job!Init
  BY InitJob DEF Jobs
<1>2. TypeOK /\ Shapes /\ Stages /\ QuietSweep /\ Counter /\ Failing /\ Jobs /\ [Next]_vars => Jobs'
  BY JobsNext DEF Jobs
<1>3. TypeOK /\ Shapes /\ Stages /\ QuietSweep /\ Counter /\ Failing /\ Jobs /\ [Next]_vars
        /\ Undisturbed' => [Job!Next]_(Job!vars)
  BY JobsNext
<1> QED
  BY <1>1, <1>2, <1>3, TypeCorrect, InvariantsHold, PTL DEF Spec, ImplementsJob, Job!Spec
=============================================================================
