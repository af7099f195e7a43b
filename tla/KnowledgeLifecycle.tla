------------------------- MODULE KnowledgeLifecycle -------------------------
(***************************************************************************)
(* One document from upload to deletion: the parse worker, the             *)
(* post-processing fan-out, the enrichment subtasks, the user's commands   *)
(* and the background sweeps, all interleaved over one row.                *)
(***************************************************************************)
EXTENDS DocumentParse, EnrichmentFanout, KnowledgeCommands

vars == <<storeVars, commandVars>>

Init == StoreInit /\ CommandsInit

Pipeline ==
    \/ DocNext /\ UNCHANGED commandVars
    \/ FanoutNext /\ UNCHANGED commandVars

Next == Pipeline \/ CommandsNext

Spec == Init /\ [][Next]_vars

(***************************************************************************)
(* asynq keeps running what is queued and the cron keeps sweeping.         *)
(* Nothing is assumed of a wiki op, whose trigger task may never have been *)
(* enqueued, nor of a user's call, which may die with its server.          *)
(***************************************************************************)
Fairness ==
    /\ \A d \in DocIds : WF_vars(DocStep(d) /\ UNCHANGED commandVars)
    /\ \A p \in PostIds : WF_vars(PostStep(p) /\ UNCHANGED commandVars)
    /\ \A s \in SubIds : s.slot # WikiSlot => WF_vars(SubStep(s) /\ UNCHANGED commandVars)
    /\ WF_vars(SweepStep)

FairSpec == Spec /\ Fairness

TypeOK == StoreTypeOK /\ CommandsTypeOK

-----------------------------------------------------------------------------
(***************************************************************************)
(* What a promise of the pipeline asks of the rest of the world.  The      *)
(* instances rule the disturbances out by their bounds; the promises name  *)
(* them, so that they can be stated for every value of the bounds.         *)
(***************************************************************************)

\* No reparse has queued its task yet: there is one document task.
OneParse == \A n \in ReparseIds : doc[n].pc = "none"

\* ... and no handler of it ever started over behind its first writes.
OneRun == OneParse /\ crashes = 0

NoReparse == \A n \in ReparseIds : reparse[n].pc = "idle"

\* Every queue told the sweep of the tasks it held when it was read.
ScansRight == InspectorSees /\ sweep.misses = 0

\* Nobody but a drain or the sweep writes the counter: no cancel, no reparse
\* and no startup reset, and no scan of the sweep has missed a task.
CounterUndisturbed ==
    OneRun /\ NoReparse /\ cancel.calls = 0 /\ restarts = 0 /\ ScansRight

\* ... and no delete either: the pipeline and the cron have the row alone.
Undisturbed == CounterUndisturbed /\ delete.calls = 0

\* A worker died, a server started or the user asked for a reparse.
Disturbed == crashes > 0 \/ restarts > 0 \/ ~NoReparse

\* Every task is finished or still queued.
NoneActive ==
    /\ \A d \in DocIds : ~DocActive(d)
    /\ \A p \in PostIds : ~PostActive(p)
    /\ \A s \in SubIds : ~SubActive(s)

(***************************************************************************)
(* A user who reparses only finished documents that neither a call, a      *)
(* worker nor the sweep is busy with, and a server that starts when no     *)
(* worker runs (one process, resetPendingTasks before the asynq server).   *)
(* Enrichment tasks may still sit in the queue; a wiki op of the old       *)
(* attempt would not be superseded.                                        *)
(***************************************************************************)
Rested ==
    /\ row.status \in {"completed", "failed", "cancelled"}
    /\ sweep.pc = "idle"
    /\ \A n \in ReparseIds : reparse[n].pc \in {"idle", "done"}
    /\ \A d \in DocIds : doc[d].pc \in Idle
    /\ \A p \in PostIds : post[p].pc \in Idle
    /\ \A s \in SubIds : sub[s].pc \in Idle \/ (sub[s].pc = "queued" /\ s.slot # WikiSlot)

Patient ==
    /\ \A n \in ReparseIds : reparse[n].pc = "idle" /\ reparse'[n].pc # "idle" => Rested
    /\ restarts' # restarts => NoneActive /\ sweep.pc = "idle"

PatientSpec == Init /\ [][Next /\ Patient]_vars

\* With patient users and servers the counter survives reparses and restarts,
\* as long as no task drains twice, no cancel is undone, and neither the sweep
\* nor a subtask goes by an answer it did not get.
Orderly == crashes = 0 /\ cancel.calls = 0 /\ ScansRight /\ ~FlakyStore

\* A task holds its slot of the counter from the enqueue to its decrement; one
\* that a newer attempt superseded in the queue will not drain at all.
Outstanding == {s \in SubIds : /\ sub[s].pc \notin Idle \union {"promote"}
                               /\ ~(sub[s].pc = "queued" /\ Superseded(s))}

\* Slots post-processing has counted and not yet enqueued or released.
Unspent(p) == IF post[p].pc \in {"seeded", "enqueue"}
                THEN Cardinality(post[p].todo) + post[p].short ELSE 0

(***************************************************************************)
(* knowledge_post_process.go: "the row promotes itself to completed when   *)
(* the counter hits zero".  While the row is finalizing the counter covers *)
(* every subtask that has not drained, so no drain can promote the row     *)
(* under a task that is still at work.                                     *)
(***************************************************************************)
CounterCoversOutstanding ==
    ~row.gone /\ row.status = "finalizing" =>
        \A p \in PostIds : row.count >= Cardinality(Outstanding) + Unspent(p)

(***************************************************************************)
(* A completed row has no enrichment left to run: "Counting it keeps the   *)
(* row in finalizing ... until wiki generation actually finishes".         *)
(***************************************************************************)
NoEarlyCompletion ==
    ~row.gone /\ row.status = "completed" => Outstanding = {}

(***************************************************************************)
(* A completed row is searchable: all its text is written, and indexed     *)
(* where the knowledge base has an index.                                  *)
(***************************************************************************)
CompletedIsIndexed ==
    ~row.gone /\ row.status = "completed" /\ NeedsEmbedding =>
        chunks \intersect TextOrigin = vectors \intersect TextOrigin

(***************************************************************************)
(* A failed parse stays failed until the user asks for another one: no     *)
(* late worker turns it back into a running or a completed one.            *)
(***************************************************************************)
FailedIsFinal ==
    [][row.status = "failed" /\ Undisturbed' => row'.status = "failed"]_vars

(***************************************************************************)
(* CancelKnowledgeParse zeroes the counter with the status "so a late      *)
(* subtask FinalizeSubtask call can't race-promote the row back to         *)
(* completed": a row cancelled during enrichment never completes.          *)
(***************************************************************************)
CancelNeverPromoted ==
    [](row.status = "cancelled" /\ Outstanding # {} => [](row.status # "completed"))

(***************************************************************************)
(* processChunks drops what an earlier attempt or run wrote before it      *)
(* writes: a document never has the text of two executions at once.        *)
(***************************************************************************)
NoDuplicateText == Cardinality(chunks \intersect TextOrigin) <= 1

Clean == chunks = {} /\ vectors = {}

(***************************************************************************)
(* The entry guards of the tasks still queued: from the moment the row is  *)
(* deleted, nothing is left and no worker is inside a handler, nothing of  *)
(* the document is ever written again.                                     *)
(***************************************************************************)
DeletedStaysEmpty == [](row.gone /\ NoneActive /\ Clean => []Clean)

(***************************************************************************)
(* The same for a cancel: once the row is cancelled and no worker is       *)
(* inside a handler, the tasks still queued never make it live again,      *)
(* unless a crash, a restart or a reparse brings in new work.              *)
(***************************************************************************)
CancelHolds ==
    [](row.status = "cancelled" /\ NoneActive =>
         [](row.gone \/ row.status \in {"cancelled", "failed", "deleting"} \/ Disturbed))

Swept == sweep.pc = "update" /\ sweep'.pc = "idle" /\ row' # row

\* An asynq task of the document is queued or at work.
Backlogged == \E queue \in QueuesScanned : Holds(queue)

(***************************************************************************)
(* Housekeeping reads the queues of HasQueuedTasksForKnowledge apart, and  *)
(* tasks are enqueued meanwhile.  It is enough that each is read rightly:  *)
(* a document without images moves on from the default queue, which is     *)
(* read first, so a row is not failed over a task that entered behind the  *)
(* scan.  A reparse may enter there; nobody looks for it.                  *)
(***************************************************************************)
SweepSparesScanned == [][Swept /\ ScansRight /\ OneParse' => ~Backlogged]_vars

(***************************************************************************)
(* Housekeeping: no row hangs in processing or finalizing for ever.        *)
(***************************************************************************)
Settles == (row.status \in {"processing", "finalizing"} /\ ~row.gone)
             ~> (row.status \notin {"processing", "finalizing"} \/ row.gone)
-----------------------------------------------------------------------------
\* A task is owed from the seed of the counter, which counts its slot, to its
\* decrement, superseded or not.
Held == {s \in SubIds : sub[s].pc \notin Idle \union {"promote"}}
Planned == {s \in SubIds : /\ post[s.post].pc \in {"seeded", "enqueue"}
                           /\ s.slot \in post[s.post].todo /\ s.run = post[s.post].run}
Promised == Held \union Planned

Phase == CASE row.status \in {"pending", "processing"} -> "parsing"
           [] row.status = "finalizing" -> "enriching"
           [] OTHER -> row.status

WikiOps == {s \in SubIds : s.slot = WikiSlot}

Job == INSTANCE DocumentJob WITH
         Tasks <- SubIds, Unwatched <- WikiOps,
         phase <- Phase, owed <- Promised

(***************************************************************************)
(* The row, its counter and the tasks on their workers keep the promise of *)
(* DocumentJob, as long as the pipeline and the cron have them alone.      *)
(***************************************************************************)
ImplementsJob == Job!Spec
=============================================================================
