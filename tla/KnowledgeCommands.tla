------------------------- MODULE KnowledgeCommands -------------------------
(***************************************************************************)
(* Everybody who moves the row from outside the pipeline: the user         *)
(* (CancelKnowledgeParse and ReparseKnowledge of knowledge_process.go,     *)
(* DeleteKnowledge of knowledge_delete.go), the housekeeping cron          *)
(* (knowledge_housekeeping.go) and the startup reset                       *)
(* (internal/container/reset_pending_tasks.go).  A command reads the row,  *)
(* decides, and writes later; the pipeline keeps moving in between.        *)
(***************************************************************************)
EXTENDS KnowledgeStore

CONSTANTS
    MaxCancel,      \* bound: how often the user asks for a cancel
    MaxDelete,      \* bound: how often the user asks for a delete
    MaxRestart,     \* bound: how often a server process starts up
    MaxMiss,        \* bound: how often a scanned queue hides a task it holds
    InspectorSees   \* the asynq inspector is wired (Redis mode)

DefaultQueue == "default"

ASSUME CommandsAssumption ==
    /\ MaxCancel \in Nat
    /\ MaxDelete \in Nat
    /\ MaxRestart \in Nat
    /\ MaxMiss \in Nat
    /\ InspectorSees \in BOOLEAN
    /\ WikiSlot # DefaultQueue

VARIABLES
    cancel,     \* the cancel call in flight, and how many there were
    reparse,    \* one call per document task but the first
    delete,     \* the delete call in flight, and how many there were
    sweep,      \* how far the housekeeping sweep is with this row
    restarts    \* startup resets so far

commandVars == <<cancel, reparse, delete, sweep, restarts>>

ReparseIds == DocIds \ {0}

Cancel == [pc: {"idle", "write", "dequeue", "again", "scrub"}, calls: 0..MaxCancel]
Reparse == [pc: {"idle", "scrub", "vectors", "chunks", "save", "reset", "enqueue", "done"},
            snap: Snapshot, failed: BOOLEAN]
Delete == [pc: {"idle", "mark", "dequeue", "clean", "row"},
           calls: 0..MaxDelete, snap: Snapshot, todo: SUBSET {"vectors", "wiki", "chunks"}]

\* The asynq queues of the document: the one of the document and post-process
\* tasks, and for every kind of enrichment one of its own (low, graph,
\* question).  Wiki ops are in a table and their trigger names no document.
QueuesScanned == {DefaultQueue} \union (Slots \ {WikiSlot})

\* "left" are the queues still to be read, "misses" the tasks overlooked so far.
Sweep == [pc: {"idle", "probe", "update"}, left: SUBSET QueuesScanned, misses: 0..MaxMiss]

CommandsInit ==
    /\ cancel = [pc |-> "idle", calls |-> 0]
    /\ reparse = [n \in ReparseIds |-> [pc |-> "idle", snap |-> Blank, failed |-> FALSE]]
    /\ delete = [pc |-> "idle", calls |-> 0, snap |-> Blank, todo |-> {}]
    /\ sweep = [pc |-> "idle", left |-> {}, misses |-> 0]
    /\ restarts = 0

CommandsTypeOK ==
    /\ cancel \in Cancel
    /\ reparse \in [ReparseIds -> Reparse]
    /\ delete \in Delete
    /\ sweep \in Sweep
    /\ restarts \in 0..MaxRestart

(***************************************************************************)
(* Shared by the commands.                                                 *)
(***************************************************************************)

\* CancelTasksForKnowledge: delete the queued asynq tasks, best effort.  It
\* pages through the queues one at a time, so any of them may be missed; the
\* signal to running workers is "a latency optimization".  Wiki ops are not
\* asynq tasks of the document and stay.
Dequeue ==
    \E docs \in SUBSET {d \in DocIds : doc[d].pc = "queued"},
       posts \in SUBSET {p \in PostIds : post[p].pc = "queued"},
       subs \in SUBSET {s \in SubIds : sub[s].pc = "queued" /\ s.slot # WikiSlot} :
         /\ doc' = [d \in DocIds |-> IF d \in docs THEN DocGone ELSE doc[d]]
         /\ post' = [p \in PostIds |-> IF p \in posts THEN PostGone ELSE post[p]]
         /\ sub' = [s \in SubIds |-> IF s \in subs THEN SubGone ELSE sub[s]]

\* scrubWikiPendingIngest: delete the wiki ops nobody works on yet; an error is
\* only logged.
ScrubWiki ==
    \/ sub' = [s \in SubIds |-> IF s.slot = WikiSlot /\ sub[s].pc = "queued" THEN SubGone ELSE sub[s]]
    \/ FlakyStore /\ UNCHANGED sub

-----------------------------------------------------------------------------
CancelGoto(pc) == cancel' = [cancel EXCEPT !.pc = pc]

\* A cancelled row is only dequeued again; a finished or deleting one is refused.
CancelRead ==
    /\ cancel.pc = "idle"
    /\ cancel.calls < MaxCancel
    /\ ~row.gone
    /\ row.status \in {"pending", "processing", "finalizing", "cancelled"}
    /\ cancel' = [pc |-> IF row.status = "cancelled" THEN "again" ELSE "write",
                  calls |-> cancel.calls + 1]
    /\ UNCHANGED <<storeVars, reparse, delete, sweep, restarts>>

\* parse_status and the counter in one UPDATE, whatever the row is by now; an
\* error ends the call.
CancelWrite ==
    /\ cancel.pc = "write"
    /\ \/ SetStatusAndResetCount("cancelled") /\ CancelGoto("dequeue")
       \/ UNCHANGED row /\ CancelGoto("idle")
    /\ UNCHANGED <<latest, chunks, vectors, doc, post, sub, crashes,
                   reparse, delete, sweep, restarts>>

CancelDequeue ==
    /\ cancel.pc \in {"dequeue", "again"}
    /\ Dequeue
    /\ CancelGoto(IF cancel.pc = "again" THEN "idle" ELSE "scrub")
    /\ UNCHANGED <<row, latest, chunks, vectors, crashes, reparse, delete, sweep, restarts>>

CancelScrub ==
    /\ cancel.pc = "scrub"
    /\ ScrubWiki
    /\ CancelGoto("idle")
    /\ UNCHANGED <<row, latest, chunks, vectors, doc, post, crashes,
                   reparse, delete, sweep, restarts>>

-----------------------------------------------------------------------------
ReparseGoto(n, pc) == reparse' = [reparse EXCEPT ![n].pc = pc]

\* Load the row, whatever its status, and open the new attempt up front; if
\* that fails the worker will.
ReparseOpen(n) ==
    /\ reparse[n].pc = "idle"
    /\ n - 1 \in ReparseIds => reparse[n - 1].pc # "idle"
    /\ ~row.gone
    /\ reparse' = [reparse EXCEPT ![n].pc = "scrub", ![n].snap = Snap]
    /\ \/ /\ latest' = latest + 1
          /\ doc' = [doc EXCEPT ![n].att = latest + 1, ![n].opens = FALSE]
       \/ FlakyStore /\ UNCHANGED <<latest, doc>>
    /\ UNCHANGED <<row, chunks, vectors, post, sub, crashes, cancel, delete, sweep, restarts>>

\* prepareWikiForReparse
ReparseScrub(n) ==
    /\ reparse[n].pc = "scrub"
    /\ ScrubWiki
    /\ ReparseGoto(n, "vectors")
    /\ UNCHANGED <<row, latest, chunks, vectors, doc, post, crashes,
                   cancel, delete, sweep, restarts>>

\* cleanupKnowledgeResources: go on after an error, report it at the end.
ReparseVectors(n) ==
    /\ reparse[n].pc = "vectors"
    /\ \/ /\ vectors' = IF NeedsEmbedding THEN {} ELSE vectors
          /\ ReparseGoto(n, "chunks")
       \/ /\ NeedsEmbedding
          /\ reparse' = [reparse EXCEPT ![n].pc = "chunks", ![n].failed = TRUE]
          /\ UNCHANGED vectors
    /\ UNCHANGED <<row, latest, chunks, doc, post, sub, crashes,
                   cancel, delete, sweep, restarts>>

ReparseChunks(n) ==
    /\ reparse[n].pc = "chunks"
    /\ \/ /\ chunks' = {}
          /\ ReparseGoto(n, IF reparse[n].failed THEN "done" ELSE "save")
       \/ /\ ReparseGoto(n, "done")
          /\ chunks' \in {chunks, {}}
    /\ UNCHANGED <<row, latest, vectors, doc, post, sub, crashes,
                   cancel, delete, sweep, restarts>>

\* Full-row Save with parse_status = pending ...
ReparseSave(n) ==
    /\ reparse[n].pc = "save"
    /\ SaveRow("pending", reparse[n].snap.summary)
    /\ ReparseGoto(n, "reset")
    /\ UNCHANGED <<latest, chunks, vectors, doc, post, sub, crashes,
                   cancel, delete, sweep, restarts>>

\* ... and the counter in an UPDATE of its own, which the Save omits.
ReparseReset(n) ==
    /\ reparse[n].pc = "reset"
    /\ ResetCountColumn
    /\ ReparseGoto(n, "enqueue")
    /\ UNCHANGED <<latest, chunks, vectors, doc, post, sub, crashes,
                   cancel, delete, sweep, restarts>>

\* The knowledge base cannot be read, or one of the two UPDATEs failed: the
\* call ends with an error, the attempt stays open.
ReparseFail(n) ==
    /\ reparse[n].pc \in {"scrub", "save", "reset"}
    /\ ReparseGoto(n, "done")
    /\ UNCHANGED <<storeVars, cancel, delete, sweep, restarts>>

\* A failed enqueue is logged and the call succeeds.
ReparseEnqueue(n) ==
    /\ reparse[n].pc = "enqueue"
    /\ \/ doc' = [doc EXCEPT ![n].pc = "queued"]
       \/ UNCHANGED doc
    /\ ReparseGoto(n, "done")
    /\ UNCHANGED <<row, latest, chunks, vectors, post, sub, crashes,
                   cancel, delete, sweep, restarts>>

-----------------------------------------------------------------------------
DeleteGoto(pc) == delete' = [delete EXCEPT !.pc = pc]

DeleteRead ==
    /\ delete.pc = "idle"
    /\ delete.calls < MaxDelete
    /\ ~row.gone
    /\ delete' = [pc |-> "mark", calls |-> delete.calls + 1, snap |-> Snap,
                  todo |-> {"vectors", "wiki", "chunks"}]
    /\ UNCHANGED <<storeVars, cancel, reparse, sweep, restarts>>

\* Full-row Save with parse_status = deleting; "continue with deletion even if
\* marking fails".
DeleteMark ==
    /\ delete.pc = "mark"
    /\ BestEffort(SaveRow("deleting", delete.snap.summary))
    /\ DeleteGoto(IF delete.snap.status \in {"pending", "processing"} THEN "dequeue" ELSE "clean")
    /\ UNCHANGED <<latest, chunks, vectors, doc, post, sub, crashes,
                   cancel, reparse, sweep, restarts>>

DeleteDequeue ==
    /\ delete.pc = "dequeue"
    /\ Dequeue
    /\ DeleteGoto("clean")
    /\ UNCHANGED <<row, latest, chunks, vectors, crashes, cancel, reparse, sweep, restarts>>

\* Vectors go in a goroutine, chunks in another one started after the wiki
\* clean-up; the call waits for both.
DeleteClean(part) ==
    /\ delete.pc = "clean"
    /\ part \in delete.todo
    /\ part = "chunks" => "wiki" \notin delete.todo
    /\ delete' = [delete EXCEPT !.todo = @ \ {part}]
    /\ vectors' = IF part = "vectors" /\ NeedsEmbedding THEN {} ELSE vectors
    /\ chunks' = IF part = "chunks" THEN {} ELSE chunks
    /\ IF part = "wiki" THEN ScrubWiki ELSE UNCHANGED sub
    /\ UNCHANGED <<row, latest, doc, post, crashes, cancel, reparse, sweep, restarts>>

\* One of the goroutines failed: the call ends, the row stays.
DeleteFail ==
    /\ delete.pc = "clean"
    /\ delete.todo \subseteq {"vectors", "chunks"}
    /\ delete.todo # {}
    /\ delete' = [delete EXCEPT !.pc = "idle", !.todo = {}]
    /\ UNCHANGED <<storeVars, cancel, reparse, sweep, restarts>>

\* Soft delete of the row.
DeleteRow ==
    /\ delete.pc = "clean"
    /\ delete.todo = {}
    /\ row' = [row EXCEPT !.gone = TRUE]
    /\ DeleteGoto("idle")
    /\ UNCHANGED <<latest, chunks, vectors, doc, post, sub, crashes,
                   cancel, reparse, sweep, restarts>>

-----------------------------------------------------------------------------
StuckProcessingOnly == ~row.gone /\ row.status = "processing"   \* Mutant: finalizing forgotten
Stuck == ~row.gone /\ row.status \in {"processing", "finalizing"}

\* The candidate query and the span heartbeats.  Time is abstracted: a row may
\* always have been silent for too long.  Without an inspector nothing is asked.
SweepSelect ==
    /\ sweep.pc = "idle"
    /\ Stuck
    /\ sweep' = IF InspectorSees
                  THEN [sweep EXCEPT !.pc = "probe", !.left = QueuesScanned]
                  ELSE [sweep EXCEPT !.pc = "update"]
    /\ UNCHANGED <<storeVars, cancel, reparse, delete, restarts>>

\* What a queue has of this document, in one of its four lists.
Holds(queue) ==
    \/ /\ queue = DefaultQueue
       /\ \/ \E d \in DocIds : doc[d].pc \notin Idle
          \/ \E p \in PostIds : post[p].pc \notin Idle
    \/ \E s \in SubIds : sub[s].pc \notin Idle /\ s.slot = queue

InOrderDefaultLast(queue) == queue # DefaultQueue \/ sweep.left = {DefaultQueue}   \* Mutant
InOrder(queue) == queue = DefaultQueue \/ DefaultQueue \notin sweep.left

\* A task is found, or not: it moved up a page or into a list already read while
\* the pages went by, or a list that could not be read counted as "no match".
Found(queue) == Holds(queue) /\ sweep' = [sweep EXCEPT !.pc = "idle", !.left = {}]
NotFound(queue) ==
    /\ Holds(queue) => sweep.misses < MaxMiss
    /\ sweep' = [pc |-> IF sweep.left = {queue} THEN "update" ELSE "probe",
                 left |-> sweep.left \ {queue},
                 misses |-> IF Holds(queue) THEN sweep.misses + 1 ELSE sweep.misses]

\* HasQueuedTasksForKnowledge reads one queue after the other, and the pipeline
\* goes on meanwhile.  What counts is the queue when its last list is read.
SweepProbe(queue) ==
    /\ sweep.pc = "probe"
    /\ queue \in sweep.left
    /\ InOrder(queue)
    /\ Found(queue) \/ NotFound(queue)
    /\ UNCHANGED <<storeVars, cancel, reparse, delete, restarts>>

\* The UPDATE looks at the status again, and only at that.
SweepFail ==
    /\ sweep.pc = "update"
    /\ sweep' = [sweep EXCEPT !.pc = "idle"]
    /\ IF Stuck THEN SetStatusAndResetCount("failed") ELSE UNCHANGED row
    /\ UNCHANGED <<latest, chunks, vectors, doc, post, sub, crashes,
                   cancel, reparse, delete, restarts>>

\* Sweep B: a summary_status left in processing.
SweepSummary ==
    /\ ~row.gone
    /\ row.summary = "processing"
    /\ SetSummaryColumn("failed")
    /\ UNCHANGED <<latest, chunks, vectors, doc, post, sub, crashes, commandVars>>

\* resetPendingTasks of a process that starts, perhaps beside running replicas.
StartupReset ==
    /\ restarts < MaxRestart
    /\ restarts' = restarts + 1
    /\ row' = IF row.gone THEN row ELSE
              [row EXCEPT
                !.status = IF row.status \in {"pending", "processing", "finalizing", "deleting"}
                             THEN "failed" ELSE @,
                !.count = IF row.status \in {"pending", "processing", "finalizing", "deleting"}
                             THEN 0 ELSE @,
                !.summary = IF row.summary \in {"pending", "processing"} THEN "failed" ELSE @]
    /\ UNCHANGED <<latest, chunks, vectors, doc, post, sub, crashes,
                   cancel, reparse, delete, sweep>>

ReparseStep(n) ==
    \/ ReparseOpen(n) \/ ReparseScrub(n) \/ ReparseVectors(n) \/ ReparseChunks(n)
    \/ ReparseSave(n) \/ ReparseReset(n) \/ ReparseFail(n) \/ ReparseEnqueue(n)

CancelStep == CancelRead \/ CancelWrite \/ CancelDequeue \/ CancelScrub

DeleteStep ==
    \/ DeleteRead \/ DeleteMark \/ DeleteDequeue \/ DeleteFail \/ DeleteRow
    \/ \E part \in {"vectors", "wiki", "chunks"} : DeleteClean(part)

SweepStep == SweepSelect \/ SweepFail \/ \E queue \in QueuesScanned : SweepProbe(queue)

CommandsNext ==
    \/ CancelStep
    \/ \E n \in ReparseIds : ReparseStep(n)
    \/ DeleteStep
    \/ SweepStep
    \/ SweepSummary
    \/ StartupReset
=============================================================================
