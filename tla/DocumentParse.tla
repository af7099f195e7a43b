---------------------------- MODULE DocumentParse ----------------------------
(***************************************************************************)
(* ProcessDocument and processChunks                                       *)
(* (internal/application/service/knowledge_process.go): one asynq task     *)
(* turns an uploaded file into chunks and vectors and hands the row to     *)
(* post-processing.  The handler keeps the struct it loaded first and      *)
(* writes it back with a full-row Save, so each read and each Save is a    *)
(* step of its own and everybody else may move in between.                 *)
(***************************************************************************)
EXTENDS KnowledgeStore

DocGoto(d, pc) == doc' = [doc EXCEPT ![d] = IF pc = "done" THEN DocGone ELSE [@ EXCEPT !.pc = pc]]

\* isKnowledgeAborted: a missing or unreadable row counts as deleting.
Unreadable == IF FlakyStore THEN BOOLEAN ELSE {FALSE}
DeletingNow == row.gone \/ row.status = "deleting"
AbortedNowDeletingOnly == DeletingNow   \* Mutant: a cancelled row is no abort
AbortedNow == row.gone \/ row.status \in Aborted

\* Save the struct with parse_status = failed and leave.
SaveFailed(d, next) ==
    /\ BestEffort(SaveRow("failed", doc[d].snap.summary))
    /\ DocGoto(d, next)
    /\ UNCHANGED <<latest, chunks, vectors, post, sub, crashes>>

\* Load the row; deleting, cancelled and completed rows are left alone, a
\* failed or finalizing one is worked on again.
DocLoad(d) ==
    /\ doc[d].pc = "queued"
    /\ IF AbortedNow \/ row.status = "completed"
         THEN DocGoto(d, "done")
         ELSE doc' = [doc EXCEPT ![d].pc = "loaded", ![d].snap = Snap]
    /\ UNCHANGED <<row, latest, chunks, vectors, post, sub, crashes>>

\* Tenant or row cannot be read, or the Save to processing failed: the task
\* ends without an error, so nobody retries it.
DocDrop(d) ==
    /\ doc[d].pc \in {"queued", "rechecked"}
    /\ DocGoto(d, "done")
    /\ UNCHANGED <<row, latest, chunks, vectors, post, sub, crashes>>

\* The knowledge base cannot be read.
DocNoKnowledgeBase(d) == doc[d].pc = "loaded" /\ SaveFailed(d, "done")

\* "Re-check abort status right before flipping to processing".
DocRecheck(d) ==
    /\ doc[d].pc = "loaded"
    /\ \E lost \in Unreadable : DocGoto(d, IF lost \/ AbortedNow THEN "done" ELSE "rechecked")
    /\ UNCHANGED <<row, latest, chunks, vectors, post, sub, crashes>>

DocMarkProcessing(d) ==
    /\ doc[d].pc = "rechecked"
    /\ SaveRow("processing", doc[d].snap.summary)
    /\ doc' = [doc EXCEPT ![d].pc = "marked", ![d].snap.status = "processing"]
    /\ UNCHANGED <<latest, chunks, vectors, post, sub, crashes>>

\* A payload without an attempt opens one in the worker; if the span table
\* cannot be written the run works for attempt 0.
DocOpenAttempt(d) ==
    /\ doc[d].pc = "marked"
    /\ \/ /\ doc[d].opens
          /\ latest' = latest + 1
          /\ doc' = [doc EXCEPT ![d].pc = "convert", ![d].att = latest + 1]
       \/ /\ doc[d].opens => FlakyStore
          /\ doc' = [doc EXCEPT ![d].pc = "convert",
                                ![d].att = IF doc[d].opens THEN 0 ELSE @]
          /\ UNCHANGED latest
    /\ UNCHANGED <<row, chunks, vectors, post, sub, crashes>>

\* A file type or a title learnt from a URL import: a full-row Save of the row
\* as it was marked, the abort checks still to come.
DocLearn(d) ==
    /\ doc[d].pc = "convert"
    /\ BestEffort(SaveRow("processing", doc[d].snap.summary))
    /\ UNCHANGED <<latest, chunks, vectors, doc, post, sub, crashes>>

\* Unsupported or misconfigured input: failed for good, the task succeeds.
DocReject(d) == doc[d].pc = "convert" /\ SaveFailed(d, "done")

DocRequeued(d) == [Retried(NoDoc, doc[d]) EXCEPT !.opens = doc[d].opens]

\* Reading or converting failed: an error before the last run is retried ...
DocRetry(d) ==
    /\ doc[d].pc = "convert"
    /\ doc[d].run < MaxRetry
    /\ doc' = [doc EXCEPT ![d] = DocRequeued(d)]
    /\ UNCHANGED <<row, latest, chunks, vectors, post, sub, crashes>>

\* ... and on the last run saved (failKnowledge) and dead-lettered.
DocGiveUp(d) ==
    /\ doc[d].pc = "convert"
    /\ doc[d].run = MaxRetry
    /\ SaveFailed(d, "dead")

\* asynq dead-letter callback: parse_status = failed by id, whatever it is.
DocDeadLetter(d) ==
    /\ doc[d].pc = "dead"
    /\ BestEffort(SetStatusColumn("failed"))
    /\ DocGoto(d, "done")
    /\ UNCHANGED <<latest, chunks, vectors, post, sub, crashes>>

\* Converted and split; processChunks checks for an abort, then asks for the
\* embedding model, whose failure returns without touching the row.
ChunksEntry(d) ==
    /\ doc[d].pc = "convert"
    /\ \/ ~AbortedNow /\ DocGoto(d, "clean")
       \/ (AbortedNow \/ FlakyStore \/ NeedsEmbedding) /\ DocGoto(d, "done")
    /\ UNCHANGED <<row, latest, chunks, vectors, post, sub, crashes>>

ChunksCleanVectorsOnly(d) ==   \* Mutant: DeleteChunksByKnowledgeID left out
    /\ doc[d].pc = "clean"
    /\ IF NeedsEmbedding THEN vectors' \in Erased(vectors) ELSE UNCHANGED vectors
    /\ DocGoto(d, "prewrite")
    /\ UNCHANGED <<row, latest, chunks, post, sub, crashes>>

\* Idempotence: drop what an earlier run or attempt wrote.
ChunksClean(d) ==
    /\ doc[d].pc = "clean"
    /\ chunks' \in Erased(chunks)
    /\ IF NeedsEmbedding THEN vectors' \in Erased(vectors) ELSE UNCHANGED vectors
    /\ DocGoto(d, "prewrite")
    /\ UNCHANGED <<row, latest, post, sub, crashes>>

ChunksRecheck(d) ==
    /\ doc[d].pc = "prewrite"
    /\ \E lost \in Unreadable : DocGoto(d, IF lost \/ AbortedNow THEN "done" ELSE "write")
    /\ UNCHANGED <<row, latest, chunks, vectors, post, sub, crashes>>

\* CreateChunks: the split may have yielded no text at all.
ChunksWrite(d) ==
    /\ doc[d].pc = "write"
    /\ \E text \in BOOLEAN :
         /\ chunks' = IF text THEN chunks \union {Text(d)} ELSE chunks
         /\ doc' = [doc EXCEPT ![d].pc = IF NeedsEmbedding THEN "preindex" ELSE "save",
                               ![d].text = text]
    /\ UNCHANGED <<row, latest, vectors, post, sub, crashes>>

\* CreateChunks failed, or the tenant's storage quota is spent.
ChunksWriteFailed(d) == doc[d].pc \in {"write", "preindex"} /\ SaveFailed(d, "done")

\* Abort check before BatchIndex: deleting also drops the chunks written.
ChunksPreIndex(d) ==
    /\ doc[d].pc = "preindex"
    /\ \E lost \in Unreadable :
         /\ IF lost \/ DeletingNow THEN chunks' \in Erased(chunks) ELSE UNCHANGED chunks
         /\ DocGoto(d, IF lost \/ AbortedNow THEN "done" ELSE "index")
    /\ UNCHANGED <<row, latest, vectors, post, sub, crashes>>

ChunksIndex(d) ==
    /\ doc[d].pc = "index"
    /\ vectors' = IF doc[d].text THEN vectors \union {Text(d)} ELSE vectors
    /\ DocGoto(d, "postindex")
    /\ UNCHANGED <<row, latest, chunks, post, sub, crashes>>

ChunksIndexFailedIgnored(d) ==   \* Mutant: the error of BatchIndex only logged
    /\ doc[d].pc = "index"
    /\ DocGoto(d, "postindex")
    /\ UNCHANGED <<row, latest, chunks, vectors, post, sub, crashes>>

\* BatchIndex failed, possibly half way: failed row first, cleanup after.
ChunksIndexFailed(d) ==
    /\ doc[d].pc = "index"
    /\ BestEffort(SaveRow("failed", doc[d].snap.summary))
    /\ vectors' \in {vectors, vectors \union {Text(d)}}
    /\ DocGoto(d, "unindex")
    /\ UNCHANGED <<latest, chunks, post, sub, crashes>>

ChunksUnindexFallsThrough(d) ==   \* Mutant: the return after the cleanup missing
    /\ doc[d].pc = "unindex"
    /\ chunks' \in Erased(chunks)
    /\ vectors' \in Erased(vectors)
    /\ DocGoto(d, "save")
    /\ UNCHANGED <<row, latest, post, sub, crashes>>

ChunksUnindex(d) ==
    /\ doc[d].pc = "unindex"
    /\ chunks' \in Erased(chunks)
    /\ vectors' \in Erased(vectors)
    /\ DocGoto(d, "done")
    /\ UNCHANGED <<row, latest, post, sub, crashes>>

\* Abort check after BatchIndex: deleting drops chunks and vectors.
ChunksPostIndex(d) ==
    /\ doc[d].pc = "postindex"
    /\ \E lost \in Unreadable :
         /\ IF lost \/ DeletingNow
              THEN chunks' \in Erased(chunks) /\ vectors' \in Erased(vectors)
              ELSE UNCHANGED <<chunks, vectors>>
         /\ DocGoto(d, IF lost \/ AbortedNow THEN "done" ELSE "save")
    /\ UNCHANGED <<row, latest, post, sub, crashes>>

\* finalizeIndexedKnowledgeState and its Save: the row stays processing for
\* post-processing to pick up, unless there is no text to enrich.
ChunksSave(d) ==
    LET status == IF doc[d].text THEN "processing" ELSE "completed" IN
    /\ doc[d].pc = "save"
    /\ BestEffort(SaveRow(status, "none"))
    /\ doc' = [doc EXCEPT ![d].pc = "fanout",
                          ![d].snap = [status |-> status, summary |-> "none"]]
    /\ UNCHANGED <<latest, chunks, vectors, post, sub, crashes>>

\* Enqueue post-processing; a failure to enqueue is only logged.
ChunksEnqueuePost(d) ==
    /\ doc[d].pc = "fanout"
    /\ \/ post' = [post EXCEPT ![<<d, doc[d].run>>] =
                     [NoPost EXCEPT !.pc = "queued", !.att = doc[d].att]]
       \/ UNCHANGED post
    /\ DocGoto(d, "account")
    /\ UNCHANGED <<row, latest, chunks, vectors, sub, crashes>>

\* Book the tenant's storage (not modelled) and acknowledge the task.
ChunksAccount(d) ==
    /\ doc[d].pc = "account"
    /\ DocGoto(d, "done")
    /\ UNCHANGED <<row, latest, chunks, vectors, post, sub, crashes>>

\* The worker dies anywhere in the handler; asynq redelivers the task.
DocCrash(d) ==
    /\ DocActive(d)
    /\ crashes < MaxCrash
    /\ crashes' = crashes + 1
    /\ doc' = [doc EXCEPT ![d] = IF @.run < MaxRetry THEN DocRequeued(d) ELSE DocGone]
    /\ UNCHANGED <<row, latest, chunks, vectors, post, sub>>

\* What a running worker does next, crashes apart.
DocStep(d) ==
    \/ DocLoad(d) \/ DocDrop(d) \/ DocNoKnowledgeBase(d) \/ DocRecheck(d) \/ DocMarkProcessing(d)
    \/ DocOpenAttempt(d) \/ DocLearn(d) \/ DocReject(d) \/ DocRetry(d) \/ DocGiveUp(d)
    \/ DocDeadLetter(d) \/ ChunksEntry(d) \/ ChunksClean(d)
    \/ ChunksRecheck(d) \/ ChunksWrite(d) \/ ChunksWriteFailed(d)
    \/ ChunksPreIndex(d) \/ ChunksIndex(d) \/ ChunksIndexFailed(d)
    \/ ChunksUnindex(d) \/ ChunksPostIndex(d) \/ ChunksSave(d)
    \/ ChunksEnqueuePost(d) \/ ChunksAccount(d)

DocNext == \E d \in DocIds : DocStep(d) \/ DocCrash(d)
=============================================================================
