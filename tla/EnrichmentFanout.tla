-------------------------- MODULE EnrichmentFanout --------------------------
(***************************************************************************)
(* KnowledgePostProcess.Handle and the enrichment tasks it fans out        *)
(* (internal/application/service/knowledge_post_process.go, the summary,   *)
(* question, graph and wiki handlers).  The row goes processing ->         *)
(* finalizing with a counter of planned subtasks; each subtask decrements  *)
(* it on its terminal exit and whoever finds it zero promotes the row.     *)
(***************************************************************************)
EXTENDS KnowledgeStore

PostGoto(p, pc) == post' = [post EXCEPT ![p] = IF pc = "done" THEN PostGone ELSE [@ EXCEPT !.pc = pc]]
SubGoto(s, pc) == sub' = [sub EXCEPT ![s] = IF pc = "done" THEN SubGone ELSE [@ EXCEPT !.pc = pc]]
SubOf(p, slot) == [post |-> p, run |-> post[p].run, slot |-> slot]

\* The row, the knowledge base or the chunks cannot be read: an error, and
\* after the last run the dead-letter callback.
PostFail(p) ==
    /\ post[p].pc \in {"queued", "loaded"}
    /\ post' = [post EXCEPT ![p] = IF @.run < MaxRetry THEN Retried(NoPost, @)
                                                      ELSE [@ EXCEPT !.pc = "dead"]]
    /\ UNCHANGED <<row, latest, chunks, vectors, doc, sub, crashes>>

PostDeadLetter(p) ==
    /\ post[p].pc = "dead"
    /\ BestEffort(SetStatusColumn("failed"))
    /\ PostGoto(p, "done")
    /\ UNCHANGED <<latest, chunks, vectors, doc, sub, crashes>>

\* Load the row: one that is not processing has been decided by somebody else.
PostLoad(p) ==
    /\ post[p].pc = "queued"
    /\ PostGoto(p, IF row.gone \/ row.status # "processing" THEN "done" ELSE "loaded")
    /\ UNCHANGED <<row, latest, chunks, vectors, doc, sub, crashes>>

\* List the chunks and plan: nothing without text, otherwise a summary and
\* whatever question, graph and wiki work the knowledge base asks for.
PostPlan(p) ==
    /\ post[p].pc = "loaded"
    /\ \E plan \in SUBSET Slots :
         /\ IF chunks \intersect TextOrigin # {} THEN SummarySlot \in plan ELSE plan = {}
         /\ post' = [post EXCEPT ![p].pc = "planned", ![p].todo = plan]
    /\ UNCHANGED <<row, latest, chunks, vectors, doc, sub, crashes>>

\* Nothing planned: completed by id, without looking at the row again.
PostNothingToEnrich(p) ==
    /\ post[p].pc = "planned"
    /\ post[p].todo = {}
    /\ BestEffort(SetStatusColumn("completed"))
    /\ PostGoto(p, "done")
    /\ UNCHANGED <<latest, chunks, vectors, doc, sub, crashes>>

\* SetFinalizing: seed the counter only if the row is still processing.
PostSeed(p) ==
    /\ post[p].pc = "planned"
    /\ post[p].todo # {}
    /\ IF SeedMatches
         THEN SetFinalizing(Cardinality(post[p].todo)) /\ PostGoto(p, "seeded")
         ELSE UNCHANGED row /\ PostGoto(p, "done")
    /\ UNCHANGED <<latest, chunks, vectors, doc, sub, crashes>>

\* The UPDATE failed: treated like a row that moved on.
PostSeedFailed(p) ==
    /\ post[p].pc = "planned"
    /\ post[p].todo # {}
    /\ PostGoto(p, "done")
    /\ UNCHANGED <<row, latest, chunks, vectors, doc, sub, crashes>>

PostSummaryStatus(p) ==
    /\ post[p].pc = "seeded"
    /\ BestEffort(SetSummaryColumn(IF SummarySlot \in post[p].todo THEN "pending" ELSE "none"))
    /\ PostGoto(p, "enqueue")
    /\ UNCHANGED <<latest, chunks, vectors, doc, sub, crashes>>

\* Summary first, the wiki op last.
NextToEnqueue(p, slot) ==
    /\ slot \in post[p].todo
    /\ SummarySlot \in post[p].todo => slot = SummarySlot
    /\ slot = WikiSlot => post[p].todo = {WikiSlot}

PostEnqueue(p, slot) ==
    /\ post[p].pc = "enqueue"
    /\ NextToEnqueue(p, slot)
    /\ sub' = [sub EXCEPT ![SubOf(p, slot)] =
                 [NoSub EXCEPT !.pc = "queued", !.att = post[p].att]]
    /\ post' = [post EXCEPT ![p].todo = @ \ {slot}]
    /\ UNCHANGED <<row, latest, chunks, vectors, doc, crashes>>

PostEnqueueFailedTwice(p, slot) ==   \* Mutant: the failed slot counted again
    /\ post[p].pc = "enqueue"
    /\ NextToEnqueue(p, slot)
    /\ post' = [post EXCEPT ![p].todo = @ \ {slot}, ![p].short = @ + 2]
    /\ UNCHANGED <<row, latest, chunks, vectors, doc, sub, crashes>>

\* A slot whose task was not enqueued is released below; a wiki op that could
\* not be stored is not (the KNOWN GAP of the source).
PostEnqueueFailed(p, slot) ==
    /\ post[p].pc = "enqueue"
    /\ NextToEnqueue(p, slot)
    /\ post' = [post EXCEPT ![p].todo = @ \ {slot},
                            ![p].short = IF slot = WikiSlot THEN @ ELSE @ + 1]
    /\ UNCHANGED <<row, latest, chunks, vectors, doc, sub, crashes>>

\* Everything tried: release the shortfall one FinalizeSubtask at a time.
PostRelease(p) ==
    /\ post[p].pc = "enqueue"
    /\ post[p].todo = {}
    /\ post[p].short > 0
    /\ DecrementCount
    /\ post' = [post EXCEPT ![p].pc = "promote", ![p].short = @ - 1]
    /\ UNCHANGED <<latest, chunks, vectors, doc, sub, crashes>>

PostPromote(p) ==
    /\ post[p].pc = "promote"
    /\ PromoteRow
    /\ PostGoto(p, "enqueue")
    /\ UNCHANGED <<latest, chunks, vectors, doc, sub, crashes>>

\* Nothing left to release, or a release that failed: the task ends.
PostReleased(p) ==
    /\ \/ post[p].pc = "enqueue" /\ post[p].todo = {}
       \/ post[p].pc = "promote"
    /\ PostGoto(p, "done")
    /\ UNCHANGED <<row, latest, chunks, vectors, doc, sub, crashes>>

PostCrash(p) ==
    /\ PostActive(p)
    /\ crashes < MaxCrash
    /\ crashes' = crashes + 1
    /\ post' = [post EXCEPT ![p] = AfterCrash(NoPost, @)]
    /\ UNCHANGED <<row, latest, chunks, vectors, doc, sub>>

-----------------------------------------------------------------------------
SupersededNever(s) == FALSE   \* Mutant: the entry check left out

\* attemptSuperseded, asked once on entry.  The wiki op carries no attempt.
Superseded(s) == s.slot # WikiSlot /\ sub[s].att > 0 /\ latest > sub[s].att

\* An attempt that cannot be read counts as none.
SubStart(s) ==
    /\ sub[s].pc = "queued"
    /\ \/ SubGoto(s, IF Superseded(s) THEN "done" ELSE "running")
       \/ FlakyStore /\ SubGoto(s, "running")
    /\ UNCHANGED <<row, latest, chunks, vectors, doc, post, crashes>>

SummaryLoadUnguarded(s) ==   \* Mutant: the handler does not look at the status
    /\ sub[s].pc = "running"
    /\ s.slot = SummarySlot
    /\ sub' = [sub EXCEPT ![s].pc = "loaded", ![s].snap = Snap]
    /\ UNCHANGED <<row, latest, chunks, vectors, doc, post, crashes>>

\* The summary handler loads the row and drains at once if it is aborted,
\* unreadable, or the knowledge base has no summary model.
SummaryLoad(s) ==
    /\ sub[s].pc = "running"
    /\ s.slot = SummarySlot
    /\ \/ /\ ~row.gone
          /\ row.status \notin Aborted
          /\ sub' = [sub EXCEPT ![s].pc = "loaded", ![s].snap = Snap]
       \/ SubGoto(s, "drain")
    /\ UNCHANGED <<row, latest, chunks, vectors, doc, post, crashes>>

\* Full-row Save with summary_status = processing.
SummaryMark(s) ==
    /\ sub[s].pc = "loaded"
    /\ BestEffort(SaveRow(sub[s].snap.status, "processing"))
    /\ SubGoto(s, "marked")
    /\ UNCHANGED <<latest, chunks, vectors, doc, post, crashes>>

RetryOrDrainLate(s) ==   \* Mutant: the last run not recognised as the last
    sub' = [sub EXCEPT ![s] = IF @.run <= MaxRetry THEN Retried(NoSub, @)
                                                 ELSE [@ EXCEPT !.pc = "drain"]]

\* What asynq does with a run that returned an error: another run, or, since
\* finalizeSubtaskDetached drains on the last one, the drain.
RetryOrDrain(s) ==
    sub' = [sub EXCEPT ![s] = IF @.run < MaxRetry THEN Retried(NoSub, @)
                                                ELSE [@ EXCEPT !.pc = "drain"]]

\* A failed model call still falls back to the first chunk and completes.
SummarySave(s) ==
    /\ sub[s].pc = "marked"
    /\ SaveRow(sub[s].snap.status, "completed")
    /\ SubGoto(s, "saved")
    /\ UNCHANGED <<latest, chunks, vectors, doc, post, crashes>>

\* No chunks to read or too little text ends the task; no chat model is an
\* error asynq retries.
SummarySaveFailed(s) ==
    /\ sub[s].pc = "marked"
    /\ BestEffort(SaveRow(sub[s].snap.status, "failed"))
    /\ SubGoto(s, "drain") \/ RetryOrDrain(s)
    /\ UNCHANGED <<latest, chunks, vectors, doc, post, crashes>>

\* The summary chunk is written and then indexed without another look at the
\* row; an empty summary has none.
SummaryChunk(s) ==
    /\ sub[s].pc = "saved"
    /\ \/ /\ NeedsEmbedding
          /\ chunks' = chunks \union {SummaryOf(s)}
          /\ SubGoto(s, "indexing")
       \/ /\ SubGoto(s, "drain")
          /\ UNCHANGED chunks
    /\ UNCHANGED <<row, latest, vectors, doc, post, crashes>>

SummaryIndex(s) ==
    /\ sub[s].pc = "indexing"
    /\ vectors' = vectors \union {SummaryOf(s)}
    /\ SubGoto(s, "drain")
    /\ UNCHANGED <<row, latest, chunks, doc, post, crashes>>

\* Question batch, graph chunk or wiki op: done, or skipped on an aborted row.
SubFinish(s) ==
    /\ sub[s].pc = "running"
    /\ s.slot # SummarySlot
    /\ SubGoto(s, "drain")
    /\ UNCHANGED <<row, latest, chunks, vectors, doc, post, crashes>>

\* A Save, CreateChunks, BatchIndex or model call failed.
SubFail(s) ==
    /\ sub[s].pc \in {"running", "marked", "saved", "indexing"}
    /\ sub[s].pc = "running" => s.slot # SummarySlot
    /\ RetryOrDrain(s)
    /\ UNCHANGED <<row, latest, chunks, vectors, doc, post, crashes>>

\* finalizeSubtaskDetached: FinalizeSubtask, whose errors are only logged.
SubDrain(s) ==
    /\ sub[s].pc = "drain"
    /\ DecrementCount
    /\ SubGoto(s, "promote")
    /\ UNCHANGED <<latest, chunks, vectors, doc, post, crashes>>

SubPromote(s) ==
    /\ sub[s].pc = "promote"
    /\ PromoteRow
    /\ SubGoto(s, "done")
    /\ UNCHANGED <<latest, chunks, vectors, doc, post, crashes>>

SubFinalizeFailed(s) ==
    /\ sub[s].pc \in {"drain", "promote"}
    /\ SubGoto(s, "done")
    /\ UNCHANGED <<row, latest, chunks, vectors, doc, post, crashes>>

\* The worker dies, even after the decrement and before the acknowledgement.
SubCrash(s) ==
    /\ SubActive(s)
    /\ crashes < MaxCrash
    /\ crashes' = crashes + 1
    /\ sub' = [sub EXCEPT ![s] = AfterCrash(NoSub, @)]
    /\ UNCHANGED <<row, latest, chunks, vectors, doc, post>>

PostStep(p) ==
    \/ PostFail(p) \/ PostDeadLetter(p) \/ PostLoad(p) \/ PostPlan(p) \/ PostNothingToEnrich(p)
    \/ PostSeed(p) \/ PostSeedFailed(p) \/ PostSummaryStatus(p)
    \/ \E slot \in Slots : PostEnqueue(p, slot) \/ PostEnqueueFailed(p, slot)
    \/ PostRelease(p) \/ PostPromote(p) \/ PostReleased(p)

SubStep(s) ==
    \/ SubStart(s) \/ SummaryLoad(s) \/ SummaryMark(s) \/ SummarySave(s)
    \/ SummarySaveFailed(s) \/ SummaryChunk(s) \/ SummaryIndex(s) \/ SubFinish(s) \/ SubFail(s) \/ SubDrain(s)
    \/ SubPromote(s) \/ SubFinalizeFailed(s)

FanoutNext ==
    \/ \E p \in PostIds : PostStep(p) \/ PostCrash(p)
    \/ \E s \in SubIds : SubStep(s) \/ SubCrash(s)
=============================================================================
