------------------------------ MODULE WikiIngest ------------------------------
(***************************************************************************)
(* The wiki of one knowledge base: the operations queued in the table      *)
(* task_pending_ops, the asynq trigger tasks, the batch that one worker at *)
(* a time runs under the Redis key wiki:active (wiki_ingest_batch.go and   *)
(* wiki_ingest.go), and the two ends it races with: the post-processing    *)
(* that seeds a document's wiki slot and queues its ingest, and the        *)
(* clean-up of a document that is deleted (knowledge_delete.go).           *)
(*                                                                         *)
(* A page is its source references; the summary page of a document is a    *)
(* page no other document contributes to.  Redis is configured; asynq      *)
(* delivers every trigger task, again after a crash.                       *)
(***************************************************************************)
EXTENDS Naturals, FiniteSets

CONSTANTS Docs,        \* documents of the knowledge base
          Slugs,       \* wiki pages they may contribute to
          Workers,     \* asynq workers, numbered
          BatchSize,   \* IngestBatchSizeOrDefault
          MaxFail,     \* wikiMaxFailRetries
          Settled,     \* documents whose wiki is complete at the start
          Reparsable,  \* bound: documents that are parsed a second time
          Deletable,   \* bound: documents that get deleted
          Faults,      \* bound: the kinds of faults that may happen
          MaxFaults    \* bound: how many of them

FaultKinds == {"crash", "redis", "insert", "trigger", "database", "setup", "edit", "cleanup"}

ASSUME WikiAssumption ==
    /\ Workers \subseteq Nat
    /\ BatchSize \in Nat \ {0}
    /\ MaxFail \in Nat
    /\ Settled \subseteq Docs
    /\ Reparsable \subseteq Docs
    /\ Deletable \subseteq Docs
    /\ Faults \subseteq FaultKinds
    /\ MaxFaults \in Nat

VARIABLES
    status,    \* per document: parse_status
    owed,      \* per document: its wiki slot in pending_subtasks_count
    posting,   \* per document: where its post-processing or its reparse is
    reparsed,  \* documents parsed a second time
    del,       \* per document: where the clean-up of its deletion is
    rows,      \* the table task_pending_ops
    nextId,    \* its primary key
    triggers,  \* trigger tasks scheduled in asynq
    lock,      \* the key wiki:active exists
    pc,        \* per worker: where ProcessWikiIngest is
    batch,     \* per worker: what it holds
    pages,     \* slugs that exist
    refs,      \* per page: source_refs
    faults,    \* the faults that have happened
    spoilt     \* retracts whose edit of the page failed

docVars == <<status, owed, posting, reparsed>>
queueVars == <<rows, nextId>>
wikiVars == <<pages, refs, spoilt>>
runVars == <<lock, pc, batch>>
vars == <<docVars, del, queueVars, triggers, runVars, wikiVars, faults>>

Row == [id: Nat, op: {"ingest", "retract"}, doc: Docs, slugs: SUBSET Slugs, fails: Nat]

NoUpdates == [s \in Slugs |-> {}]
NoBatch == [ops |-> {}, peeked |-> {}, failed |-> {}, done |-> {}, adds |-> NoUpdates,
            rets |-> NoUpdates, read |-> {}, missing |-> {}, base |-> NoUpdates]
NotDeleting == [pc |-> "no", found |-> NoUpdates, slugs |-> {}]

Fault(kind) ==
    /\ kind \in Faults \ faults /\ Cardinality(faults) < MaxFaults
    /\ faults' = faults \union {kind}

\* isKnowledgeGone: the tombstone, the missing row or its status.
Gone(d) == status[d] \in {"deleting", "deleted"}

\* INSERT INTO task_pending_ops.
Insert(op, d, slugs) ==
    /\ rows' = rows \union {[id |-> nextId, op |-> op, doc |-> d, slugs |-> slugs, fails |-> 0]}
    /\ nextId' = nextId + 1

\* DeleteByDedupKey(..., WikiOpIngest)
Scrub(d) == rows' = {r \in rows : r.doc # d \/ r.op # "ingest"}

\* Mutant: FinalizeSubtask without "AND pending_subtasks_count > 0".
FinalizeUnclamped(d) ==
    /\ owed' = [owed EXCEPT ![d] = @ - 1]
    /\ status' = [status EXCEPT ![d] = IF @ = "finalizing" THEN "completed" ELSE @]

\* FinalizeSubtask for the wiki slot.
Finalize(d) ==
    /\ owed' = [owed EXCEPT ![d] = 0]
    /\ status' = [status EXCEPT ![d] = IF @ = "finalizing" THEN "completed" ELSE @]
-------------------------------------------------------------------------------
(* A document: parsing, post-processing, reparse.                           *)

\* SetFinalizing seeds the slot, guarded by the status.
PostSeed(d) ==
    /\ status[d] = "processing" /\ posting[d] = "no"
    /\ status' = [status EXCEPT ![d] = "finalizing"]
    /\ owed' = [owed EXCEPT ![d] = 1]
    /\ posting' = [posting EXCEPT ![d] = "insert"]
    /\ UNCHANGED <<reparsed, del, queueVars, triggers, runVars, wikiVars, faults>>

\* EnqueueWikiIngest: the row, whose loss is logged, then the trigger.
PostInsert(d) ==
    /\ posting[d] = "insert"
    /\ \/ Insert("ingest", d, {}) /\ UNCHANGED faults
       \/ Fault("insert") /\ UNCHANGED queueVars
    /\ posting' = [posting EXCEPT ![d] = "trigger"]
    /\ UNCHANGED <<status, owed, reparsed, del, triggers, runVars, wikiVars>>

PostTrigger(d) ==
    /\ posting[d] = "trigger"
    /\ \/ triggers' = triggers + 1 /\ UNCHANGED faults
       \/ Fault("trigger") /\ UNCHANGED triggers
    /\ posting' = [posting EXCEPT ![d] = "no"]
    /\ UNCHANGED <<status, owed, reparsed, del, queueVars, runVars, wikiVars>>

\* prepareWikiForReparse
Reparse(d) ==
    /\ d \in Reparsable \ reparsed
    /\ status[d] \in {"finalizing", "completed"} /\ posting[d] = "no"
    /\ Scrub(d)
    /\ posting' = [posting EXCEPT ![d] = "reset"]
    /\ UNCHANGED <<status, owed, reparsed, del, nextId, triggers, runVars, wikiVars, faults>>

\* The row goes back to the parser and its counter is reset. A document that was
\* deleted meanwhile stays gone: its tombstone is what the wiki asks for.
ReparseReset(d) ==
    /\ posting[d] = "reset"
    /\ \/ Gone(d) /\ UNCHANGED <<status, owed, reparsed>>
       \/ /\ ~Gone(d)
          /\ status' = [status EXCEPT ![d] = "processing"]
          /\ owed' = [owed EXCEPT ![d] = 0]
          /\ reparsed' = reparsed \union {d}
    /\ posting' = [posting EXCEPT ![d] = "no"]
    /\ UNCHANGED <<del, queueVars, triggers, runVars, wikiVars, faults>>

\* cleanupKnowledgeResources fails: the call returns, the operation is scrubbed.
ReparseFails(d) ==
    /\ posting[d] = "reset"
    /\ Fault("cleanup")
    /\ posting' = [posting EXCEPT ![d] = "no"]
    /\ UNCHANGED <<status, owed, reparsed, del, queueVars, triggers, runVars, wikiVars>>
-------------------------------------------------------------------------------
(* The deletion of a document: cleanupWikiOnKnowledgeDelete.                *)

DeleteGoto(d, next) == del' = [del EXCEPT ![d].pc = next]

DeleteMark(d) ==
    /\ d \in Deletable /\ ~Gone(d)
    /\ status' = [status EXCEPT ![d] = "deleting"]
    /\ DeleteGoto(d, "scrub")
    /\ UNCHANGED <<owed, posting, reparsed, queueVars, triggers, runVars, wikiVars, faults>>

DeleteScrub(d) ==
    /\ del[d].pc = "scrub"
    /\ Scrub(d)
    /\ DeleteGoto(d, "list")
    /\ UNCHANGED <<docVars, nextId, triggers, runVars, wikiVars, faults>>

\* ListBySourceRef: the pages as they are now; a failed listing finds none.
DeleteList(d) ==
    /\ del[d].pc = "list"
    /\ \/ /\ del' = [del EXCEPT ![d] =
                [pc |-> "pages", slugs |-> {},
                 found |-> [s \in Slugs |-> IF s \in pages /\ d \in refs[s] THEN refs[s] ELSE {}]]]
          /\ UNCHANGED faults
       \/ Fault("database") /\ DeleteGoto(d, "insert")
    /\ UNCHANGED <<docVars, queueVars, triggers, runVars, wikiVars>>

\* A page of no other source is deleted, another one loses the reference:
\* both as the listing saw it.
DeletePage(d, s) ==
    /\ del[d].pc = "pages" /\ del[d].found[s] # {}
    /\ IF del[d].found[s] = {d}
       THEN /\ pages' = pages \ {s}
            /\ refs' = [refs EXCEPT ![s] = {}]
       ELSE /\ refs' = IF s \in pages THEN [refs EXCEPT ![s] = del[d].found[s] \ {d}] ELSE refs
            /\ UNCHANGED pages
    /\ del' = [del EXCEPT ![d].found[s] = {},
                          ![d].slugs = IF s \in pages THEN @ \union {s} ELSE @]
    /\ UNCHANGED <<docVars, queueVars, triggers, runVars, spoilt, faults>>

\* EnqueueWikiRetract, whatever was found.
DeleteInsert(d) ==
    /\ \/ del[d].pc = "insert"
       \/ del[d].pc = "pages" /\ del[d].found = NoUpdates
    /\ \/ Insert("retract", d, del[d].slugs) /\ UNCHANGED faults
       \/ Fault("insert") /\ UNCHANGED queueVars
    /\ del' = [del EXCEPT ![d] = [NotDeleting EXCEPT !.pc = "trigger"]]
    /\ UNCHANGED <<docVars, triggers, runVars, wikiVars>>

DeleteTrigger(d) ==
    /\ del[d].pc = "trigger"
    /\ \/ triggers' = triggers + 1 /\ UNCHANGED faults
       \/ Fault("trigger") /\ UNCHANGED triggers
    /\ DeleteGoto(d, "no")
    /\ status' = [status EXCEPT ![d] = "deleted"]
    /\ UNCHANGED <<owed, posting, reparsed, queueVars, runVars, wikiVars>>
-------------------------------------------------------------------------------
(* The trigger task and the lock.                                           *)

Running(w) == pc[w] # "idle"

\* Workers are interchangeable: the first idle one takes the next task.
Ready(w) == ~Running(w) /\ \A v \in Workers : v < w => Running(v)

\* SETNX takes the key.
Acquire(w) ==
    /\ Ready(w) /\ triggers > 0 /\ ~lock
    /\ lock' = TRUE
    /\ triggers' = triggers - 1
    /\ pc' = [pc EXCEPT ![w] = "begun"]
    /\ UNCHANGED <<docVars, del, queueVars, batch, wikiVars, faults>>

\* SETNX fails: the batch runs all the same.
AcquireBlind(w) ==
    /\ Ready(w) /\ triggers > 0
    /\ Fault("redis")
    /\ triggers' = triggers - 1
    /\ pc' = [pc EXCEPT ![w] = "begun"]
    /\ UNCHANGED <<docVars, del, queueVars, lock, batch, wikiVars>>

\* Mutant: the Del is deferred before the answer of SETNX is looked at.
SuperfluousDeletes ==
    /\ triggers > 0 /\ lock /\ rows = {}
    /\ triggers' = triggers - 1
    /\ lock' = FALSE
    /\ UNCHANGED <<docVars, del, queueVars, pc, batch, wikiVars, faults>>

\* Mutant: a task that meets the key is done, whatever is queued.
SuperfluousAlways ==
    /\ triggers > 0 /\ lock
    /\ triggers' = triggers - 1
    /\ UNCHANGED <<docVars, del, queueVars, runVars, wikiVars, faults>>

\* The key is taken and nothing is queued: the task is done.
Superfluous ==
    /\ triggers > 0 /\ lock /\ rows = {}
    /\ triggers' = triggers - 1
    /\ UNCHANGED <<docVars, del, queueVars, runVars, wikiVars, faults>>

\* The key is taken: ErrWikiIngestConcurrent, until the retries are used up.
\* They last ten times 15 s, which only the long part of a batch outlasts.
Exhausted ==
    /\ triggers > 0 /\ lock /\ rows # {}
    /\ \E w \in Workers : pc[w] = "work"
    /\ triggers' = triggers - 1
    /\ UNCHANGED <<docVars, del, queueVars, runVars, wikiVars, faults>>

\* The key of a dead batch runs out; that of a live one only when Redis
\* failed to renew it.
Expire ==
    /\ lock
    /\ \/ (\A w \in Workers : ~Running(w)) /\ UNCHANGED faults
       \/ Fault("redis")
    /\ lock' = FALSE
    /\ UNCHANGED <<docVars, del, queueVars, triggers, pc, batch, wikiVars>>

\* The deferred Del, whoever the key belongs to.
Leave(w) ==
    /\ lock' = FALSE
    /\ pc' = [pc EXCEPT ![w] = "idle"]
    /\ batch' = [batch EXCEPT ![w] = NoBatch]

\* The knowledge base or the model cannot be loaded: asynq retries.
SetupFails(w) ==
    /\ pc[w] = "begun"
    /\ Fault("setup")
    /\ Leave(w)
    /\ triggers' = triggers + 1
    /\ UNCHANGED <<docVars, del, queueVars, wikiVars>>

\* The worker dies: nobody deletes the key, asynq delivers the task again.
Crash(w) ==
    /\ Running(w)
    /\ Fault("crash")
    /\ pc' = [pc EXCEPT ![w] = "idle"]
    /\ batch' = [batch EXCEPT ![w] = NoBatch]
    /\ triggers' = triggers + 1
    /\ UNCHANGED <<docVars, del, queueVars, lock, wikiVars>>
-------------------------------------------------------------------------------
(* The batch.                                                               *)

Oldest == {r \in rows : Cardinality({q \in rows : q.id < r.id}) < BatchSize}
LastPerDoc(peeked) == {r \in peeked : \A q \in peeked : q.doc = r.doc => q.id <= r.id}

\* peekPendingList: the oldest rows, of which the last per document is worked on.
Peek(w) ==
    /\ pc[w] = "begun"
    /\ IF rows = {}
       THEN pc' = [pc EXCEPT ![w] = "release"] /\ UNCHANGED batch
       ELSE /\ pc' = [pc EXCEPT ![w] = "work"]
            /\ batch' = [batch EXCEPT ![w].ops = LastPerDoc(Oldest),
                                      ![w].peeked = {r.id : r \in Oldest}]
    /\ UNCHANGED <<docVars, del, queueVars, triggers, lock, wikiVars, faults>>

\* A failed peek looks like an empty queue.
PeekFails(w) ==
    /\ pc[w] = "begun"
    /\ Fault("database")
    /\ pc' = [pc EXCEPT ![w] = "release"]
    /\ UNCHANGED <<docVars, del, queueVars, triggers, lock, batch, wikiVars>>

Mapping(w, r) == pc[w] = "work" /\ r \in batch[w].ops

With(updates, slugs, d) ==
    [s \in Slugs |-> IF s \in slugs THEN updates[s] \union {d} ELSE updates[s]]
PagesOf(d) == {s \in pages : d \in refs[s]}

\* Mutant: a retract addresses the pages it was queued with and no other.
MapRetractQueued(w, r) ==
    /\ Mapping(w, r) /\ r.op = "retract"
    /\ batch' = [batch EXCEPT ![w].ops = @ \ {r}, ![w].rets = With(@, r.slugs, r.doc)]
    /\ UNCHANGED <<docVars, del, queueVars, triggers, lock, pc, wikiVars, faults>>

\* A retract addresses the pages it was queued with and those that refer to
\* the document now, unless that lookup fails.
MapRetract(w, r) ==
    /\ Mapping(w, r) /\ r.op = "retract"
    /\ \E live \in {PagesOf(r.doc), {}} :
        /\ IF live = PagesOf(r.doc) THEN UNCHANGED faults ELSE Fault("database")
        /\ batch' = [batch EXCEPT ![w].ops = @ \ {r},
                                  ![w].rets = With(@, r.slugs \union live, r.doc)]
    /\ UNCHANGED <<docVars, del, queueVars, triggers, lock, pc, wikiVars>>

\* Mutant: a skipped document is left to the loop over docResults.
MapSkipSilently(w, r) ==
    /\ Mapping(w, r) /\ r.op = "ingest"
    /\ batch' = [batch EXCEPT ![w].ops = @ \ {r}]
    /\ UNCHANGED <<docVars, del, queueVars, triggers, lock, pc, wikiVars, faults>>

\* The document is gone or has no text: its slot is released at once.
MapSkip(w, r) ==
    /\ Mapping(w, r) /\ r.op = "ingest"
    /\ Finalize(r.doc)
    /\ batch' = [batch EXCEPT ![w].ops = @ \ {r}]
    /\ UNCHANGED <<posting, reparsed, del, queueVars, triggers, lock, pc, wikiVars, faults>>

\* Chunks, extraction or summary fail.
MapFails(w, r) ==
    /\ Mapping(w, r) /\ r.op = "ingest" /\ ~Gone(r.doc)
    /\ batch' = [batch EXCEPT ![w].ops = @ \ {r}, ![w].failed = @ \union {r}]
    /\ UNCHANGED <<docVars, del, queueVars, triggers, lock, pc, wikiVars, faults>>

\* mapOneDocument: additions for the extracted pages, a retract of the old
\* contribution on every page that has one.
MapDoc(w, r, slugs) ==
    /\ Mapping(w, r) /\ r.op = "ingest" /\ ~Gone(r.doc)
    /\ batch' = [batch EXCEPT ![w].ops = @ \ {r},
                              ![w].done = @ \union {r.doc},
                              ![w].adds = With(@, slugs, r.doc),
                              ![w].rets = With(@, PagesOf(r.doc), r.doc)]
    /\ UNCHANGED <<docVars, del, queueVars, triggers, lock, pc, wikiVars, faults>>

Reducing(w) == pc[w] = "work" /\ batch[w].ops = {}
Pending(w) == {s \in Slugs : batch[w].adds[s] \union batch[w].rets[s] # {}}

\* The slug is finished, or had nothing to do.
Dropped(b, s) == [b EXCEPT !.adds[s] = {}, !.rets[s] = {}, !.base[s] = {},
                           !.read = @ \ {s}, !.missing = @ \ {s}]

\* The page as it is now, to be edited for the documents that still live.
Opened(b, s, live) == [b EXCEPT !.adds[s] = live, !.read = @ \union {s},
                                !.missing = IF s \in pages THEN @ ELSE @ \union {s},
                                !.base[s] = IF s \in pages THEN refs[s] ELSE {}]

\* reduceSlugUpdates up to the language model: filterLiveUpdates, GetPageBySlug.
ReduceRead(w, s) ==
    /\ Reducing(w) /\ s \in Pending(w) \ batch[w].read
    /\ LET live == {d \in batch[w].adds[s] : ~Gone(d)}
           idle == live = {} /\ (s \notin pages \/ batch[w].rets[s] = {})
       IN  batch' = [batch EXCEPT ![w] =
                IF idle THEN Dropped(@, s) ELSE Opened(@, s, live)]
    /\ UNCHANGED <<docVars, del, queueVars, triggers, lock, pc, wikiVars, faults>>

\* CreatePage, or UpdatePage with the references read before the edit. A page
\* created or deleted meanwhile makes the statement fail, which is logged.
ReduceWrite(w, s) ==
    /\ Reducing(w) /\ s \in batch[w].read
    /\ IF (s \in batch[w].missing) = (s \in pages)
       THEN UNCHANGED <<pages, refs>>
       ELSE /\ pages' = pages \union {s}
            /\ refs' = [refs EXCEPT ![s] =
                    (batch[w].base[s] \ batch[w].rets[s]) \union batch[w].adds[s]]
    /\ batch' = [batch EXCEPT ![w] = Dropped(@, s)]
    /\ UNCHANGED <<docVars, del, queueVars, triggers, lock, pc, spoilt, faults>>

\* The language model fails: the page stays as it is.
ReduceFails(w, s) ==
    /\ Reducing(w) /\ s \in batch[w].read
    /\ Fault("edit")
    /\ spoilt' = spoilt \union ({s} \X batch[w].rets[s])
    /\ batch' = [batch EXCEPT ![w] = Dropped(@, s)]
    /\ UNCHANGED <<docVars, del, queueVars, triggers, lock, pc, pages, refs>>

Reduced(w) == Reducing(w) /\ Pending(w) = {}

\* finalizeWikiSubtask for a document of docResults.
FinalizeDone(w, d) ==
    /\ Reduced(w) /\ d \in batch[w].done
    /\ Finalize(d)
    /\ batch' = [batch EXCEPT ![w].done = @ \ {d}]
    /\ UNCHANGED <<posting, reparsed, del, queueVars, triggers, lock, pc, wikiVars, faults>>

\* Mutant: every peeked row is trimmed, those of the failed operations too.
TrimFailedToo(w) ==
    /\ Reduced(w) /\ batch[w].done = {}
    /\ rows' = {r \in rows : r.id \notin batch[w].peeked}
    /\ pc' = [pc EXCEPT ![w] = "requeue"]
    /\ UNCHANGED <<docVars, del, nextId, triggers, lock, batch, wikiVars, faults>>

\* trimPendingList: every peeked row but those of the failed operations.
Trim(w) ==
    /\ Reduced(w) /\ batch[w].done = {}
    /\ \/ /\ rows' = {r \in rows : r.id \in batch[w].peeked => r.id \in {f.id : f \in batch[w].failed}}
          /\ UNCHANGED faults
       \/ Fault("database") /\ UNCHANGED rows
    /\ pc' = [pc EXCEPT ![w] = "requeue"]
    /\ UNCHANGED <<docVars, del, nextId, triggers, lock, batch, wikiVars>>

\* IncrFailCount
Count(f) == rows' = {IF r.id = f.id THEN [r EXCEPT !.fails = @ + 1] ELSE r : r \in rows}

\* requeueFailedOps, one failed operation after the other.
Requeuing(w, f) == pc[w] = "requeue" /\ batch[w].ops = {} /\ f \in batch[w].failed

\* The count of the row decides, which reads as zero when the row is gone: it is
\* left for another try, and so it is when it could not be counted.
Requeue(w, f) ==
    /\ Requeuing(w, f)
    /\ \/ (\A r \in rows : r.id = f.id => r.fails < MaxFail) /\ Count(f) /\ UNCHANGED faults
       \/ Fault("database") /\ UNCHANGED rows
    /\ batch' = [batch EXCEPT ![w].failed = @ \ {f}]
    /\ UNCHANGED <<docVars, del, nextId, triggers, lock, pc, wikiVars>>

\* The retries are used up: the slot is released, and the row is in hand until
\* it is dropped.
GiveUp(w, f) ==
    /\ Requeuing(w, f)
    /\ \E r \in rows : r.id = f.id /\ r.fails >= MaxFail
    /\ Count(f)
    /\ Finalize(f.doc)
    /\ batch' = [batch EXCEPT ![w].ops = {f}]
    /\ UNCHANGED <<posting, reparsed, del, nextId, triggers, lock, pc, wikiVars, faults>>

\* DeleteByIDs, whose failure is logged.
Drop(w, f) ==
    /\ pc[w] = "requeue" /\ f \in batch[w].ops
    /\ \/ rows' = {r \in rows : r.id # f.id} /\ UNCHANGED faults
       \/ Fault("database") /\ UNCHANGED rows
    /\ batch' = [batch EXCEPT ![w].ops = {}, ![w].failed = @ \ {f}]
    /\ UNCHANGED <<docVars, del, nextId, triggers, lock, pc, wikiVars>>

\* scheduleFollowUp while rows are left.
FollowUp(w) ==
    /\ pc[w] = "requeue" /\ batch[w].failed = {} /\ batch[w].ops = {}
    /\ \/ /\ triggers' = IF rows = {} THEN triggers ELSE triggers + 1
          /\ UNCHANGED faults
       \/ (Fault("trigger") \/ Fault("database")) /\ UNCHANGED triggers
    /\ pc' = [pc EXCEPT ![w] = "release"]
    /\ UNCHANGED <<docVars, del, queueVars, lock, batch, wikiVars>>

Release(w) ==
    /\ pc[w] = "release"
    /\ Leave(w)
    /\ UNCHANGED <<docVars, del, queueVars, triggers, wikiVars, faults>>
-------------------------------------------------------------------------------
Init ==
    /\ status = [d \in Docs |-> IF d \in Settled THEN "completed" ELSE "processing"]
    /\ owed = [d \in Docs |-> 0]
    /\ posting = [d \in Docs |-> "no"]
    /\ reparsed = {}
    /\ del = [d \in Docs |-> NotDeleting]
    /\ rows = {} /\ nextId = 1 /\ triggers = 0
    /\ lock = FALSE
    /\ pc = [w \in Workers |-> "idle"]
    /\ batch = [w \in Workers |-> NoBatch]
    /\ pages = IF Settled = {} THEN {} ELSE Slugs
    /\ refs = [s \in Slugs |-> Settled]
    /\ faults = {} /\ spoilt = {}

PostStep(d) ==
    PostSeed(d) \/ PostInsert(d) \/ PostTrigger(d) \/ ReparseReset(d) \/ ReparseFails(d)
DeleteStep(d) ==
    \/ DeleteScrub(d) \/ DeleteList(d) \/ DeleteInsert(d) \/ DeleteTrigger(d)
    \/ \E s \in Slugs : DeletePage(d, s)
MapStep(w) ==
    \E r \in batch[w].ops :
        MapRetract(w, r) \/ MapSkip(w, r) \/ MapFails(w, r)
        \/ \E slugs \in SUBSET Slugs : MapDoc(w, r, slugs)
RequeueStep(w, f) == Requeue(w, f) \/ GiveUp(w, f) \/ Drop(w, f)
BatchStep(w) ==
    \/ Peek(w) \/ MapStep(w) \/ Trim(w) \/ FollowUp(w) \/ Release(w)
    \/ \E s \in Slugs : ReduceRead(w, s) \/ ReduceWrite(w, s)
    \/ \E d \in batch[w].done : FinalizeDone(w, d)
    \/ \E f \in batch[w].failed : RequeueStep(w, f)
BatchFault(w) ==
    \/ AcquireBlind(w) \/ SetupFails(w) \/ Crash(w) \/ PeekFails(w)
    \/ \E s \in Slugs : ReduceFails(w, s)

Next ==
    \/ \E d \in Docs : PostStep(d) \/ Reparse(d) \/ DeleteMark(d) \/ DeleteStep(d)
    \/ Superfluous \/ Exhausted \/ Expire
    \/ \E w \in Workers : Acquire(w) \/ BatchStep(w) \/ BatchFault(w)

\* A post-processing, a reparse and a batch that have begun go on, an idle worker takes a
\* task when the key is free, and an abandoned key runs out.
Fairness ==
    /\ \A d \in Docs : WF_vars(PostStep(d))
    /\ \A w \in Workers : WF_vars(BatchStep(w))
    /\ WF_vars(\E w \in Workers : Acquire(w))
    /\ WF_vars(Expire)

Spec == Init /\ [][Next]_vars
FairSpec == Spec /\ Fairness
-------------------------------------------------------------------------------
Batch == [ops: SUBSET Row, peeked: SUBSET Nat, failed: SUBSET Row, done: SUBSET Docs,
          adds: [Slugs -> SUBSET Docs], rets: [Slugs -> SUBSET Docs],
          read: SUBSET Slugs, missing: SUBSET Slugs, base: [Slugs -> SUBSET Docs]]

\* The variables keep their types.
TypeOK ==
    /\ status \in [Docs -> {"processing", "finalizing", "completed", "deleting", "deleted"}]
    /\ owed \in [Docs -> {0, 1}]
    /\ posting \in [Docs -> {"no", "insert", "trigger", "reset"}]
    /\ reparsed \subseteq Docs
    /\ del \in [Docs -> [pc: {"no", "scrub", "list", "pages", "insert", "trigger"},
                         found: [Slugs -> SUBSET Docs], slugs: SUBSET Slugs]]
    /\ rows \subseteq Row
    /\ nextId \in Nat
    /\ triggers \in Nat
    /\ lock \in BOOLEAN
    /\ pc \in [Workers -> {"idle", "begun", "work", "requeue", "release"}]
    /\ batch \in [Workers -> Batch]
    /\ pages \subseteq Slugs
    /\ refs \in [Slugs -> SUBSET Docs]
    /\ faults \subseteq Faults
    /\ spoilt \subseteq Slugs \X Docs

\* The key wiki:active "prevents concurrent batches": two batches of a
\* knowledge base run at a time only after a Redis call on the key has failed,
\* though a dead batch leaves its key behind and a live one is not checked to
\* own what it deletes.
OneBatch ==
    "redis" \notin faults => \A v, w \in Workers : Running(v) /\ Running(w) => v = w

\* An operation in the table is never forgotten: as long as one is left, a
\* trigger is scheduled or about to be, or a batch runs that will look at the
\* table again. A trigger that met the key and gave up, or died with its
\* worker, leaves no gap.
NoStrandedOp ==
    rows # {} /\ faults \cap {"trigger", "database"} = {} =>
        \/ triggers > 0
        \/ \E w \in Workers : pc[w] \in {"begun", "work", "requeue"}
        \/ \E d \in Docs : posting[d] = "trigger" \/ del[d].pc = "trigger"

\* The slot seeded for the wiki can still be drained: its ingest operation is
\* in the table until a batch has finalised the document, whatever trims,
\* scrubs, retries and crashes happen around it. Only a lost INSERT strands it, and
\* a reparse that scrubs the operation and then fails to clean up.
SlotBacked ==
    faults \cap {"insert", "cleanup"} = {} =>
        \A d \in Docs :
            owed[d] = 1 /\ ~Gone(d) /\ posting[d] \notin {"insert", "reset"} =>
                \E r \in rows : r.doc = d /\ r.op = "ingest"

AtRest ==
    /\ rows = {} /\ triggers = 0
    /\ \A w \in Workers : ~Running(w)
    /\ \A d \in Docs : posting[d] = "no" /\ del[d].pc = "no"

\* No document is deleted while the clean-up of another one holds a listing of
\* their common page: it would write the other's reference back, even after the
\* other's retract has run.
DeletesApart ==
    \A d, e \in Docs :
        del[d].pc = "pages" /\ Gone(e) /\ e # d => \A s \in Slugs : e \notin del[d].found[s]

\* A document that was parsed again is not deleted just before its second ingest is
\* queued: the operation would follow the retract and hide it from the batch, which
\* works on the last operation of a document.
InsertsInTime == \A d \in reparsed : Gone(d) => posting[d] # "insert"

\* Once everything is quiet no page refers to a document that was deleted while
\* a batch was at work on it, unless the edit that was to remove it failed.
NoGhostAtRest ==
    AtRest /\ faults \subseteq {"crash", "edit", "setup"} =>
        \A s \in pages : \A d \in refs[s] : Gone(d) => <<s, d>> \in spoilt

\* A document does not hang in finalizing: whenever its wiki slot is seeded it
\* is released later, unless the row or the trigger was lost, a database call
\* failed or a reparse gave up half way.
SlotsDrain ==
    \A d \in Docs :
        []<>(owed[d] = 0 \/ Gone(d) \/ faults \cap {"insert", "trigger", "database", "cleanup"} # {})
===============================================================================
