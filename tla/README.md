# XinWiki in TLA+

This directory holds a TLA+ model of the backend of XinWiki (`src/internal`),
the configurations TLC checks it with, and theorems about it that the TLA+ proof
system checks.

Its core is what carries the product: what happens to a document between upload
and deletion, when the parse worker, the enrichment workers, the user's commands
and the background sweeps all move the same database row; how its images are
counted down before the enrichment; and how the wiki of its knowledge base is
written in batches. Beside it stand three components of the question-answering
side in which goroutines and instances meet: the queue of questions from instant
messengers, whose instances share counters in Redis, the human approval of
dangerous tool calls, and the batcher that collects the embedding of queries.

Contents: [inventory](#1-inventory), [plan](#2-plan), [how the modules follow
the code](#3-the-modules-and-the-code), [what the runs
check](#4-what-is-checked), [disagreements
found](#5-where-the-code-and-its-comments-disagree), [what is
proved](#6-what-is-proved), [what is left out](#7-what-is-left-out).

## 1. Inventory

All paths are below `src/internal/` unless they start with `src/`.

| Component | State it keeps | Operations | Interacts with | What is hard | What makes it correct |
|---|---|---|---|---|---|
| **Knowledge row** `application/repository/knowledge.go`, `types/knowledge.go` | one row per document: `parse_status`, `pending_subtasks_count`, `summary_status`, `deleted_at` | full-row Save, column updates, `SetFinalizing`, `FinalizeSubtask`, soft delete | everybody below writes it | statements of different callers interleave; a Save writes back columns read long before; the counter is touched by decrements only | counter = work still owed; promotion only at zero; a deleted row matches no statement |
| **Document parsing** `application/service/knowledge_process.go` (`ProcessDocument`, `processChunks`) | the struct loaded first, the attempt, chunks and vectors written so far | load, mark processing, convert, clean up, write chunks, index, save, enqueue post-processing | row, span table, chunk table, vector index, asynq | abort checks and writes are separate statements; at-least-once delivery; BatchIndex failing half way | text written once; a completed document is indexed; aborted rows are left alone |
| **Post-processing** `knowledge_post_process.go` | the plan and the number of tasks not enqueued | load, plan, seed the counter, enqueue, release the shortfall | row, asynq, wiki pending ops | a planned task that cannot be enqueued; retry after a crash in the middle of the fan-out | the counter covers every planned subtask until it drains |
| **Enrichment tasks** (`ProcessSummaryGeneration`, `ProcessQuestionGeneration`, `extract.go`, wiki op) | snapshot of the row, attempt | supersession check, load, save, write chunk, drain | row, chunks, vectors | a stale snapshot written back; a redelivered drain; a superseded task that was already running | no early completion; stale tasks leave the new attempt alone |
| **Commands** (`CancelKnowledgeParse`, `ReparseKnowledge`, `knowledge_delete.go`) | the row as read, progress of the call | cancel, reparse, delete, dequeue | row, asynq inspector, wiki ops | workers keep running; the inspector is best effort | cancelled and deleted documents stay that way |
| **Housekeeping** `knowledge_housekeeping.go`, `container/reset_pending_tasks.go` | the rows selected | sweep stuck rows, sweep summaries, reset at startup | row, inspector | the queues are read one after the other, in pages, and the update comes later; wiki ops are in another table | every row settles; backlogged rows are spared |
| **Task queue** asynq, `router/task.go`, `router/task_inspector.go`, `middleware/asynqdl` | task records, retry counts | enqueue, run, retry, dead-letter, list, delete | all workers | redelivery after a lost lease does not go through the dead-letter callback | bounded retries, failed status after the last |
| **Lite mode** `router/sync_task.go` | goroutines of the process | run a task at once, retry in place | all workers | no queue, nothing survives a restart | as the queue, without redelivery |
| **Span tracker** `knowledge_span_tracker.go` | attempt counter, span tree | open attempt, heartbeat, close | parsing, supersession, housekeeping | two openers of one attempt | one attempt per user action |
| **Image fan-in** `image_multimodal.go`, fan-out in `knowledge_process.go` | Redis counter of pending images, one task per image | set the counter, send tasks, process an image, decrement, clear, enqueue post-processing at zero | parsing, post-processing, Redis, asynq, cancel, reparse | a key without an attempt; Redis errors; retries that must not count; aborted images; a death between DECR, DEL and enqueue | the counter is the number of images that have not ended; post-processing runs after the last one; the document leaves processing |
| **Wiki ingest** `wiki_ingest.go`, `wiki_ingest_batch.go` | pending-op table, trigger tasks, Redis key `wiki:active`, what a batch holds, pages with their sources | enqueue an op, take the key, peek, dedup, map, reduce, finalize, trim, requeue, follow up | row counter, post-processing, reparse, delete, Redis, asynq | a key that expires or outlives its batch; triggers that give up; partial batches; a page edited from references read before the model's answer | one batch at a time; no op forgotten; a seeded slot is always backed by a row; no page keeps a deleted document |
| **IM question queue** `im/qaqueue.go` | bounded queue, per-user counts, Redis counters | enqueue, remove, worker loop, stop | IM adapters, Redis | TTL on counters, global gate, stop against dequeue | limits hold; each request answered or rejected once |
| **Tool approval** `agent/approval/gate.go` | map of waiters, one-slot channels, Redis Pub/Sub | request and wait, resolve on this or on another instance, acknowledge, shut down | agent engine, HTTP, Redis | decision against timer against cancel; two users on two instances; lost messages; an acknowledgement for somebody else | one decision per call, obeyed by the tool, and everybody told the truth about it |
| **Embedding batcher** `embedding_batcher.go`, `embedding_batcher_manager.go` | batcher of a model, bounded queue, batch, result channels | get or create, enqueue or call directly, collect, flush, call, distribute, shut down | embedding model, retrieval | duplicates merged into one text; fewer vectors than texts; callers that left; shutdown against enqueue and create | everybody gets the vector of its own text, or an error; one open batcher |
| **Write buffer** `write_buffer.go` | buffered events | add, flush, stop | database | – | nothing but its tests constructs one: not modelled |
| **Circuit breaker, rate limiter, load balancer** `models/chat/circuit_breaker.go`, `ratelimit/limiter.go`, `load_balancer.go` | failure counts, sliding window, weights | allow, record, pick | models | half-open probing by several callers | the breaker opens and closes as configured |
| **Semantic cache** `semantic_cache_*.go` | entries by embedding | get, set, invalidate | chat | invalidation against a late set | no answer from a changed knowledge base |
| **Chat stream, session stop** `stream/`, `event/`, `handler/session/` | event lists per message | append, replay, stop | agent engine, HTTP | replay against append, stop against complete | a client that reconnects sees every event once |
| **Agent engine** `agent/` | message history, iteration count | think, act, finalize | models, tools, approval | parallel tool calls | bounded iterations |
| **ACL propagation** `acl/` | inherited permissions | recompute, propagate, reconcile | documents | reconcile against a change | inherited permissions converge |
| **Data sources** `datasource/scheduler.go`, `datasource_service.go` | cron entries, sync logs | schedule, sync, cancel | connectors, parsing | two syncs of one source | at most one sync at a time |
| Tenants, users, roles, sharing; retrieval and drivers; web search, sandbox, MCP client, tracing; HTTP; frontend, CLI, SDK, document reader, charts | – | – | – | sequential checks, calls to other systems, presentation | not modelled |

### How the core interacts

    upload ──> row(pending) ──> asynq: ProcessDocument ──> chunks, vectors
                                     │ saves row(processing)
                                     │ no image          │ SET counter, one task per image
                                     │                   v
                                     │             asynq: ImageMultimodal: DECR, last one enqueues
                                     v                   │
                               asynq: KnowledgePostProcess <┘
                                     │ SetFinalizing(n): row(finalizing), count = n
                     ┌───────────────┼───────────────┬──────────────┐
                     v               v               v              v
                  summary        question x k     graph x m      wiki op ──> task_pending_ops
                     │               │               │                         │ batch under wiki:active
                     └── FinalizeSubtask: count - 1; at 0 row(completed) ──────┘

    cancel, reparse, delete, housekeeping and the startup reset write the same
    row at any moment; the inspector removes queued tasks, running ones find out
    at their next abort check.

The hazards this gives rise to are listed, each at its line, under `hazards` in
`PROJECT.json`.

## 2. Plan

Modules, most important behaviour first:

1. `KnowledgeStore`, `DocumentParse`, `EnrichmentFanout`, `KnowledgeCommands`,
   `KnowledgeLifecycle` — the document lifecycle. **Written.**
2. `ImageFanIn` — the Redis counter between parsing and post-processing.
   **Written**, with a small parser and post-processing of its own.
3. `WikiIngest` — pending ops, key, batches, requeue, follow-up, and the two
   ends it races with. **Written**, with a row reduced to the wiki slot.
4. `QaQueue` — the IM question queue with its local and Redis limits.
   **Written**, without the map of running questions.
5. `ApprovalDecision` and `ApprovalGate` — the abstract one-shot decision and
   the gate that implements it on several instances. **Written.**
6. `EmbeddingBatcher` — queue, batch, distribution, shutdown. **Written.**
7. `DocumentJob` — the abstract promise of one parse: its subtasks are planned
   at once, owed until each is settled, and the row completes when nothing is
   owed; `KnowledgeLifecycle` shown to implement it for runs without crashes and
   without user commands. **Written.**
8. `ImageFanIn` and `WikiIngest` composed with `KnowledgeStore`, so that the
   counters of images and subtasks meet in one module. *Open:* the composed
   state space needs a coarser lifecycle in the place of the detailed one;
   `DocumentJob` is one.
9. `CircuitBreaker`, `RateLimiter`, chat stream, ACL propagation, data-source
   scheduler — components whose races a test hardly reaches. *Open.*

Runs: one per question. The lifecycle runs are divided by what may go wrong
(retries, commands, crashes, restarts, reparses), since all of it together is
out of reach of exhaustive search. Each further component gets one passing run;
where the code and its comments disagree about something a property states, one
run shows it.

Theorems: type correctness of every system, every safety property of the
passing runs, and the two refinements are **proved** (section 6).

## 3. The modules and the code

### The document lifecycle

    KnowledgeStore            the row, the task records, one operator per SQL statement
      ├── DocumentParse       ProcessDocument and processChunks
      ├── EnrichmentFanout    post-processing, summary / question / graph / wiki subtasks
      └── KnowledgeCommands   cancel, reparse, delete, housekeeping, startup reset
            └── KnowledgeLifecycle   all of them composed, and the properties
                  ├── DocumentJob            what it implements (INSTANCE)
                  ├── MCKnowledge            model values
                  ├── LifecycleTyping        theorem about the types
                  └── LifecycleInvariants    the inductive invariants
                        └── LifecycleSafety  the other theorems

One document is modelled: statements on rows of different documents never meet.

| In the model | In the code |
|---|---|
| `row.status`, `.count`, `.summary`, `.gone` | `parse_status`, `pending_subtasks_count`, `summary_status`, `deleted_at` |
| `latest` | the highest attempt in the span table (`LatestAttempt`) |
| `chunks`, `vectors` | sets of *origins*: which run of which task wrote the text or the summary. The number of chunks and their content are abstracted; two origins of text are a duplicated text |
| `doc[d]`, `post[p]`, `sub[s]` | asynq tasks. Task 0 is the upload's, task n that of the n-th reparse; a run of a document task enqueues at most one post-process task, whose run enqueues at most one task per slot |
| `pc` of a task | the point the handler has reached between two statements |
| `snap` | the struct loaded at the start of a handler, which its full-row Saves write back |
| `cancel`, `reparse`, `delete` | calls of the API in progress |
| `sweep` | housekeeping has selected the row and reads the queues (`probe`; `left` are those still to be read), or is about to fail it (`update`); `misses` counts the tasks the reads have overlooked |

`DocumentJob` has two variables, and the lifecycle maps to it as follows
(`Job`): its `phase` is `parsing` while the status is `pending` or `processing`,
`enriching` while it is `finalizing`, and otherwise the status; its `owed` are
the tasks with a decrement to make (`Held`) and those the post-processing has
seeded the counter with and not yet enqueued or given up (`Planned`). The seed is
`Plan`; a decrement, an enqueue that failed or a task that ends without its
decrement is `Settle`; a promotion or a document without text is `Complete`;
what writes `failed` is `Fail`. Everything else stutters, the enqueue and the
release of the shortfall among it.

**Granularity.** One step is one SQL statement, one write to chunks or vectors,
one enqueue, or one read that later decisions depend on. What a handler computes
between two such points belongs to the step before. Full-row Saves omit
`deleted_at` and `pending_subtasks_count` exactly as `omitFieldsOnUpdate` does,
and a soft-deleted row is matched by nothing. `FinalizeSubtask` is two
statements (decrement, promote) in the code and two steps here.

**Errors.** An error the handler returns is a disjunct that retries or ends the
task (`DocRetry`, `SubFail`, `PostFail`). An error the code logs and forgets is
allowed when the constant `FlakyStore` is TRUE (`BestEffort`, `Erased`,
`Unreadable`). A step whose failure changes the control flow whatever
`FlakyStore` says is always allowed to fail: an enqueue, `BatchIndex`, the seed
of the counter, the two statements of `FinalizeSubtask`.

**Tasks.** `Retried` keeps the run count and the payload and nothing else, as a
redelivered asynq task does. A task whose worker dies on its last run is
archived without its dead-letter callback, since nobody runs it (`AfterCrash`).
A task whose handler fails on its last run passes through `dead`, where the
callback writes `failed` by id. The inspector (`Dequeue`) removes any subset of
the queued tasks: it pages through the queues while workers take tasks out of
them. The sweep asks the same inspector whether anything of the document is left
(`SweepProbe`): one queue after the other, first the default queue, which holds
document and post-process tasks, then one for each kind of enrichment, in any
order. The lists and pages of a queue are one step; that a task moved up a page
or into a list already read, or that a list could not be read and counts as empty,
is `NotFound` for a queue that holds a task, `MaxMiss` times at most.

**Time.** No clock. A row may always have been silent long enough for the sweep;
the checks on the status and on the queue are the model's only guards, as they
are the code's only protection.

### Images

`ImageFanIn`; theorems in `ImageFanInProofs`. One document, of which only what
the images touch is kept.

| In the model | In the code |
|---|---|
| `redis` | is there a Redis client, or Lite mode (every image enqueues the post-processing)? Chosen at start |
| `counter` | the key `multimodal:pending:<id>`; a key that does not exist counts as 0, which is what DECR makes of it |
| `fan`, `toSend`, `parse` | the run of the parser and how far its loop over the images is |
| `task[<<f, i>>]` | the asynq task of image i sent by run f: `work` is the body of `Handle`, `count`, `clear`, `post` the deferred DECR, DEL and enqueue |
| `texts` | how often a task wrote its OCR and caption chunks |
| `plan[p]`, `missed` | the chunks a post-processing listed before it seeded the enrichment, and history: images it knew nothing of |
| `cancel` | `CancelKnowledgeParse` has written the status and not yet emptied the queue |
| `events` | what has gone wrong or been done by the user; each kind at most once |

`ImageFails` is the error path with `isFinalAsynqAttempt`: only the last try
counts. A task that finds its document aborted returns before the deferred count
is registered, so it never counts (`ImageStart`). A failed SET is logged, and
the old counter, or none, is used.

### Wiki ingest

`WikiIngest`; theorems in `WikiIngestProofs`. One knowledge base with several
documents, pages and workers.

| In the model | In the code |
|---|---|
| `status`, `owed` | `parse_status`; the wiki slot within `pending_subtasks_count` |
| `posting[d]`, `del[d]` | post-processing inside `EnqueueWikiIngest`, or `ReparseKnowledge` between the scrub of the table and the reset of the row; `cleanupWikiOnKnowledgeDelete` with the pages it has listed |
| `rows`, `nextId` | `task_pending_ops` and its key, which orders it |
| `triggers` | trigger tasks scheduled in asynq |
| `lock` | the Redis key `wiki:active` |
| `pc[w]`, `batch[w]` | `ProcessWikiIngest` on worker w: peeked rows, operations after deduplication, additions and retracts per slug, documents done, operations failed. In `requeue`, `ops` is the row given up and not yet dropped |
| `pages`, `refs` | the pages that exist and their `source_refs` |
| `spoilt` | history: retracts whose edit of the page failed |

The parallel map and reduce are interleaved freely; a reduction is two steps,
the read of the page and its write after the language model has answered,
because what was read is written back. The key expires only when no batch runs,
or when a Redis call on it failed: the batch renews it. A trigger gives up only
while a batch does its long part, since its ten retries last longer than the
rest. A failed operation that has used up its tries is counted and its slot
released in one step (`GiveUp`), its row dropped in another (`Drop`), so that a
batch may die in between. Faults (`crash`, `redis`, `insert`, `trigger`,
`database`, `setup`, `edit`, `cleanup`) happen at most once each.

### Tool approval

`ApprovalDecision` says what is promised; `ApprovalGate` models `gate.go` with
what `MCPTool.Execute` does with the answer; theorems in `ApprovalGateProofs`.

| In the model | In the code |
|---|---|
| `phase[c]`, `owner[c]` | `RequestAndWait` of call c and the instance it runs on |
| `verdict[c]` | what `sync.Once` let into the one-slot channel of the waiter, and from whom (`Deliver`) |
| `outcome[c]` | the tool ran, was refused (also after an approval whose modified arguments cannot be read), or needed no approval |
| `req[r]`, `reply[r]` | a `Resolve` call (identified with its nonce), and what it returned |
| `inbox[i]`, `handling[i]` | messages Redis handed to the subscriber of instance i, and the one it works on |
| `ack[r]` | an acknowledgement on the reply channel of r |
| `stopped[i]` | `Shutdown` closed the subscriber |

The lookup in `deliverLocal` holds the mutex, the delivery does not, so they are
two steps. A decision may arrive as soon as the waiter is registered: users see
the event while `Emit` still runs, also when `Emit` then fails. Redis delivers
at most once: a published message reaches any subset of the running subscribers,
an acknowledgement only who still listens. The timer, the end of the request and
the three seconds of a resolver may come at any time. In `D == INSTANCE
ApprovalDecision WITH told <- ...` the verdict and the outcome are those of the
gate and `told` is the reply with its four refusals made one.

### Embedding batcher

`EmbeddingBatcher`; theorems in `EmbeddingBatcherProofs`. One model, whose
batchers are numbered in the order the manager creates them.

| In the model | In the code |
|---|---|
| `caller[c]`, `reply[c]` | `Embed` of a caller: looking for a batcher, sending, waiting; its channels with room for one value |
| `registered`, `stopping` | the entry of the map; the batcher `Shutdown` waits for while it holds the mutex of the manager |
| `queue[b]`, `worker[b]`, `closed` | the channel, the goroutine with its batch, the closed shutdown channel |

The vector of a text is the text itself, so a vector dealt to the wrong request
shows. `Firsts`, `Index` and `TextAt` are the deduplication and the mapping
back; the model may answer with fewer vectors than texts. The second look of
`GetOrCreateBatcher` under the write lock is a step of its own.

### The IM question queue

`QaQueue` models `qaqueue.go` with the parts of `service_message.go` that call
it. `QaQueueProofs` holds the theorems about types and the gate, `QaQueueCounts`
those about the limit of a user and the exact counters.

| In the model | In the code |
|---|---|
| `mode` | is there a Redis client? Chosen at start |
| `queue[i]`, `closed[i]`, `perUser[i]` | the fields of the `qaQueue` of instance i |
| `userCount[u]`, `gate` | the Redis keys of a user and of the global gate |
| `request[r]` | the caller of question r (`new`, `over`, `counted`), its place in the queue (`queued`), the worker's hold on it (`held`, `halted` by a stop marker), how it ended |
| `worker[w]` | a worker goroutine between two critical sections or Redis commands |
| `marker[u]` | the stop marker in Redis |
| `stops` | the /stop commands so far, and per user those that have cancelled what they found and not yet set their marker |

**Granularity.** A critical section of the mutex is one step, and the Redis DECR
that `Enqueue` or `Remove` sends inside it is part of that step. INCR with its
compare is one step and the DECR of a rejected call another, since they are
separate commands; the gate's script is atomic. Shutdown is two steps, closing
under the mutex and broadcasting after it. A waiting worker and a woken one
(`ready`) are told apart, so a lost wake-up is visible.

**Expiry.** A key with a lifetime expires only when no live question holds it
(`UserExpires`, `GateExpires`): questions are taken to be shorter than the five
minutes. A worker at the shut gate runs the script again every half second and
every try renews the key, so `GateExpires` also needs that nobody waits there.

## 4. What is checked

Deadlock is not checked in any run: a document that is done, a queue nobody
asks, a decided call are legal ends.

### Passing runs

| Run | Question | Bounds | Properties |
|---|---|---|---|
| `retry` | Is everything right for one upload when every handler may fail, be retried, and lose every write whose error is only logged? | summary and wiki slots, one retry, no crash | `CounterCoversOutstanding`, `CompletedIsIndexed`, `FailedIsFinal`, `ImplementsJob` |
| `commands` | Do tasks still queued leave a cancelled or a deleted document alone? | summary slot, two cancels, one delete | `CancelHolds`, `DeletedStaysEmpty` |
| `crash` | Is the text written once although the worker died anywhere? | summary slot, one crash, one retry | `NoDuplicateText` |
| `recovery` | Does every row settle after crashes and lost writes? Does the sweep spare rows whose tasks its reads of the queues had to show? | summary and wiki slots, two crashes, one restart, one task overlooked | `Settles`, `SweepSparesScanned` |
| `reparse` | Do subtasks of the old attempt leave the counter of the new one alone? | summary and question slots, one reparse, one restart | `CounterCoversOutstanding`, `NoEarlyCompletion` |
| `images` | Is the counter exact under retries, does the post-processing wait for the last image, and does the document move on whatever fails? | two images, one retry, two runs of the parser, one poster, with and without Redis, any two of eight disturbances | `CounterExact`, `PostAfterLastImage`, `ImageTextOnce`, `LeavesProcessing` |
| `wiki` | Does one batch run at a time, is every queued operation worked on and every slot released, and does no page keep a deleted document? | two documents (one ingested and deleted, one complete and parsed again), one page, two workers, batches of two, no retry of a failed operation, one fault of eight kinds | `OneBatch`, `NoStrandedOp`, `SlotBacked`, `NoGhostAtRest`, `SlotsDrain` |
| `qa_queue` | Do the limits hold over two instances, is each slot given back once, is each question answered? | two instances with one worker each, one user, three questions, with and without Redis, one of {stop, crash, failed command, shutdown} | `UserLimit`, `GateLimit`, `SlotsMatch`, `Answered`, `WorkersExit` |
| `approval` | Does one decision win, is it the one the tool obeys, and is everybody told the truth about it? | one call, two users, two instances with Redis | `NoUnapprovedRun`, `RepliesHonest`, `Implements`, `CallsEnd`, `ResolversReturn` |
| `batcher` | Does everybody get an answer, and the vector of its own text? | three callers, two texts, batches of two, a queue of one, two batchers | `OwnVector`, `OneBatcher`, `Answered`, `ShutdownEnds` |

`TypeOK` is an invariant of `retry`, `images`, `wiki`, `qa_queue`, `approval`
and `batcher`.

**Why the bounds are enough.** The lifecycle has one row, so a race needs two
tasks, or a task and a call, and a particular order of their statements; two
slots make the counter reach a value that is neither its seed nor zero, and the
wiki slot differs from the others in everything that is special about it (not
seen by the inspector, not superseded, its shortfall not released). One retry
distinguishes the first from the last run, which is the only distinction the
handlers make. What may go wrong is divided between the runs: with all of it at
once the state space is out of reach, and the disagreements of section 5 would
hide everything behind them.

- *Images.* Two images make a counter that is neither its seed nor zero, two
  runs of the parser the tardy task of an old run; two disturbances meet each
  other. An overlapping reparse meets only a cancel, and only with Redis.
- *Wiki.* Two documents share a page, so a read-edit-write of one meets the
  clean-up of the other; one page suffices because reductions of different pages
  touch nothing in common; the second worker is there to meet the key. With a
  batch of two the operations of a document may come in one batch or in two, and
  `MaxFail = 0` makes the first failure of an operation the final one as well as
  a failed requeue; the theorems cover every other value.
- *Queue.* Two instances make the counters shared, a third question is needed to
  exceed a limit of two, and a gate of one makes the second instance wait.
  `MaxTroubles = 1` allows one trouble in a behaviour.
- *Approval.* Different calls share nothing but the subscriber, which handles
  one message after the other; two users on two instances give both ways to a
  waiter, and the race between them.
- *Batcher.* Three callers with two texts: two that are merged and one that is
  not. A queue of one is full while a batch of two is collected; the second
  batcher is created after, or during, the shutdown of the first.

**Preconditions that are restrictions.** They say where the code promises
nothing. Those of the lifecycle are operators of `KnowledgeLifecycle`, so that
the theorems state them for every value of the bounds; the runs meet them by
their bounds (no crash where `MaxCrash = 0`, no second parse where `MaxReparse
= 0`).

- The counter is promised (`CounterUndisturbed`) as long as nobody but a drain
  and the sweep writes it: one parse, no crash, no cancel, no restart, and an
  inspector whose reads overlook no task (`ScansRight`). A crash drains twice; a cancel can be undone by
  a stale Save (section 5); a restart resets rows whose tasks go on; a sweep
  without an inspector, or one that overlooked a task, fails rows at work. Only
  `recovery` lets the reads err (`MaxMiss = 1`).
- `FailedIsFinal` speaks of behaviours in which also nobody has deleted
  (`Undisturbed`): a delete marks a failed row `deleting`, and so may leave it.
  `ImplementsJob` is promised of the same behaviours, which are all there are in
  `retry`; commands, crashes and restarts have no counterpart in `DocumentJob`.
- `CancelHolds` lasts until a crash, a restart or a reparse (`Disturbed`), which
  bring in new work.
- `SweepSparesScanned` needs the inspector and reads that overlooked no task
  (`ScansRight`; section 5 says what happens otherwise), and no task of a
  reparse: one that is queued between the selection and the UPDATE is not looked
  for again (the hazard at `knowledge_housekeeping.go:163`). What is left to show
  is the part a reader of the code has to believe: the queues are read apart, at
  different times, and the row may be failed long after the last read.
- `NoDuplicateText` needs a clean-up that does not fail silently, and one parse
  at a time (the hazard at `knowledge_process.go:1950`); `CompletedIsIndexed`
  one run of the parser, and nothing dropped from outside.
- `reparse` uses `PatientSpec`: the user reparses a finished document that no
  other call, no worker and no wiki op is busy with, the sweep is not half way
  through its two statements, and the server starts while no worker runs
  (`Patient`). Enrichment tasks of the old attempt may still be queued. Without
  this the code does lose the counter (a superseded task that was already
  running drains the new counter; a wiki op is never superseded). The bounds of
  the run rule out crashes, cancels and lost statements, and give the sweep an
  inspector that sees everything; the theorems name that (`Orderly`), and leave reparses, restarts,
  retries, deletes and slots, the wiki op among them, unbounded.
- `CounterExact` excepts behaviours in which a Redis call failed, the key
  expired, a worker died, the user cancelled, or two runs of the parser
  overlapped; `PostAfterLastImage` the same but the cancel, and Lite mode;
  `ImageTextOnce` crashes and overlaps. `LeavesProcessing` excepts a lost send
  or enqueue, a task asynq gave up on, and the pair of a cancel and an
  overlapping reparse.
- `OneBatch` holds until a Redis call on the key has failed; `NoStrandedOp`
  until a trigger or a database call is lost; `SlotBacked` until an INSERT is
  lost or the clean-up of a reparse fails, and not while a reparse is between its
  scrub and its reset; `SlotsDrain` until any of these four. `NoGhostAtRest` allows crashes,
  failed edits and failed setups. It also needs that no document is deleted
  while the clean-up of another one holds a listing of their common page
  (`DeletesApart`), and none that was parsed again just before its second ingest
  is inserted (`InsertsInTime`); in the run one document may be deleted and the
  other one parsed again. Section 5 says what happens otherwise.
- `SlotsMatch` speaks of behaviours without crash and failed command;
  `UserLimit` and `GateLimit` grant one slot for each failed command.
- The batcher's `Answered` excepts a request that is still queued in a closed
  batcher.

In `QaQueue` the questions of a user, in `WikiIngest` the workers and in
`EmbeddingBatcher` the callers are numbered in the order they come in, which
only renames them.

### Fairness

- *Lifecycle.* Weak fairness for the steps of each document, post-process and
  asynq subtask (asynq runs what is queued while a worker is alive) and for the
  housekeeping sweep (a cron job). None for wiki ops (the trigger task may not
  have been enqueued), for the calls of users, for the startup reset, nor for
  crashes. `Settles` therefore rests on the sweep wherever a step is lost, as it
  does in the code.
- *Images.* The parser, each image task and the post-processing go on; none for
  the user, crashes and expiry.
- *Wiki.* Each post-processing and each batch that has begun goes on; some idle
  worker takes a scheduled trigger when the key is free; the key of a dead batch
  expires. None for deletions, reparses, faults, nor for the end of a trigger
  that meets the key.
- *Queue.* Weak fairness for a caller once its question is counted, for each
  worker goroutine (which includes that a handler returns) and for the broadcast
  after a shutdown. None for contexts: the handler of an IM message detaches its
  context from the request, so nothing cancels it, and `Discard` may never
  happen. None for users, crashes, failures and expiry.
- *Approval.* A call that is registered goes on, and its timer fires; each
  `Resolve` that has begun goes on, and its three seconds end; each subscriber
  goes on with what it has read. None for asking, deciding, cancelling and
  shutting down.
- *Batcher.* A caller that has its batcher goes on; so does a worker, whose
  timer fires and whose model answers or runs into its limit of 30 seconds;
  `Shutdown` returns when the worker is gone. None for the contexts of callers,
  new calls and shutdowns.

### Each property

| Property | What a violation would mean |
|---|---|
| `CounterCoversOutstanding` | a finalizing row whose counter is below the number of subtasks not yet drained and slots not yet spent: some drain will complete it too early |
| `NoEarlyCompletion` | a completed row with a subtask still owed |
| `ImplementsJob` | some step plans twice, forgets a task that is owed, completes the row under one, or fails it under one the housekeeping should have seen |
| `CompletedIsIndexed` | a completed document whose text is in the chunk table and not in the index |
| `FailedIsFinal` | a late worker brings a failed document back |
| `NoDuplicateText` | the text of two executions side by side |
| `CancelHolds` | a task still queued at the cancel makes the row live again |
| `DeletedStaysEmpty` | a task still queued at the delete writes for the document again |
| `Settles` | a row hangs in processing or finalizing |
| `SweepSparesScanned` | the sweep fails a row although the queue its task was in told it so, or because the task moved on between the reads of two queues |
| `CounterExact` | an image counted twice, or never |
| `PostAfterLastImage` | a summary written from chunks that lack the text of an image still at work |
| `ImageTextOnce` | a retry writes OCR and captions a second time |
| `LeavesProcessing` | a failed image, or a death between DECR, DEL and enqueue, pins the document |
| `OneBatch` | two batches edit the pages of a knowledge base at the same time |
| `NoStrandedOp` | an operation waits in the table and nobody will look |
| `SlotBacked` | a slot is owed that no row will ever release |
| `NoGhostAtRest` | a page shows a deleted document as its source for good |
| `SlotsDrain` | a document hangs in finalizing because of the wiki |
| `UserLimit` | more questions of a user hold slots than configured |
| `GateLimit` | more questions run over all instances than the gate admits |
| `SlotsMatch` | a slot leaked or given back twice on one of the ways out |
| `Answered` (queue) | an accepted question is never settled: a lost wake-up, a worker that exits before draining |
| `WorkersExit` | a worker sleeps through a shutdown |
| `NoUnapprovedRun` | a dangerous tool runs on a timer, a cancel, a rejection, or a user of another session |
| `RepliesHonest` | a user is told "ok" although another decision won, or the reverse |
| `Implements` | some step of the gate is none of the one-shot decision |
| `CallsEnd`, `ResolversReturn` | a call or a user waits for ever |
| `OwnVector` | a search runs with the vector of somebody else's query |
| `OneBatcher` | a second batcher, whose worker nobody will stop |
| `Answered` (batcher) | a caller waits for an answer nobody will send |
| `ShutdownEnds` | a worker blocked on a caller that left blocks the manager |

For each property `mutants` in `PROJECT.json` names a change of the modelled
code that breaks it. The changed definitions stand before the originals, marked
*Mutant*; no specification uses them.

## 5. Where the code and its comments disagree

Two of these are runs that check one property and find it violated; the texts
are quoted in `findings` of `PROJECT.json`.

| Run | Promise | What happens |
|---|---|---|
| `cancel_race` | A cancel zeroes the counter so that no late drain can promote the row. | A summary task loaded the row while it was finalizing. The cancel writes cancelled and 0. The task's full-row Save writes finalizing back, its drain finds 0 and completes the row. |
| `wiki_ghost` | A delete unconditionally enqueues a retract, so that no page is left un-retracted. | The post-processing of the same document inserts its ingest after the retract. The deduplication of a batch keeps the last operation per document, the ingest is skipped since the document is gone, and a page an earlier batch wrote during the clean-up keeps the deleted document. |

Noted while modelling, and not runs of their own:

- *Double drain.* A worker that dies after the decrement and before the
  acknowledgement drains again when its task is redelivered
  (`knowledge.go:225`), against `knowledge.go:196`, "a subtask drains exactly
  once"; the row may complete while another subtask works.
- *Chunks after a delete.* A worker past its last check writes chunks after the
  delete has dropped them, against `knowledge_delete.go:66-67`, and leaves on an
  error path without a check. Nothing removes them.
- *Two deletions of one page.* The clean-up of a document writes a page's
  references back as it listed them (`knowledge_delete.go:273`). When another
  document of the page is deleted in between and its retract runs first, the
  reference of that document comes back, and nothing will remove it.
- *The sweep and the pages.* Only rows with nothing left in the queue are to be
  failed (`knowledge_housekeeping.go:148-155`). The scan is a snapshot of nothing:
  four lists for each queue, each in pages of 100, one Redis command after the
  other (`task_inspector.go:122-169`). A worker that takes a task between two
  pages moves the next ones up into the page already read; a task that fails goes
  from the active list, read last, to the retry list, read before; and a list that
  cannot be read counts as empty (152-155). With the read of one queue that
  overlooks a task TLC finds, in sixteen states, a row that is selected while
  its post-process task waits, and is failed over it.
- *A reparse that fails.* `ReparseKnowledge` scrubs the wiki operation of a
  finalizing document before it cleans up (`knowledge_process.go:2012`, `2056`). When
  the clean-up fails the call returns, the slot is still owed and nobody has a
  row to release it; housekeeping ends it.
- *The sweep and the wiki.* Only rows with nothing left in the queue are to be
  failed (`knowledge_housekeeping.go:148-155`); wiki operations wait in a table
  the inspector does not read.
- *The gate's lifetime.* The counter is to heal after its lifetime
  (`qaqueue.go:26-28`); a worker that waits at the gate renews the key every
  half second, so the slots of a dead instance never expire while somebody
  waits.
- *The next question stops.* A stop marker is set whether or not a question runs
  (`cmd_stop.go:6-8`) and outlives the one it was meant for; the next question
  of the user within 30 seconds takes it.
- `knowledge_process.go:2768-2772` says that the enqueue site names the attempt,
  so that retries stay within it. The upload's payload
  (`knowledge_create.go:245-256`) names none: every retry of an upload opens an
  attempt of its own.
- A subtask asks once, at its start, whether it is superseded
  (`knowledge.go:173-177`). One that is running when the user reparses drains
  the counter of the new attempt.
- `qaqueue.go:366` says it will "rely on local limit" when Redis fails; the
  local check is skipped whenever there is a Redis client, so a failed INCR lets
  the question through without any limit. `UserLimit` accounts for it.
- `image_multimodal.go:177-178` promises not to "double-count and prematurely
  trigger post-process". A worker that dies between the DECR and the end of its
  task counts the image again when the task is redelivered, and the
  post-processing may start before the last image.
- `image_multimodal.go:338-339` says that it waits for all images. In Lite mode
  every image enqueues the post-processing, and the first to end decides.
- `wiki_ingest.go:331-332` says that the next upload will catch up on a lost
  INSERT. It does not: the row of the lost operation is not there, so the slot
  of its document stays seeded (`SlotBacked` excepts it) until housekeeping.
- `wiki_ingest.go:415-416` says that one ingest task runs per knowledge base and
  no lock is needed; the batch takes one all the same, since unique triggers do
  not keep a trigger from running beside one that already runs.
- `gate.go:541` answers "not found" when no acknowledgement came within three
  seconds, although the decision may have been taken up on the other instance.
- `embedding_batcher.go:289` says that `Shutdown` waits for inflight requests; a
  request that is still queued when the worker leaves is never answered, and its
  caller waits for its own context.

## 6. What is proved

All theorems hold for every value of the constants that satisfies the named
assumptions `StoreAssumption`, `CommandsAssumption`, `ImageAssumption`,
`WikiAssumption`, `QaAssumption`, `NamesAssumption` and `BatcherAssumption`
(types, finiteness, distinct names); nothing else is assumed. Each module that
TLC checks has its type invariant proved; the theorems below are the ones a
reader should know.

**`LifecycleTyping!TypeCorrect`: `Spec => []TypeOK`.** `TypeOK` is inductive as
it stands. It says more than types: the counter stays a natural number under
every order of decrements, and no task runs beyond its retry budget (`run \in
0..MaxRetry` although `Retried` adds one). One lemma per group of actions
(`DocStepType`, `PostStepType`, `SubStepType`, `CancelStepType`, ...), resting
on lemmas about what a SQL statement (`StatementType`), a retry (`RetriedType`)
and a goto return.

**`LifecycleSafety!DeletedForGood`: `Spec => DeletedStaysEmpty`.** Being
deleted, clean and without active worker is not inductive: a queued task may be
picked up again. The invariant `Deleted` says how far it can then come: a
document task is never past its load, a post-process task at most in its dead
letter, a subtask never past its own check of the row. A retry, a crash and the
inspector keep a task within these points, and no statement matches a
soft-deleted row (`GoneStaysGone`), so nothing is written. One lemma for each
group of actors (`DeletedDocStep`, `DeletedPostStep`, `DeletedSubStep`,
`DeletedCommandStep`), composed in `DeletedNext`.

**`LifecycleSafety!InvariantsHold`.** The other theorems on the lifecycle rest
on the inductive invariants of `LifecycleInvariants`, which
`InvariantsHold` proves together. They share two parts: `Shapes`, what the place
of a task says about its fields, and `Stages`, that the stages of one run follow
one another: one post-process task, queued by a document task that is through,
and subtasks only once it has planned them. Lemmas named `...Flow` say where an
actor may go, those named `...Row` which status it may write.

- **`CounterCovers`, `CompletesLast`**: `Spec => [](CounterUndisturbed =>
  CounterCoversOutstanding)`, and the same of `NoEarlyCompletion`. The property
  itself is not inductive, since it says nothing before the row is finalizing
  and leaves out superseded tasks. `Counter` counts every task before its
  decrement (`Held`) and every slot not handed on (`Owed`), in any status of the
  row, unless the sweep has given the row up with nothing but wiki ops left
  (`GivenUp`); and a summary task never holds a completed row, which its Save
  would write back. The steps with an argument are the enqueue, which moves a
  slot from `Owed` to `Held`, the release of the shortfall, and the promotion:
  at zero nothing is held.
- **`CounterCoversAcross`, `CompletesLastAcross`**: `PatientSpec => [](Orderly
  => CounterCoversOutstanding)`, and the same of `NoEarlyCompletion`, across any
  number of reparses and restarts. The stages no longer come once, so the
  invariant `Across` says that attempts come one after the other: a reparse, its
  document task and its post-process task are never at work together, and the
  sweep finds none of them (`OneAtATime`); whoever works, works for an attempt
  that was opened (`AttemptsOpened`), so that opening the next one supersedes
  what the old one left in the queue; hence until the new attempt plans its
  subtasks nothing is outstanding (`OldOver`), and the counter may be reset at
  leisure. `CounterKept` is `Counter` again with `Outstanding` in the place of
  `Held`. The case it has to allow for is a sweep or a restart that takes the
  counter while subtasks are queued (`GivenUpNow`): then nobody holds a copy of
  the row from before, and nobody promotes. Both proofs share the lemma on the
  fan-out, `PostBalance`.
- **`JobImplemented`**: `Spec /\ []Undisturbed => ImplementsJob`. Besides
  `Counter` and `Failing` the mapping needs to know how far the row may be
  (`JobInOrder`): still in parsing while the parser is at work, in finalizing
  only behind the seed and as long as an asynq task is owed, and a summary task
  holds no copy of the row but a finalizing one. One lemma for each group of
  actors shows both that this stays and that the step maps (`JobDocStep`,
  `JobPostStep`, `JobSubStep`, `JobCommandStep`). The steps with an argument:
  the enqueue moves a task from `Planned` to `Held`, and so stutters; a Save of
  the summary task writes back the status the row still has; a promotion at
  zero finds, by `Covered`, nothing owed; and the sweep finds by `QuietSweep`
  nothing but wiki ops. `DocumentJob` lets a completed document fail, since a
  document without text is completed by the parser, and the post-processing it
  still queues may end in its dead letter.
- **`SweepSpares`**: `Spec => SweepSparesScanned`. That no queue held a task when
  it was read says nothing of the moment the row is failed, since the reads are
  apart and the pipeline goes on. The invariant `ScanQuiet` says that a queue once
  read stays empty until the sweep is over: document and post-process tasks come
  from a user, or from one another within the default queue, which is read
  first; enrichment tasks come from a post-process task, of which there is none
  behind that read; a retry or a redelivery needs a task that is still there.
  Reading the default queue last breaks it, and is the mutant of the property.
  `ScanOver`: with no queue left, no task is. The other theorems on the counter use
  the same invariant for the sweep.
- **`FailedForGood`**: `Spec => FailedIsFinal`. By `Failing` a failed row has no
  task left but wiki ops and the end of the parser, and no summary task that
  loaded it before it failed is about to save it.
- **`IndexedWhenCompleted`**: `Indexing` says what text is in the two stores at
  each point of the parser, and that a row completes only behind them.
- **`TextStoredOnce`**: `Spec => [](~FlakyStore /\ OneParse =>
  NoDuplicateText)`, for any number of crashes: between the clean-up and the
  write there is no text (`Writing`), whichever run had written it.
- **`CancelledForGood`**: `Spec => CancelHolds`, from what queued tasks may
  still do when they find the row cancelled (`Cancelled`).

**`QaQueueProofs!TypeCorrect`: `Spec => []TypeOK`.** Besides the types, every
queue keeps within `MaxSize`, and the local map never counts below zero. The
step that needs an argument is `Remove`, which cuts an element out of the middle
of the queue (`CutOut`).

**`QaQueueProofs!GateHolds`: `Spec => []GateLimit`.** The limit is about
workers, the guard about a counter, and a failed script lets a worker in that
the counter has not seen; when that worker leaves it takes a slot off the
counter that another holds. The invariant `GateInv` is `gate <= GlobalMax` and
`|Inside| <= gate + faults`: a worker that enters by the script raises both
sides, one that a failure lets in raises the left side and `faults`, one that
leaves lowers both sides. A crash only empties `Inside`; the expiry of the key
needs it empty. `OneMoves`, `GotoMoves` and `NobodyEnters` say how the set
`Inside` changes.

**`QaQueueCounts!UserHolds`: `Spec => []UserLimit`.** The counter in Redis knows
numbers, not questions, so the proof has to show that each DECR pays for a
question that holds a slot. `InPlace` says where questions are: what is in a
queue is a question waiting there (`InQueue`), in one place only (`NoneTwice`);
what a worker handles was taken from the queue of its own instance (`InHand`) by
no other worker (`OneHand`). `UserInv` then bounds the questions that hold a
slot by the limit, and `Uses`, the ones that will still send a DECR, by the
counter, each up to `faults`, one for each INCR that failed. `LocalInv` is the
mode without Redis: the map of a queue is exactly the number of questions of the
user in it, so a map entry never lags behind the queue it guards.

**`QaQueueCounts!SlotsHold`: `Spec => []SlotsMatch`.** The equalities, from the
same invariants and `GateExact`, which says of the gate what the last part of
`UserInv` says of the users. A crash or a failed command ends the claim: after
either the counters are only bounded, until their keys expire. All theorems on
the counters rest on what section 7 says of the queue: no DECR is lost, and a
key does not expire under a question in progress.

**`ImageFanInProofs`.** `TypeCorrect` needs no strengthening. `TextOnce`: `Spec
=> []ImageTextOnce` rests on `OrderInv`, which says where text may be while
nobody died and no run overtook another: not in a run to come (`Fresh`), not for
an image to be sent (`Sending`), nor for a task still before its write
(`Unwritten`). `CounterIsExact` and `PostIsLast` (`Spec => []CounterExact`,
`Spec => []PostAfterLastImage`) share the invariant `CalmInv`, which holds as
long as Redis answers and nobody dies: the tasks of older runs are over, and all
are while the parser waits (`Old`, `Waiting`); a parser that runs has its number
and has sent what it does not still have to send (`Begun`, `Sent`); a cancelled
row is the work of a cancel (`Cancelling`); and the counter of a row that is not
cancelled is the number of images not counted (`Exact`). `Late` carries the
second theorem: somebody is about to enqueue the post-processing, or it is
queued, only when no image is left; `Complete` hands this on to what the
post-processing has listed. The step with the argument is the DECR:
`OneLessUncounted` says that it takes exactly one image out of a finite set, so
that it meets zero at the last one.

**`WikiIngestProofs`.** `TypeCorrect` proves the type invariant in parts, one
per group of variables, with the frame of a step as a lemma (`FrameType`).
`BatchesAlone`: `Spec => []OneBatch` from `Holding`: as long as Redis answers, a
worker that runs is the only one, and the key is there. The expiry needs that
nobody runs, and the deferred Del that nobody else runs, which is what makes it
delete its own key. `NothingStranded`: `Spec => []NoStrandedOp` from `Attended`,
the conclusion of the property, kept by every step that adds or leaves a row
(`AttendedStays`), and `Deleting`: a document whose clean-up is under way is
gone, so that no second clean-up takes the place of the first before it has
scheduled its trigger. A trigger that meets the key and stops leaves a batch
that looks at the table again. `SlotIsBacked`: `Spec => []SlotBacked` for any
number of batches that run at once. A row may be trimmed while its slot is owed
only if the batch released the slot first: for the rows it has given up that is
`Released`, which holds from `GiveUp` to `Drop`. `SlotInv` therefore says, of
every batch at work and every owed slot (`Backed`, `Survives`): its row is not
among those the batch peeked, or the batch still holds it as an operation or a
failure, or the document is among those it is about to finalize. That this is
inductive needs that ids are not used twice (`RowIds`), that a document has one
ingest row and a retract only once it is gone (`RowDocs`, with `Seeding` and
`Deleting` on who may insert), and that a batch holds rows as they were written
(`HeldRows`). The lemmas `KeepRow`, `PeekSurvives`, `MapSurvives` and
`StillSurvives` carry it through a batch.

**`WikiIngestProofs!GhostsVanish`**: `Spec /\ [](DeletesApart /\ InsertsInTime)
=> []NoGhostAtRest`. The property speaks of quiet states only; the invariant
`GhostInv` has to say at every step who will remove a reference to a deleted
document. `Chased`: its clean-up has not yet written its retract, or the retract
is the last operation of the document in the table, and every batch that has
peeked it either still has it as an operation or is going to take the document
off the page. `Editing`: a batch about to write a reference back, because it
read the page before or has it among its additions, leaves a retract in the
table that it has not seen. `MissingPages`: a page a batch did not find is not
created behind its back, so it can leave it out. Since a batch works on the last
operation of a document only (`NextBatch`, `LastStays`), a document that was not
yet ingested must not be anywhere (`NothingYet`); this, and the two hypotheses,
is what TLC's counterexamples to weaker forms asked for. That no other batch
interferes is `Holding` again, and at rest nobody can be chasing, so nothing is
referred to.

**`ApprovalGateProofs`.** The invariant `IInv` is `TypeOK` with five conjuncts:
a verdict for a call by a resolver is that of a resolver who asked for this call
and was allowed to (`Genuine`); phase, outcome and verdict go together
(`InStep`); a reply or an acknowledgement, sent or received, is true
(`Resolving`, with `Truthful`); an instance has a request once, in its inbox or
in hand, and has not decided by it before it is read (`InboxOnce`); and a
subscriber works on a call of its own instance (`HandlingOwn`). Three theorems
follow: `RunsAreApproved`: `Spec => []NoUnapprovedRun`, `RepliesAreHonest`:
`Spec => []RepliesHonest`, and **`GateImplementsDecision`: `Spec =>
Implements`**. The last maps every step of the gate to one of the decision or to
a stutter (`StepMaps`). A local delivery that wins is a verdict and an answer in
one step of `ApprovalDecision`; a remote one is first a verdict
(`SubscriberDeliver`) and an answer when the acknowledgement arrives, if it
does, and what makes it true by then is that a verdict is never changed
(`DeliverSettles`).

**`EmbeddingBatcherProofs`.** `TypeCorrect` keeps the batch within its size: one
that is still collected has room. `VectorsAreOwn`: `Spec => []OwnVector` rests
on a fact about the operators: the indices of first requests are distinct
(`IndexInjective`), there is a first request for the text of every request
(`FirstExists`), hence `Vector` is that text or nothing (`VectorOwn`).
`OneBatcherHolds`: `Spec => []OneBatcher` from `OpenInv`: every open batcher is
the registered one, which the second look under the write lock keeps.

**Only model-checked:** all liveness (`Settles`, `LeavesProcessing`,
`SlotsDrain`, both `Answered`, `WorkersExit`, `CallsEnd`, `ResolversReturn`,
`ShutdownEnds`), which the prover does not handle under fairness.

## 7. What is left out

*In the lifecycle.* Chunk and image content, storage accounting, spans and
heartbeats (only the attempt number is kept), progress columns, move and clone
of documents, and Lite mode as a run of its own (tasks run in the process,
without a queue the inspector sees: `InspectorSees = FALSE` and `MaxCrash = 0`).
A wiki op is one step there, and the fan-out of images is none: `WikiIngest` and
`ImageFanIn` have them in detail, each with the part of the row it touches, and
are not composed with the lifecycle. The deletion of summary chunks by another
task's clean-up is modelled, their content is not. Question and graph tasks
write chunks and graph nodes of their own that no property distinguishes; only
their effect on the counter is kept. `pending` rows without a task (a failed
enqueue at upload) are in the model, but no property asks for their recovery:
neither sweep looks at them before a restart.

*In the images.* What an image yields, the status columns of its chunks, the
spans, and everything of the parser before its fan-out.

*In the sweep.* The time thresholds and the span heartbeats that select a row, and
the single lists and pages of a queue, which are what `MaxMiss` stands for. The
queue of the image tasks is not read in the model, whose document has none. It is
scanned after the default queue, into which the last image enqueues the
post-processing (`image_multimodal.go:617`); for documents with images the argument
of section 6 therefore has a gap of its own.

*In the wiki.* A reparse begins when the post-processing before it has queued
its operation: an older `EnqueueWikiIngest` does not run between its scrub and
its reset, whose two statements (status, counter) are one step. The text of
pages, links between them, the index and log pages, folders, the merging and
renaming of slugs by the language model, and the lock of Lite mode.

*In the approval.* The checks of tenant and user are one choice whether the
resolver is allowed; identifiers that clash, and the checker that decides
whether a tool needs approval, are left out.

*In the batcher.* Statistics and gauges; several models, which share nothing but
the mutex of the manager. The write buffer beside it is constructed by its tests
only.

*In the queue.* The map of running questions of an instance and the stop through
the stream manager; DECR commands that fail (the counter is then too high until
its key expires); a key that expires under a question longer than five minutes,
after which the counter is too low; the duplicate filter and the rate limiter in
front of the queue.

*Everything else* is listed in section 1 and, with the reason, under
`components` in `PROJECT.json`. Most of the repository is of no use to a model
checker: handlers that decode a request and call a service, drivers of vector
stores and models, text splitting and ranking, the generated API description,
the frontend and the clients keep no state that several actors share. The
hazards no property covers carry a note saying why.
