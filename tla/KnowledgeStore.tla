--------------------------- MODULE KnowledgeStore ---------------------------
(***************************************************************************)
(* The state the document pipeline shares: one row of the table            *)
(* "knowledges", the attempt counter of the span table, the chunks and     *)
(* vectors written for the document, and the asynq task records.  Every    *)
(* operator that ends in a primed row is one SQL statement of              *)
(* internal/application/repository/knowledge.go; the modules that extend   *)
(* this one build the handlers out of them.                                *)
(*                                                                         *)
(* Rows of different documents never meet, so one row is modelled.         *)
(***************************************************************************)
EXTENDS Naturals, FiniteSets

CONSTANTS
    Slots,          \* enrichment subtasks one fan-out may plan
    SummarySlot,    \* the summary task among them
    WikiSlot,       \* the wiki-ingest op; not in Slots when wiki is off
    MaxRetry,       \* asynq.MaxRetry of every task
    MaxReparse,     \* bound: how often the user asks for a reparse
    MaxCrash,       \* bound: how often a worker dies inside a handler
    NeedsEmbedding, \* kb.NeedsEmbeddingModel(): are vectors written at all
    FlakyStore      \* may a statement whose error is only logged fail

ASSUME StoreAssumption ==
    /\ IsFiniteSet(Slots)
    /\ SummarySlot \in Slots
    /\ SummarySlot # WikiSlot
    /\ MaxRetry \in Nat
    /\ MaxReparse \in Nat
    /\ MaxCrash \in Nat
    /\ NeedsEmbedding \in BOOLEAN
    /\ FlakyStore \in BOOLEAN

VARIABLES
    row,      \* the knowledge row: parse_status, pending_subtasks_count, ...
    latest,   \* LatestAttempt(knowledge)
    chunks,   \* rows of the chunk table, one element per writer execution
    vectors,  \* entries of the vector index, likewise
    doc,      \* TypeDocumentProcess tasks
    post,     \* TypeKnowledgePostProcess tasks
    sub,      \* summary / question / graph tasks and wiki pending ops
    crashes   \* worker deaths so far

storeVars == <<row, latest, chunks, vectors, doc, post, sub, crashes>>

ParseStatus == {"pending", "processing", "finalizing", "completed",
                "failed", "deleting", "cancelled"}
SummaryStatus == {"none", "pending", "processing", "completed", "failed"}
Aborted == {"deleting", "cancelled"}

Row == [status: ParseStatus, count: Nat, summary: SummaryStatus, gone: BOOLEAN]

\* What a handler holds after GetKnowledgeByID: the columns a later full-row
\* Save will write back.  deleted_at and pending_subtasks_count are omitted
\* from every Save (omitFieldsOnUpdate).
Snapshot == [status: ParseStatus, summary: SummaryStatus]
Snap == [status |-> row.status, summary |-> row.summary]

(***************************************************************************)
(* Task identities.  Task 0 is the one enqueued at upload, task n the one  *)
(* of the n-th reparse.  A run of a task is its asynq retry count; each    *)
(* run of a document task enqueues at most one post-process task, and each *)
(* run of a post-process task at most one task per slot.                   *)
(***************************************************************************)
Runs == 0..MaxRetry
DocIds == 0..MaxReparse
PostIds == DocIds \X Runs
SubIds == [post: PostIds, run: Runs, slot: Slots]

DocPC == {"none", "queued", "loaded", "rechecked", "marked", "convert",
          "clean", "prewrite", "write", "preindex", "index", "unindex",
          "postindex", "save", "fanout", "account", "dead", "done"}
PostPC == {"none", "queued", "loaded", "planned", "seeded", "enqueue",
           "promote", "dead", "done"}
SubPC == {"none", "queued", "running", "loaded", "marked", "saved",
          "indexing", "drain", "promote", "done"}

\* "run" counts the retries so far; "att" is the attempt the run works for;
\* "opens" says that the payload names none, as at every upload.
DocTask == [pc: DocPC, run: Runs, att: Nat, opens: BOOLEAN, snap: Snapshot, text: BOOLEAN]
PostTask == [pc: PostPC, run: Runs, att: Nat, todo: SUBSET Slots, short: Nat]
SubTask == [pc: SubPC, run: Runs, att: Nat, snap: Snapshot]

Blank == [status |-> "pending", summary |-> "none"]
NoDoc == [pc |-> "none", run |-> 0, att |-> 0, opens |-> TRUE, snap |-> Blank, text |-> TRUE]
NoPost == [pc |-> "none", run |-> 0, att |-> 0, todo |-> {}, short |-> 0]
NoSub == [pc |-> "none", run |-> 0, att |-> 0, snap |-> Blank]

\* Finished, dequeued or archived: asynq will not run it again and what it
\* held is forgotten.
DocGone == [NoDoc EXCEPT !.pc = "done"]
PostGone == [NoPost EXCEPT !.pc = "done"]
SubGone == [NoSub EXCEPT !.pc = "done"]

Idle == {"none", "done"}
DocActive(d) == doc[d].pc \notin Idle \union {"queued"}
PostActive(p) == post[p].pc \notin Idle \union {"queued"}
SubActive(s) == sub[s].pc \notin Idle \union {"queued"}

\* Rows and vectors are told apart by the handler execution that wrote them.
TextOrigin == {"text"} \X DocIds \X Runs
SummaryOrigin == {"summary"} \X SubIds \X Runs
Origin == TextOrigin \union SummaryOrigin
Text(d) == <<"text", d, doc[d].run>>
SummaryOf(s) == <<"summary", s, sub[s].run>>

(***************************************************************************)
(* One SQL statement each.  A soft-deleted row matches no WHERE clause.    *)
(***************************************************************************)

\* UpdateKnowledge: full-row Save of a struct loaded earlier.
SaveRow(status, summary) ==
    row' = IF row.gone THEN row
           ELSE [row EXCEPT !.status = status, !.summary = summary]

\* UpdateKnowledgeColumn(s): unconditional by id.
SetStatusColumn(status) ==
    row' = IF row.gone THEN row ELSE [row EXCEPT !.status = status]
SetSummaryColumn(summary) ==
    row' = IF row.gone THEN row ELSE [row EXCEPT !.summary = summary]
ResetCountColumn ==
    row' = IF row.gone THEN row ELSE [row EXCEPT !.count = 0]
SetStatusAndResetCount(status) ==
    row' = IF row.gone THEN row ELSE [row EXCEPT !.status = status, !.count = 0]

\* A statement whose error the caller logs and forgets.
BestEffort(Statement) == Statement \/ (FlakyStore /\ UNCHANGED row)

\* DeleteChunksByKnowledgeID, DeleteByKnowledgeIDList called that way.
Erased(written) == IF FlakyStore THEN {{}, written} ELSE {{}}

\* SetFinalizing: the only guarded seed of the counter.
SeedMatches == ~row.gone /\ row.status = "processing"
SetFinalizing(expected) ==
    row' = [row EXCEPT !.status = "finalizing", !.count = expected]

\* FinalizeSubtask, statement 1: clamped decrement whatever the status.
DecrementCount ==
    row' = IF ~row.gone /\ row.count > 0 THEN [row EXCEPT !.count = @ - 1] ELSE row

\* FinalizeSubtask, statement 2: guarded promotion.
PromoteMatchesAnyCount == ~row.gone /\ row.status = "finalizing"   \* Mutant: no "= 0"
PromoteMatches == ~row.gone /\ row.status = "finalizing" /\ row.count = 0
PromoteRow ==
    row' = IF PromoteMatches THEN [row EXCEPT !.status = "completed"] ELSE row

\* asynq: a run that returned an error, or whose worker died, is queued again
\* while the retry budget lasts.  Only the run count and the payload survive.
Retried(blank, task) == [blank EXCEPT !.pc = "queued", !.run = task.run + 1, !.att = task.att]
AfterCrash(blank, task) ==
    IF task.run < MaxRetry THEN Retried(blank, task) ELSE [blank EXCEPT !.pc = "done"]

StoreInit ==
    /\ row = [status |-> "pending", count |-> 0, summary |-> "none", gone |-> FALSE]
    /\ latest = 0
    /\ chunks = {}
    /\ vectors = {}
    /\ doc \in {[d \in DocIds |-> IF d = 0 THEN [NoDoc EXCEPT !.pc = pc] ELSE NoDoc]
                  : pc \in {"queued", "none"}}
    /\ post = [p \in PostIds |-> NoPost]
    /\ sub = [s \in SubIds |-> NoSub]
    /\ crashes = 0

StoreTypeOK ==
    /\ row \in Row
    /\ latest \in Nat
    /\ chunks \subseteq Origin
    /\ vectors \subseteq Origin
    /\ doc \in [DocIds -> DocTask]
    /\ post \in [PostIds -> PostTask]
    /\ sub \in [SubIds -> SubTask]
    /\ crashes \in 0..MaxCrash
=============================================================================
