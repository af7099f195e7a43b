------------------------------ MODULE ImageFanIn ------------------------------
(***************************************************************************)
(* The images of one document: processChunks sets the Redis counter        *)
(* multimodal:pending:<id> and sends one task per image (knowledge_        *)
(* process.go), every task takes itself off the counter when it ends, and  *)
(* the last one enqueues the post-processing that plans the enrichment     *)
(* (image_multimodal.go, knowledge_post_process.go).  Without Redis (Lite  *)
(* mode) every image enqueues it.                                          *)
(*                                                                         *)
(* The parser before its fan-out and the enrichment after the seeding are  *)
(* the subject of KnowledgeLifecycle.  A key that does not exist counts    *)
(* as 0, which is what DECR makes of it.                                   *)
(***************************************************************************)
EXTENDS Integers, FiniteSets

CONSTANTS Images,     \* images extracted from the document, numbered
          Posters,    \* asynq workers for the post-processing
          Modes,      \* subset of BOOLEAN: with Redis, without
          MaxTry,     \* retries of an image task (25 by default)
          MaxFan,     \* bound: runs of the parser
          Events,     \* bound: what may happen besides
          MaxEvents   \* bound: how many of them

EventKinds == {"redis", "expire", "send", "enqueue", "crash", "cancel", "reparse", "overlap"}

ASSUME ImageAssumption ==
    /\ Images \subseteq Nat /\ IsFiniteSet(Images) /\ Images # {}
    /\ Modes \subseteq BOOLEAN
    /\ MaxTry \in Nat
    /\ MaxFan \in Nat \ {0}
    /\ Events \subseteq EventKinds
    /\ MaxEvents \in Nat

VARIABLES
    redis,     \* Redis is configured
    status,    \* parse_status
    parse,     \* where the parser is
    toSend,    \* images the parser has not sent yet
    fan,       \* number of the parser's run
    counter,   \* multimodal:pending
    task,      \* the image tasks of every run
    texts,     \* per task: how often it wrote its OCR and caption chunks
    posts,     \* post-processing tasks in the queue
    plan,      \* per poster: what it has listed
    missed,    \* images the seeding of the enrichment knew nothing of
    cancel,    \* a cancel call has yet to empty the queue
    events     \* what has happened

parseVars == <<parse, toSend, fan>>
imageVars == <<task, texts>>
postVars == <<posts, plan, missed>>
vars == <<redis, status, parseVars, counter, imageVars, postVars, cancel, events>>

Tasks == (1..MaxFan) \X Images
NoPlan == [listed |-> FALSE, missing |-> {}]
NoTask == [pc |-> "none", try |-> 0]

\* Bound: an overlapping reparse is combined with a cancel only, and it is only
\* there where there is a counter.
Event(kind) ==
    /\ kind \in Events \ events /\ Cardinality(events) < MaxEvents
    /\ events' = events \union {kind}
    /\ "overlap" \in events' => redis /\ events' \subseteq {"cancel", "overlap"}

Ended == {"lost", "dead", "done"}
Running == {"work", "count", "clear", "post"}
Goto(t, next) ==
    task' = [task EXCEPT ![t] = [pc |-> next, try |-> IF next \in Ended THEN 0 ELSE @.try]]
Retry(t) == task' = [task EXCEPT ![t] = [pc |-> "queued", try |-> @.try + 1]]

\* The image needs no more work: it was read, skipped or given up.
Settled(t) == task[t].pc \in {"count", "clear", "post"} \union Ended
-------------------------------------------------------------------------------
(* The parser.                                                              *)

\* The row goes to processing, the chunks of an earlier run are dropped.
ParseStart ==
    /\ parse = "queued" /\ fan < MaxFan
    /\ IF status = "cancelled"
       THEN parse' = "done" /\ UNCHANGED <<status, fan, texts>>
       ELSE /\ parse' = "save"
            /\ status' = "processing"
            /\ fan' = fan + 1
            /\ texts' = [t \in Tasks |-> 0]
    /\ UNCHANGED <<redis, toSend, counter, task, postVars, cancel, events>>

\* The last abort check, the Save of the row, and the SET of the counter, whose
\* failure is logged.
ParseSet ==
    /\ parse = "save"
    /\ IF status = "cancelled"
       THEN parse' = "done" /\ UNCHANGED <<status, toSend, counter, events>>
       ELSE /\ parse' = "send"
            /\ status' = "processing"
            /\ toSend' = Images
            /\ \/ counter' = (IF redis THEN Cardinality(Images) ELSE counter) /\ UNCHANGED events
               \/ redis /\ Event("redis") /\ UNCHANGED counter
    /\ UNCHANGED <<redis, fan, imageVars, postVars, cancel>>

\* One task per image, in their order; a failed Enqueue is logged.
ParseSend(i) ==
    /\ parse = "send" /\ i \in toSend /\ \A j \in toSend : i <= j
    /\ \/ Goto(<<fan, i>>, "queued") /\ UNCHANGED events
       \/ Event("send") /\ Goto(<<fan, i>>, "lost")
    /\ toSend' = toSend \ {i}
    /\ parse' = IF toSend' = {} THEN "done" ELSE "send"
    /\ UNCHANGED <<redis, status, fan, counter, texts, postVars, cancel>>

\* The worker of the parser dies and its task is delivered again.
ParseCrash ==
    /\ redis /\ parse \in {"save", "send"} /\ fan < MaxFan
    /\ Event("crash")
    /\ parse' = "queued" /\ toSend' = {}
    /\ UNCHANGED <<redis, status, fan, counter, imageVars, postVars, cancel>>
-------------------------------------------------------------------------------
(* An image task.                                                           *)

\* The row of an aborted document ends the task before its deferred count.
ImageStart(t) ==
    /\ task[t].pc = "queued"
    /\ Goto(t, IF status = "cancelled" THEN "done" ELSE "work")
    /\ UNCHANGED <<redis, status, parseVars, counter, texts, postVars, cancel, events>>

\* The image cannot be read, or there is no text in it.
ImageSkipped(t) ==
    /\ task[t].pc = "work"
    /\ Goto(t, "count")
    /\ UNCHANGED <<redis, status, parseVars, counter, texts, postVars, cancel, events>>

\* Mutant: a failed BatchIndex makes asynq try the image again.
ImageStoredNotIndexed(t) ==
    /\ task[t].pc = "work"
    /\ texts' = [texts EXCEPT ![t] = @ + 1]
    /\ IF task[t].try < MaxTry THEN Retry(t) \/ Goto(t, "count") ELSE Goto(t, "count")
    /\ UNCHANGED <<redis, status, parseVars, counter, postVars, cancel, events>>

\* Its chunks are created; whether they can be indexed does not matter.
ImageStored(t) ==
    /\ task[t].pc = "work"
    /\ texts' = [texts EXCEPT ![t] = @ + 1]
    /\ Goto(t, "count")
    /\ UNCHANGED <<redis, status, parseVars, counter, postVars, cancel, events>>

\* isFinalAsynqAttempt, which no goroutine of the Lite mode ever is.
Final(t) == redis /\ task[t].try = MaxTry

\* Mutant: the deferred count runs on every failed try.
ImageFailsCounted(t) ==
    /\ task[t].pc = "work"
    /\ IF task[t].try < MaxTry
       THEN Retry(t) /\ counter' = counter - 1
       ELSE Goto(t, "count") /\ UNCHANGED counter
    /\ UNCHANGED <<redis, status, parseVars, texts, postVars, cancel, events>>

\* Mutant: one try too many.
ImageFailsOnceMore(t) ==
    /\ task[t].pc = "work"
    /\ IF task[t].try <= MaxTry THEN Retry(t) ELSE Goto(t, "count")
    /\ UNCHANGED <<redis, status, parseVars, counter, texts, postVars, cancel, events>>

\* Mutant: no failed try counts the image.
ImageFailsUncounted(t) ==
    /\ task[t].pc = "work"
    /\ IF task[t].try < MaxTry THEN Retry(t) ELSE Goto(t, "done")
    /\ UNCHANGED <<redis, status, parseVars, counter, texts, postVars, cancel, events>>

\* The model cannot be resolved or the chunks not created: the image is tried
\* again and counted only when that was the last try.
ImageFails(t) ==
    /\ task[t].pc = "work"
    /\ IF Final(t) THEN Goto(t, "count")
       ELSE IF task[t].try < MaxTry THEN Retry(t)
       ELSE Goto(t, "dead")
    /\ UNCHANGED <<redis, status, parseVars, counter, texts, postVars, cancel, events>>

\* DECR; its failure enqueues the post-processing all the same.
ImageCount(t) ==
    /\ task[t].pc = "count"
    /\ \/ /\ redis
          /\ counter' = counter - 1
          /\ Goto(t, IF counter' <= 0 THEN "clear" ELSE "done")
          /\ UNCHANGED events
       \/ /\ (~redis /\ UNCHANGED events) \/ (redis /\ Event("redis"))
          /\ Goto(t, "post")
          /\ UNCHANGED counter
    /\ UNCHANGED <<redis, status, parseVars, texts, postVars, cancel>>

\* DEL of the counter.
ImageClear(t) ==
    /\ task[t].pc = "clear"
    /\ counter' = 0
    /\ Goto(t, "post")
    /\ UNCHANGED <<redis, status, parseVars, texts, postVars, cancel, events>>

\* enqueueKnowledgePostProcessTask, whose failure is logged.
ImagePost(t) ==
    /\ task[t].pc = "post"
    /\ \/ posts' = posts + 1 /\ UNCHANGED events
       \/ Event("enqueue") /\ UNCHANGED posts
    /\ Goto(t, "done")
    /\ UNCHANGED <<redis, status, parseVars, counter, texts, plan, missed, cancel>>

\* The worker of an image dies: asynq delivers the task again, or gives it up
\* when that was its last try.
ImageCrash(t) ==
    /\ redis /\ task[t].pc \in Running
    /\ Event("crash")
    /\ IF task[t].try < MaxTry THEN Retry(t) ELSE Goto(t, "dead")
    /\ UNCHANGED <<redis, status, parseVars, counter, texts, postVars, cancel>>

\* The key outlives its 24 hours.
Expire ==
    /\ redis /\ counter # 0
    /\ Event("expire")
    /\ counter' = 0
    /\ UNCHANGED <<redis, status, parseVars, imageVars, postVars, cancel>>
-------------------------------------------------------------------------------
(* The post-processing.                                                     *)

\* The row is read and the chunks are listed.
PostList(p) ==
    /\ ~plan[p].listed /\ posts > 0
    /\ posts' = posts - 1
    /\ plan' = IF status = "processing"
               THEN [plan EXCEPT ![p] =
                        [listed |-> TRUE,
                         missing |-> {i \in Images : fan > 0 => ~Settled(<<fan, i>>)}]]
               ELSE plan
    /\ UNCHANGED <<redis, status, parseVars, counter, imageVars, missed, cancel, events>>

\* SetFinalizing, guarded by the status.
PostSeed(p) ==
    /\ plan[p].listed
    /\ plan' = [plan EXCEPT ![p] = NoPlan]
    /\ IF status = "processing"
       THEN status' = "finalizing" /\ missed' = plan[p].missing
       ELSE UNCHANGED <<status, missed>>
    /\ UNCHANGED <<redis, parseVars, counter, imageVars, posts, cancel, events>>
-------------------------------------------------------------------------------
(* The user.                                                                *)

\* CancelKnowledgeParse: the status, then the tasks that are still queued.
CancelMark ==
    /\ ~cancel /\ status \in {"pending", "processing", "finalizing"}
    /\ Event("cancel")
    /\ status' = "cancelled" /\ cancel' = TRUE
    /\ UNCHANGED <<redis, parseVars, counter, imageVars, postVars>>

CancelDequeue ==
    /\ cancel
    /\ cancel' = FALSE
    /\ task' = [t \in Tasks |-> IF task[t].pc = "queued" THEN [pc |-> "done", try |-> 0]
                                ELSE task[t]]
    /\ posts' = 0
    /\ parse' = IF parse = "queued" THEN "done" ELSE parse
    /\ UNCHANGED <<redis, status, toSend, fan, counter, texts, plan, missed, events>>

Quiet ==
    /\ parse = "done" /\ posts = 0 /\ ~cancel
    /\ \A t \in Tasks : task[t].pc \in {"none"} \union Ended
    /\ \A p \in Posters : ~plan[p].listed

\* ReparseKnowledge: of a quiet document, or of one whose tasks still run. It
\* leaves the image tasks and the counter alone.
Reparse ==
    /\ parse = "done" /\ fan < MaxFan
    /\ IF Quiet THEN Event("reparse") ELSE Event("overlap")
    /\ status' = "pending" /\ parse' = "queued"
    /\ UNCHANGED <<redis, toSend, fan, counter, imageVars, postVars, cancel>>
-------------------------------------------------------------------------------
Init ==
    /\ redis \in Modes
    /\ status = "pending"
    /\ parse = "queued" /\ toSend = {} /\ fan = 0
    /\ counter = 0
    /\ task = [t \in Tasks |-> NoTask]
    /\ texts = [t \in Tasks |-> 0]
    /\ posts = 0
    /\ plan = [p \in Posters |-> NoPlan]
    /\ missed = {}
    /\ cancel = FALSE
    /\ events = {}

ParseStep == ParseStart \/ ParseSet \/ \E i \in Images : ParseSend(i)
ImageStep(t) ==
    \/ ImageStart(t) \/ ImageSkipped(t) \/ ImageStored(t) \/ ImageFails(t)
    \/ ImageCount(t) \/ ImageClear(t) \/ ImagePost(t)
PostStep == \E p \in Posters : PostList(p) \/ PostSeed(p)

Next ==
    \/ ParseStep \/ ParseCrash
    \/ \E t \in Tasks : ImageStep(t) \/ ImageCrash(t)
    \/ Expire
    \/ PostStep
    \/ CancelMark \/ CancelDequeue \/ Reparse

\* The workers go on, and a task in a queue is taken up.
Fairness ==
    /\ WF_vars(ParseStep)
    /\ \A t \in Tasks : WF_vars(ImageStep(t))
    /\ WF_vars(PostStep)

Spec == Init /\ [][Next]_vars
FairSpec == Spec /\ Fairness
-------------------------------------------------------------------------------
\* The variables keep their types.
TypeOK ==
    /\ redis \in BOOLEAN
    /\ status \in {"pending", "processing", "finalizing", "cancelled"}
    /\ parse \in {"queued", "save", "send", "done"}
    /\ toSend \subseteq Images
    /\ fan \in 0..MaxFan
    /\ counter \in Int
    /\ task \in [Tasks -> [pc: {"none", "queued"} \union Running \union Ended, try: 0..MaxTry]]
    /\ texts \in [Tasks -> Nat]
    /\ posts \in Nat
    /\ plan \in [Posters -> [listed: BOOLEAN, missing: SUBSET Images]]
    /\ missed \subseteq Images
    /\ cancel \in BOOLEAN
    /\ events \subseteq Events

\* Images of the running attempt that are not taken off the counter yet.
Uncounted ==
    {i \in Images : i \in toSend
                    \/ task[<<fan, i>>].pc \in {"queued", "work", "count", "lost"}}

\* "Intermediate retries skip finalize so we don't double-count": however often
\* images are retried, and in whatever order they end, the counter is the number
\* of images that have not ended, as long as Redis answers, no worker dies and no
\* other run's tasks are about.
CounterExact ==
    redis /\ parse \in {"send", "done"} /\ status # "pending" /\ fan > 0
          /\ events \cap {"redis", "expire", "crash", "cancel", "overlap"} = {} =>
        counter = Cardinality(Uncounted)

\* "we also wait until all images are processed before triggering summary/
\* question generation" (image_multimodal.go): the post-processing that seeds the
\* enrichment listed the chunks after the last image had ended.
PostAfterLastImage ==
    redis /\ events \cap {"redis", "expire", "crash", "overlap"} = {} => missed = {}

\* Retries do not write the text of an image twice into a run of the parser.
ImageTextOnce ==
    events \cap {"crash", "overlap"} = {} =>
        \A t \in Tasks : texts[t] <= 1

\* Given up by asynq, without a count.
Uncountable ==
    IF redis THEN \E t \in Tasks : task[t].pc = "dead"
    ELSE fan > 0 /\ \A i \in Images : task[<<fan, i>>].pc = "dead"

\* "a permanently-failing single image cannot leave the parent knowledge stuck in
\* processing forever": the document leaves processing whatever images fail,
\* whoever dies between the DECR, the DEL and the enqueueing, and whatever Redis
\* loses; only a lost task, or a cancel that empties the queue of a reparse, can
\* pin it.
LeavesProcessing ==
    []<>(\/ status \in {"finalizing", "cancelled"}
         \/ events \cap {"send", "enqueue"} # {}
         \/ {"cancel", "overlap"} \subseteq events
         \/ Uncountable)
===============================================================================
