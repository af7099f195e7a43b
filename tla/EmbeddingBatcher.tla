--------------------------- MODULE EmbeddingBatcher ---------------------------
(***************************************************************************)
(* The embedding of search queries: the manager hands every caller the     *)
(* batcher of its model (embedding_batcher_manager.go), the callers put    *)
(* their texts into its bounded queue, and its worker sends them to the    *)
(* model in batches without duplicates and gives every caller its vector   *)
(* (embedding_batcher.go).  One model; the batchers it gets one after the  *)
(* other are numbered.                                                     *)
(*                                                                         *)
(* The vector of a text is the text itself.                                *)
(***************************************************************************)
EXTENDS Naturals, Sequences, FiniteSets

CONSTANTS Callers,     \* calls of Embed, numbered in the order they begin
          Texts,       \* what they want to be embedded
          MaxBatch,    \* MaxBatchSize
          MaxPending,  \* MaxPendingRequests
          MaxBatchers, \* bound: batchers created
          Nothing,     \* no answer yet
          Nil,         \* an answer without a vector
          Error        \* a failed call, or a context that is done

ASSUME BatcherAssumption ==
    /\ Callers \subseteq Nat
    /\ MaxBatch \in Nat \ {0}
    /\ MaxPending \in Nat \ {0}
    /\ MaxBatchers \in Nat \ {0}
    /\ Nothing \notin Texts \union {Nil, Error}

VARIABLES
    text,       \* the text of a caller
    caller,     \* where a caller is, and its batcher
    reply,      \* ResultChan and ErrChan of its request, with room for one
    registered, \* the batcher in the manager's map; 0 when there is none
    made,       \* batchers created so far
    queue,      \* per batcher: requests in the channel
    worker,     \* per batcher: where its goroutine is
    closed,     \* batchers whose shutdown channel is closed
    stopping    \* the batcher Shutdown waits for, holding the manager's mutex

callVars == <<text, caller, reply>>
managerVars == <<registered, made, closed, stopping>>
vars == <<callVars, managerVars, queue, worker>>

Batchers == 1..MaxBatchers
Replies == Texts \union {Nil, Error}
Idle == [pc |-> "collect", batch |-> <<>>, left |-> {}, failed |-> FALSE, got |-> 0,
         last |-> FALSE]

Goto(c, next, b) == caller' = [caller EXCEPT ![c] = [pc |-> next, at |-> b]]
-------------------------------------------------------------------------------
(* The manager.                                                             *)

\* GetOrCreateBatcher: the look under the read lock.
Lookup(c) ==
    /\ caller[c].pc = "new" /\ \A d \in Callers : d < c => caller[d].pc # "new"
    /\ stopping = 0
    /\ IF registered # 0 THEN Goto(c, "send", registered) ELSE Goto(c, "create", 0)
    /\ UNCHANGED <<text, reply, managerVars, queue, worker>>

\* A batcher and its worker.
New(c) ==
    /\ made < MaxBatchers
    /\ made' = made + 1 /\ registered' = made + 1
    /\ Goto(c, "send", made + 1)

\* Mutant: no second look under the write lock.
CreateUnchecked(c) ==
    /\ caller[c].pc = "create" /\ stopping = 0
    /\ New(c)
    /\ UNCHANGED <<text, reply, closed, stopping, queue, worker>>

\* The second look under the write lock, and the new batcher.
Create(c) ==
    /\ caller[c].pc = "create" /\ stopping = 0
    /\ \/ registered # 0 /\ Goto(c, "send", registered) /\ UNCHANGED <<registered, made>>
       \/ registered = 0 /\ New(c)
    /\ UNCHANGED <<text, reply, closed, stopping, queue, worker>>

\* Shutdown closes the batcher and waits for its worker, under the mutex.
Shutdown ==
    /\ stopping = 0 /\ registered # 0
    /\ closed' = closed \union {registered}
    /\ stopping' = registered
    /\ UNCHANGED <<callVars, registered, made, queue, worker>>

ShutdownReturns ==
    /\ stopping # 0 /\ worker[stopping].pc = "exit"
    /\ registered' = 0 /\ stopping' = 0
    /\ UNCHANGED <<callVars, made, closed, queue, worker>>
-------------------------------------------------------------------------------
(* A caller.                                                                *)

\* The request goes into the queue unless that is full.
Enqueue(c) ==
    /\ caller[c].pc = "send"
    /\ LET b == caller[c].at
       IN  IF Len(queue[b]) < MaxPending
           THEN Goto(c, "waiting", b) /\ queue' = [queue EXCEPT ![b] = Append(@, c)]
           ELSE Goto(c, "direct", b) /\ UNCHANGED queue
    /\ UNCHANGED <<text, reply, managerVars, worker>>

Return(c) == Goto(c, "done", 0)

\* The queue was full: a call of the model with this text alone, whose outcome
\* is returned as it is.
Direct(c) ==
    /\ caller[c].pc = "direct"
    /\ Return(c)
    /\ UNCHANGED <<text, reply, managerVars, queue, worker>>

Receive(c) ==
    /\ caller[c].pc = "waiting" /\ reply[c] # Nothing
    /\ Return(c)
    /\ reply' = [reply EXCEPT ![c] = Nothing]
    /\ UNCHANGED <<text, managerVars, queue, worker>>

\* The caller's context is done: it leaves its request where it is.
Leave(c) ==
    /\ caller[c].pc = "waiting"
    /\ Return(c)
    /\ UNCHANGED <<text, reply, managerVars, queue, worker>>
-------------------------------------------------------------------------------
(* The worker.                                                              *)

\* Mutant: the batch is sent when it is larger than MaxBatch.
TakeOneMore(b) ==
    /\ worker[b].pc = "collect" /\ queue[b] # <<>> /\ b <= made
    /\ LET batch == Append(worker[b].batch, Head(queue[b]))
       IN  worker' = [worker EXCEPT ![b].batch = batch,
                                    ![b].pc = IF Len(batch) > MaxBatch THEN "call" ELSE @]
    /\ queue' = [queue EXCEPT ![b] = Tail(@)]
    /\ UNCHANGED <<callVars, managerVars>>

\* A request joins the batch, which is sent once it is full. The select may
\* take this case although the batcher is closed.
Take(b) ==
    /\ worker[b].pc = "collect" /\ queue[b] # <<>> /\ b <= made
    /\ LET batch == Append(worker[b].batch, Head(queue[b]))
       IN  worker' = [worker EXCEPT ![b].batch = batch,
                                    ![b].pc = IF Len(batch) >= MaxBatch THEN "call" ELSE @]
    /\ queue' = [queue EXCEPT ![b] = Tail(@)]
    /\ UNCHANGED <<callVars, managerVars>>

\* The timer sends what there is.
Flush(b) ==
    /\ worker[b].pc = "collect" /\ worker[b].batch # <<>>
    /\ worker' = [worker EXCEPT ![b].pc = "call"]
    /\ UNCHANGED <<callVars, managerVars, queue>>

\* The closed shutdown channel: what was taken is sent, what is still queued is
\* not looked at.
Stop(b) ==
    /\ worker[b].pc = "collect" /\ b \in closed
    /\ worker' = [worker EXCEPT ![b].pc = IF worker[b].batch = <<>> THEN "exit" ELSE "call",
                                ![b].last = TRUE]
    /\ UNCHANGED <<callVars, managerVars, queue>>

\* The texts of a batch, each at the position of its first request.
Firsts(batch) ==
    {i \in DOMAIN batch : \A j \in 1..(i - 1) : text[batch[j]] # text[batch[i]]}
First(batch, p) == CHOOSE i \in Firsts(batch) : text[batch[i]] = text[batch[p]]

\* Index of a first request in the list of texts, and the text at an index.
Index(batch, i) == Cardinality({j \in Firsts(batch) : j <= i})
TextAt(batch, k) == text[batch[CHOOSE i \in Firsts(batch) : Index(batch, i) = k]]

\* The model answers for the texts in their order, perhaps for fewer, or fails.
Call(b) ==
    /\ worker[b].pc = "call"
    /\ \E failed \in BOOLEAN, got \in 0..Cardinality(Firsts(worker[b].batch)) :
        /\ failed => got = 0
        /\ worker' = [worker EXCEPT ![b].pc = "distribute", ![b].failed = failed,
                        ![b].got = got, ![b].left = DOMAIN worker[b].batch]
    /\ UNCHANGED <<callVars, managerVars, queue>>

\* Mutant: the texts are gone through in another order than they were sent in.
VectorOtherOrder(batch, got, p) ==
    LET k == Cardinality(Firsts(batch)) + 1 - Index(batch, First(batch, p))
    IN  IF k <= got THEN TextAt(batch, k) ELSE Nil

\* The vector for the request at a position: that of its text, if there is one.
Vector(batch, got, p) ==
    LET k == Index(batch, First(batch, p))
    IN  IF k <= got THEN TextAt(batch, k) ELSE Nil

\* Mutant: channels without room, which take a value when the caller waits.
HasRoomForReader(c) == reply[c] = Nothing /\ caller[c].pc = "waiting"

\* The channels of a request have room for one value, whoever waits.
HasRoom(c) == reply[c] = Nothing

\* The send to one request of the batch. They are sent in the order of the
\* texts; no order makes a difference as long as none of them blocks.
Send(b, p) ==
    /\ worker[b].pc = "distribute" /\ p \in worker[b].left
    /\ LET work == worker[b]
           c == work.batch[p]
       IN  /\ HasRoom(c)
           /\ reply' = [reply EXCEPT ![c] =
                IF work.failed THEN Error ELSE Vector(work.batch, work.got, p)]
           /\ worker' = [worker EXCEPT ![b] =
                IF work.left # {p} THEN [work EXCEPT !.left = @ \ {p}]
                ELSE [Idle EXCEPT !.pc = IF work.last THEN "exit" ELSE "collect"]]
    /\ UNCHANGED <<text, caller, managerVars, queue>>
-------------------------------------------------------------------------------
Init ==
    /\ text \in [Callers -> Texts]
    /\ caller = [c \in Callers |-> [pc |-> "new", at |-> 0]]
    /\ reply = [c \in Callers |-> Nothing]
    /\ registered = 0 /\ made = 0
    /\ queue = [b \in Batchers |-> <<>>]
    /\ worker = [b \in Batchers |-> Idle]
    /\ closed = {} /\ stopping = 0

CallerStep(c) == Enqueue(c) \/ Direct(c) \/ Receive(c)
WorkerStep(b) ==
    \/ Take(b) \/ Flush(b) \/ Stop(b) \/ Call(b)
    \/ \E p \in worker[b].left : Send(b, p)

Next ==
    \/ \E c \in Callers : Lookup(c) \/ Create(c) \/ CallerStep(c) \/ Leave(c)
    \/ \E b \in Batchers : WorkerStep(b)
    \/ Shutdown \/ ShutdownReturns

\* Goroutines that can go on do; the timer fires; the model answers or its
\* context of 30 seconds runs out. No caller's context need be done.
Fairness ==
    /\ \A c \in Callers : WF_vars(CallerStep(c))
    /\ \A b \in Batchers : WF_vars(WorkerStep(b))
    /\ WF_vars(ShutdownReturns)

Spec == Init /\ [][Next]_vars
FairSpec == Spec /\ Fairness
-------------------------------------------------------------------------------
Work == [pc: {"collect", "call", "distribute", "exit"}, batch: Seq(Callers),
         left: SUBSET Nat, failed: BOOLEAN, got: Nat, last: BOOLEAN]

\* The variables keep their types, the queue and the batch their sizes.
TypeOK ==
    /\ text \in [Callers -> Texts]
    /\ caller \in [Callers -> [pc: {"new", "create", "send", "direct", "waiting", "done"},
                               at: 0..MaxBatchers]]
    /\ \A c \in Callers : caller[c].pc \in {"send", "direct", "waiting"} => caller[c].at # 0
    /\ reply \in [Callers -> Replies \union {Nothing}]
    /\ made \in 0..MaxBatchers
    /\ registered \in 0..made
    /\ queue \in [Batchers -> Seq(Callers)]
    /\ \A b \in Batchers : Len(queue[b]) <= MaxPending
    /\ worker \in [Batchers -> Work]
    /\ \A b \in Batchers : /\ Len(worker[b].batch) <= MaxBatch
                           /\ worker[b].left \subseteq DOMAIN worker[b].batch
    /\ closed \subseteq Batchers
    /\ stopping \in 0..made

\* "Map iteration in Go is randomized, so iterating textToIdx directly would
\* misroute embeddings": however requests for the same text are merged and
\* however few vectors the model returns, nobody gets the vector of another text.
OwnVector == \A c \in Callers : reply[c] \in {text[c], Nil, Error, Nothing}

\* At most one batcher of the model is open at a time, whoever asks for it first,
\* so that requests meet in one batch and no worker is left running for ever.
OneBatcher == \A b, d \in (1..made) \ closed : b = d

\* Every caller gets an answer, also when others have given up waiting, when the
\* model fails or returns too little: except for a request that is still in the
\* queue of a batcher that was shut down.
Answered ==
    \A c \in Callers :
        []<>(\/ caller[c].pc \notin {"send", "direct", "waiting"}
             \/ \E b \in closed : \E i \in DOMAIN queue[b] : queue[b][i] = c)

\* Shutdown returns, whatever callers have left, and with it the manager's mutex
\* is free.
ShutdownEnds == []<>(stopping = 0)
===============================================================================
