------------------------ MODULE EmbeddingBatcherProofs ------------------------
(***************************************************************************)
(* The embedding batcher, for any number of callers, texts and batchers:   *)
(* its types and sizes, that a caller gets the vector of its own text or   *)
(* none, and that one batcher of a model is open at a time.                *)
(***************************************************************************)
EXTENDS EmbeddingBatcher, SequenceTheorems, FiniteSetTheorems, WellFoundedInduction, TLAPS

Steps == {"new", "create", "send", "direct", "waiting", "done"}
Placed == {"send", "direct", "waiting"}

CallersTyped ==
    /\ caller \in [Callers -> [pc: Steps, at: 0..MaxBatchers]]
    /\ \A c \in Callers : caller[c].pc \in Placed => caller[c].at # 0
ManagerTyped ==
    /\ made \in 0..MaxBatchers
    /\ registered \in 0..made
    /\ closed \subseteq Batchers
    /\ stopping \in 0..made
RepliesTyped ==
    /\ text \in [Callers -> Texts]
    /\ reply \in [Callers -> Replies \union {Nothing}]
QueuesTyped ==
    /\ queue \in [Batchers -> Seq(Callers)]
    /\ \A b \in Batchers : Len(queue[b]) <= MaxPending

\* What a worker holds; a batch that is still collected has room.
WorkTyped(work) ==
    /\ work \in Work
    /\ Len(work.batch) <= MaxBatch
    /\ work.left \subseteq DOMAIN work.batch
    /\ work.pc = "collect" => Len(work.batch) < MaxBatch
WorkersTyped ==
    /\ worker \in [Batchers -> Work]
    /\ \A b \in Batchers : WorkTyped(worker[b])

TypeInv == CallersTyped /\ ManagerTyped /\ RepliesTyped /\ QueuesTyped /\ WorkersTyped

\* The strengthened types imply the types.
LEMMA TypeInvImplies == TypeInv => TypeOK
BY DEF TypeInv, CallersTyped, ManagerTyped, RepliesTyped, QueuesTyped, WorkersTyped,
       WorkTyped, TypeOK, Steps, Placed

\* The first requests of a batch are finitely many positions.
LEMMA FirstsFinite ==
  ASSUME NEW batch \in Seq(Callers)
  PROVE  /\ Firsts(batch) \subseteq 1..Len(batch)
         /\ IsFiniteSet(Firsts(batch))
         /\ Cardinality(Firsts(batch)) \in Nat
<1>1. Len(batch) \in Nat /\ DOMAIN batch = 1..Len(batch)
  BY LenProperties
<1>2. Firsts(batch) \subseteq 1..Len(batch)
  BY <1>1 DEF Firsts
<1>3. IsFiniteSet(1..Len(batch))
  BY <1>1, FS_Interval
<1>4. IsFiniteSet(Firsts(batch))
  BY <1>2, <1>3, FS_Subset
<1> QED
  BY <1>2, <1>4, FS_CardinalityType

\* A worker without a batch is well typed.
LEMMA IdleTyped == WorkTyped(Idle) /\ WorkTyped([Idle EXCEPT !.pc = "exit"])
<1>1. <<>> \in Seq(Callers) /\ Len(<<>>) = 0
  BY EmptySeq
<1>2. Idle \in Work /\ [Idle EXCEPT !.pc = "exit"] \in Work
  BY <1>1 DEF Work, Idle
<1>3. /\ Idle.batch = <<>> /\ Idle.left = {}
      /\ [Idle EXCEPT !.pc = "exit"].batch = <<>> /\ [Idle EXCEPT !.pc = "exit"].left = {}
  BY DEF Idle
<1>4. Len(<<>>) < MaxBatch /\ Len(<<>>) <= MaxBatch
  BY <1>1, BatcherAssumption
<1> QED
  BY <1>2, <1>3, <1>4 DEF WorkTyped

\* Every initial state has its types.
LEMMA InitType == Init => TypeInv
<1> SUFFICES ASSUME Init PROVE TypeInv
  OBVIOUS
<1>1. CallersTyped /\ ManagerTyped /\ RepliesTyped
  BY BatcherAssumption DEF Init, CallersTyped, ManagerTyped, RepliesTyped, Steps, Placed, Replies, Batchers
<1>2. QueuesTyped
  <2>1. <<>> \in Seq(Callers) /\ Len(<<>>) = 0
    BY EmptySeq
  <2> QED
    BY <2>1, BatcherAssumption DEF Init, QueuesTyped
<1>3. WorkersTyped
  BY IdleTyped DEF Init, WorkersTyped, WorkTyped
<1> QED
  BY <1>1, <1>2, <1>3 DEF TypeInv

\* A caller that moves keeps its type, and has its batcher while it needs one.
LEMMA GotoType ==
  ASSUME CallersTyped, NEW c \in Callers, NEW next \in Steps, NEW b \in 0..MaxBatchers,
         next \in Placed => b # 0, Goto(c, next, b)
  PROVE  CallersTyped'
<1>1. [pc |-> next, at |-> b] \in [pc: Steps, at: 0..MaxBatchers]
  OBVIOUS
<1>2. \A d \in Callers : caller'[d] = IF d = c THEN [pc |-> next, at |-> b] ELSE caller[d]
  BY DEF Goto, CallersTyped
<1> QED
  BY <1>1, <1>2 DEF CallersTyped, Goto

\* What a step leaves alone keeps its type.
LEMMA FrameType ==
  ASSUME TypeInv
  PROVE  /\ UNCHANGED caller => CallersTyped'
         /\ UNCHANGED managerVars => ManagerTyped'
         /\ UNCHANGED <<text, reply>> => RepliesTyped'
         /\ UNCHANGED queue => QueuesTyped'
         /\ UNCHANGED worker => WorkersTyped'
BY DEF TypeInv, CallersTyped, ManagerTyped, RepliesTyped, QueuesTyped, WorkersTyped, WorkTyped,
       managerVars

\* A step of the manager keeps the types.
LEMMA ManagerType ==
  ASSUME TypeInv,
         \/ \E c \in Callers : Lookup(c) \/ Create(c)
         \/ Shutdown \/ ShutdownReturns
  PROVE  TypeInv'
<1>0. /\ made \in 0..MaxBatchers /\ registered \in 0..made /\ MaxBatchers \in Nat
      /\ closed \subseteq Batchers /\ stopping \in 0..made /\ CallersTyped
  BY BatcherAssumption DEF TypeInv, ManagerTyped
<1>1. ASSUME NEW c \in Callers, Lookup(c) PROVE TypeInv'
  <2>1. registered \in 0..MaxBatchers /\ 0 \in 0..MaxBatchers
    BY <1>0
  <2>2. CallersTyped'
    <3>1. CASE registered # 0
      <4>1. Goto(c, "send", registered)
        BY <1>1, <3>1 DEF Lookup
      <4> QED
        BY <1>0, <2>1, <3>1, <4>1, GotoType DEF Steps
    <3>2. CASE registered = 0
      <4>1. Goto(c, "create", 0)
        BY <1>1, <3>2 DEF Lookup
      <4> QED
        BY <1>0, <2>1, <4>1, GotoType DEF Steps, Placed
    <3> QED
      BY <3>1, <3>2
  <2>3. UNCHANGED <<text, reply>> /\ UNCHANGED managerVars /\ UNCHANGED queue /\ UNCHANGED worker
    BY <1>1 DEF Lookup
  <2> QED
    BY <2>2, <2>3, FrameType DEF TypeInv
<1>2. ASSUME NEW c \in Callers, Create(c) PROVE TypeInv'
  <2>1. UNCHANGED <<text, reply>> /\ UNCHANGED queue /\ UNCHANGED worker
        /\ UNCHANGED closed /\ UNCHANGED stopping
    BY <1>2 DEF Create
  <2>2. CASE registered # 0 /\ Goto(c, "send", registered) /\ UNCHANGED <<registered, made>>
    <3>1. registered \in 0..MaxBatchers
      BY <1>0
    <3>2. CallersTyped'
      BY <1>0, <2>2, <3>1, GotoType DEF Steps
    <3>3. ManagerTyped'
      BY <1>0, <2>1, <2>2 DEF ManagerTyped
    <3> QED
      BY <2>1, <3>2, <3>3, FrameType DEF TypeInv
  <2>3. CASE New(c)
    <3>1. /\ made + 1 \in 1..MaxBatchers
          /\ made' = made + 1 /\ registered' = made + 1
          /\ Goto(c, "send", made + 1)
      BY <1>0, <2>3 DEF New
    <3>2. made + 1 \in 0..MaxBatchers /\ made + 1 # 0
      BY <1>0, <3>1
    <3>3. CallersTyped'
      BY <1>0, <3>1, <3>2, GotoType DEF Steps
    <3>4. ManagerTyped'
      BY <1>0, <2>1, <3>1, <3>2 DEF ManagerTyped
    <3> QED
      BY <2>1, <3>3, <3>4, FrameType DEF TypeInv
  <2> QED
    BY <1>2, <2>2, <2>3 DEF Create
<1>3. CASE Shutdown
  <2>1. ManagerTyped'
    BY <1>0, <1>3 DEF Shutdown, ManagerTyped, Batchers
  <2> QED
    BY <1>3, <2>1, FrameType DEF TypeInv, Shutdown, callVars
<1>4. CASE ShutdownReturns
  <2>1. ManagerTyped'
    BY <1>0, <1>4 DEF ShutdownReturns, ManagerTyped
  <2> QED
    BY <1>4, <2>1, FrameType DEF TypeInv, ShutdownReturns, callVars
<1> QED
  BY <1>1, <1>2, <1>3, <1>4

\* A step of a caller keeps the types, and the queue its size.
LEMMA CallerType ==
  ASSUME TypeInv, NEW c \in Callers, CallerStep(c) \/ Leave(c)
  PROVE  TypeInv'
<1>0. /\ MaxBatchers \in Nat \ {0} /\ MaxPending \in Nat
      /\ 0 \in 0..MaxBatchers /\ CallersTyped /\ QueuesTyped
  BY BatcherAssumption DEF TypeInv
<1>1. CASE Enqueue(c)
  <2> DEFINE b == caller[c].at
  <2>0. /\ caller[c].pc = "send"
        /\ b \in 0..MaxBatchers /\ b \in Batchers /\ b # 0
    BY <1>0, <1>1 DEF Enqueue, CallersTyped, Batchers, Placed
  <2>00. queue[b] \in Seq(Callers) /\ Len(queue[b]) \in Nat
    BY <1>0, <2>0, LenProperties DEF QueuesTyped
  <2>1. CASE Len(queue[b]) < MaxPending
    <3>1. /\ Goto(c, "waiting", b)
          /\ queue' = [queue EXCEPT ![b] = Append(queue[b], c)]
          /\ UNCHANGED <<text, reply>> /\ UNCHANGED managerVars /\ UNCHANGED worker
      BY <1>1, <2>1 DEF Enqueue
    <3>2. /\ Append(queue[b], c) \in Seq(Callers)
          /\ Len(Append(queue[b], c)) = Len(queue[b]) + 1
      BY <2>00, AppendProperties
    <3>3. QueuesTyped'
      <4> HIDE DEF b
      <4>1. \A d \in Batchers : queue'[d] = IF d = b THEN Append(queue[b], c) ELSE queue[d]
        BY <1>0, <2>0, <3>1 DEF QueuesTyped
      <4>2. Len(Append(queue[b], c)) <= MaxPending
        BY <1>0, <2>00, <2>1, <3>2
      <4>3. \A d \in Batchers : Len(queue'[d]) <= MaxPending
        BY <1>0, <4>1, <4>2 DEF QueuesTyped
      <4>4. queue' \in [Batchers -> Seq(Callers)]
        BY <1>0, <2>0, <3>1, <3>2 DEF QueuesTyped
      <4> QED
        BY <4>3, <4>4 DEF QueuesTyped
    <3>4. CallersTyped'
      BY <1>0, <2>0, <3>1, GotoType DEF Steps
    <3> QED
      BY <3>1, <3>3, <3>4, FrameType DEF TypeInv
  <2>2. CASE ~(Len(queue[b]) < MaxPending)
    <3>1. Goto(c, "direct", b) /\ UNCHANGED queue
          /\ UNCHANGED <<text, reply>> /\ UNCHANGED managerVars /\ UNCHANGED worker
      BY <1>1, <2>2 DEF Enqueue
    <3>2. CallersTyped'
      BY <1>0, <2>0, <3>1, GotoType DEF Steps
    <3> QED
      BY <3>1, <3>2, FrameType DEF TypeInv
  <2> QED
    BY <2>1, <2>2
<1>2. ASSUME Return(c) PROVE CallersTyped'
  BY <1>0, <1>2, GotoType DEF Return, Steps, Placed
<1>3. CASE Direct(c) \/ Leave(c)
  BY <1>2, <1>3, FrameType DEF TypeInv, Direct, Leave
<1>4. CASE Receive(c)
  <2>1. RepliesTyped'
    BY <1>4 DEF TypeInv, RepliesTyped, Receive
  <2> QED
    BY <1>2, <1>4, <2>1, FrameType DEF TypeInv, Receive
<1> QED
  BY <1>1, <1>3, <1>4 DEF CallerStep

\* A worker that takes up something else keeps its type.
LEMMA WorkerChanges ==
  ASSUME WorkersTyped, NEW b \in Batchers, NEW work, WorkTyped(work),
         worker' = [worker EXCEPT ![b] = work]
  PROVE  WorkersTyped'
<1>1. \A d \in Batchers : worker'[d] = IF d = b THEN work ELSE worker[d]
  BY DEF WorkersTyped
<1>2. worker' \in [Batchers -> Work]
  BY DEF WorkersTyped, WorkTyped
<1> QED
  BY <1>1, <1>2 DEF WorkersTyped

\* The requests of a batch are callers, at as many positions as it is long.
LEMMA BatchPositions ==
  ASSUME TypeInv, NEW b \in Batchers
  PROVE  /\ worker[b] \in Work
         /\ worker[b].batch \in Seq(Callers)
         /\ Len(worker[b].batch) \in Nat
         /\ DOMAIN worker[b].batch = 1..Len(worker[b].batch)
         /\ \A p \in DOMAIN worker[b].batch : worker[b].batch[p] \in Callers
<1>1. worker[b] \in Work /\ worker[b].batch \in Seq(Callers)
  BY DEF TypeInv, WorkersTyped, Work
<1> QED
  BY <1>1, LenProperties, ElementOfSeq

-------------------------------------------------------------------------------
(* The vector of a request.                                                 *)

\* A set of positions has a least one.
LEMMA Least ==
  ASSUME NEW S, S \subseteq Nat, S # {}
  PROVE  \E i \in S : \A j \in S : i <= j
<1> DEFINE Less == {pair \in Nat \X Nat : pair[1] < pair[2]}
<1>1. IsWellFoundedOn(Less, Nat)
  BY NatLessThanWellFounded DEF OpToRel
<1>2. \A i, j \in Nat : j < i => <<j, i>> \in Less
  OBVIOUS
<1> HIDE DEF Less
<1>3. PICK i \in S : \A j \in S : <<j, i>> \notin Less
  BY <1>1, WFMin
<1>4. \A j \in S : j \in Nat /\ ~(j < i)
  BY <1>2, <1>3
<1>5. i \in Nat
  OBVIOUS
<1>6. \A j \in S : i <= j
  BY <1>4, <1>5
<1> QED
  BY <1>6

\* Every text of a batch has a first request.
LEMMA FirstExists ==
  ASSUME NEW batch \in Seq(Callers), NEW p \in DOMAIN batch
  PROVE  /\ First(batch, p) \in Firsts(batch)
         /\ text[batch[First(batch, p)]] = text[batch[p]]
<1> DEFINE same == {i \in DOMAIN batch : text[batch[i]] = text[batch[p]]}
<1>1. DOMAIN batch = 1..Len(batch) /\ Len(batch) \in Nat
  BY LenProperties
<1>2. PICK i \in same : \A j \in same : i <= j
  <2>1. p \in same /\ same \subseteq Nat
    BY <1>1
  <2> HIDE DEF same
  <2> QED
    BY <2>1, Least
<1>3. i \in Firsts(batch) /\ text[batch[i]] = text[batch[p]]
  BY <1>1, <1>2 DEF Firsts
<1> QED
  BY <1>3 DEF First

\* Different first requests have different places in the list of texts.
LEMMA IndexInjective ==
  ASSUME NEW batch \in Seq(Callers), NEW i \in Firsts(batch), NEW j \in Firsts(batch),
         Index(batch, i) = Index(batch, j)
  PROVE  i = j
<1>1. ASSUME NEW k \in Firsts(batch), NEW l \in Firsts(batch), k < l,
             Index(batch, k) = Index(batch, l)
      PROVE  FALSE
  <2> DEFINE low == {f \in Firsts(batch) : f <= k}
             high == {f \in Firsts(batch) : f <= l}
  <2>1. Firsts(batch) \subseteq 1..Len(batch) /\ IsFiniteSet(Firsts(batch)) /\ Len(batch) \in Nat
    BY FirstsFinite, LenProperties
  <2>2. low \subseteq high /\ l \in high /\ l \notin low
    BY <1>1, <2>1
  <2>3. IsFiniteSet(high)
    BY <2>1, FS_Subset
  <2>4. Cardinality(low) = Cardinality(high)
    BY <1>1 DEF Index
  <2> QED
    BY <2>2, <2>3, <2>4, FS_Subset
<1>2. Firsts(batch) \subseteq 1..Len(batch) /\ Len(batch) \in Nat
  BY FirstsFinite, LenProperties
<1>3. i \in Nat /\ j \in Nat
  BY <1>2
<1>4. i < j \/ j < i \/ i = j
  BY <1>3
<1> QED
  BY <1>1, <1>4

\* The vector dealt out to a request is that of its text, or none.
LEMMA VectorOwn ==
  ASSUME NEW batch \in Seq(Callers), NEW got \in Nat, NEW p \in DOMAIN batch
  PROVE  Vector(batch, got, p) \in {text[batch[p]], Nil}
<1> DEFINE f == First(batch, p)
           k == Index(batch, f)
           chosen == CHOOSE i \in Firsts(batch) : Index(batch, i) = k
<1>1. f \in Firsts(batch) /\ text[batch[f]] = text[batch[p]]
  BY FirstExists
<1>2. chosen \in Firsts(batch) /\ Index(batch, chosen) = k
  <2> HIDE DEF f, k
  <2>1. \E i \in Firsts(batch) : Index(batch, i) = k
    BY <1>1 DEF k
  <2> QED
    BY <2>1
<1>3. chosen = f
  BY <1>1, <1>2, IndexInjective
<1>4. TextAt(batch, k) = text[batch[p]]
  BY <1>1, <1>3 DEF TextAt
<1> QED
  BY <1>4 DEF Vector

\* The replies after a send.
LEMMA SendReplies ==
  ASSUME TypeInv, NEW b \in Batchers, NEW p, Send(b, p)
  PROVE  /\ RepliesTyped'
         /\ text' = text
         /\ \A c \in Callers : reply'[c] \in {reply[c], text[c], Nil, Error}
<1> DEFINE batch == worker[b].batch
           answer == IF worker[b].failed THEN Error ELSE Vector(batch, worker[b].got, p)
<1>1. /\ p \in DOMAIN batch /\ batch \in Seq(Callers) /\ batch[p] \in Callers
      /\ worker[b].got \in Nat
  <2>1. p \in worker[b].left /\ WorkTyped(worker[b])
    BY DEF Send, TypeInv, WorkersTyped
  <2> QED
    BY <2>1, BatchPositions DEF WorkTyped, Work
<1>2. reply' = [reply EXCEPT ![batch[p]] = answer] /\ text' = text
  BY DEF Send
<1>3. answer \in {text[batch[p]], Nil, Error}
  BY <1>1, VectorOwn
<1>4. text[batch[p]] \in Texts /\ RepliesTyped
  BY <1>1 DEF TypeInv, RepliesTyped
<1> HIDE DEF answer, batch
<1>5. \A c \in Callers : reply'[c] = IF c = batch[p] THEN answer ELSE reply[c]
  BY <1>1, <1>2, <1>4 DEF RepliesTyped
<1>6. answer \in Replies
  BY <1>3, <1>4 DEF Replies
<1>7. RepliesTyped'
  BY <1>2, <1>4, <1>6 DEF RepliesTyped
<1> QED
  BY <1>2, <1>3, <1>5, <1>7
-------------------------------------------------------------------------------
\* A step of a worker keeps the types, and its batch the size.
LEMMA WorkerType ==
  ASSUME TypeInv, NEW b \in Batchers, WorkerStep(b)
  PROVE  TypeInv'
<1>0. /\ WorkersTyped /\ WorkTyped(worker[b]) /\ worker[b] \in Work
      /\ QueuesTyped /\ MaxBatch \in Nat \ {0} /\ MaxPending \in Nat
  BY BatcherAssumption DEF TypeInv, WorkersTyped, WorkTyped
<1>00. /\ worker[b].batch \in Seq(Callers)
       /\ Len(worker[b].batch) \in Nat
       /\ DOMAIN worker[b].batch = 1..Len(worker[b].batch)
       /\ worker = [worker EXCEPT ![b] = worker[b]]
  BY <1>0, BatchPositions DEF WorkersTyped
<1>1. CASE Take(b)
  <2> DEFINE batch == Append(worker[b].batch, Head(queue[b]))
             work == [worker[b] EXCEPT !.batch = batch,
                                       !.pc = IF Len(batch) >= MaxBatch THEN "call" ELSE @]
  <2>1. /\ queue[b] \in Seq(Callers) /\ queue[b] # <<>>
        /\ Head(queue[b]) \in Callers /\ Tail(queue[b]) \in Seq(Callers)
        /\ Len(Tail(queue[b])) = Len(queue[b]) - 1
        /\ Len(queue[b]) \in Nat
    <3>1. queue[b] \in Seq(Callers) /\ queue[b] # <<>>
      BY <1>0, <1>1 DEF QueuesTyped, Take
    <3> QED
      BY <3>1, HeadTailProperties, LenProperties
  <2>2. /\ batch \in Seq(Callers)
        /\ Len(batch) = Len(worker[b].batch) + 1
        /\ DOMAIN batch = 1..(Len(worker[b].batch) + 1)
    BY <1>00, <2>1, AppendProperties, LenProperties
  <2>3. Len(worker[b].batch) < MaxBatch /\ worker[b].pc = "collect"
    BY <1>0, <1>1 DEF Take, WorkTyped
  <2>4. /\ work.batch = batch /\ work.left = worker[b].left
        /\ work.pc = IF Len(batch) >= MaxBatch THEN "call" ELSE "collect"
        /\ work \in Work
    BY <1>0, <2>2, <2>3 DEF Work
  <2>5. WorkTyped(work)
    <3> HIDE DEF batch, work
    <3>1. work.left \subseteq DOMAIN work.batch
      BY <1>0, <1>00, <2>2, <2>4 DEF WorkTyped
    <3> QED
      BY <1>0, <1>00, <2>2, <2>3, <2>4, <3>1 DEF WorkTyped
  <2>6. worker' = [worker EXCEPT ![b] = work]
    BY <1>1 DEF Take
  <2>7. WorkersTyped'
    <3> HIDE DEF work
    <3> QED
      BY <1>0, <2>5, <2>6, WorkerChanges
  <2>8. QueuesTyped'
    <3>1. queue' = [queue EXCEPT ![b] = Tail(queue[b])]
      BY <1>1 DEF Take
    <3>2. \A d \in Batchers : queue'[d] = IF d = b THEN Tail(queue[b]) ELSE queue[d]
      BY <1>0, <3>1 DEF QueuesTyped
    <3>3. Len(Tail(queue[b])) <= MaxPending
      BY <1>0, <2>1 DEF QueuesTyped
    <3> QED
      BY <1>0, <2>1, <3>1, <3>2, <3>3 DEF QueuesTyped
  <2> QED
    BY <1>1, <2>7, <2>8, FrameType DEF TypeInv, Take, callVars
<1>2. CASE Flush(b)
  <2>1. WorkTyped([worker[b] EXCEPT !.pc = "call"])
    BY <1>0 DEF WorkTyped, Work
  <2>2. WorkersTyped'
    BY <1>0, <1>2, <2>1, WorkerChanges DEF Flush
  <2> QED
    BY <1>2, <2>2, FrameType DEF TypeInv, Flush, callVars
<1>3. CASE Stop(b)
  <2>1. \A next \in {"exit", "call"} : WorkTyped([worker[b] EXCEPT !.pc = next, !.last = TRUE])
    BY <1>0 DEF WorkTyped, Work
  <2>2. WorkersTyped'
    BY <1>0, <1>3, <2>1, WorkerChanges DEF Stop
  <2> QED
    BY <1>3, <2>2, FrameType DEF TypeInv, Stop, callVars
<1>4. CASE Call(b)
  <2>1. PICK failed \in BOOLEAN, got \in 0..Cardinality(Firsts(worker[b].batch)) :
          worker' = [worker EXCEPT ![b].pc = "distribute", ![b].failed = failed,
                        ![b].got = got, ![b].left = DOMAIN worker[b].batch]
    BY <1>4 DEF Call
  <2>2. got \in Nat
    BY <1>00, FirstsFinite
  <2>3. WorkTyped([worker[b] EXCEPT !.pc = "distribute", !.failed = failed,
                                    !.got = got, !.left = DOMAIN worker[b].batch])
    <3>1. DOMAIN worker[b].batch \in SUBSET Nat
      BY <1>00
    <3>2. [worker[b] EXCEPT !.pc = "distribute", !.failed = failed,
                            !.got = got, !.left = DOMAIN worker[b].batch] \in Work
      BY <1>0, <2>2, <3>1 DEF Work
    <3> QED
      BY <1>0, <3>2 DEF WorkTyped, Work
  <2>4. worker' = [worker EXCEPT ![b] = [worker[b] EXCEPT !.pc = "distribute", !.failed = failed,
                                    !.got = got, !.left = DOMAIN worker[b].batch]]
    BY <2>1
  <2>5. WorkersTyped'
    BY <1>0, <2>3, <2>4, WorkerChanges
  <2> QED
    BY <1>4, <2>5, FrameType DEF TypeInv, Call, callVars
<1>5. ASSUME NEW p \in worker[b].left, Send(b, p) PROVE TypeInv'
  <2> DEFINE rest == IF worker[b].left # {p} THEN [worker[b] EXCEPT !.left = @ \ {p}]
                     ELSE [Idle EXCEPT !.pc = IF worker[b].last THEN "exit" ELSE "collect"]
  <2>1. worker' = [worker EXCEPT ![b] = rest]
    BY <1>5 DEF Send
  <2>2. WorkTyped([worker[b] EXCEPT !.left = @ \ {p}])
    BY <1>0, <1>5 DEF WorkTyped, Work, Send
  <2>3. [Idle EXCEPT !.pc = "collect"] = Idle
    BY DEF Idle
  <2>4. WorkTyped(rest)
    BY <2>2, <2>3, IdleTyped
  <2>5. WorkersTyped'
    <3> HIDE DEF rest
    <3> QED
      BY <1>0, <2>1, <2>4, WorkerChanges
  <2>6. RepliesTyped'
    BY <1>5, SendReplies
  <2> QED
    BY <1>5, <2>5, <2>6, FrameType DEF TypeInv, Send
<1> QED
  BY <1>1, <1>2, <1>3, <1>4, <1>5 DEF WorkerStep

\* Every step keeps the types.
LEMMA NextType == TypeInv /\ [Next]_vars => TypeInv'
<1> SUFFICES ASSUME TypeInv, [Next]_vars PROVE TypeInv'
  OBVIOUS
<1>1. CASE UNCHANGED vars
  BY <1>1, FrameType DEF TypeInv, vars, callVars, managerVars
<1> QED
  BY <1>1, ManagerType, CallerType, WorkerType DEF Next

\* The queue and the batches never grow beyond their limits, and everything
\* keeps its type, in every behaviour.
THEOREM TypeCorrect == Spec => []TypeOK
BY InitType, NextType, TypeInvImplies, PTL DEF Spec

\* "iterating textToIdx directly would misroute embeddings": no caller is ever
\* given the vector of a text that is not its own, whatever is merged into one
\* batch and however few vectors come back.
THEOREM VectorsAreOwn == Spec => []OwnVector
<1>1. Init => OwnVector
  BY DEF Init, OwnVector
<1>2. ASSUME TypeInv, OwnVector, [Next]_vars PROVE OwnVector'
  <2>1. ASSUME NEW b \in Batchers, NEW p \in worker[b].left, Send(b, p) PROVE OwnVector'
    BY <1>2, <2>1, SendReplies DEF OwnVector
  <2>2. ASSUME NEW c \in Callers, Receive(c) PROVE OwnVector'
    BY <1>2, <2>2 DEF OwnVector, Receive, TypeInv, RepliesTyped
  <2>3. CASE UNCHANGED <<text, reply>>
    BY <1>2, <2>3 DEF OwnVector
  <2> QED
    BY <1>2, <2>1, <2>2, <2>3 DEF Next, CallerStep, WorkerStep, Lookup, Create, Shutdown,
       ShutdownReturns, Enqueue, Direct, Leave, Take, Flush, Stop, Call, vars, callVars
<1> QED
  BY <1>1, <1>2, InitType, NextType, PTL DEF Spec
-------------------------------------------------------------------------------
\* Batchers are open one after the other: every one that is not closed is the
\* registered one, which is closed while Shutdown waits for it.
OpenInv ==
    /\ (1..made) \ closed \subseteq {registered}
    /\ stopping # 0 => stopping = registered /\ registered \in closed

\* However many callers ask for a batcher at once, and whoever shuts it down,
\* one batcher of the model is open at most.
THEOREM OneBatcherHolds == Spec => []OneBatcher
<1>1. Init => OpenInv
  BY DEF Init, OpenInv
<1>2. ASSUME TypeInv, OpenInv, [Next]_vars PROVE OpenInv'
  <2>0. made \in Nat /\ registered \in 0..made
    BY <1>2, BatcherAssumption DEF TypeInv, ManagerTyped
  <2>1. ASSUME NEW c \in Callers, Create(c) PROVE OpenInv'
    BY <1>2, <2>0, <2>1 DEF OpenInv, Create, New
  <2>2. CASE Shutdown
    BY <1>2, <2>0, <2>2 DEF OpenInv, Shutdown
  <2>3. CASE ShutdownReturns
    BY <1>2, <2>0, <2>3 DEF OpenInv, ShutdownReturns
  <2>4. CASE UNCHANGED managerVars
    BY <1>2, <2>4 DEF OpenInv, managerVars
  <2> QED
    BY <1>2, <2>1, <2>2, <2>3, <2>4 DEF Next, CallerStep, WorkerStep, Lookup, Enqueue, Direct,
       Receive, Leave, Take, Flush, Stop, Call, Send, vars
<1>3. OpenInv => OneBatcher
  BY DEF OpenInv, OneBatcher
<1> QED
  BY <1>1, <1>2, <1>3, InitType, NextType, PTL DEF Spec
===============================================================================
