---------------------------- MODULE QaQueueCounts ----------------------------
(***************************************************************************)
(* The counters of the question queue stand for the questions they count:  *)
(* the limit of a user and the exact balance of the slots, for any number  *)
(* of instances, workers, users and questions.                             *)
(***************************************************************************)
EXTENDS QaQueueProofs

(***************************************************************************)
(* Where a question is: in one place of one queue while it is queued, in   *)
(* the hands of one worker of the same instance afterwards.                *)
(***************************************************************************)
InQueue ==
    \A i \in Instances : \A k \in DOMAIN queue[i] :
        request[queue[i][k]].pc = "queued" /\ request[queue[i][k]].at = i

NoneTwice ==
    \A i \in Instances : \A k, l \in DOMAIN queue[i] : queue[i][k] = queue[i][l] => k = l

Busy == {"taken", "handle", "run", "ungate", "uncount"}

InHand ==
    \A w \in Pool : worker[w].pc \in Busy =>
        /\ worker[w].req \in Requests
        /\ request[worker[w].req].pc \in {"held", "halted"}
        /\ request[worker[w].req].at = w[1]

OneHand ==
    \A v, w \in Pool :
        worker[v].pc \in Busy /\ worker[w].pc \in Busy /\ worker[v].req = worker[w].req => v = w

InPlace == InQueue /\ NoneTwice /\ InHand /\ OneHand

(* The elements of a queue are questions.                                  *)
LEMMA Elements ==
  ASSUME TypeOK
  PROVE  \A i \in Instances :
           /\ queue[i] \in Seq(Requests) /\ Len(queue[i]) \in Nat
           /\ DOMAIN queue[i] = 1..Len(queue[i])
           /\ \A k \in DOMAIN queue[i] : queue[i][k] \in Requests
BY LenProperties, ElementOfSeq DEF TypeOK

(* What a goto does to the question it moves and to the others.            *)
LEMMA QuestionMoves ==
  ASSUME TypeOK, NEW r \in Requests, NEW pc, RequestGoto(r, pc)
  PROVE  /\ request'[r].pc = pc /\ request'[r].at = request[r].at
         /\ \A q \in Requests : q # r => request'[q] = request[q]
BY DEF RequestGoto, TypeOK, RequestState

(* Questions that are not queued move, the queues stay as they are.        *)
LEMMA QueueStays ==
  ASSUME TypeOK, InQueue, NoneTwice, UNCHANGED queue,
         \A q \in Requests : request[q].pc = "queued" => request'[q] = request[q]
  PROVE  InQueue' /\ NoneTwice'
BY Elements DEF InQueue, NoneTwice

(* Workers stay busy with what they hold, or become free.                  *)
LEMMA HandsStay ==
  ASSUME InHand, OneHand,
         \A w \in Pool : worker'[w].pc \in Busy =>
            /\ worker[w].pc \in Busy /\ worker'[w].req = worker[w].req
            /\ request'[worker[w].req].pc \in {"held", "halted"}
            /\ request'[worker[w].req].at = request[worker[w].req].at
  PROVE  InHand' /\ OneHand'
BY Zenon DEF InHand, OneHand, Pool

(* One question is taken out of a queue at place k.                        *)
LEMMA TakenOut ==
  ASSUME TypeOK, InQueue, NoneTwice, NEW i \in Instances, NEW k \in 1..Len(queue[i]),
         NEW rest \in Seq(Requests), Len(rest) = Len(queue[i]) - 1,
         \A j \in 1..Len(rest) : rest[j] = queue[i][IF j < k THEN j ELSE j + 1],
         queue' = [queue EXCEPT ![i] = rest],
         \A q \in Requests : q # queue[i][k] => request'[q] = request[q]
  PROVE  InQueue' /\ NoneTwice'
<1> DEFINE old(j) == IF j < k THEN j ELSE j + 1
<1>1. /\ queue[i] \in Seq(Requests) /\ Len(queue[i]) \in Nat
      /\ DOMAIN queue[i] = 1..Len(queue[i])
      /\ DOMAIN rest = 1..Len(rest) /\ Len(rest) \in Nat
  BY Elements, LenProperties
<1>2. \A j \in DOMAIN rest : /\ old(j) \in DOMAIN queue[i] /\ old(j) # k
                             /\ rest[j] = queue[i][old(j)]
  BY <1>1
<1>3. \A j, l \in DOMAIN rest : old(j) = old(l) => j = l
  BY <1>1
<1>4. \A h \in Instances : queue'[h] = IF h = i THEN rest ELSE queue[h]
  BY DEF TypeOK
<1> HIDE DEF old
<1>5. \A j \in DOMAIN rest : /\ rest[j] \in Requests
                             /\ rest[j] # queue[i][k]
                             /\ request[rest[j]].pc = "queued" /\ request[rest[j]].at = i
  BY <1>1, <1>2, Elements DEF InQueue, NoneTwice
<1>6. InQueue'
  <2> SUFFICES ASSUME NEW h \in Instances, NEW j \in DOMAIN queue'[h]
               PROVE  request'[queue'[h][j]].pc = "queued" /\ request'[queue'[h][j]].at = h
    BY DEF InQueue
  <2>1. CASE h = i
    BY <1>4, <1>5, <2>1
  <2>2. CASE h # i
    <3>1. queue'[h] = queue[h] /\ queue[h][j] \in Requests
      BY <1>4, <2>2, Elements
    <3>2. request[queue[h][j]].pc = "queued" /\ request[queue[h][j]].at = h
      BY <3>1 DEF InQueue
    <3>3. queue[h][j] # queue[i][k]
      BY <1>1, <2>2, <3>2 DEF InQueue
    <3> QED
      BY <3>1, <3>2, <3>3
  <2> QED
    BY <2>1, <2>2
<1>7. NoneTwice'
  BY <1>2, <1>3, <1>4 DEF NoneTwice
<1> QED
  BY <1>6, <1>7

(* What is left after a cut is the queue without its k-th element.         *)
LEMMA CutElements ==
  ASSUME NEW S, NEW s \in Seq(S), NEW k \in 1..Len(s)
  PROVE  LET rest == SubSeq(s, 1, k - 1) \o SubSeq(s, k + 1, Len(s))
         IN  /\ rest \in Seq(S) /\ Len(rest) = Len(s) - 1
             /\ \A j \in 1..Len(rest) : rest[j] = s[IF j < k THEN j ELSE j + 1]
<1> DEFINE before == SubSeq(s, 1, k - 1)  after == SubSeq(s, k + 1, Len(s))
           rest == before \o after
<1>1. Len(s) \in Nat /\ \A j \in 1..Len(s) : s[j] \in S
  BY LenProperties
<1>2. /\ before \in Seq(S) /\ Len(before) = k - 1
      /\ \A j \in 1..(k - 1) : before[j] = s[j]
  <2>1. \A j \in 1..(k - 1) : s[j] \in S
    BY <1>1
  <2> QED
    BY <1>1, <2>1, SubSeqProperties
<1>3. /\ after \in Seq(S) /\ Len(after) = Len(s) - k
      /\ \A j \in 1..(Len(s) - k) : after[j] = s[k + j]
  <2>1. \A j \in (k + 1)..Len(s) : s[j] \in S
    BY <1>1
  <2>2. /\ after \in Seq(S) /\ Len(after) = Len(s) - k
        /\ \A j \in 1..(Len(s) - (k + 1) + 1) : after[j] = s[(k + 1) + j - 1]
    BY <1>1, <2>1, SubSeqProperties
  <2> QED
    BY <1>1, <2>2
<1>4. rest \in Seq(S) /\ Len(rest) = Len(s) - 1
  BY CutOut
<1>5. ASSUME NEW j \in 1..Len(rest) PROVE rest[j] = s[IF j < k THEN j ELSE j + 1]
  <2> HIDE DEF before, after
  <2>1. rest[j] = IF j <= Len(before) THEN before[j] ELSE after[j - Len(before)]
    <3>1. j \in 1..(Len(before) + Len(after))
      BY <1>1, <1>2, <1>3, <1>4
    <3> QED
      BY <1>2, <1>3, <3>1, ConcatProperties
  <2> QED
    BY <1>1, <1>2, <1>3, <1>4, <2>1
<1> QED
  BY <1>4, <1>5
-----------------------------------------------------------------------------
(* A caller only appends a question that was nowhere.                      *)
LEMMA CallerInPlace ==
  ASSUME TypeOK, InPlace, NEW r \in Requests, Caller(r)
  PROVE  InPlace'
<1>1. \A w \in Pool : worker[w].pc \in Busy => worker[w].req # r
  <2>1. request[r].pc \in {"new", "over", "counted"}
    BY DEF Caller, Count, CountFails, CountOver, EnqueueRefused, Enqueue, Arrives
  <2> QED
    BY <2>1 DEF InPlace, InHand
<1>2. request[r].pc # "queued"
  BY DEF Caller, Count, CountFails, CountOver, EnqueueRefused, Enqueue, Arrives
<1>3. \A q \in Requests : q # r => request'[q] = request[q]
  <2>1. ASSUME NEW i \in Instances, Count(r, i) \/ CountFails(r, i)
        PROVE  \A q \in Requests : q # r => request'[q] = request[q]
    BY <2>1 DEF Count, CountFails, TypeOK
  <2>2. ASSUME CountOver(r) \/ EnqueueRefused(r) \/ Enqueue(r)
        PROVE  \A q \in Requests : q # r => request'[q] = request[q]
    BY <2>2 DEF CountOver, EnqueueRefused, Enqueue, RequestGoto, TypeOK
  <2> QED
    BY <2>1, <2>2 DEF Caller
<1>4. ASSUME NEW w \in Pool, worker'[w].pc \in Busy
      PROVE  worker[w].pc \in Busy /\ worker'[w].req = worker[w].req
  <2>1. CASE UNCHANGED worker
    BY <1>4, <2>1
  <2>2. ASSUME NEW v \in Pool, WorkerGoto(v, "ready")
        PROVE  worker[w].pc \in Busy /\ worker'[w].req = worker[w].req
    BY <1>4, <2>2 DEF WorkerGoto, TypeOK, WorkerState, Busy
  <2> QED
    BY <2>1, <2>2 DEF Caller, Count, CountFails, CountOver, EnqueueRefused, Enqueue, Signal
<1>5. InHand' /\ OneHand'
  <2>1. \A w \in Pool : worker[w].pc \in Busy => request'[worker[w].req] = request[worker[w].req]
    BY <1>1, <1>3 DEF InPlace, InHand
  <2> QED
    BY <1>4, <2>1, HandsStay DEF InPlace, InHand
<1>6. CASE UNCHANGED queue
  BY <1>2, <1>3, <1>5, <1>6, QueueStays DEF InPlace
<1>7. CASE Enqueue(r) /\ request[r].at \in Instances
  <2> DEFINE i == request[r].at
  <2>1. /\ queue[i] \in Seq(Requests) /\ Len(queue[i]) \in Nat
        /\ DOMAIN queue[i] = 1..Len(queue[i])
    BY <1>7, Elements
  <2>2. /\ DOMAIN queue'[i] = 1..(Len(queue[i]) + 1)
        /\ \A k \in 1..Len(queue[i]) : queue'[i][k] = queue[i][k]
        /\ queue'[i][Len(queue[i]) + 1] = r
    <3>1. queue'[i] = Append(queue[i], r)
      BY <1>7 DEF Enqueue, TypeOK
    <3> HIDE DEF i
    <3> QED
      BY <2>1, <3>1, AppendProperties, LenProperties
  <2>3. \A j \in Instances : j # i => queue'[j] = queue[j]
    BY <1>7 DEF Enqueue, TypeOK
  <2>4. request'[r].pc = "queued" /\ request'[r].at = i
    BY <1>7 DEF Enqueue, RequestGoto, TypeOK, RequestState
  <2>5. \A j \in Instances : \A k \in DOMAIN queue[j] :
           /\ queue[j][k] \in Requests /\ queue[j][k] # r
           /\ request'[queue[j][k]].pc = "queued" /\ request'[queue[j][k]].at = j
    BY <1>2, <1>3, Elements DEF InPlace, InQueue
  <2> HIDE DEF i
  <2>6. InQueue'
    <3> SUFFICES ASSUME NEW j \in Instances, NEW k \in DOMAIN queue'[j]
                 PROVE  request'[queue'[j][k]].pc = "queued" /\ request'[queue'[j][k]].at = j
      BY DEF InQueue
    <3>1. CASE j # i
      BY <2>3, <2>5, <3>1
    <3>2. CASE j = i
      BY <2>1, <2>2, <2>4, <2>5, <3>2
    <3> QED
      BY <3>1, <3>2
  <2>7. NoneTwice'
    <3> SUFFICES ASSUME NEW j \in Instances, NEW k \in DOMAIN queue'[j], NEW l \in DOMAIN queue'[j],
                        queue'[j][k] = queue'[j][l]
                 PROVE  k = l
      BY DEF NoneTwice
    <3>1. CASE j # i
      BY <2>3, <3>1 DEF InPlace, NoneTwice
    <3>2. CASE j = i
      BY <2>1, <2>2, <2>5, <3>2 DEF InPlace, NoneTwice
    <3> QED
      BY <3>1, <3>2
  <2> QED
    BY <1>5, <2>6, <2>7 DEF InPlace
<1>8. CASE Enqueue(r) /\ request[r].at \notin Instances
  <2>1. UNCHANGED queue
    BY <1>8 DEF Enqueue, TypeOK
  <2> QED
    BY <1>6, <2>1
<1> QED
  BY <1>6, <1>7, <1>8 DEF Caller, Count, CountFails, CountOver, EnqueueRefused

(* A worker takes the head of the queue, works on it alone and lets it go. *)
LEMMA WorkerInPlace ==
  ASSUME TypeOK, InPlace, NEW w \in Pool, WorkerStep(w) \/ GateFails(w) \/ Discard(w)
  PROVE  InPlace'
<1>1. CASE Wait(w) \/ AcquireGate(w) \/ GateFails(w) \/ Finish(w) \/ ReleaseGate(w)
  <2>1. UNCHANGED <<request, queue>>
    BY <1>1 DEF Wait, AcquireGate, GateFails, Finish, ReleaseGate
  <2>2. \A v \in Pool : worker'[v].pc \in Busy =>
           worker[v].pc \in Busy /\ worker'[v].req = worker[v].req
    <3>1. PICK pc : WorkerGoto(w, pc) /\ (pc \in Busy => worker[w].pc \in Busy)
      BY <1>1 DEF Wait, AcquireGate, GateFails, Finish, ReleaseGate, Busy
    <3> QED
      BY <3>1 DEF WorkerGoto, TypeOK, WorkerState
  <2>3. InHand' /\ OneHand'
    BY <2>1, <2>2, HandsStay DEF InPlace, InHand
  <2>4. InQueue' /\ NoneTwice'
    BY <2>1, QueueStays DEF InPlace
  <2> QED
    BY <2>3, <2>4 DEF InPlace
<1>2. CASE Dequeue(w)
  <2> DEFINE i == w[1]  r == Head(queue[i])
  <2>1. i \in Instances /\ queue[i] \in Seq(Requests) /\ queue[i] # <<>>
    BY <1>2 DEF Dequeue, Pool, TypeOK
  <2>2. /\ Len(queue[i]) \in Nat /\ 1 \in 1..Len(queue[i])
        /\ DOMAIN queue[i] = 1..Len(queue[i])
        /\ r = queue[i][1] /\ r \in Requests
    BY <2>1, EmptySeq, LenProperties, HeadTailProperties
  <2>3. request[r].pc = "queued" /\ request[r].at = i
    BY <2>1, <2>2 DEF InPlace, InQueue
  <2>4. /\ request'[r].pc = "held" /\ request'[r].at = i
        /\ \A q \in Requests : q # r => request'[q] = request[q]
    BY <1>2, <2>2, <2>3 DEF Dequeue, RequestGoto, TypeOK, RequestState
  <2>5. InQueue' /\ NoneTwice'
    <3> DEFINE rest == Tail(queue[i])
    <3>1. /\ rest \in Seq(Requests) /\ Len(rest) = Len(queue[i]) - 1
          /\ \A j \in 1..Len(rest) : rest[j] = queue[i][IF j < 1 THEN j ELSE j + 1]
      BY <2>1, HeadTailProperties
    <3>2. queue' = [queue EXCEPT ![i] = rest]
      BY <1>2 DEF Dequeue
    <3> HIDE DEF i, r, rest
    <3> QED
      BY <2>1, <2>2, <2>4, <3>1, <3>2, TakenOut DEF InPlace
  <2>6. \A v \in Pool : worker'[v] = IF v = w THEN [pc |-> "taken", req |-> r] ELSE worker[v]
    BY <1>2 DEF Dequeue, TypeOK
  <2>7. \A v \in Pool : worker[v].pc \in Busy => worker[v].req # r
    BY <2>3 DEF InPlace, InHand
  <2> HIDE DEF r
  <2>8. InHand'
    BY <2>2, <2>4, <2>6, <2>7 DEF InPlace, InHand
  <2>9. OneHand'
    BY <2>6, <2>7 DEF InPlace, OneHand
  <2> QED
    BY <2>5, <2>8, <2>9 DEF InPlace
<1>3. CASE Handle(w) \/ Discard(w) \/ ReleaseUser(w)
  <2> DEFINE r == worker[w].req
  <2>1. worker[w].pc \in Busy
    BY <1>3 DEF Handle, Discard, ReleaseUser, Busy
  <2>2. r \in Requests /\ request[r].pc \in {"held", "halted"}
    BY <2>1 DEF InPlace, InHand
  <2>3. /\ UNCHANGED queue
        /\ \A q \in Requests : q # r => request'[q] = request[q]
        /\ request'[r].at = request[r].at
    <3>1. UNCHANGED queue /\ (UNCHANGED request \/ \E pc : RequestGoto(r, pc))
      BY <1>3 DEF Handle, Discard, ReleaseUser
    <3> HIDE DEF r
    <3> QED
      BY <2>2, <3>1, QuestionMoves
  <2>4. InQueue' /\ NoneTwice'
    BY <2>2, <2>3, QueueStays DEF InPlace
  <2>5. \A v \in Pool : v # w => worker'[v] = worker[v]
    BY <1>3 DEF Handle, Discard, ReleaseUser, WorkerGoto, TypeOK
  <2>6. worker'[w].pc \in Busy => /\ worker'[w].req = worker[w].req
                                  /\ request'[r].pc \in {"held", "halted"}
    <3>1. CASE Handle(w)
      BY <2>2, <3>1 DEF Handle, RequestGoto, WorkerGoto, TypeOK, RequestState, WorkerState
    <3>2. CASE Discard(w) \/ ReleaseUser(w)
      BY <3>2 DEF Discard, ReleaseUser, Idler, Busy, TypeOK
    <3> QED
      BY <1>3, <3>1, <3>2
  <2>7. \A v \in Pool : v # w /\ worker[v].pc \in Busy =>
          worker[v].req # r /\ request'[worker[v].req] = request[worker[v].req]
    BY <2>1, <2>3 DEF InPlace, InHand, OneHand
  <2>8. InHand' /\ OneHand'
    <3> SUFFICES ASSUME NEW v \in Pool, worker'[v].pc \in Busy
                 PROVE  /\ worker[v].pc \in Busy /\ worker'[v].req = worker[v].req
                        /\ request'[worker[v].req].pc \in {"held", "halted"}
                        /\ request'[worker[v].req].at = request[worker[v].req].at
      BY HandsStay DEF InPlace
    <3>1. CASE v = w
      BY <2>1, <2>3, <2>6, <3>1
    <3>2. CASE v # w
      BY <2>5, <2>7, <3>2 DEF InPlace, InHand
    <3> QED
      BY <3>1, <3>2
  <2> QED
    BY <2>4, <2>8 DEF InPlace
<1> QED
  BY <1>1, <1>2, <1>3 DEF WorkerStep

(* A /stop takes one question out of its queue.                            *)
LEMMA StopInPlace ==
  ASSUME TypeOK, InPlace, NEW i \in Instances, NEW u \in Users,
         StopQueued(i, u) \/ StopRunning(i, u)
  PROVE  InPlace'
<1>1. CASE StopRunning(i, u)
  <2>1. UNCHANGED <<queue, request, worker>>
    BY <1>1 DEF StopRunning
  <2> QED
    BY <2>1 DEF InPlace, InQueue, NoneTwice, InHand, OneHand
<1>2. CASE StopQueued(i, u)
  <2>1. PICK k \in QueuedOf(i, u) :
          /\ queue' = [queue EXCEPT ![i] = SubSeq(@, 1, k - 1) \o SubSeq(@, k + 1, Len(@))]
          /\ RequestGoto(queue[i][k], "removed")
    BY <1>2 DEF StopQueued
  <2> DEFINE r == queue[i][k]
             rest == SubSeq(queue[i], 1, k - 1) \o SubSeq(queue[i], k + 1, Len(queue[i]))
  <2>2. /\ k \in 1..Len(queue[i]) /\ queue[i] \in Seq(Requests)
        /\ r \in Requests /\ request[r].pc = "queued"
    BY Elements DEF QueuedOf, InPlace, InQueue
  <2>3. \A q \in Requests : q # r => request'[q] = request[q]
    BY <2>1 DEF RequestGoto, TypeOK
  <2>4. /\ rest \in Seq(Requests) /\ Len(rest) = Len(queue[i]) - 1
        /\ \A j \in 1..Len(rest) : rest[j] = queue[i][IF j < k THEN j ELSE j + 1]
    BY <2>2, CutElements
  <2>5. queue' = [queue EXCEPT ![i] = rest]
    BY <2>1
  <2>6. InQueue' /\ NoneTwice'
    <3> HIDE DEF rest
    <3> QED
      BY <2>2, <2>3, <2>4, <2>5, TakenOut DEF InPlace
  <2>7. \A v \in Pool : worker[v].pc \in Busy => request'[worker[v].req] = request[worker[v].req]
    BY <2>2, <2>3 DEF InPlace, InHand
  <2>8. InHand' /\ OneHand'
    <3>1. UNCHANGED worker
      BY <1>2 DEF StopQueued
    <3> QED
      BY <2>7, <3>1, HandsStay DEF InPlace, InHand
  <2> QED
    BY <2>6, <2>8 DEF InPlace
<1> QED
  BY <1>1, <1>2

(* A crash loses what its instance had; nothing else moves a question.     *)
LEMMA EnvironmentInPlace ==
  ASSUME TypeOK, InPlace,
         \/ \E u \in Users : LeaveMarker(u) \/ MarkerExpires(u) \/ UserExpires(u)
         \/ \E i \in Instances : Close(i) \/ Broadcast(i) \/ Crash(i)
         \/ GateExpires
  PROVE  InPlace'
<1>1. CASE UNCHANGED <<queue, request, worker>>
  BY <1>1 DEF InPlace, InQueue, NoneTwice, InHand, OneHand
<1>2. ASSUME NEW i \in Instances, Broadcast(i) PROVE InPlace'
  <2>1. UNCHANGED <<queue, request>>
    BY <1>2 DEF Broadcast
  <2>2. \A v \in Pool : worker'[v].pc \in Busy =>
           worker[v].pc \in Busy /\ worker'[v].req = worker[v].req
    BY <1>2 DEF Broadcast, TypeOK, WorkerState, Busy
  <2>3. InHand' /\ OneHand'
    BY <2>1, <2>2, HandsStay DEF InPlace, InHand
  <2> QED
    BY <2>1, <2>3, QueueStays DEF InPlace
<1>3. ASSUME NEW i \in Instances, Crash(i) PROVE InPlace'
  <2>1. \A r \in Requests : request[r].at # i => request'[r] = request[r]
    BY <1>3 DEF Crash
  <2>2. \A j \in Instances : queue'[j] = IF j = i THEN <<>> ELSE queue[j]
    BY <1>3 DEF Crash, TypeOK
  <2>3. \A v \in Pool : worker'[v] = IF v[1] = i THEN Idler ELSE worker[v]
    BY <1>3 DEF Crash
  <2>4. InQueue' /\ NoneTwice'
    BY <2>1, <2>2, Elements DEF InPlace, InQueue, NoneTwice
  <2>5. InHand' /\ OneHand'
    <3> SUFFICES ASSUME NEW v \in Pool, worker'[v].pc \in Busy
                 PROVE  /\ worker[v].pc \in Busy /\ worker'[v].req = worker[v].req
                        /\ request'[worker[v].req] = request[worker[v].req]
      BY HandsStay DEF InPlace, InHand
    <3>1. v[1] # i
      BY <2>3 DEF Idler, Busy
    <3> QED
      BY <2>1, <2>3, <3>1 DEF InPlace, InHand
  <2> QED
    BY <2>4, <2>5 DEF InPlace
<1> QED
  BY <1>1, <1>2, <1>3 DEF LeaveMarker, MarkerExpires, UserExpires, Close, GateExpires

(* Every question stays in one place.                                      *)
LEMMA InPlaceAlways ==
  /\ Init => InPlace
  /\ TypeOK /\ InPlace /\ [Next]_vars => InPlace'
<1>1. ASSUME Init PROVE InPlace
  BY <1>1 DEF Init, InPlace, InQueue, NoneTwice, InHand, OneHand, Idler, Busy
<1>2. ASSUME TypeOK, InPlace, [Next]_vars PROVE InPlace'
  <2>1. CASE UNCHANGED vars
    BY <1>2, <2>1 DEF vars, InPlace, InQueue, NoneTwice, InHand, OneHand
  <2>2. CASE Next
    BY <1>2, <2>2, CallerInPlace, WorkerInPlace, StopInPlace, EnvironmentInPlace DEF Next
  <2> QED
    BY <1>2, <2>1, <2>2
<1> QED
  BY <1>1, <1>2
-----------------------------------------------------------------------------
(* The questions the counter of a user stands for: those that hold a slot  *)
(* and those about to give back the one they were refused.                 *)
Live == {"over", "counted", "queued", "held", "halted"}
Uses(u) == {r \in Requests : UserOf(r) = u /\ request[r].pc \in Live}

\* The counter never falls behind its questions by more than the failed
\* counts, and matches them as long as nothing went wrong.
UserInv ==
    Shared => \A u \in Users :
        /\ Cardinality(HeldSlots(u)) <= MaxPerUser + faults
        /\ Cardinality(Uses(u)) <= userCount[u] + faults
        /\ crashes = 0 /\ faults = 0 => userCount[u] = Cardinality(Uses(u))

(* There are finitely many questions, and a user's are at most all.        *)
LEMMA UsesFinite ==
  /\ \A u : /\ IsFiniteSet(Uses(u)) /\ Cardinality(Uses(u)) \in Nat
            /\ IsFiniteSet(HeldSlots(u)) /\ Cardinality(HeldSlots(u)) \in Nat
            /\ Cardinality(HeldSlots(u)) <= Cardinality(Uses(u))
  /\ \A u : \A S \in SUBSET Uses(u) : Cardinality(S) \in Nat /\ Cardinality(S) <= Cardinality(Uses(u))
  /\ \A u : \A S \in SUBSET HeldSlots(u) :
       Cardinality(S) \in Nat /\ Cardinality(S) <= Cardinality(HeldSlots(u))
<1>1. IsFiniteSet(Requests)
  <2>1. IsFiniteSet(1..MaxRequests)
    BY QaAssumption, FS_Interval
  <2> QED
    BY <2>1, QaAssumption, FS_Product DEF Requests
<1>2. \A u : Uses(u) \in SUBSET Requests /\ HeldSlots(u) \in SUBSET Uses(u)
  BY DEF Uses, HeldSlots, Live
<1>3. \A u : IsFiniteSet(Uses(u)) /\ IsFiniteSet(HeldSlots(u))
  BY <1>1, <1>2, FS_Subset
<1> QED
  BY <1>2, <1>3, FS_Subset, FS_CardinalityType

(* One question moves: only the sets of its user change, by that question. *)
LEMMA UsesMove ==
  ASSUME NEW r \in Requests,
         \A q \in Requests : q # r => request'[q] = request[q]
  PROVE  \A u :
    /\ Uses(u)' = IF u = UserOf(r) /\ request'[r].pc \in Live THEN Uses(u) \union {r} ELSE Uses(u) \ {r}
    /\ HeldSlots(u)' = IF u = UserOf(r) /\ request'[r].pc \in Live \ {"over"}
                         THEN HeldSlots(u) \union {r} ELSE HeldSlots(u) \ {r}
<1> SUFFICES ASSUME NEW u
             PROVE  /\ Uses(u)' = IF u = UserOf(r) /\ request'[r].pc \in Live
                                    THEN Uses(u) \union {r} ELSE Uses(u) \ {r}
                    /\ HeldSlots(u)' = IF u = UserOf(r) /\ request'[r].pc \in Live \ {"over"}
                                         THEN HeldSlots(u) \union {r} ELSE HeldSlots(u) \ {r}
  OBVIOUS
<1>1. \A q : q \in Uses(u)' <=> q \in Requests /\ UserOf(q) = u /\ request'[q].pc \in Live
  BY DEF Uses
<1>2. \A q : q \in HeldSlots(u)' <=> q \in Requests /\ UserOf(q) = u /\ request'[q].pc \in Live \ {"over"}
  BY DEF HeldSlots, Live
<1>3. \A q : q \in HeldSlots(u) <=> q \in Requests /\ UserOf(q) = u /\ request[q].pc \in Live \ {"over"}
  BY DEF HeldSlots, Live
<1> QED
  BY <1>1, <1>2, <1>3 DEF Uses

(* Nothing enters the sets and the counters stay: a loss needs a crash.    *)
LEMMA UsesStay ==
  ASSUME TypeOK, UserInv, UNCHANGED <<mode, userCount>>,
         faults' \in Nat, faults' >= faults, crashes' = 0 => crashes = 0,
         \A u \in Users : /\ Uses(u)' \subseteq Uses(u) /\ HeldSlots(u)' \subseteq HeldSlots(u)
                          /\ Uses(u)' = Uses(u) \/ crashes' # 0
  PROVE  UserInv'
<1>1. faults \in Nat /\ \A u \in Users : userCount[u] \in Int
  BY DEF TypeOK
<1> SUFFICES ASSUME Shared, NEW u \in Users
             PROVE  /\ Cardinality(HeldSlots(u)') <= MaxPerUser + faults'
                    /\ Cardinality(Uses(u)') <= userCount[u] + faults'
                    /\ crashes' = 0 /\ faults' = 0 => userCount[u] = Cardinality(Uses(u)')
  BY DEF UserInv, Shared
<1>2. /\ Cardinality(Uses(u)') \in Nat /\ Cardinality(Uses(u)') <= Cardinality(Uses(u))
      /\ Cardinality(HeldSlots(u)') \in Nat /\ Cardinality(HeldSlots(u)') <= Cardinality(HeldSlots(u))
      /\ Cardinality(Uses(u)) \in Nat /\ Cardinality(HeldSlots(u)) \in Nat
  BY UsesFinite
<1> QED
  BY <1>1, <1>2, QaAssumption DEF UserInv

(* One question gives its slot back.                                       *)
LEMMA SlotReturned ==
  ASSUME TypeOK, UserInv, NEW r \in Requests, request[r].pc \in Live, request'[r].pc \notin Live,
         \A q \in Requests : q # r => request'[q] = request[q],
         DecrUser(UserOf(r)), UNCHANGED <<mode, faults, crashes>>
  PROVE  UserInv'
<1> SUFFICES ASSUME Shared, NEW u \in Users
             PROVE  /\ Cardinality(HeldSlots(u)') <= MaxPerUser + faults
                    /\ Cardinality(Uses(u)') <= userCount'[u] + faults
                    /\ crashes = 0 /\ faults = 0 => userCount'[u] = Cardinality(Uses(u)')
  BY DEF UserInv, Shared
<1>1. faults \in Nat /\ userCount[u] \in Int
  BY DEF TypeOK
<1>2. Uses(u)' = Uses(u) \ {r} /\ HeldSlots(u)' \subseteq HeldSlots(u)
  BY UsesMove
<1>3. /\ Cardinality(HeldSlots(u)') \in Nat /\ Cardinality(HeldSlots(u)') <= Cardinality(HeldSlots(u))
      /\ Cardinality(Uses(u)) \in Nat /\ Cardinality(HeldSlots(u)) \in Nat
  BY <1>2, UsesFinite
<1>4. CASE u = UserOf(r)
  <2>1. r \in Uses(u)
    BY <1>4 DEF Uses
  <2>2. Cardinality(Uses(u)') = Cardinality(Uses(u)) - 1
    BY <1>2, <2>1, UsesFinite, FS_RemoveElement
  <2>3. userCount'[u] = userCount[u] - 1
    BY <1>4 DEF DecrUser, TypeOK
  <2> QED
    BY <1>1, <1>3, <2>2, <2>3, QaAssumption DEF UserInv
<1>5. CASE u # UserOf(r)
  <2>1. Uses(u)' = Uses(u)
    BY <1>2, <1>5 DEF Uses
  <2>2. userCount'[u] = userCount[u]
    BY <1>5 DEF DecrUser, TypeOK
  <2> QED
    BY <1>1, <1>3, <2>1, <2>2, QaAssumption DEF UserInv
<1> QED
  BY <1>4, <1>5

(* One question moves on with its slot.                                    *)
LEMMA SlotKept ==
  ASSUME NEW r \in Requests,
         request[r].pc \in Live \ {"over"}, request'[r].pc \in Live \ {"over"},
         \A q \in Requests : q # r => request'[q] = request[q]
  PROVE  \A u \in Users : Uses(u)' = Uses(u) /\ HeldSlots(u)' = HeldSlots(u)
<1> SUFFICES ASSUME NEW u \in Users PROVE Uses(u)' = Uses(u) /\ HeldSlots(u)' = HeldSlots(u)
  OBVIOUS
<1>1. CASE u = UserOf(r)
  <2>1. r \in Uses(u) /\ r \in HeldSlots(u)
    BY <1>1 DEF Uses, HeldSlots, Live
  <2>2. Uses(u)' = Uses(u) \union {r} /\ HeldSlots(u)' = HeldSlots(u) \union {r}
    BY <1>1, UsesMove
  <2> QED
    BY <2>1, <2>2
<1>2. CASE u # UserOf(r)
  <2>1. Uses(u)' = Uses(u) \ {r} /\ HeldSlots(u)' = HeldSlots(u) \ {r}
    BY <1>2, UsesMove
  <2> QED
    BY <1>2, <2>1 DEF Uses, HeldSlots
<1> QED
  BY <1>1, <1>2

(* A caller takes one slot, whether it is counted or not.                  *)
LEMMA CallerCounts ==
  ASSUME TypeOK, UserInv, NEW r \in Requests, Caller(r)
  PROVE  UserInv'
<1>1. ASSUME NEW i \in Instances, Count(r, i) \/ CountFails(r, i) PROVE UserInv'
  <2>1. /\ request[r].pc = "new"
        /\ request'[r].pc \in {"over", "counted"}
        /\ \A q \in Requests : q # r => request'[q] = request[q]
        /\ UNCHANGED <<mode, crashes>>
    BY <1>1 DEF Count, CountFails, Arrives, TypeOK
  <2> SUFFICES ASSUME Shared, NEW u \in Users
               PROVE  /\ Cardinality(HeldSlots(u)') <= MaxPerUser + faults'
                      /\ Cardinality(Uses(u)') <= userCount'[u] + faults'
                      /\ crashes = 0 /\ faults' = 0 => userCount'[u] = Cardinality(Uses(u)')
    BY <2>1 DEF UserInv, Shared
  <2>2. /\ faults \in Nat /\ userCount[u] \in Int /\ MaxPerUser \in Nat
        /\ Cardinality(Uses(u)) \in Nat /\ Cardinality(HeldSlots(u)) \in Nat
        /\ Cardinality(HeldSlots(u)) <= Cardinality(Uses(u))
    BY UsesFinite, QaAssumption DEF TypeOK
  <2>3. r \notin Uses(u) /\ r \notin HeldSlots(u)
    BY <2>1 DEF Uses, HeldSlots, Live
  <2>4. CASE u # UserOf(r)
    <3>1. Uses(u)' = Uses(u) /\ HeldSlots(u)' = HeldSlots(u)
      BY <2>1, <2>3, <2>4, UsesMove
    <3>2. userCount'[u] = userCount[u] /\ faults' \in {faults, faults + 1}
      BY <1>1, <2>4 DEF Count, CountFails, TypeOK
    <3> QED
      BY <2>2, <3>1, <3>2 DEF UserInv
  <2>5. CASE u = UserOf(r)
    <3>1. Cardinality(Uses(u)') = Cardinality(Uses(u)) + 1
      <4>1. Uses(u)' = Uses(u) \union {r}
        BY <2>1, <2>5, UsesMove DEF Live
      <4> QED
        BY <2>3, <4>1, UsesFinite, FS_AddElement
    <3>2. CASE CountFails(r, i)
      <4>1. Cardinality(HeldSlots(u)') = Cardinality(HeldSlots(u)) + 1
        <5>1. request'[r].pc = "counted"
          BY <3>2 DEF CountFails, TypeOK
        <5>2. HeldSlots(u)' = HeldSlots(u) \union {r}
          BY <2>1, <2>5, <5>1, UsesMove DEF Live
        <5> QED
          BY <2>3, <5>2, UsesFinite, FS_AddElement
      <4>2. userCount' = userCount /\ faults' = faults + 1
        BY <3>2 DEF CountFails
      <4> QED
        BY <2>2, <3>1, <4>1, <4>2 DEF UserInv
    <3>3. CASE Count(r, i)
      <4>1. userCount'[u] = userCount[u] + 1 /\ faults' = faults
        BY <2>5, <3>3 DEF Count, TypeOK
      <4>2. Cardinality(HeldSlots(u)') <= MaxPerUser + faults
        <5>1. CASE userCount[u] >= MaxPerUser
          <6>1. request'[r].pc = "over"
            BY <2>5, <3>3, <5>1 DEF Count, TypeOK
          <6>2. HeldSlots(u)' = HeldSlots(u)
            <7>1. HeldSlots(u)' = HeldSlots(u) \ {r}
              BY <2>1, <6>1, UsesMove
            <7> QED
              BY <2>3, <7>1
          <6> QED
            BY <6>2 DEF UserInv
        <5>2. CASE ~(userCount[u] >= MaxPerUser)
          <6>1. HeldSlots(u)' \subseteq HeldSlots(u) \union {r}
            BY <2>1, UsesMove
          <6>2. Cardinality(HeldSlots(u) \union {r}) = Cardinality(HeldSlots(u)) + 1
            BY <2>3, UsesFinite, FS_AddElement
          <6>3. Cardinality(HeldSlots(u)') <= Cardinality(HeldSlots(u)) + 1
                /\ Cardinality(HeldSlots(u)') \in Nat
            BY <6>1, <6>2, UsesFinite, FS_AddElement, FS_Subset, FS_CardinalityType
          <6> QED
            BY <2>2, <5>2, <6>3 DEF UserInv
        <5> QED
          BY <5>1, <5>2
      <4> QED
        BY <2>2, <3>1, <4>1, <4>2 DEF UserInv
    <3> QED
      BY <1>1, <3>2, <3>3
  <2> QED
    BY <2>4, <2>5
<1>2. CASE CountOver(r) \/ EnqueueRefused(r)
  <2>1. /\ request[r].pc \in Live
        /\ RequestGoto(r, "refused") /\ DecrUser(UserOf(r))
        /\ UNCHANGED <<mode, faults, crashes>>
    BY <1>2 DEF CountOver, EnqueueRefused, Live
  <2> QED
    BY <2>1, QuestionMoves, SlotReturned DEF Live
<1>3. CASE Enqueue(r)
  <2>1. /\ request[r].pc = "counted" /\ RequestGoto(r, "queued")
        /\ UNCHANGED <<mode, userCount, faults, crashes>>
    BY <1>3 DEF Enqueue
  <2>2. \A u \in Users : Uses(u)' = Uses(u) /\ HeldSlots(u)' = HeldSlots(u)
    <3>1. request'[r].pc = "queued" /\ \A q \in Requests : q # r => request'[q] = request[q]
      BY <2>1, QuestionMoves
    <3> QED
      BY <2>1, <3>1, SlotKept DEF Live
  <2> QED
    BY <2>1, <2>2, UsesStay DEF TypeOK
<1> QED
  BY <1>1, <1>2, <1>3 DEF Caller
(* A worker keeps the slot of its question until it gives it back.         *)
LEMMA WorkerCounts ==
  ASSUME TypeOK, InPlace, UserInv, NEW w \in Pool, WorkerStep(w) \/ GateFails(w) \/ Discard(w)
  PROVE  UserInv'
<1>1. CASE Wait(w) \/ AcquireGate(w) \/ GateFails(w) \/ Finish(w) \/ ReleaseGate(w)
  <2>1. /\ UNCHANGED <<request, mode, userCount, crashes>>
        /\ faults' \in {faults, faults + 1}
    BY <1>1 DEF Wait, AcquireGate, GateFails, Finish, ReleaseGate
  <2> QED
    BY <2>1, UsesStay DEF TypeOK, Uses, HeldSlots
<1>2. CASE Dequeue(w)
  <2> DEFINE r == Head(queue[w[1]])
  <2>1. r \in Requests /\ request[r].pc = "queued"
    <3>1. w[1] \in Instances /\ queue[w[1]] \in Seq(Requests) /\ queue[w[1]] # <<>>
      BY <1>2 DEF Dequeue, Pool, TypeOK
    <3>2. r \in Requests /\ r = queue[w[1]][1] /\ 1 \in DOMAIN queue[w[1]]
      BY <3>1, EmptySeq, LenProperties, HeadTailProperties
    <3> QED
      BY <3>1, <3>2 DEF InPlace, InQueue
  <2>2. RequestGoto(r, "held") /\ UNCHANGED <<mode, userCount, faults, crashes>>
    BY <1>2 DEF Dequeue
  <2> HIDE DEF r
  <2>3. \A u \in Users : Uses(u)' = Uses(u) /\ HeldSlots(u)' = HeldSlots(u)
    <3>1. request'[r].pc = "held" /\ \A q \in Requests : q # r => request'[q] = request[q]
      BY <2>1, <2>2, QuestionMoves
    <3> QED
      BY <2>1, <3>1, SlotKept DEF Live
  <2> QED
    BY <2>2, <2>3, UsesStay DEF TypeOK
<1>3. CASE Handle(w)
  <2> DEFINE r == worker[w].req
  <2>1. r \in Requests /\ request[r].pc \in {"held", "halted"}
    BY <1>3 DEF InPlace, InHand, Handle, Busy
  <2>2. /\ UNCHANGED request \/ RequestGoto(r, "halted")
        /\ UNCHANGED <<mode, userCount, faults, crashes>>
    BY <1>3 DEF Handle
  <2> HIDE DEF r
  <2>3. \A u \in Users : Uses(u)' = Uses(u) /\ HeldSlots(u)' = HeldSlots(u)
    <3>1. CASE UNCHANGED request
      BY <3>1 DEF Uses, HeldSlots
    <3>2. CASE RequestGoto(r, "halted")
      <4>1. request'[r].pc = "halted" /\ \A q \in Requests : q # r => request'[q] = request[q]
        BY <2>1, <3>2, QuestionMoves
      <4> QED
        BY <2>1, <4>1, SlotKept DEF Live
    <3> QED
      BY <2>2, <3>1, <3>2
  <2> QED
    BY <2>2, <2>3, UsesStay DEF TypeOK
<1>4. CASE Discard(w) \/ ReleaseUser(w)
  <2> DEFINE r == worker[w].req
  <2>1. r \in Requests /\ request[r].pc \in {"held", "halted"}
    BY <1>4 DEF InPlace, InHand, Discard, ReleaseUser, Busy
  <2>2. PICK pc \in Settled : RequestGoto(r, pc)
    BY <1>4 DEF Discard, ReleaseUser, Settled
  <2>3. DecrUser(UserOf(r)) /\ UNCHANGED <<mode, faults, crashes>>
    BY <1>4 DEF Discard, ReleaseUser
  <2> HIDE DEF r
  <2>4. /\ request[r].pc \in Live /\ request'[r].pc \notin Live
        /\ \A q \in Requests : q # r => request'[q] = request[q]
    BY <2>1, <2>2, QuestionMoves DEF Live, Settled
  <2> QED
    BY <2>1, <2>3, <2>4, SlotReturned
<1> QED
  BY <1>1, <1>2, <1>3, <1>4 DEF WorkerStep

(* A /stop gives the slot of the question it drops back.                   *)
LEMMA StopCounts ==
  ASSUME TypeOK, InPlace, UserInv, NEW i \in Instances, NEW u \in Users,
         StopQueued(i, u) \/ StopRunning(i, u)
  PROVE  UserInv'
<1>1. CASE StopRunning(i, u)
  <2>1. UNCHANGED <<request, mode, userCount, faults, crashes>>
    BY <1>1 DEF StopRunning
  <2> QED
    BY <2>1, UsesStay DEF TypeOK, Uses, HeldSlots
<1>2. CASE StopQueued(i, u)
  <2>1. PICK k \in QueuedOf(i, u) : RequestGoto(queue[i][k], "removed")
    BY <1>2 DEF StopQueued
  <2> DEFINE r == queue[i][k]
  <2>2. r \in Requests /\ request[r].pc = "queued" /\ UserOf(r) = u
    BY Elements DEF QueuedOf, InPlace, InQueue
  <2>3. DecrUser(u) /\ UNCHANGED <<mode, faults, crashes>>
    BY <1>2 DEF StopQueued
  <2> HIDE DEF r
  <2>4. /\ request[r].pc \in Live /\ request'[r].pc \notin Live
        /\ \A q \in Requests : q # r => request'[q] = request[q]
    <3>1. RequestGoto(r, "removed")
      BY <2>1 DEF r
    <3> QED
      BY <2>2, <3>1, QuestionMoves DEF Live
  <2> QED
    BY <2>2, <2>3, <2>4, SlotReturned
<1> QED
  BY <1>1, <1>2

(* A crash loses questions and keeps the counter; a key that expires       *)
(* stands for no question.                                                 *)
LEMMA EnvironmentCounts ==
  ASSUME TypeOK, UserInv,
         \/ \E u \in Users : LeaveMarker(u) \/ MarkerExpires(u) \/ UserExpires(u)
         \/ \E i \in Instances : Close(i) \/ Broadcast(i) \/ Crash(i)
         \/ GateExpires
  PROVE  UserInv'
<1>1. CASE UNCHANGED <<request, mode, userCount, faults, crashes>>
  BY <1>1, UsesStay DEF TypeOK, Uses, HeldSlots
<1>2. ASSUME NEW u \in Users, UserExpires(u) PROVE UserInv'
  <2>1. /\ UNCHANGED <<request, mode, faults, crashes>>
        /\ \A v \in Users : userCount'[v] = IF v = u THEN 0 ELSE userCount[v]
    BY <1>2 DEF UserExpires, TypeOK
  <2>2. \A v \in Users : Uses(v)' = Uses(v) /\ HeldSlots(v)' = HeldSlots(v)
    BY <2>1 DEF Uses, HeldSlots
  <2>3. Cardinality(Uses(u)) = 0
    <3>1. Uses(u) = {}
      BY <1>2 DEF UserExpires, Uses, Live, Settled
    <3> QED
      BY <3>1, FS_EmptySet
  <2> SUFFICES ASSUME Shared, NEW v \in Users
               PROVE  /\ Cardinality(HeldSlots(v)) <= MaxPerUser + faults
                      /\ Cardinality(Uses(v)) <= userCount'[v] + faults
                      /\ crashes = 0 /\ faults = 0 => userCount'[v] = Cardinality(Uses(v))
    BY <2>1, <2>2 DEF UserInv, Shared
  <2>4. faults \in Nat
    BY DEF TypeOK
  <2>5. CASE v = u
    BY <2>1, <2>3, <2>4, <2>5 DEF UserInv
  <2>6. CASE v # u
    BY <2>1, <2>6 DEF UserInv
  <2> QED
    BY <2>5, <2>6
<1>3. ASSUME NEW i \in Instances, Crash(i) PROVE UserInv'
  <2>1. /\ UNCHANGED <<mode, userCount, faults>> /\ crashes' = crashes + 1
        /\ \A r \in Requests : request'[r] = request[r] \/ request'[r].pc = "lost"
    BY <1>3 DEF Crash, TypeOK, RequestState
  <2>2. \A u : Uses(u)' \subseteq Uses(u) /\ HeldSlots(u)' \subseteq HeldSlots(u)
    BY <2>1 DEF Uses, HeldSlots, Live
  <2> QED
    BY <2>1, <2>2, UsesStay DEF TypeOK
<1> QED
  BY <1>1, <1>2, <1>3 DEF LeaveMarker, MarkerExpires, Close, Broadcast, GateExpires

(* The counters of the users are right in every state.                     *)
LEMMA UserInvAlways ==
  /\ Init => UserInv
  /\ TypeOK /\ InPlace /\ UserInv /\ [Next]_vars => UserInv'
<1>1. ASSUME Init PROVE UserInv
  <2>1. \A u : Uses(u) = {} /\ HeldSlots(u) = {}
    BY <1>1 DEF Init, Uses, HeldSlots, Live
  <2>2. faults = 0 /\ \A u \in Users : userCount[u] = 0
    BY <1>1 DEF Init
  <2>3. \A u : Cardinality(Uses(u)) = 0 /\ Cardinality(HeldSlots(u)) = 0
    BY <2>1, FS_EmptySet, Zenon
  <2> QED
    BY <2>2, <2>3, QaAssumption DEF UserInv
<1>2. ASSUME TypeOK, InPlace, UserInv, [Next]_vars PROVE UserInv'
  <2>1. CASE UNCHANGED vars
    <3>1. UNCHANGED <<request, mode, userCount, faults, crashes>>
      BY <2>1 DEF vars
    <3> QED
      BY <1>2, <3>1, UsesStay DEF TypeOK, Uses, HeldSlots
  <2>2. CASE Next
    BY <1>2, <2>2, CallerCounts, WorkerCounts, StopCounts, EnvironmentCounts DEF Next
  <2> QED
    BY <1>2, <2>1, <2>2
<1> QED
  BY <1>1, <1>2
-----------------------------------------------------------------------------
(* Without Redis: the questions of a user in one queue.                    *)
Places(s, u) == {l \in DOMAIN s : UserOf(s[l]) = u}
Asked(s, u) == {s[k] : k \in Places(s, u)}

\* The map of a queue counts the questions in it, and no user has too many.
LocalInv ==
    ~Shared => \A i \in Instances, u \in Users :
        /\ perUser[i][u] = Cardinality(Asked(queue[i], u))
        /\ perUser[i][u] <= MaxPerUser

(* As many questions as places, if none is queued twice.                   *)
LEMMA AskedCount ==
  ASSUME NEW s \in Seq(Requests), NEW u
  PROVE  /\ IsFiniteSet(Asked(s, u)) /\ Cardinality(Asked(s, u)) \in Nat
         /\ (\A k, l \in DOMAIN s : s[k] = s[l] => k = l)
              => Cardinality(Places(s, u)) = Cardinality(Asked(s, u))
<1> DEFINE f == [k \in Places(s, u) |-> s[k]]
<1>1. IsFiniteSet(Places(s, u))
  <2>1. Len(s) \in Nat /\ Places(s, u) \in SUBSET (1..Len(s))
    BY LenProperties DEF Places
  <2>2. IsFiniteSet(1..Len(s))
    BY <2>1, FS_Interval
  <2> QED
    BY <2>1, <2>2, FS_Subset
<1>2. f \in Surjection(Places(s, u), Asked(s, u))
  BY DEF Asked, Surjection
<1>3. (\A k, l \in DOMAIN s : s[k] = s[l] => k = l) => f \in Injection(Places(s, u), Asked(s, u))
  BY DEF Asked, Places, Injection, IsInjective
<1> HIDE DEF f
<1>4. /\ IsFiniteSet(Asked(s, u))
      /\ Cardinality(Asked(s, u)) = Cardinality(Places(s, u))
           <=> f \in Injection(Places(s, u), Asked(s, u))
  BY <1>1, <1>2, FS_Surjection
<1> QED
  BY <1>3, <1>4, FS_CardinalityType

(* A question appended is one more of its user.                            *)
LEMMA AskedAppend ==
  ASSUME NEW s \in Seq(Requests), NEW r \in Requests, NEW u
  PROVE  Asked(Append(s, r), u) = IF UserOf(r) = u THEN Asked(s, u) \union {r} ELSE Asked(s, u)
<1> DEFINE t == Append(s, r)
<1>1. /\ Len(s) \in Nat /\ DOMAIN s = 1..Len(s) /\ DOMAIN t = 1..(Len(s) + 1)
      /\ \A k \in 1..Len(s) : t[k] = s[k]
      /\ t[Len(s) + 1] = r
  BY LenProperties, AppendProperties
<1> HIDE DEF t
<1>2. ASSUME NEW q
      PROVE  q \in Asked(t, u) <=> q \in Asked(s, u) \/ (q = r /\ UserOf(r) = u)
  <2>1. ASSUME NEW k \in DOMAIN t, q = t[k], UserOf(t[k]) = u
        PROVE  q \in Asked(s, u) \/ (q = r /\ UserOf(r) = u)
    BY <1>1, <2>1 DEF Asked, Places
  <2>2. ASSUME NEW k \in DOMAIN s, q = s[k], UserOf(s[k]) = u
        PROVE  q \in Asked(t, u)
    <3>1. k \in DOMAIN t /\ t[k] = s[k]
      BY <1>1
    <3> QED
      BY <2>2, <3>1 DEF Asked, Places
  <2>3. ASSUME q = r, UserOf(r) = u PROVE q \in Asked(t, u)
    <3>1. Len(s) + 1 \in DOMAIN t
      BY <1>1
    <3> QED
      BY <1>1, <2>3, <3>1 DEF Asked, Places
  <2> QED
    BY <2>1, <2>2, <2>3 DEF Asked, Places
<1> QED
  BY <1>2 DEF t

\* rest is s without its k-th question; and no question is in s twice.
Cut(rest, s, k) ==
    /\ Len(rest) = Len(s) - 1
    /\ \A j \in 1..Len(rest) : rest[j] = s[IF j < k THEN j ELSE j + 1]

OnceEach(s) == \A h, l \in DOMAIN s : s[h] = s[l] => h = l

(* One question less, if none is queued twice.                             *)
LEMMA AskedWithout ==
  ASSUME NEW s \in Seq(Requests), NEW k \in 1..Len(s), NEW u,
         NEW rest \in Seq(Requests), Cut(rest, s, k), OnceEach(s)
  PROVE  Asked(rest, u) = Asked(s, u) \ {s[k]}
<1> USE DEF Cut, OnceEach
<1> DEFINE old(j) == IF j < k THEN j ELSE j + 1
<1>1. /\ Len(s) \in Nat /\ DOMAIN s = 1..Len(s) /\ DOMAIN rest = 1..Len(rest)
      /\ k \in DOMAIN s
  BY LenProperties
<1>2. \A j \in DOMAIN rest : old(j) \in DOMAIN s /\ old(j) # k /\ rest[j] = s[old(j)]
  BY <1>1
<1>3. \A l \in DOMAIN s : l # k => \E j \in DOMAIN rest : old(j) = l
  <2> SUFFICES ASSUME NEW l \in DOMAIN s, l # k PROVE \E j \in DOMAIN rest : old(j) = l
    OBVIOUS
  <2>1. CASE l < k
    BY <1>1, <2>1
  <2>2. CASE l > k
    <3>1. l - 1 \in DOMAIN rest /\ old(l - 1) = l
      BY <1>1, <2>2
    <3> QED
      BY <3>1
  <2> QED
    BY <1>1, <2>1, <2>2
<1> HIDE DEF old
<1>4. ASSUME NEW q, q \in Asked(rest, u) PROVE q \in Asked(s, u) \ {s[k]}
  BY <1>1, <1>2, <1>4 DEF Asked, Places
<1>5. ASSUME NEW q, q \in Asked(s, u) \ {s[k]} PROVE q \in Asked(rest, u)
  <2>1. PICK l \in DOMAIN s : q = s[l] /\ UserOf(s[l]) = u /\ l # k
    BY <1>5 DEF Asked, Places
  <2>2. PICK j \in DOMAIN rest : old(j) = l
    BY <1>3, <2>1
  <2> QED
    BY <1>2, <2>1, <2>2 DEF Asked, Places
<1> QED
  BY <1>4, <1>5
(* A step that leaves the queues and the maps alone.                       *)
LEMMA LocalStays ==
  ASSUME LocalInv, UNCHANGED <<mode, queue, perUser>>
  PROVE  LocalInv'
BY DEF LocalInv, Shared

(* A question leaves the queue it is in, and the map counts one less.      *)
LEMMA LocalLeaves ==
  ASSUME TypeOK, NoneTwice, LocalInv, NEW i \in Instances, NEW k \in 1..Len(queue[i]),
         NEW rest \in Seq(Requests), Len(rest) = Len(queue[i]) - 1,
         \A j \in 1..Len(rest) : rest[j] = queue[i][IF j < k THEN j ELSE j + 1],
         queue' = [queue EXCEPT ![i] = rest],
         LeaveQueue(i, UserOf(queue[i][k])), UNCHANGED mode
  PROVE  LocalInv'
<1> DEFINE v == UserOf(queue[i][k])
<1> SUFFICES ASSUME ~Shared, NEW j \in Instances, NEW u \in Users
             PROVE  /\ perUser'[j][u] = Cardinality(Asked(queue'[j], u))
                    /\ perUser'[j][u] <= MaxPerUser
  BY DEF LocalInv, Shared
<1>1. /\ queue[i] \in Seq(Requests) /\ k \in DOMAIN queue[i]
      /\ queue'[j] = IF j = i THEN rest ELSE queue[j]
      /\ perUser[j][u] \in Nat /\ perUser[j][u] = Cardinality(Asked(queue[j], u))
      /\ perUser[j][u] <= MaxPerUser
  BY Elements DEF TypeOK, LocalInv
<1>2. Asked(rest, u) = Asked(queue[i], u) \ {queue[i][k]}
  <2> DEFINE s == queue[i]
  <2>1. s \in Seq(Requests) /\ k \in 1..Len(s) /\ Cut(rest, s, k) /\ OnceEach(s)
    BY <1>1 DEF NoneTwice, Cut, OnceEach
  <2> HIDE DEF s
  <2>2. Asked(rest, u) = Asked(s, u) \ {s[k]}
    BY <2>1, AskedWithout
  <2> QED
    BY <2>2 DEF s
<1>3. CASE j = i /\ u = v
  <2>1. queue[i][k] \in Asked(queue[i], u)
    BY <1>1, <1>3 DEF Asked, Places
  <2>2. /\ IsFiniteSet(Asked(queue[i], u)) /\ Cardinality(Asked(queue[i], u)) \in Nat
        /\ Cardinality(Asked(rest, u)) \in Nat
        /\ Cardinality(Asked(rest, u)) = Cardinality(Asked(queue[i], u)) - 1
    BY <1>1, <1>2, <2>1, AskedCount, FS_RemoveElement
  <2>3. perUser'[j][u] = perUser[j][u] - 1
    <3>1. perUser[i][v] # 0
      BY <1>1, <1>3, <2>2
    <3>2. perUser' = [perUser EXCEPT ![i] = [perUser[i] EXCEPT ![v] = @ - 1]]
      BY <3>1 DEF LeaveQueue
    <3>3. perUser \in [Instances -> [Users -> Nat]]
      BY DEF TypeOK
    <3> HIDE DEF v
    <3> QED
      BY <1>3, <3>2, <3>3
  <2> QED
    BY <1>1, <1>3, <2>2, <2>3, QaAssumption
<1>4. CASE ~(j = i /\ u = v)
  <2>1. perUser'[j][u] = perUser[j][u]
    <3>1. perUser \in [Instances -> [Users -> Nat]]
      BY DEF TypeOK
    <3>2. perUser' = perUser \/ perUser' = [perUser EXCEPT ![i] = [perUser[i] EXCEPT ![v] = @ - 1]]
      BY DEF LeaveQueue
    <3> HIDE DEF v
    <3> QED
      BY <1>4, <3>1, <3>2
  <2>2. Asked(queue'[j], u) = Asked(queue[j], u)
    <3>1. CASE j = i
      <4>1. queue[i][k] \notin Asked(queue[i], u)
        BY <1>4, <3>1 DEF Asked, Places
      <4> QED
        BY <1>1, <1>2, <3>1, <4>1
    <3>2. CASE j # i
      BY <1>1, <3>2
    <3> QED
      BY <3>1, <3>2
  <2> QED
    BY <1>1, <2>1, <2>2
<1> QED
  BY <1>3, <1>4

(* A question enters a queue only below the limit, and is counted.         *)
LEMMA LocalEnters ==
  ASSUME TypeOK, InPlace, LocalInv, NEW r \in Requests, Enqueue(r)
  PROVE  LocalInv'
<1> DEFINE i == request[r].at  v == UserOf(r)
<1> SUFFICES ASSUME ~Shared, NEW j \in Instances, NEW u \in Users
             PROVE  /\ perUser'[j][u] = Cardinality(Asked(queue'[j], u))
                    /\ perUser'[j][u] <= MaxPerUser
  BY DEF LocalInv, Shared, Enqueue
<1>1. /\ queue[j] \in Seq(Requests)
      /\ perUser[j][u] \in Nat /\ perUser[j][u] = Cardinality(Asked(queue[j], u))
      /\ perUser[j][u] <= MaxPerUser
  BY Elements DEF TypeOK, LocalInv
<1>2. /\ queue' = [queue EXCEPT ![i] = Append(queue[i], r)]
      /\ perUser' = [perUser EXCEPT ![i] = [perUser[i] EXCEPT ![v] = @ + 1]]
      /\ ~(perUser[i][v] >= MaxPerUser)
      /\ request[r].pc = "counted"
  BY DEF Enqueue, Full
<1>3. queue \in [Instances -> Seq(Requests)] /\ perUser \in [Instances -> [Users -> Nat]]
  BY DEF TypeOK
<1>4. r \notin Asked(queue[j], u)
  BY <1>2 DEF Asked, Places, InPlace, InQueue
<1> HIDE DEF i, v
<1>5. CASE j = i /\ u = v
  <2>1. queue'[j] = Append(queue[j], r) /\ perUser'[j][u] = perUser[j][u] + 1
    BY <1>2, <1>3, <1>5
  <2>2. Asked(queue'[j], u) = Asked(queue[j], u) \union {r}
    BY <1>1, <1>5, <2>1, AskedAppend DEF v
  <2>3. Cardinality(Asked(queue'[j], u)) = Cardinality(Asked(queue[j], u)) + 1
    BY <1>1, <1>4, <2>2, AskedCount, FS_AddElement
  <2> QED
    BY <1>1, <1>2, <1>5, <2>1, <2>3, QaAssumption
<1>6. CASE ~(j = i /\ u = v)
  <2>1. perUser'[j][u] = perUser[j][u]
    BY <1>2, <1>3, <1>6
  <2>2. Asked(queue'[j], u) = Asked(queue[j], u)
    <3>1. CASE j = i
      <4>1. queue'[j] = Append(queue[j], r) /\ u # UserOf(r)
        BY <1>2, <1>3, <1>6, <3>1 DEF v
      <4> QED
        BY <1>1, <4>1, AskedAppend
    <3>2. CASE j # i
      BY <1>2, <1>3, <3>2
    <3> QED
      BY <3>1, <3>2
  <2> QED
    BY <1>1, <2>1, <2>2
<1> QED
  BY <1>5, <1>6

(* The maps of the queues are right in every state.                        *)
LEMMA LocalInvAlways ==
  /\ Init => LocalInv
  /\ TypeOK /\ InPlace /\ LocalInv /\ [Next]_vars => LocalInv'
<1>1. ASSUME Init PROVE LocalInv
  <2> SUFFICES ASSUME NEW i \in Instances, NEW u \in Users
               PROVE  /\ perUser[i][u] = Cardinality(Asked(queue[i], u))
                      /\ perUser[i][u] <= MaxPerUser
    BY DEF LocalInv
  <2>1. queue[i] = <<>> /\ perUser[i][u] = 0
    BY <1>1 DEF Init
  <2>2. Asked(queue[i], u) = {}
    BY <2>1 DEF Asked, Places
  <2>3. Cardinality(Asked(queue[i], u)) = 0
    BY <2>2, FS_EmptySet
  <2>4. 0 <= MaxPerUser
    BY QaAssumption
  <2> QED
    BY <2>1, <2>3, <2>4
<1>2. ASSUME TypeOK, InPlace, LocalInv, [Next]_vars PROVE LocalInv'
  <2>1. CASE UNCHANGED <<mode, queue, perUser>>
    BY <1>2, <2>1, LocalStays
  <2>2. ASSUME NEW r \in Requests, Caller(r) PROVE LocalInv'
    BY <1>2, <2>1, <2>2, LocalEnters DEF Caller, Count, CountFails, CountOver, EnqueueRefused
  <2>3. ASSUME NEW w \in Pool, Dequeue(w) PROVE LocalInv'
    <3> DEFINE i == w[1]  rest == Tail(queue[i])
    <3>1. /\ i \in Instances /\ queue[i] \in Seq(Requests) /\ queue[i] # <<>>
          /\ LeaveQueue(i, UserOf(Head(queue[i]))) /\ UNCHANGED mode
          /\ queue' = [queue EXCEPT ![i] = rest]
      BY <1>2, <2>3 DEF Dequeue, Pool, TypeOK
    <3>2. 1 \in 1..Len(queue[i]) /\ Head(queue[i]) = queue[i][1]
      BY <3>1, EmptySeq, LenProperties
    <3>3. /\ rest \in Seq(Requests) /\ Len(rest) = Len(queue[i]) - 1
          /\ \A j \in 1..Len(rest) : rest[j] = queue[i][IF j < 1 THEN j ELSE j + 1]
      BY <3>1, HeadTailProperties
    <3> HIDE DEF i, rest
    <3> QED
      BY <1>2, <3>1, <3>2, <3>3, LocalLeaves DEF InPlace
  <2>4. ASSUME NEW w \in Pool, WorkerStep(w) \/ GateFails(w) \/ Discard(w) PROVE LocalInv'
    BY <2>1, <2>3, <2>4 DEF WorkerStep, Wait, AcquireGate, GateFails, Discard, Handle, Finish,
         ReleaseGate, ReleaseUser
  <2>5. ASSUME NEW i \in Instances, NEW u \in Users, StopQueued(i, u) PROVE LocalInv'
    <3>1. PICK k \in QueuedOf(i, u) :
            queue' = [queue EXCEPT ![i] = SubSeq(@, 1, k - 1) \o SubSeq(@, k + 1, Len(@))]
      BY <2>5 DEF StopQueued
    <3> DEFINE rest == SubSeq(queue[i], 1, k - 1) \o SubSeq(queue[i], k + 1, Len(queue[i]))
    <3>2. k \in 1..Len(queue[i]) /\ queue[i] \in Seq(Requests) /\ UserOf(queue[i][k]) = u
      BY <1>2, Elements DEF QueuedOf
    <3>3. /\ rest \in Seq(Requests) /\ Len(rest) = Len(queue[i]) - 1
          /\ \A j \in 1..Len(rest) : rest[j] = queue[i][IF j < k THEN j ELSE j + 1]
      BY <3>2, CutElements
    <3>4. queue' = [queue EXCEPT ![i] = rest] /\ LeaveQueue(i, u) /\ UNCHANGED mode
      BY <2>5, <3>1 DEF StopQueued
    <3> HIDE DEF rest
    <3> QED
      BY <1>2, <3>2, <3>3, <3>4, LocalLeaves DEF InPlace
  <2>6. ASSUME NEW i \in Instances, Crash(i) PROVE LocalInv'
    <3> SUFFICES ASSUME ~Shared, NEW j \in Instances, NEW u \in Users
                 PROVE  /\ perUser'[j][u] = Cardinality(Asked(queue'[j], u))
                        /\ perUser'[j][u] <= MaxPerUser
      BY <2>6 DEF LocalInv, Shared, Crash
    <3>1. /\ queue'[j] = IF j = i THEN <<>> ELSE queue[j]
          /\ perUser'[j] = IF j = i THEN [v \in Users |-> 0] ELSE perUser[j]
      BY <1>2, <2>6 DEF Crash, TypeOK
    <3>2. CASE j = i
      <4>1. queue'[j] = <<>> /\ perUser'[j][u] = 0
        BY <3>1, <3>2
      <4>2. Asked(queue'[j], u) = {}
        BY <4>1 DEF Asked, Places
      <4>3. Cardinality(Asked(queue'[j], u)) = 0
        BY <4>2, FS_EmptySet
      <4>4. 0 <= MaxPerUser
        BY QaAssumption
      <4> QED
        BY <4>1, <4>3, <4>4
    <3>3. CASE j # i
      BY <1>2, <3>1, <3>3 DEF LocalInv
    <3> QED
      BY <3>2, <3>3
  <2> QED
    BY <1>2, <2>1, <2>2, <2>4, <2>5, <2>6 DEF Next, StopRunning, LeaveMarker, MarkerExpires, UserExpires,
         Close, Broadcast, GateExpires, vars
<1> QED
  BY <1>1, <1>2

(* A queue holds as many questions of a user as places with one of theirs. *)
LEMMA QueuedAsked ==
  ASSUME TypeOK, InPlace
  PROVE  \A i \in Instances, u \in Users :
           Cardinality(QueuedOf(i, u)) = Cardinality(Asked(queue[i], u))
<1> SUFFICES ASSUME NEW i \in Instances, NEW u \in Users
             PROVE  Cardinality(QueuedOf(i, u)) = Cardinality(Asked(queue[i], u))
  OBVIOUS
<1>1. QueuedOf(i, u) = Places(queue[i], u) /\ queue[i] \in Seq(Requests)
  BY DEF QueuedOf, Places, TypeOK
<1> QED
  BY <1>1, AskedCount DEF InPlace, NoneTwice

(***************************************************************************)
(* A user has no more questions than configured: over all instances with   *)
(* Redis, one for each failed count apart, and in each queue without; for  *)
(* any number of instances and workers, with stops, crashes and shutdowns. *)
(***************************************************************************)
THEOREM UserHolds == Spec => []UserLimit
<1> DEFINE Inv == TypeOK /\ InPlace /\ UserInv /\ LocalInv
<1>1. Init => Inv
  BY InitType, InPlaceAlways, UserInvAlways, LocalInvAlways
<1>2. Inv /\ [Next]_vars => Inv'
  BY NextType, InPlaceAlways, UserInvAlways, LocalInvAlways
<1>3. Inv => UserLimit
  <2> SUFFICES ASSUME Inv, NEW u \in Users
               PROVE  IF Shared THEN Cardinality(HeldSlots(u)) <= MaxPerUser + faults
                      ELSE \A i \in Instances : Cardinality(QueuedOf(i, u)) <= MaxPerUser
    BY DEF UserLimit
  <2>1. \A i \in Instances : Cardinality(QueuedOf(i, u)) = Cardinality(Asked(queue[i], u))
    BY QueuedAsked
  <2> QED
    BY <2>1 DEF UserInv, LocalInv
<1> QED
  BY <1>1, <1>2, <1>3, PTL DEF Spec

------------------------------------------------------------------------------
\* As long as nothing went wrong, the gate counts the workers inside.
GateExact == Gated /\ crashes = 0 /\ faults = 0 => gate = Cardinality(Inside)

(* A step that moves nobody through the gate and leaves the counter alone. *)
LEMMA SameInside ==
  ASSUME GateExact, Inside' = Inside, UNCHANGED <<mode, gate>>,
         UNCHANGED <<crashes, faults>> \/ crashes' # 0 \/ faults' # 0
  PROVE  GateExact'
BY DEF GateExact, Gated, Shared

(* Callers, stops and the environment move nobody through it.              *)
LEMMA OutsideExact ==
  ASSUME TypeOK, GateExact,
         \/ \E r \in Requests : Caller(r)
         \/ \E i \in Instances, u \in Users : StopQueued(i, u) \/ StopRunning(i, u)
         \/ \E u \in Users : LeaveMarker(u) \/ MarkerExpires(u) \/ UserExpires(u)
         \/ \E i \in Instances : Close(i) \/ Broadcast(i) \/ Crash(i)
  PROVE  GateExact'
<1>1. ASSUME NEW r \in Requests, Caller(r) PROVE GateExact'
  <2>1. CASE UNCHANGED <<worker, mode, gate, crashes, faults>>
    BY <2>1, SameInside DEF Inside
  <2>2. ASSUME NEW i \in Instances, CountFails(r, i) PROVE GateExact'
    <3>1. faults' # 0
      BY <2>2 DEF CountFails, TypeOK
    <3> QED
      BY <2>2, <3>1, SameInside DEF CountFails, Inside
  <2>3. ASSUME NEW w \in Pool, worker[w].pc = "waiting", WorkerGoto(w, "ready"),
               UNCHANGED <<mode, gate, crashes, faults>>
        PROVE  GateExact'
    <3>1. w \notin Inside
      BY <2>3 DEF Inside, InGate
    <3>2. Inside' = Inside
      BY <2>3, <3>1, GotoMoves DEF InGate
    <3> QED
      BY <2>3, <3>2, SameInside
  <2>4. CASE Enqueue(r)
    BY <2>1, <2>3, <2>4 DEF Enqueue, Signal
  <2> QED
    BY <1>1, <2>1, <2>2, <2>4 DEF Caller, Count, CountOver, EnqueueRefused
<1>2. ASSUME NEW i \in Instances, NEW u \in Users, StopQueued(i, u) \/ StopRunning(i, u)
      PROVE  GateExact'
  BY <1>2, SameInside DEF StopQueued, StopRunning, Inside
<1>3. ASSUME NEW u \in Users, LeaveMarker(u) \/ MarkerExpires(u) \/ UserExpires(u) PROVE GateExact'
  BY <1>3, SameInside DEF LeaveMarker, MarkerExpires, UserExpires, Inside
<1>4. ASSUME NEW i \in Instances, Close(i) PROVE GateExact'
  BY <1>4, SameInside DEF Close, Inside
<1>5. ASSUME NEW i \in Instances, Broadcast(i) PROVE GateExact'
  <2>1. \A w \in Pool : worker'[w].pc \in InGate <=> worker[w].pc \in InGate
    BY <1>5 DEF Broadcast, InGate, TypeOK, WorkerState
  <2>2. Inside' = Inside
    BY <2>1 DEF Inside, Pool
  <2> QED
    BY <1>5, <2>2, SameInside DEF Broadcast
<1>6. ASSUME NEW i \in Instances, Crash(i) PROVE GateExact'
  BY <1>6 DEF Crash, GateExact, TypeOK
<1> QED
  BY <1>1, <1>2, <1>3, <1>4, <1>5, <1>6

(* A worker counts itself in and out at the gate.                          *)
LEMMA WorkerExact ==
  ASSUME TypeOK, GateExact, NEW w \in Pool, WorkerStep(w) \/ GateFails(w) \/ Discard(w)
  PROVE  GateExact'
<1>1. Idler \in WorkerState /\ Idler.pc \notin InGate
  BY DEF Idler, WorkerState, InGate
<1>2. IsFiniteSet(Inside) /\ Cardinality(Inside) \in Nat
  BY InsideFinite
<1>3. CASE Wait(w)
  <2>1. Inside' = Inside \ {w} /\ w \notin Inside
    BY <1>3, GotoMoves DEF Wait, Inside, InGate
  <2> QED
    BY <1>3, <2>1, SameInside DEF Wait
<1>4. CASE Dequeue(w)
  <2> DEFINE rec == [pc |-> "taken", req |-> Head(queue[w[1]])]
  <2>1. queue[w[1]] \in Seq(Requests) /\ queue[w[1]] # <<>>
    BY <1>4 DEF Dequeue, Pool, TypeOK
  <2>2. rec \in WorkerState /\ rec.pc \notin InGate
    BY <2>1, HeadTailProperties DEF WorkerState, InGate
  <2>3. worker' = [worker EXCEPT ![w] = rec] /\ w \notin Inside
    BY <1>4 DEF Dequeue, Inside, InGate
  <2> HIDE DEF rec
  <2>4. Inside' = Inside
    BY <2>2, <2>3, OneMoves
  <2> QED
    BY <1>4, <2>4, SameInside DEF Dequeue
<1>5. CASE AcquireGate(w)
  <2>1. Inside' = Inside \union {w}
    BY <1>5, GotoMoves DEF AcquireGate, InGate
  <2>2. w \notin Inside
    BY <1>5 DEF AcquireGate, Inside, InGate
  <2>3. Cardinality(Inside') = Cardinality(Inside) + 1
    BY <1>2, <2>1, <2>2, FS_AddElement
  <2> QED
    BY <1>5, <2>3 DEF AcquireGate, GateExact, Gated, Shared
<1>6. CASE GateFails(w)
  BY <1>6 DEF GateFails, GateExact, TypeOK
<1>7. CASE Discard(w) \/ ReleaseUser(w)
  <2>1. worker' = [worker EXCEPT ![w] = Idler] /\ w \notin Inside
    BY <1>7 DEF Discard, ReleaseUser, Inside, InGate
  <2>2. Inside' = Inside
    BY <1>1, <2>1, OneMoves
  <2> QED
    BY <1>7, <2>2, SameInside DEF Discard, ReleaseUser
<1>8. CASE Handle(w)
  <2>1. Inside' = Inside \union {w} /\ w \in Inside
    BY <1>8, GotoMoves DEF Handle, Inside, InGate
  <2> QED
    BY <1>8, <2>1, SameInside DEF Handle
<1>9. CASE Finish(w)
  <2>1. Inside' = Inside \union {w} /\ w \in Inside
    BY <1>9, GotoMoves DEF Finish, Inside, InGate
  <2> QED
    BY <1>9, <2>1, SameInside DEF Finish
<1>10. CASE ReleaseGate(w)
  <2>1. w \in Inside
    BY <1>10 DEF ReleaseGate, Inside, InGate
  <2>2. Inside' = Inside \ {w}
    BY <1>10, GotoMoves DEF ReleaseGate, InGate
  <2>3. Cardinality(Inside') = Cardinality(Inside) - 1
    BY <1>2, <2>1, <2>2, FS_RemoveElement
  <2> QED
    BY <1>10, <2>3 DEF ReleaseGate, GateExact, Gated, Shared
<1> QED
  BY <1>3, <1>4, <1>5, <1>6, <1>7, <1>8, <1>9, <1>10 DEF WorkerStep

(***************************************************************************)
(* No slot leaks and none is given back twice: as long as no instance      *)
(* crashed and no command failed, the gate counts exactly the workers      *)
(* inside it, the counter of a user exactly the slots not given back yet,  *)
(* and without Redis each map exactly the questions in its queue.          *)
(***************************************************************************)
THEOREM SlotsHold == Spec => []SlotsMatch
<1> DEFINE Inv == TypeOK /\ InPlace /\ UserInv /\ LocalInv /\ GateExact
<1>1. Init => Inv
  <2>1. ASSUME Init PROVE GateExact
    <3>1. Inside = {} /\ gate = 0
      BY <2>1 DEF Init, Inside, Idler, InGate
    <3> QED
      BY <3>1, FS_EmptySet DEF GateExact
  <2> QED
    BY <2>1, InitType, InPlaceAlways, UserInvAlways, LocalInvAlways
<1>2. Inv /\ [Next]_vars => Inv'
  <2>1. ASSUME Inv, [Next]_vars PROVE GateExact'
    <3>1. CASE UNCHANGED vars
      BY <2>1, <3>1, SameInside DEF vars, Inside
    <3>2. CASE GateExpires
      <4>1. Inside' = {} /\ gate' = 0
        BY <3>2 DEF GateExpires, Inside
      <4> QED
        BY <4>1, FS_EmptySet DEF GateExact
    <3> QED
      BY <2>1, <3>1, <3>2, OutsideExact, WorkerExact DEF Next
  <2> QED
    BY <2>1, NextType, InPlaceAlways, UserInvAlways, LocalInvAlways
<1>3. Inv => SlotsMatch
  <2> SUFFICES ASSUME Inv, crashes = 0, faults = 0
               PROVE  /\ Gated => gate = Cardinality({w \in Pool : worker[w].pc \in InGate})
                      /\ \A u \in Users :
                           IF Shared
                           THEN userCount[u] = Cardinality(HeldSlots(u) \union
                                  {r \in Requests : UserOf(r) = u /\ request[r].pc = "over"})
                           ELSE \A i \in Instances :
                                  perUser[i][u] = Cardinality(QueuedOf(i, u))
    BY DEF SlotsMatch
  <2>1. Gated => gate = Cardinality({w \in Pool : worker[w].pc \in InGate})
    BY DEF GateExact, Inside
  <2>2. \A u \in Users : Uses(u) = HeldSlots(u) \union
                           {r \in Requests : UserOf(r) = u /\ request[r].pc = "over"}
    BY DEF Uses, Live, HeldSlots
  <2>3. \A i \in Instances, u \in Users :
          Cardinality(QueuedOf(i, u)) = Cardinality(Asked(queue[i], u))
    BY QueuedAsked
  <2> QED
    BY <2>1, <2>2, <2>3 DEF UserInv, LocalInv
<1> QED
  BY <1>1, <1>2, <1>3, PTL DEF Spec
=============================================================================
