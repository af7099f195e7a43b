---------------------------- MODULE QaQueueProofs ----------------------------
(***************************************************************************)
(* Type correctness of the question queue and the limit of the gate, for   *)
(* any number of instances, workers, users, stops, crashes and failures.   *)
(***************************************************************************)
EXTENDS QaQueue, FiniteSetTheorems, SequenceTheorems, TLAPS

(* What the shared helpers leave behind is well typed.                     *)
LEMMA HelperType ==
  ASSUME TypeOK
  PROVE  /\ \A r, pc : RequestGoto(r, pc) /\ pc \in {"counted", "queued", "held", "halted"} \union Settled
                          => request' \in [Requests -> RequestState]
         /\ \A w, pc : WorkerGoto(w, pc)
                       /\ pc \in {"ready", "waiting", "handle", "run", "ungate", "uncount", "exited"}
                          => worker' \in [Pool -> WorkerState]
         /\ \A u : DecrUser(u) => userCount' \in [Users -> Int]
         /\ \A i, u : LeaveQueue(i, u) => perUser' \in [Instances -> [Users -> Nat]]
         /\ \A i : Signal(i) => worker' \in [Pool -> WorkerState]
<1> USE DEF TypeOK
<1>1. ASSUME NEW r, NEW pc \in {"counted", "queued", "held", "halted"} \union Settled,
             RequestGoto(r, pc)
      PROVE  request' \in [Requests -> RequestState]
  BY <1>1 DEF RequestGoto, RequestState
<1>2. ASSUME NEW w,
             NEW pc \in {"ready", "waiting", "handle", "run", "ungate", "uncount", "exited"},
             WorkerGoto(w, pc)
      PROVE  worker' \in [Pool -> WorkerState]
  BY <1>2 DEF WorkerGoto, WorkerState
<1>3. ASSUME NEW u, DecrUser(u) PROVE userCount' \in [Users -> Int]
  <2>1. [userCount EXCEPT ![u] = @ - 1] \in [Users -> Int]
    <3>1. \A v \in Users : userCount[v] \in Int
      OBVIOUS
    <3>2. \A v \in Users : [userCount EXCEPT ![u] = @ - 1][v] \in Int
      BY <3>1
    <3> QED
      BY <3>2
  <2> QED
    BY <1>3, <2>1 DEF DecrUser
<1>4. ASSUME NEW i, NEW u, LeaveQueue(i, u) PROVE perUser' \in [Instances -> [Users -> Nat]]
  <2>1. CASE Shared \/ perUser[i][u] = 0
    BY <1>4, <2>1 DEF LeaveQueue
  <2>2. CASE ~(Shared \/ perUser[i][u] = 0)
    <3>1. \A j \in Instances : perUser[j] \in [Users -> Nat]
      OBVIOUS
    <3>2. ASSUME i \in Instances PROVE [perUser[i] EXCEPT ![u] = @ - 1] \in [Users -> Nat]
      <4>1. perUser[i] \in [Users -> Nat] /\ perUser[i][u] # 0
        BY <2>2, <3>1, <3>2
      <4>2. \A v \in Users : [perUser[i] EXCEPT ![u] = @ - 1][v] \in Nat
        BY <4>1
      <4> QED
        BY <4>1, <4>2
    <3>3. perUser' = [perUser EXCEPT ![i] = [perUser[i] EXCEPT ![u] = @ - 1]]
      BY <1>4, <2>2 DEF LeaveQueue
    <3> QED
      BY <3>1, <3>2, <3>3
  <2> QED
    BY <2>1, <2>2
<1>5. \A i : Signal(i) => worker' \in [Pool -> WorkerState]
  BY <1>2 DEF Signal
<1> QED
  BY <1>1, <1>2, <1>3, <1>4, <1>5

(* Every initial state is well typed.                                      *)
LEMMA InitType == Init => TypeOK
<1> SUFFICES ASSUME Init PROVE TypeOK
  OBVIOUS
<1> USE QaAssumption DEF Init
<1>1. queue \in [Instances -> Seq(Requests)] /\ \A i \in Instances : Len(queue[i]) <= MaxSize
  BY EmptySeq
<1>2. request \in [Requests -> RequestState]
  BY DEF RequestState
<1>3. worker \in [Pool -> WorkerState]
  BY DEF WorkerState, Idler
<1> QED
  BY <1>1, <1>2, <1>3 DEF TypeOK

(* A caller leaves a well-typed state.                                     *)
LEMMA CallerType ==
  ASSUME TypeOK, NEW r \in Requests, Caller(r)
  PROVE  TypeOK'
<1> USE DEF TypeOK
<1>1. ASSUME NEW i \in Instances, Count(r, i) PROVE TypeOK'
  <2>1. request' \in [Requests -> RequestState]
    BY <1>1 DEF Count, RequestState
  <2>2. userCount' \in [Users -> Int]
    <3>1. \A v \in Users : userCount[v] \in Int
      OBVIOUS
    <3>2. \A v \in Users : [userCount EXCEPT ![UserOf(r)] = @ + 1][v] \in Int
      BY <3>1
    <3> QED
      BY <1>1, <3>2 DEF Count
  <2> QED
    BY <1>1, <2>1, <2>2 DEF Count
<1>2. ASSUME NEW i \in Instances, CountFails(r, i) PROVE TypeOK'
  <2>1. request' \in [Requests -> RequestState]
    BY <1>2 DEF CountFails, RequestState
  <2>2. faults' \in 0..MaxFaults
    BY <1>2, QaAssumption DEF CountFails
  <2> QED
    BY <1>2, <2>1, <2>2 DEF CountFails
<1>3. CASE CountOver(r)
  BY <1>3, HelperType DEF CountOver, Settled
<1>4. CASE EnqueueRefused(r)
  BY <1>4, HelperType DEF EnqueueRefused, Settled
<1>5. CASE Enqueue(r)
  <2> DEFINE i == request[r].at  u == UserOf(r)
  <2>1. request' \in [Requests -> RequestState]
    BY <1>5, HelperType DEF Enqueue
  <2>2. queue' \in [Instances -> Seq(Requests)] /\ \A j \in Instances : Len(queue'[j]) <= MaxSize
    <3>1. \A j \in Instances : /\ Append(queue[j], r) \in Seq(Requests)
                               /\ Len(Append(queue[j], r)) = Len(queue[j]) + 1
      BY AppendProperties
    <3>2. i \in Instances => Len(queue[i]) + 1 <= MaxSize
      BY <1>5, QaAssumption, LenProperties DEF Enqueue, Full
    <3>3. queue' = [queue EXCEPT ![i] = Append(queue[i], r)]
      BY <1>5 DEF Enqueue
    <3> HIDE DEF i
    <3> QED
      BY <3>1, <3>2, <3>3
  <2>3. perUser' \in [Instances -> [Users -> Nat]]
    <3>1. ASSUME NEW j \in Instances PROVE [perUser[j] EXCEPT ![u] = @ + 1] \in [Users -> Nat]
      <4>1. perUser[j] \in [Users -> Nat]
        OBVIOUS
      <4>2. \A v \in Users : [perUser[j] EXCEPT ![u] = @ + 1][v] \in Nat
        BY <4>1
      <4> QED
        BY <4>1, <4>2
    <3>2. CASE Shared
      BY <1>5, <3>2 DEF Enqueue
    <3>3. CASE ~Shared
      <4>1. perUser' = [perUser EXCEPT ![i] = [perUser[i] EXCEPT ![u] = @ + 1]]
        BY <1>5, <3>3 DEF Enqueue
      <4> HIDE DEF i, u
      <4> QED
        BY <3>1, <4>1
    <3> QED
      BY <3>2, <3>3
  <2>4. worker' \in [Pool -> WorkerState]
    BY <1>5, HelperType DEF Enqueue
  <2> QED
    BY <1>5, <2>1, <2>2, <2>3, <2>4 DEF Enqueue
<1> QED
  BY <1>1, <1>2, <1>3, <1>4, <1>5 DEF Caller

(* A worker leaves a well-typed state.                                     *)
LEMMA WorkerType ==
  ASSUME TypeOK, NEW w \in Pool, WorkerStep(w) \/ GateFails(w) \/ Discard(w)
  PROVE  TypeOK'
<1> USE DEF TypeOK
<1>1. Idler \in WorkerState
  BY DEF Idler, WorkerState
<1>2. CASE Wait(w)
  BY <1>2, HelperType DEF Wait
<1>3. CASE Dequeue(w)
  <2> DEFINE i == w[1]  r == Head(queue[i])
  <2>1. i \in Instances /\ queue[i] \in Seq(Requests) /\ queue[i] # <<>>
    BY <1>3 DEF Dequeue, Pool
  <2>2. /\ r \in Requests
        /\ Tail(queue[i]) \in Seq(Requests)
        /\ Len(Tail(queue[i])) <= MaxSize
    BY <2>1, HeadTailProperties, LenProperties, QaAssumption
  <2>3. queue' \in [Instances -> Seq(Requests)] /\ \A j \in Instances : Len(queue'[j]) <= MaxSize
    BY <1>3, <2>1, <2>2 DEF Dequeue
  <2>4. request' \in [Requests -> RequestState] /\ perUser' \in [Instances -> [Users -> Nat]]
    BY <1>3, HelperType DEF Dequeue
  <2>5. worker' \in [Pool -> WorkerState]
    <3>1. [pc |-> "taken", req |-> r] \in WorkerState
      BY <2>2 DEF WorkerState
    <3> QED
      BY <1>3, <3>1 DEF Dequeue
  <2> HIDE DEF i, r
  <2> QED
    BY <1>3, <2>3, <2>4, <2>5 DEF Dequeue
<1>4. CASE AcquireGate(w)
  BY <1>4, HelperType DEF AcquireGate
<1>5. CASE GateFails(w)
  <2>1. faults' \in 0..MaxFaults
    BY <1>5, QaAssumption DEF GateFails
  <2> QED
    BY <1>5, <2>1, HelperType DEF GateFails
<1>6. CASE Discard(w)
  BY <1>1, <1>6, HelperType DEF Discard, Settled
<1>7. CASE Handle(w)
  <2>1. request' \in [Requests -> RequestState] /\ worker' \in [Pool -> WorkerState]
    BY <1>7, HelperType DEF Handle
  <2>2. marker' \in [Users -> BOOLEAN]
    BY <1>7, Zenon DEF Handle
  <2> QED
    BY <1>7, <2>1, <2>2 DEF Handle
<1>8. CASE Finish(w)
  BY <1>8, HelperType DEF Finish
<1>9. CASE ReleaseGate(w)
  BY <1>9, HelperType DEF ReleaseGate
<1>10. CASE ReleaseUser(w)
  BY <1>1, <1>10, HelperType DEF ReleaseUser, Settled
<1> QED
  BY <1>2, <1>3, <1>4, <1>5, <1>6, <1>7, <1>8, <1>9, <1>10 DEF WorkerStep

(* What is left of a queue when one question is taken out of it.           *)
LEMMA CutOut ==
  ASSUME NEW S, NEW s \in Seq(S), NEW k \in 1..Len(s)
  PROVE  /\ SubSeq(s, 1, k - 1) \o SubSeq(s, k + 1, Len(s)) \in Seq(S)
         /\ Len(SubSeq(s, 1, k - 1) \o SubSeq(s, k + 1, Len(s))) = Len(s) - 1
<1> DEFINE before == SubSeq(s, 1, k - 1)  after == SubSeq(s, k + 1, Len(s))
<1>1. Len(s) \in Nat /\ \A j \in 1..Len(s) : s[j] \in S
  BY LenProperties
<1>2. before \in Seq(S) /\ Len(before) = k - 1
  <2>1. \A j \in 1..(k - 1) : s[j] \in S
    BY <1>1
  <2> QED
    BY <1>1, <2>1, SubSeqProperties
<1>3. after \in Seq(S) /\ Len(after) = Len(s) - k
  <2>1. \A j \in (k + 1)..Len(s) : s[j] \in S
    BY <1>1
  <2> QED
    BY <1>1, <2>1, SubSeqProperties
<1>4. before \o after \in Seq(S) /\ Len(before \o after) = Len(s) - 1
  <2> HIDE DEF before, after
  <2>1. before \o after \in Seq(S) /\ Len(before \o after) = Len(before) + Len(after)
    BY <1>2, <1>3, ConcatProperties
  <2> QED
    BY <1>1, <1>2, <1>3, <2>1
<1> QED
  BY <1>4

(* A /stop leaves a well-typed state.                                      *)
LEMMA StopType ==
  ASSUME TypeOK, NEW i \in Instances, NEW u \in Users, StopQueued(i, u) \/ StopRunning(i, u)
  PROVE  TypeOK'
<1> USE DEF TypeOK
<1>1. stops' \in [made: 0..MaxStops, marking: [Users -> Nat]]
  <2>1. Stop(u)
    BY DEF StopQueued, StopRunning
  <2>2. stops.made + 1 \in 0..MaxStops
    BY <2>1, QaAssumption DEF Stop
  <2>3. [stops.marking EXCEPT ![u] = @ + 1] \in [Users -> Nat]
    OBVIOUS
  <2> QED
    BY <2>1, <2>2, <2>3 DEF Stop
<1>2. CASE StopQueued(i, u)
  <2>1. PICK k \in QueuedOf(i, u) :
          /\ queue' = [queue EXCEPT ![i] = SubSeq(@, 1, k - 1) \o SubSeq(@, k + 1, Len(@))]
          /\ RequestGoto(queue[i][k], "removed")
    BY <1>2 DEF StopQueued
  <2>2. k \in 1..Len(queue[i])
    BY LenProperties DEF QueuedOf
  <2>3. queue' \in [Instances -> Seq(Requests)] /\ \A j \in Instances : Len(queue'[j]) <= MaxSize
    <3> DEFINE rest == SubSeq(queue[i], 1, k - 1) \o SubSeq(queue[i], k + 1, Len(queue[i]))
    <3>1. rest \in Seq(Requests) /\ Len(rest) = Len(queue[i]) - 1
      BY <2>2, CutOut
    <3>2. Len(rest) <= MaxSize
      <4>1. queue[i] \in Seq(Requests) /\ Len(queue[i]) \in Nat /\ Len(queue[i]) <= MaxSize
        BY LenProperties
      <4> HIDE DEF rest
      <4> QED
        BY <3>1, <4>1, QaAssumption
    <3>3. queue' = [queue EXCEPT ![i] = rest]
      BY <2>1
    <3> HIDE DEF rest
    <3> QED
      BY <3>1, <3>2, <3>3
  <2>4. request' \in [Requests -> RequestState]
    BY <2>1, HelperType DEF Settled
  <2>5. perUser' \in [Instances -> [Users -> Nat]] /\ userCount' \in [Users -> Int]
    BY <1>2, HelperType DEF StopQueued
  <2> QED
    BY <1>1, <1>2, <2>3, <2>4, <2>5 DEF StopQueued
<1>3. CASE StopRunning(i, u)
  BY <1>1, <1>3 DEF StopRunning
<1> QED
  BY <1>2, <1>3

(* Shutdown, crashes and expiry leave a well-typed state.                  *)
LEMMA EnvironmentType ==
  ASSUME TypeOK
  PROVE  /\ \A u \in Users : LeaveMarker(u) \/ MarkerExpires(u) \/ UserExpires(u) => TypeOK'
         /\ \A i \in Instances : Close(i) \/ Broadcast(i) \/ Crash(i) => TypeOK'
         /\ GateExpires => TypeOK'
<1> USE DEF TypeOK
<1>1. ASSUME NEW u \in Users, MarkerExpires(u) PROVE TypeOK'
  <2>1. marker' \in [Users -> BOOLEAN]
    BY <1>1, Zenon DEF MarkerExpires
  <2> QED
    BY <1>1, <2>1 DEF MarkerExpires
<1>a. ASSUME NEW u \in Users, LeaveMarker(u) PROVE TypeOK'
  <2>1. stops' \in [made: 0..MaxStops, marking: [Users -> Nat]]
    <3>1. [stops.marking EXCEPT ![u] = @ - 1] \in [Users -> Nat]
      BY <1>a DEF LeaveMarker
    <3>2. stops' = [stops EXCEPT !.marking = [stops.marking EXCEPT ![u] = @ - 1]]
      BY <1>a DEF LeaveMarker
    <3> QED
      BY <3>1, <3>2
  <2>2. marker' \in [Users -> BOOLEAN]
    BY <1>a, Zenon DEF LeaveMarker
  <2> QED
    BY <1>a, <2>1, <2>2 DEF LeaveMarker
<1>2. ASSUME NEW u \in Users, UserExpires(u) PROVE TypeOK'
  BY <1>2 DEF UserExpires
<1>3. ASSUME NEW i \in Instances, Close(i) PROVE TypeOK'
  BY <1>3 DEF Close
<1>4. ASSUME NEW i \in Instances, Broadcast(i) PROVE TypeOK'
  <2>1. worker' \in [Pool -> WorkerState]
    BY <1>4 DEF Broadcast, WorkerState
  <2> QED
    BY <1>4, <2>1 DEF Broadcast
<1>5. ASSUME NEW i \in Instances, Crash(i) PROVE TypeOK'
  <2>1. worker' \in [Pool -> WorkerState]
    BY <1>5 DEF Crash, Idler, WorkerState
  <2>2. request' \in [Requests -> RequestState]
    <3>1. \A r \in Requests : [request[r] EXCEPT !.pc = "lost"] \in RequestState
      BY DEF RequestState, Settled
    <3> QED
      BY <1>5, <3>1 DEF Crash
  <2>3. queue' \in [Instances -> Seq(Requests)] /\ \A j \in Instances : Len(queue'[j]) <= MaxSize
    BY <1>5, EmptySeq, QaAssumption DEF Crash
  <2>4. crashes' \in 0..MaxCrash
    BY <1>5, QaAssumption DEF Crash
  <2>5. /\ closed' \in [Instances -> {"open", "closing", "closed"}]
        /\ perUser' \in [Instances -> [Users -> Nat]]
    BY <1>5 DEF Crash
  <2> QED
    BY <1>5, <2>1, <2>2, <2>3, <2>4, <2>5 DEF Crash
<1>6. ASSUME GateExpires PROVE TypeOK'
  BY <1>6 DEF GateExpires
<1> QED
  BY <1>a, <1>1, <1>2, <1>3, <1>4, <1>5, <1>6

(* Every step keeps the types.                                             *)
LEMMA NextType == TypeOK /\ [Next]_vars => TypeOK'
<1> SUFFICES ASSUME TypeOK, [Next]_vars PROVE TypeOK'
  OBVIOUS
<1>1. CASE UNCHANGED vars
  BY <1>1 DEF vars, TypeOK
<1>2. CASE Next
  BY <1>2, CallerType, WorkerType, StopType, EnvironmentType DEF Next
<1> QED
  BY <1>1, <1>2

(***************************************************************************)
(* The types of the queue: no queue is longer than maxSize, no local count *)
(* of a user is negative, and every worker and question is in a known      *)
(* state, whatever the number of instances, workers and users.             *)
(***************************************************************************)
THEOREM TypeCorrect == Spec => []TypeOK
<1>1. Init => TypeOK
  BY InitType
<1>2. TypeOK /\ [Next]_vars => TypeOK'
  BY NextType
<1> QED
  BY <1>1, <1>2, PTL DEF Spec

-----------------------------------------------------------------------------
(* The workers that have passed the gate and not released it.              *)
Inside == {w \in Pool : worker[w].pc \in InGate}

\* What makes the limit inductive: the counter stays below the limit, and
\* counts every worker inside, those apart that a failed script let in or
\* that took a slot off when they left.
GateInv == Gated => gate <= GlobalMax /\ Cardinality(Inside) <= gate + faults

(* Only finitely many workers can be inside.                               *)
LEMMA InsideFinite ==
  /\ IsFiniteSet(Inside) /\ Cardinality(Inside) \in Nat
  /\ \A S \in SUBSET Inside : IsFiniteSet(S) /\ Cardinality(S) \in Nat
                              /\ Cardinality(S) <= Cardinality(Inside)
<1>1. IsFiniteSet(Pool)
  BY QaAssumption, FS_Product DEF Pool
<1>2. IsFiniteSet(Inside)
  BY <1>1, FS_Subset DEF Inside
<1> QED
  BY <1>2, FS_Subset, FS_CardinalityType

(* A step of one worker brings it in, takes it out, or changes nothing.    *)
LEMMA OneMoves ==
  ASSUME TypeOK, NEW w \in Pool, NEW rec \in WorkerState,
         worker' = [worker EXCEPT ![w] = rec]
  PROVE  Inside' = IF rec.pc \in InGate THEN Inside \union {w} ELSE Inside \ {w}
<1>1. \A v \in Pool : worker'[v] = IF v = w THEN rec ELSE worker[v]
  BY DEF TypeOK
<1> QED
  BY <1>1 DEF Inside, Pool

(* The same for a step that only moves the worker on.                      *)
LEMMA GotoMoves ==
  ASSUME TypeOK, NEW w \in Pool,
         NEW pc \in {"ready", "waiting", "handle", "run", "ungate", "uncount", "exited"},
         WorkerGoto(w, pc)
  PROVE  Inside' = IF pc \in InGate THEN Inside \union {w} ELSE Inside \ {w}
<1> DEFINE rec == [worker[w] EXCEPT !.pc = pc]
<1>1. rec \in WorkerState /\ rec.pc = pc
  BY DEF TypeOK, WorkerState
<1>2. worker' = [worker EXCEPT ![w] = rec]
  BY DEF WorkerGoto
<1> HIDE DEF rec
<1> QED
  BY <1>1, <1>2, OneMoves

(* A step that lets nobody in and leaves the counter alone keeps it right. *)
LEMMA NobodyEnters ==
  ASSUME TypeOK, GateInv, Inside' \subseteq Inside, UNCHANGED <<mode, gate, faults>>
  PROVE  GateInv'
<1>1. Cardinality(Inside') \in Nat /\ Cardinality(Inside') <= Cardinality(Inside)
  BY InsideFinite
<1> QED
  BY <1>1, InsideFinite DEF GateInv, Gated, Shared, TypeOK

(* Callers, stops and the environment let nobody in.                       *)
LEMMA OutsideGate ==
  ASSUME TypeOK, GateInv,
         \/ \E r \in Requests : Caller(r)
         \/ \E i \in Instances, u \in Users : StopQueued(i, u) \/ StopRunning(i, u)
         \/ \E u \in Users : LeaveMarker(u) \/ MarkerExpires(u) \/ UserExpires(u)
         \/ \E i \in Instances : Close(i) \/ Broadcast(i) \/ Crash(i)
  PROVE  GateInv'
<1>1. ASSUME NEW r \in Requests, Caller(r) PROVE GateInv'
  <2>1. CASE UNCHANGED worker /\ UNCHANGED <<mode, gate, faults>>
    BY <2>1, NobodyEnters DEF Inside
  <2>2. ASSUME NEW i \in Instances, CountFails(r, i) PROVE GateInv'
    <3>1. Inside' = Inside /\ UNCHANGED <<mode, gate>> /\ faults' = faults + 1
      BY <2>2 DEF CountFails, Inside
    <3> QED
      BY <3>1, InsideFinite DEF GateInv, Gated, Shared, TypeOK
  <2>3. ASSUME Enqueue(r) PROVE GateInv'
    <3>1. UNCHANGED <<mode, gate, faults>>
      BY <2>3 DEF Enqueue
    <3>2. CASE UNCHANGED worker
      BY <3>1, <3>2, NobodyEnters DEF Inside
    <3>3. ASSUME NEW w \in Pool, WorkerGoto(w, "ready") PROVE GateInv'
      <4>1. Inside' \subseteq Inside
        BY <3>3, GotoMoves DEF InGate
      <4> QED
        BY <3>1, <4>1, NobodyEnters
    <3> QED
      BY <2>3, <3>2, <3>3 DEF Enqueue, Signal
  <2> QED
    BY <1>1, <2>1, <2>2, <2>3 DEF Caller, Count, CountOver, EnqueueRefused
<1>2. ASSUME NEW i \in Instances, NEW u \in Users, StopQueued(i, u) \/ StopRunning(i, u)
      PROVE  GateInv'
  BY <1>2, NobodyEnters DEF StopQueued, StopRunning, Inside
<1>3. ASSUME NEW u \in Users, LeaveMarker(u) \/ MarkerExpires(u) \/ UserExpires(u) PROVE GateInv'
  BY <1>3, NobodyEnters DEF LeaveMarker, MarkerExpires, UserExpires, Inside
<1>4. ASSUME NEW i \in Instances, Close(i) PROVE GateInv'
  BY <1>4, NobodyEnters DEF Close, Inside
<1>5. ASSUME NEW i \in Instances, Broadcast(i) PROVE GateInv'
  <2>1. \A w \in Pool : worker'[w].pc \in InGate => worker[w].pc \in InGate
    BY <1>5 DEF Broadcast, InGate, TypeOK, WorkerState
  <2> QED
    BY <1>5, <2>1, NobodyEnters DEF Broadcast, Inside, Pool
<1>6. ASSUME NEW i \in Instances, Crash(i) PROVE GateInv'
  <2>1. \A w \in Pool : worker'[w].pc \in InGate => worker[w].pc \in InGate
    BY <1>6 DEF Crash, Idler, InGate, TypeOK
  <2> QED
    BY <1>6, <2>1, NobodyEnters DEF Crash, Inside, Pool
<1> QED
  BY <1>1, <1>2, <1>3, <1>4, <1>5, <1>6

(* Every step of a worker keeps the counter right.                         *)
LEMMA WorkerGate ==
  ASSUME TypeOK, GateInv, NEW w \in Pool, WorkerStep(w) \/ GateFails(w) \/ Discard(w)
  PROVE  GateInv'
<1>1. Idler \in WorkerState /\ Idler.pc \notin InGate
  BY DEF Idler, WorkerState, InGate
<1>2. IsFiniteSet(Inside) /\ Cardinality(Inside) \in Nat
  BY InsideFinite
<1>3. CASE Wait(w)
  <2>1. Inside' \subseteq Inside
    BY <1>3, GotoMoves DEF Wait, InGate
  <2> QED
    BY <1>3, <2>1, NobodyEnters DEF Wait
<1>4. CASE Dequeue(w)
  <2> DEFINE rec == [pc |-> "taken", req |-> Head(queue[w[1]])]
  <2>1. queue[w[1]] \in Seq(Requests) /\ queue[w[1]] # <<>>
    BY <1>4 DEF Dequeue, Pool, TypeOK
  <2>2. rec \in WorkerState /\ rec.pc \notin InGate
    BY <2>1, HeadTailProperties DEF WorkerState, InGate
  <2>3. Inside' \subseteq Inside
    <3>1. worker' = [worker EXCEPT ![w] = rec]
      BY <1>4 DEF Dequeue
    <3> HIDE DEF rec
    <3> QED
      BY <2>2, <3>1, OneMoves
  <2> QED
    BY <1>4, <2>3, NobodyEnters DEF Dequeue
<1>5. CASE AcquireGate(w)
  <2>1. Inside' = Inside \union {w}
    BY <1>5, GotoMoves DEF AcquireGate, InGate
  <2>2. w \notin Inside
    BY <1>5 DEF AcquireGate, Inside, InGate
  <2>3. Cardinality(Inside') = Cardinality(Inside) + 1
    BY <1>2, <2>1, <2>2, FS_AddElement
  <2> QED
    BY <1>2, <1>5, <2>3, QaAssumption DEF AcquireGate, GateInv, Gated, Shared, TypeOK
<1>6. CASE GateFails(w)
  <2>1. Inside' = Inside \union {w}
    BY <1>6, GotoMoves DEF GateFails, InGate
  <2>2. w \notin Inside
    BY <1>6 DEF GateFails, Inside, InGate
  <2>3. Cardinality(Inside') = Cardinality(Inside) + 1
    BY <1>2, <2>1, <2>2, FS_AddElement
  <2> QED
    BY <1>2, <1>6, <2>3 DEF GateFails, GateInv, Gated, Shared, TypeOK
<1>7. CASE Discard(w)
  <2>1. Inside' \subseteq Inside
    BY <1>1, <1>7, OneMoves DEF Discard
  <2> QED
    BY <1>7, <2>1, NobodyEnters DEF Discard
<1>8. CASE Handle(w)
  <2>1. w \in Inside
    BY <1>8 DEF Handle, Inside, InGate
  <2>2. Inside' \subseteq Inside
    BY <1>8, <2>1, GotoMoves DEF Handle, InGate
  <2> QED
    BY <1>8, <2>2, NobodyEnters DEF Handle
<1>9. CASE Finish(w)
  <2>1. w \in Inside
    BY <1>9 DEF Finish, Inside, InGate
  <2>2. Inside' \subseteq Inside
    BY <1>9, <2>1, GotoMoves DEF Finish, InGate
  <2> QED
    BY <1>9, <2>2, NobodyEnters DEF Finish
<1>10. CASE ReleaseGate(w)
  <2>1. w \in Inside
    BY <1>10 DEF ReleaseGate, Inside, InGate
  <2>2. Inside' = Inside \ {w}
    BY <1>10, GotoMoves DEF ReleaseGate, InGate
  <2>3. Cardinality(Inside') = Cardinality(Inside) - 1
    BY <1>2, <2>1, <2>2, FS_RemoveElement
  <2> QED
    BY <1>2, <1>10, <2>3, QaAssumption DEF ReleaseGate, GateInv, Gated, Shared, TypeOK
<1>11. CASE ReleaseUser(w)
  <2>1. Inside' \subseteq Inside
    BY <1>1, <1>11, OneMoves DEF ReleaseUser
  <2> QED
    BY <1>11, <2>1, NobodyEnters DEF ReleaseUser
<1> QED
  BY <1>3, <1>4, <1>5, <1>6, <1>7, <1>8, <1>9, <1>10, <1>11 DEF WorkerStep

(* A gate that expires has nobody inside.                                  *)
LEMMA ExpiryGate ==
  ASSUME TypeOK, GateInv, GateExpires
  PROVE  GateInv'
<1>1. Inside' = {} /\ gate' = 0 /\ UNCHANGED <<mode, faults>>
  BY DEF GateExpires, Inside
<1> QED
  BY <1>1, FS_EmptySet, QaAssumption DEF GateInv, Gated, Shared, TypeOK

(***************************************************************************)
(* However many instances and workers share the gate, no more questions    *)
(* run at once than it allows, one for each failed command apart: stops,   *)
(* crashes, shutdowns and expiry included.                                 *)
(***************************************************************************)
THEOREM GateHolds == Spec => []GateLimit
<1>1. Init => TypeOK /\ GateInv
  <2>1. ASSUME Init PROVE GateInv
    <3>1. Inside = {} /\ gate = 0 /\ faults = 0
      BY <2>1 DEF Init, Inside, Idler, InGate
    <3> QED
      BY <3>1, FS_EmptySet, QaAssumption DEF GateInv, Gated
  <2> QED
    BY <2>1, InitType
<1>2. TypeOK /\ GateInv /\ [Next]_vars => (TypeOK /\ GateInv)'
  <2> SUFFICES ASSUME TypeOK, GateInv, [Next]_vars PROVE GateInv'
    BY NextType
  <2>1. CASE UNCHANGED vars
    BY <2>1, NobodyEnters DEF vars, Inside
  <2>2. CASE Next
    BY <2>2, OutsideGate, WorkerGate, ExpiryGate DEF Next
  <2> QED
    BY <2>1, <2>2
<1>3. TypeOK /\ GateInv => GateLimit
  <2> SUFFICES ASSUME TypeOK, GateInv, Gated
               PROVE  Cardinality({w \in Pool : worker[w].pc \in {"handle", "run"}}) <= GlobalMax + faults
    BY DEF GateLimit
  <2> DEFINE running == {w \in Pool : worker[w].pc \in {"handle", "run"}}
  <2>1. running \subseteq Inside
    BY DEF Inside, InGate
  <2>2. Cardinality(running) \in Nat /\ Cardinality(running) <= Cardinality(Inside)
    BY <2>1, InsideFinite
  <2> HIDE DEF running
  <2>3. Cardinality(running) <= GlobalMax + faults
    BY <2>2, InsideFinite, QaAssumption DEF GateInv, TypeOK
  <2> QED
    BY <2>3 DEF running
<1> QED
  BY <1>1, <1>2, <1>3, PTL DEF Spec

=============================================================================
