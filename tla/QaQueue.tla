------------------------------- MODULE QaQueue -------------------------------
(***************************************************************************)
(* The IM question queue (internal/im/qaqueue.go): every instance of the   *)
(* server has a bounded queue and a pool of workers behind one mutex and   *)
(* one condition variable.  With Redis the instances share a counter per   *)
(* user and a gate that bounds how many questions run at once; without it  *)
(* a map counts the queued questions of each user.                         *)
(*                                                                         *)
(* A step is one critical section or one Redis command.  The command that  *)
(* Enqueue or Remove sends while it holds the mutex belongs to its step:   *)
(* nobody can see the queue in between.                                    *)
(***************************************************************************)
EXTENDS Integers, Sequences, FiniteSets

CONSTANTS
    Instances, Workers, Users,
    None,          \* no request, no instance
    MaxRequests,   \* bound: questions of one user
    Modes,         \* {"local"}, {"shared"} or both: is there a Redis?
    MaxSize,       \* length of one queue
    MaxPerUser,    \* questions of one user
    GlobalMax,     \* size of the gate, 0 for none
    MaxStops,      \* bound: /stop commands
    MaxCrash,      \* bound: instances that die and start again
    MaxFaults,     \* bound: counting commands that fail in Redis
    MaxClose,      \* bound: instances that shut down
    MaxTroubles    \* bound: all of these four together

ASSUME QaAssumption ==
    /\ IsFiniteSet(Instances) /\ IsFiniteSet(Workers) /\ IsFiniteSet(Users)
    /\ Modes \subseteq {"local", "shared"}
    /\ MaxRequests \in Nat /\ MaxSize \in Nat /\ MaxPerUser \in Nat
    /\ GlobalMax \in Nat /\ MaxStops \in Nat /\ MaxCrash \in Nat /\ MaxFaults \in Nat
    /\ MaxClose \in Nat /\ MaxTroubles \in Nat
    /\ None \notin Instances \union (Users \X (1..MaxRequests))

VARIABLES
    mode,       \* "shared" with a Redis, "local" without
    queue,      \* q.queue of each instance
    closed,     \* q.closed of each instance; "closing" until the broadcast
    perUser,    \* q.perUser, kept in local mode
    userCount,  \* the Redis counters of the users
    gate,       \* the Redis counter of the gate
    request,    \* where each question is
    worker,     \* the worker goroutines
    marker,     \* the stop markers in Redis
    stops,      \* the /stop commands: how many, and those yet to leave their marker
    crashes, faults

vars == <<mode, queue, closed, perUser, userCount, gate, request, worker,
          marker, stops, crashes, faults>>

Requests == Users \X (1..MaxRequests)
UserOf(r) == r[1]

Settled == {"refused", "discarded", "removed", "served", "stopped", "lost"}
Pool == Instances \X Workers
Shared == mode = "shared"
Gated == Shared /\ GlobalMax > 0

RequestState ==
    [pc: {"new", "over", "counted", "queued", "held", "halted"} \union Settled,
     at: Instances \union {None}]
WorkerState ==
    [pc: {"ready", "waiting", "taken", "handle", "run", "ungate", "uncount", "exited"},
     req: Requests \union {None}]

Idler == [pc |-> "ready", req |-> None]

TypeOK ==
    /\ mode \in Modes
    /\ queue \in [Instances -> Seq(Requests)]
    /\ \A i \in Instances : Len(queue[i]) <= MaxSize
    /\ closed \in [Instances -> {"open", "closing", "closed"}]
    /\ perUser \in [Instances -> [Users -> Nat]]
    /\ userCount \in [Users -> Int]
    /\ gate \in Int
    /\ request \in [Requests -> RequestState]
    /\ worker \in [Pool -> WorkerState]
    /\ marker \in [Users -> BOOLEAN]
    /\ stops \in [made: 0..MaxStops, marking: [Users -> Nat]]
    /\ crashes \in 0..MaxCrash
    /\ faults \in 0..MaxFaults

Init ==
    /\ mode \in Modes
    /\ queue = [i \in Instances |-> <<>>]
    /\ closed = [i \in Instances |-> "open"]
    /\ perUser = [i \in Instances |-> [u \in Users |-> 0]]
    /\ userCount = [u \in Users |-> 0]
    /\ gate = 0
    /\ request = [r \in Requests |-> [pc |-> "new", at |-> None]]
    /\ worker = [w \in Pool |-> Idler]
    /\ marker = [u \in Users |-> FALSE]
    /\ stops = [made |-> 0, marking |-> [u \in Users |-> 0]]
    /\ crashes = 0
    /\ faults = 0

-----------------------------------------------------------------------------
RequestGoto(r, pc) == request' = [request EXCEPT ![r].pc = pc]
WorkerGoto(w, pc) == worker' = [worker EXCEPT ![w].pc = pc]

Shut == {i \in Instances : closed[i] # "open"}
Calm == stops.made + crashes + faults + Cardinality(Shut) < MaxTroubles

\* redisDecrUser
DecrUser(u) == userCount' = IF Shared THEN [userCount EXCEPT ![u] = @ - 1] ELSE userCount

\* perUser counts the queue of one instance, and only without Redis.
LeaveQueue(i, u) ==
    perUser' = IF Shared \/ perUser[i][u] = 0 THEN perUser ELSE [perUser EXCEPT ![i][u] = @ - 1]

\* The questions of a user are numbered in the order they arrive in.
Arrives(r) ==
    /\ request[r].pc = "new"
    /\ \A k \in 1..(r[2] - 1) : request[<<UserOf(r), k>>].pc # "new"

CountUnlimited(r, i) ==   \* Mutant: the counter never compared with maxPerUser
    /\ Arrives(r)
    /\ request' = [request EXCEPT ![r] = [pc |-> "counted", at |-> i]]
    /\ userCount' = IF Shared THEN [userCount EXCEPT ![UserOf(r)] = @ + 1] ELSE userCount
    /\ UNCHANGED <<mode, queue, closed, perUser, gate, worker, marker, stops,
                   crashes, faults>>

\* redisCheckAndIncrUser, first command: INCR and compare.
Count(r, i) ==
    /\ Arrives(r)
    /\ request' = [request EXCEPT ![r] =
         [pc |-> IF Shared /\ userCount[UserOf(r)] >= MaxPerUser THEN "over" ELSE "counted",
          at |-> i]]
    /\ userCount' = IF Shared THEN [userCount EXCEPT ![UserOf(r)] = @ + 1] ELSE userCount
    /\ UNCHANGED <<mode, queue, closed, perUser, gate, worker, marker, stops,
                   crashes, faults>>

CountOverKept(r) ==   \* Mutant: rejected without the DECR
    /\ request[r].pc = "over"
    /\ RequestGoto(r, "refused")
    /\ UNCHANGED <<mode, queue, closed, perUser, userCount, gate, worker, marker, stops,
                   crashes, faults>>

\* Second command: too many, DECR and reject.
CountOver(r) ==
    /\ request[r].pc = "over"
    /\ RequestGoto(r, "refused")
    /\ DecrUser(UserOf(r))
    /\ UNCHANGED <<mode, queue, closed, perUser, gate, worker, marker, stops, crashes,
                   faults>>

\* The INCR fails: the question goes on, and will give back what it never took.
CountFails(r, i) ==
    /\ Arrives(r)
    /\ Shared
    /\ faults < MaxFaults /\ Calm
    /\ faults' = faults + 1
    /\ request' = [request EXCEPT ![r] = [pc |-> "counted", at |-> i]]
    /\ UNCHANGED <<mode, queue, closed, perUser, userCount, gate, worker, marker, stops,
                   crashes>>

FullOneLate(i, u) ==   \* Mutant: the length compared with > instead of >=
    \/ closed[i] # "open"
    \/ Len(queue[i]) > MaxSize
    \/ ~Shared /\ perUser[i][u] >= MaxPerUser

Full(i, u) ==
    \/ closed[i] # "open"
    \/ Len(queue[i]) >= MaxSize
    \/ ~Shared /\ perUser[i][u] >= MaxPerUser

EnqueueRefused(r) ==
    LET i == request[r].at IN
    /\ request[r].pc = "counted"
    /\ Full(i, UserOf(r))
    /\ RequestGoto(r, "refused")
    /\ DecrUser(UserOf(r))
    /\ UNCHANGED <<mode, queue, closed, perUser, gate, worker, marker, stops,
                   crashes, faults>>

SignalNobody(i) == UNCHANGED worker   \* Mutant: cond.Signal forgotten

\* cond.Signal wakes one waiting worker, if there is one.
Signal(i) ==
    LET waiting == {w \in Pool : w[1] = i /\ worker[w].pc = "waiting"} IN
    IF waiting = {} THEN UNCHANGED worker ELSE \E w \in waiting : WorkerGoto(w, "ready")

Enqueue(r) ==
    LET i == request[r].at  u == UserOf(r) IN
    /\ request[r].pc = "counted"
    /\ ~Full(i, u)
    /\ queue' = [queue EXCEPT ![i] = Append(@, r)]
    /\ perUser' = IF Shared THEN perUser ELSE [perUser EXCEPT ![i][u] = @ + 1]
    /\ RequestGoto(r, "queued")
    /\ Signal(i)
    /\ UNCHANGED <<mode, closed, userCount, gate, marker, stops, crashes, faults>>

-----------------------------------------------------------------------------
\* dequeue: wait, leave, or take the head of the queue.
Wait(w) ==
    LET i == w[1] IN
    /\ worker[w].pc = "ready"
    /\ queue[i] = <<>>
    /\ WorkerGoto(w, IF closed[i] = "open" THEN "waiting" ELSE "exited")
    /\ UNCHANGED <<mode, queue, closed, perUser, userCount, gate, request, marker,
                   stops, crashes, faults>>

Dequeue(w) ==
    LET i == w[1]  r == Head(queue[i]) IN
    /\ worker[w].pc = "ready"
    /\ queue[i] # <<>>
    /\ queue' = [queue EXCEPT ![i] = Tail(@)]
    /\ LeaveQueue(i, UserOf(r))
    /\ RequestGoto(r, "held")
    /\ worker' = [worker EXCEPT ![w] = [pc |-> "taken", req |-> r]]
    /\ UNCHANGED <<mode, closed, userCount, gate, marker, stops, crashes, faults>>

\* The context is dead, then or at the gate, or 60 seconds have passed.
Discard(w) ==
    /\ worker[w].pc = "taken"
    /\ RequestGoto(worker[w].req, "discarded")
    /\ DecrUser(UserOf(worker[w].req))
    /\ worker' = [worker EXCEPT ![w] = Idler]
    /\ UNCHANGED <<mode, queue, closed, perUser, gate, marker, stops, crashes, faults>>

AcquireGateUnchecked(w) ==   \* Mutant: the script does not compare with the limit
    /\ worker[w].pc = "taken"
    /\ gate' = IF Gated THEN gate + 1 ELSE gate
    /\ WorkerGoto(w, "handle")
    /\ UNCHANGED <<mode, queue, closed, perUser, userCount, request, marker, stops,
                   crashes, faults>>

\* acquireGlobalGate: at once without a limit, otherwise by the script.  A
\* refused script changes nothing and runs again after half a second.
AcquireGate(w) ==
    /\ worker[w].pc = "taken"
    /\ Gated => gate < GlobalMax
    /\ gate' = IF Gated THEN gate + 1 ELSE gate
    /\ WorkerGoto(w, "handle")
    /\ UNCHANGED <<mode, queue, closed, perUser, userCount, request, marker, stops,
                   crashes, faults>>

\* The script fails: the worker goes on without a slot, and gives one back.
GateFails(w) ==
    /\ worker[w].pc = "taken"
    /\ Gated
    /\ faults < MaxFaults /\ Calm
    /\ faults' = faults + 1
    /\ WorkerGoto(w, "handle")
    /\ UNCHANGED <<mode, queue, closed, perUser, userCount, gate, request, marker, stops,
                   crashes>>

\* executeQARequest: a stop marker is taken away, and ends the question.
Handle(w) ==
    LET r == worker[w].req  u == UserOf(r) IN
    /\ worker[w].pc = "handle"
    /\ marker' = [marker EXCEPT ![u] = FALSE]
    /\ IF marker[u] THEN RequestGoto(r, "halted") /\ WorkerGoto(w, "ungate")
                    ELSE WorkerGoto(w, "run") /\ UNCHANGED request
    /\ UNCHANGED <<mode, queue, closed, perUser, userCount, gate, stops, crashes, faults>>

\* The handler returns: answered, failed, or cancelled by /stop.
Finish(w) ==
    /\ worker[w].pc = "run"
    /\ WorkerGoto(w, "ungate")
    /\ UNCHANGED <<mode, queue, closed, perUser, userCount, gate, request, marker, stops,
                   crashes, faults>>

ReleaseGate(w) ==
    /\ worker[w].pc = "ungate"
    /\ gate' = IF Gated THEN gate - 1 ELSE gate
    /\ WorkerGoto(w, "uncount")
    /\ UNCHANGED <<mode, queue, closed, perUser, userCount, request, marker, stops,
                   crashes, faults>>

ReleaseUser(w) ==
    /\ worker[w].pc = "uncount"
    /\ DecrUser(UserOf(worker[w].req))
    /\ RequestGoto(worker[w].req,
         IF request[worker[w].req].pc = "halted" THEN "stopped" ELSE "served")
    /\ worker' = [worker EXCEPT ![w] = Idler]
    /\ UNCHANGED <<mode, queue, closed, perUser, gate, marker, stops, crashes, faults>>

-----------------------------------------------------------------------------
QueuedOf(i, u) == {k \in DOMAIN queue[i] : UserOf(queue[i][k]) = u}

\* /stop: drop the user's first queued question, or else cancel the one that
\* runs here; with Redis a marker follows in either case.
Stop(u) ==
    /\ stops.made < MaxStops /\ Calm
    /\ stops' = [made |-> stops.made + 1,
                 marking |-> IF Shared THEN [stops.marking EXCEPT ![u] = @ + 1]
                             ELSE stops.marking]

StopQueued(i, u) ==
    /\ \E k \in QueuedOf(i, u) :
         /\ \A l \in QueuedOf(i, u) : k <= l
         /\ queue' = [queue EXCEPT ![i] = SubSeq(@, 1, k - 1) \o SubSeq(@, k + 1, Len(@))]
         /\ RequestGoto(queue[i][k], "removed")
    /\ LeaveQueue(i, u)
    /\ DecrUser(u)
    /\ Stop(u)
    /\ UNCHANGED <<mode, closed, gate, worker, marker, crashes, faults>>

StopRunning(i, u) ==
    /\ QueuedOf(i, u) = {}
    /\ Stop(u)
    /\ UNCHANGED <<mode, queue, closed, perUser, userCount, gate, request, worker, marker,
                   crashes, faults>>

\* The SET at the end of /stop; nobody looks at its error.
LeaveMarker(u) ==
    /\ stops.marking[u] > 0
    /\ stops' = [stops EXCEPT !.marking[u] = @ - 1]
    /\ marker' \in {marker, [marker EXCEPT ![u] = TRUE]}
    /\ UNCHANGED <<mode, queue, closed, perUser, userCount, gate, request, worker,
                   crashes, faults>>

\* The marker lives for 30 seconds.
MarkerExpires(u) ==
    /\ marker[u]
    /\ marker' = [marker EXCEPT ![u] = FALSE]
    /\ UNCHANGED <<mode, queue, closed, perUser, userCount, gate, request, worker,
                   stops, crashes, faults>>

\* Stop: closed under the mutex, the broadcast after it.
Close(i) ==
    /\ closed[i] = "open"
    /\ Cardinality(Shut) < MaxClose /\ Calm
    /\ closed' = [closed EXCEPT ![i] = "closing"]
    /\ UNCHANGED <<mode, queue, perUser, userCount, gate, request, worker, marker,
                   stops, crashes, faults>>

BroadcastNobody(i) ==   \* Mutant: Stop without the Broadcast
    /\ closed[i] = "closing"
    /\ closed' = [closed EXCEPT ![i] = "closed"]
    /\ UNCHANGED <<mode, queue, perUser, userCount, gate, request, worker, marker, stops,
                   crashes, faults>>

Broadcast(i) ==
    /\ closed[i] = "closing"
    /\ closed' = [closed EXCEPT ![i] = "closed"]
    /\ worker' = [w \in Pool |-> IF w[1] = i /\ worker[w].pc = "waiting"
                                   THEN [worker[w] EXCEPT !.pc = "ready"] ELSE worker[w]]
    /\ UNCHANGED <<mode, queue, perUser, userCount, gate, request, marker, stops, crashes,
                   faults>>

\* An instance dies and starts again with nothing; what it had counted in
\* Redis stays there.
Crash(i) ==
    /\ crashes < MaxCrash /\ Calm
    /\ crashes' = crashes + 1
    /\ queue' = [queue EXCEPT ![i] = <<>>]
    /\ closed' = [closed EXCEPT ![i] = "open"]
    /\ perUser' = [perUser EXCEPT ![i] = [u \in Users |-> 0]]
    /\ request' = [r \in Requests |-> IF request[r].at = i /\ request[r].pc \notin Settled
                                        THEN [request[r] EXCEPT !.pc = "lost"] ELSE request[r]]
    /\ worker' = [w \in Pool |-> IF w[1] = i THEN Idler ELSE worker[w]]
    /\ UNCHANGED <<mode, userCount, gate, marker, stops, faults>>

\* The keys live for five minutes after the last INCR.  Questions take less,
\* so a key only expires on counts that a dead instance left; and the script
\* renews the gate's key on every try, the refused ones included.
UserExpires(u) ==
    /\ userCount[u] # 0
    /\ \A r \in Requests : UserOf(r) = u => request[r].pc \in Settled \union {"new"}
    /\ userCount' = [userCount EXCEPT ![u] = 0]
    /\ UNCHANGED <<mode, queue, closed, perUser, gate, request, worker, marker,
                   stops, crashes, faults>>

InGate == {"handle", "run", "ungate"}

GateExpires ==
    /\ gate # 0
    /\ \A w \in Pool : worker[w].pc \notin InGate \union {"taken"}
    /\ gate' = 0
    /\ UNCHANGED <<mode, queue, closed, perUser, userCount, request, worker, marker,
                   stops, crashes, faults>>

-----------------------------------------------------------------------------
Caller(r) ==
    \/ \E i \in Instances : Count(r, i) \/ CountFails(r, i)
    \/ CountOver(r) \/ EnqueueRefused(r) \/ Enqueue(r)

WorkerStep(w) ==
    \/ Wait(w) \/ Dequeue(w) \/ AcquireGate(w)
    \/ Handle(w) \/ Finish(w) \/ ReleaseGate(w) \/ ReleaseUser(w)

Next ==
    \/ \E r \in Requests : Caller(r)
    \/ \E w \in Pool : WorkerStep(w) \/ GateFails(w) \/ Discard(w)
    \/ \E i \in Instances, u \in Users : StopQueued(i, u) \/ StopRunning(i, u)
    \/ \E u \in Users : LeaveMarker(u) \/ MarkerExpires(u) \/ UserExpires(u)
    \/ \E i \in Instances : Close(i) \/ Broadcast(i) \/ Crash(i)
    \/ GateExpires

Spec == Init /\ [][Next]_vars

(***************************************************************************)
(* Goroutines keep running and handlers return.  Nothing is assumed of     *)
(* contexts: the handler of an IM message detaches its context from the    *)
(* HTTP request, so nobody need ever cancel it.                            *)
(***************************************************************************)
Fairness ==
    /\ \A r \in Requests : WF_vars(CountOver(r) \/ EnqueueRefused(r) \/ Enqueue(r))
    /\ \A w \in Pool : WF_vars(WorkerStep(w))
    /\ \A i \in Instances : WF_vars(Broadcast(i))

FairSpec == Spec /\ Fairness

-----------------------------------------------------------------------------
HeldSlots(u) ==
    {r \in Requests : UserOf(r) = u /\ request[r].pc \in {"counted", "queued", "held", "halted"}}

(***************************************************************************)
(* config.go: "MaxPerUser limits how many requests a single user can have  *)
(* queued globally" - over all instances with Redis, where a question      *)
(* keeps its slot until it is answered, and in one queue without.  Each    *)
(* INCR that failed, which Enqueue ignores, costs one slot and no more.    *)
(***************************************************************************)
UserLimit ==
    \A u \in Users :
        IF Shared THEN Cardinality(HeldSlots(u)) <= MaxPerUser + faults
        ELSE \A i \in Instances : Cardinality(QueuedOf(i, u)) <= MaxPerUser

(***************************************************************************)
(* config.go: GlobalMaxWorkers is "the maximum number of QA requests that  *)
(* can execute concurrently across ALL instances"; a gate command that     *)
(* failed lets one more in, and its release one more after that.           *)
(***************************************************************************)
GateLimit ==
    Gated => Cardinality({w \in Pool : worker[w].pc \in {"handle", "run"}}) <= GlobalMax + faults

(***************************************************************************)
(* "On success the caller MUST later call redisDecrUser to release the     *)
(* slot": on every way out exactly one slot is given back.  As long as no  *)
(* instance died and no count failed, the counters in Redis and the map of *)
(* a queue are the numbers of questions and workers they stand for.        *)
(***************************************************************************)
SlotsMatch ==
    crashes = 0 /\ faults = 0 =>
      /\ Gated => gate = Cardinality({w \in Pool : worker[w].pc \in InGate})
      /\ \A u \in Users :
           IF Shared THEN userCount[u] = Cardinality(HeldSlots(u) \union
                            {r \in Requests : UserOf(r) = u /\ request[r].pc = "over"})
           ELSE \A i \in Instances : perUser[i][u] = Cardinality(QueuedOf(i, u))

(***************************************************************************)
(* A question that was accepted is answered, discarded or removed, also    *)
(* when its instance shuts down: Stop lets the workers exit "after         *)
(* draining".  After a crash the waiting workers may keep the gate shut.   *)
(***************************************************************************)
Answered ==
    \A r \in Requests :
        request[r].pc = "queued" ~> request[r].pc \in Settled \/ crashes > 0

(***************************************************************************)
(* Every worker of a queue that was stopped exits, the waiting ones too.   *)
(***************************************************************************)
WorkersExit ==
    \A i \in Instances :
        closed[i] # "open" ~>
            crashes > 0 \/ \A w \in Pool : w[1] = i => worker[w].pc = "exited"
=============================================================================
