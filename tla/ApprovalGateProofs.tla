-------------------------- MODULE ApprovalGateProofs --------------------------
(***************************************************************************)
(* The approval gate, for any number of calls, resolvers and instances: its *)
(* types, that no tool runs unapproved, that Resolve tells the truth, and   *)
(* that it implements the one-shot decision.                                *)
(***************************************************************************)
EXTENDS ApprovalGate, SequenceTheorems, TLAPS

(* A resolver that moves on or returns keeps its arguments.                 *)
LEMMA ResolverMoves ==
  ASSUME TypeOK, NEW r \in Resolvers, req[r].pc # "new"
  PROVE  /\ req[r] \in Requests
         /\ \A pc \in Steps : Goto(r, pc) => req' \in [Resolvers -> {Unasked} \cup Requests]
         /\ \A word \in Replies : Return(r, word) =>
               /\ req' \in [Resolvers -> {Unasked} \cup Requests]
               /\ reply' \in [Resolvers -> Replies]
<1>1. req[r] \in Requests
  BY DEF TypeOK, Unasked
<1>2. \A pc \in Steps : [req EXCEPT ![r].pc = pc] \in [Resolvers -> {Unasked} \cup Requests]
  BY <1>1 DEF TypeOK, Requests
<1>3. "done" \in Steps
  BY DEF Steps
<1> QED
  BY <1>1, <1>2, <1>3 DEF Goto, Return, TypeOK

(* The flags of a request are Boolean.                                      *)
LEMMA RequestFlags == \A q \in {Unasked} \cup Requests : q.approve \in BOOLEAN
<1>1. Unasked.approve \in BOOLEAN
  BY DEF Unasked
<1>2. \A q \in Requests : q.approve \in BOOLEAN
  BY DEF Requests
<1> QED
  BY <1>1, <1>2

(* A decision of a resolver is a verdict.                                   *)
LEMMA VerdictType ==
  \A r \in Resolvers, approve \in BOOLEAN : [by |-> r, approve |-> approve] \in Verdicts
BY DEF Verdicts

(* What the waiter lets through is a verdict.                               *)
LEMMA DeliverType ==
  ASSUME TypeOK, NEW c \in Calls, NEW v \in Verdicts, Deliver(c, v)
  PROVE  verdict' \in [Calls -> Verdicts]
BY DEF Deliver, TypeOK

(* A message for a subscriber joins its inbox.                              *)
LEMMA PublishType ==
  ASSUME TypeOK, NEW r \in Resolvers, NEW reached, Publish(r, reached)
  PROVE  inbox' \in [Instances -> Seq(Resolvers)]
<1>1. \A i \in Instances : inbox[i] \in Seq(Resolvers)
  BY DEF TypeOK
<1>2. \A i \in Instances : Append(inbox[i], r) \in Seq(Resolvers)
  BY <1>1, AppendProperties
<1> QED
  BY <1>1, <1>2 DEF Publish

(* Every initial state is well typed.                                       *)
LEMMA InitType == Init => TypeOK
<1> SUFFICES ASSUME Init PROVE TypeOK
  OBVIOUS
<1>1. inbox \in [Instances -> Seq(Resolvers)]
  BY EmptySeq DEF Init
<1>2. /\ verdict \in [Calls -> Verdicts]
      /\ phase \in [Calls -> Phases]
  BY DEF Init, Verdicts, Open, Phases
<1>3. req \in [Resolvers -> {Unasked} \cup Requests]
  BY DEF Init
<1> QED
  BY <1>1, <1>2, <1>3 DEF Init, TypeOK, Replies

(* Every step keeps the types.                                              *)
LEMMA NextType == TypeOK /\ [Next]_vars => TypeOK'
<1> SUFFICES ASSUME TypeOK, [Next]_vars PROVE TypeOK'
  OBVIOUS
<1>1. ASSUME NEW c \in Calls, CallStep(c) PROVE TypeOK'
  <2> USE DEF TypeOK, Phases, redisVars
  <2>1. CASE CallFree(c)
    BY <2>1 DEF CallFree
  <2>2. ASSUME NEW i \in Instances, CallRegister(c, i) PROVE TypeOK'
    BY <2>2 DEF CallRegister
  <2>3. CASE CallAnnounce(c)
    BY <2>3 DEF CallAnnounce
  <2>4. CASE CallEmitFails(c)
    BY <2>4 DEF CallEmitFails
  <2>5. ASSUME NEW why \in {"timer", "cancel"}, CallGivesUp(c, why) PROVE TypeOK'
    <3>1. [by |-> why, approve |-> FALSE] \in Verdicts
      BY DEF Verdicts
    <3>2. verdict' \in [Calls -> Verdicts]
      BY <2>5, <3>1, DeliverType DEF CallGivesUp
    <3> QED
      BY <2>5, <3>2 DEF CallGivesUp
  <2>6. CASE CallObeys(c)
    BY <2>6 DEF CallObeys
  <2>7. CASE CallForget(c)
    BY <2>7 DEF CallForget
  <2> QED
    BY <1>1, <2>1, <2>2, <2>3, <2>4, <2>5, <2>6, <2>7 DEF CallStep
<1>2. ASSUME NEW r \in Resolvers, NEW i \in Instances, NEW c \in Calls,
             NEW allowed \in BOOLEAN, NEW approve \in BOOLEAN,
             ResolveStart(r, i, c, allowed, approve)
      PROVE  TypeOK'
  <2> DEFINE lookup == IF ~PendingAt(c, i) THEN (IF WithRedis THEN "remote" ELSE "done")
                       ELSE IF allowed THEN "found" ELSE "done"
  <2>1. lookup \in Steps
    BY DEF Steps
  <2>2. [pc |-> lookup, at |-> i, call |-> c, allowed |-> allowed, approve |-> approve] \in Requests
    BY <2>1 DEF Requests
  <2>3. req' \in [Resolvers -> {Unasked} \cup Requests]
    BY <1>2, <2>2 DEF ResolveStart, TypeOK
  <2>4. reply' \in [Resolvers -> Replies]
    BY <1>2 DEF ResolveStart, TypeOK, Replies
  <2> QED
    BY <1>2, <2>3, <2>4 DEF ResolveStart, TypeOK, callVars, redisVars
<1>3. ASSUME NEW r \in Resolvers, ResolveStep(r) PROVE TypeOK'
  <2> USE DEF callVars, redisVars
  <2>0. req[r].pc # "new"
    BY <1>3 DEF ResolveStep, ResolveHere, ResolveNoSubscription, ResolvePublish,
                ResolvePublishFails, ResolveAcked, ResolveTimeout
  <2>00. /\ {"ok", "already", "mismatch", "notfound", "error"} \subseteq Replies
         /\ "asking" \in Steps
    BY DEF Replies, Steps
  <2>1. CASE ResolveHere(r)
    <3>1. /\ req[r].call \in Calls
          /\ [by |-> r, approve |-> req[r].approve] \in Verdicts
      BY <2>0, ResolverMoves DEF Requests, Verdicts
    <3>2. verdict' \in [Calls -> Verdicts]
      BY <2>1, <3>1, DeliverType DEF ResolveHere
    <3>3. Won(req[r].call) \in Replies
      BY <2>00 DEF Won
    <3> QED
      BY <2>0, <2>1, <3>2, <3>3, ResolverMoves DEF ResolveHere, TypeOK
  <2>2. CASE ResolveNoSubscription(r)
    BY <2>0, <2>00, <2>2, ResolverMoves DEF ResolveNoSubscription, TypeOK
  <2>3. CASE ResolvePublish(r)
    <3>1. inbox' \in [Instances -> Seq(Resolvers)]
      BY <2>3, PublishType DEF ResolvePublish
    <3>2. req' \in [Resolvers -> {Unasked} \cup Requests]
      BY <2>0, <2>00, <2>3, ResolverMoves DEF ResolvePublish
    <3> QED
      BY <2>3, <3>1, <3>2 DEF ResolvePublish, Goto, TypeOK
  <2>4. CASE ResolvePublishFails(r)
    <3>1. inbox' \in [Instances -> Seq(Resolvers)]
      BY <2>4, PublishType DEF ResolvePublishFails
    <3> QED
      BY <2>0, <2>00, <2>4, <3>1, ResolverMoves DEF ResolvePublishFails, TypeOK
  <2>5. CASE ResolveAcked(r)
    <3>1. ack[r] \in Replies
      BY <2>00, <2>5 DEF ResolveAcked, TypeOK
    <3> QED
      BY <2>0, <2>5, <3>1, ResolverMoves DEF ResolveAcked, TypeOK
  <2>6. CASE ResolveTimeout(r)
    BY <2>0, <2>00, <2>6, ResolverMoves DEF ResolveTimeout, TypeOK
  <2> QED
    BY <1>3, <2>1, <2>2, <2>3, <2>4, <2>5, <2>6 DEF ResolveStep
<1>4. ASSUME NEW i \in Instances, SubscriberStep(i) \/ SubscriberStop(i) PROVE TypeOK'
  <2> USE DEF callVars
  <2>0. /\ inbox[i] \in Seq(Resolvers)
        /\ handling[i] \in {Idle} \cup [at : Resolvers, status : {"found", "mismatch", "ok", "already"}]
    BY DEF TypeOK
  <2>1. CASE SubscriberTake(i)
    <3>1. Head(inbox[i]) \in Resolvers /\ Tail(inbox[i]) \in Seq(Resolvers)
      BY <2>0, <2>1, HeadTailProperties DEF SubscriberTake
    <3> QED
      BY <2>1, <3>1 DEF SubscriberTake, TypeOK
  <2>2. CASE SubscriberDeliver(i)
    <3> DEFINE r == handling[i].at
    <3>1. handling[i] \in [at : Resolvers, status : {"found", "mismatch", "ok", "already"}]
      BY <2>0, <2>2 DEF SubscriberDeliver, Idle
    <3>2. verdict' \in [Calls -> Verdicts]
      <4>1. [verdict EXCEPT ![req[r].call] = IF @ = Open
                THEN [by |-> r, approve |-> req[r].approve] ELSE @] \in [Calls -> Verdicts]
        <5>1. req[r] \in {Unasked} \cup Requests
          BY <3>1 DEF TypeOK
        <5>2. [by |-> r, approve |-> req[r].approve] \in Verdicts
          <6>1. req[r].approve \in BOOLEAN
            BY <5>1, RequestFlags
          <6> QED
            BY <3>1, <6>1, VerdictType
        <5> QED
          BY <5>2 DEF TypeOK
      <4> QED
        BY <2>2, <4>1 DEF SubscriberDeliver, Deliver
    <3>3. handling' \in [Instances -> {Idle} \cup [at : Resolvers, status : {"found", "mismatch", "ok", "already"}]]
      BY <2>2, <3>1 DEF SubscriberDeliver, Won, TypeOK
    <3> QED
      BY <2>2, <3>2, <3>3 DEF SubscriberDeliver, TypeOK
  <2>3. CASE SubscriberAck(i)
    <3>1. ack' \in [Resolvers -> {"none", "ok", "already", "mismatch"}]
      BY <2>0, <2>3 DEF SubscriberAck, TypeOK
    <3> QED
      BY <2>3, <3>1 DEF SubscriberAck, TypeOK
  <2>4. CASE SubscriberStop(i)
    BY <2>4, EmptySeq DEF SubscriberStop, TypeOK
  <2> QED
    BY <1>4, <2>1, <2>2, <2>3, <2>4 DEF SubscriberStep
<1>5. CASE UNCHANGED vars
  BY <1>5 DEF vars, callVars, redisVars, TypeOK
<1> QED
  BY <1>1, <1>2, <1>3, <1>4, <1>5 DEF Next

(* The calls, the resolvers and the messages keep their type in every       *)
(* behaviour of the gate.                                                   *)
THEOREM TypeCorrect == Spec => []TypeOK
BY InitType, NextType, PTL DEF Spec
-------------------------------------------------------------------------------
(* A verdict of a resolver is the one it asked for, and it was allowed to.  *)
Genuine(c) ==
    LET v == verdict[c] IN
    /\ v.by \in {"nobody", "timer", "cancel"} => ~v.approve
    /\ v.by \in Resolvers => /\ req[v.by].pc \in {"asking", "done"}
                             /\ req[v.by].call = c
                             /\ req[v.by].allowed
                             /\ req[v.by].approve = v.approve

(* Where the call is, whether it is decided and what the tool did.          *)
InStep(c) ==
    /\ phase[c] \in {"idle", "free"} => owner[c] = "none"
    /\ phase[c] \in {"idle", "free"} => verdict[c] = Open
    /\ phase[c] \in {"leaving", "answered", "gone"} => verdict[c] # Open
    /\ phase[c] \in {"idle", "registered", "waiting", "leaving"} => outcome[c] = "waiting"
    /\ phase[c] \in {"answered", "gone"} => outcome[c] \in {"run", "refused"}
    /\ outcome[c] = "run" => verdict[c].approve
    /\ phase[c] = "free" => outcome[c] = "free"
    /\ phase[c] = "failed" => outcome[c] = "refused"

Mine(r) == verdict[req[r].call] = [by |-> r, approve |-> req[r].approve]
Others(r) == verdict[req[r].call].by \notin {"nobody", r}
Asked(r) == req[r].pc \in {"asking", "done"}

\* A word about r, in a message or returned, is true.
Truthful(r, word) == /\ word = "ok" => Mine(r)
                     /\ word = "already" => Others(r)
                     /\ word = "mismatch" => ~req[r].allowed

(* A resolver knows a call that was announced and has one answer.           *)
Resolving(r) ==
    /\ req[r].pc # "new" => Announced(req[r].call)
    /\ req[r].pc = "found" => req[r].allowed
    /\ reply[r] # "none" => req[r].pc = "done"
    /\ req[r].pc = "done" => reply[r] # "none"
    /\ ack[r] # "none" => Asked(r)
    /\ Truthful(r, reply[r]) /\ Truthful(r, ack[r])

(* Each message is read once, so no resolver decides twice.                 *)
InboxOnce(i) ==
    \A n \in 1 .. Len(inbox[i]) :
        LET r == inbox[i][n] IN
        /\ Asked(r)
        /\ owner[req[r].call] = i => verdict[req[r].call].by # r
        /\ handling[i].status # "none" => handling[i].at # r
        /\ \A m \in 1 .. Len(inbox[i]) : inbox[i][m] = r => m = n

(* The subscriber works on a call of its instance.                          *)
HandlingOwn(i) ==
    handling[i] # Idle =>
        LET r == handling[i].at IN
        /\ Asked(r)
        /\ owner[req[r].call] = i
        /\ handling[i].status = "found" => req[r].allowed /\ verdict[req[r].call].by # r
        /\ Truthful(r, handling[i].status)

IInv == /\ TypeOK
        /\ \A c \in Calls : Genuine(c) /\ InStep(c)
        /\ \A r \in Resolvers : Resolving(r)
        /\ \A i \in Instances : InboxOnce(i) /\ HandlingOwn(i)
-------------------------------------------------------------------------------
(* Initially nobody has asked anything.                                     *)
LEMMA InitIInv == Init => IInv
<1> SUFFICES ASSUME Init PROVE IInv
  OBVIOUS
<1>1. TypeOK
  BY InitType
<1>2. ASSUME NEW c \in Calls PROVE Genuine(c) /\ InStep(c)
  BY NamesAssumption DEF Init, Genuine, InStep, Open
<1>3. ASSUME NEW r \in Resolvers PROVE Resolving(r)
  BY DEF Init, Resolving, Unasked, Truthful, Asked
<1>4. ASSUME NEW i \in Instances PROVE InboxOnce(i) /\ HandlingOwn(i)
  <2>1. Len(inbox[i]) = 0
    BY EmptySeq DEF Init
  <2> QED
    BY <2>1 DEF Init, InboxOnce, HandlingOwn
<1> QED
  BY <1>1, <1>2, <1>3, <1>4 DEF IInv

(* A verdict nobody took is the open one.                                   *)
LEMMA OpenVerdict ==
  ASSUME IInv, NEW c \in Calls
  PROVE  (verdict[c].by = "nobody") <=> (verdict[c] = Open)
BY DEF IInv, TypeOK, Genuine, Verdicts, Open

(* A resolver that has asked keeps its arguments, and what it asked stays   *)
(* asked.                                                                   *)
LEMMA ArgumentsKept ==
  ASSUME IInv, [Next]_vars, NEW r \in Resolvers
  PROVE  /\ req[r].pc # "new" => /\ req'[r].call = req[r].call
                                 /\ req'[r].at = req[r].at
                                 /\ req'[r].allowed = req[r].allowed
                                 /\ req'[r].approve = req[r].approve
                                 /\ req'[r].pc # "new"
         /\ Asked(r) => Asked(r)'
         /\ req[r].pc # "new" /\ req'[r].pc = "found" => req'[r] = req[r]
<1> USE DEF IInv, TypeOK
<1>1. CASE req' = req
  BY <1>1 DEF Asked
<1>2. ASSUME NEW q \in Resolvers, NEW i \in Instances, NEW c \in Calls,
             NEW allowed \in BOOLEAN, NEW approve \in BOOLEAN,
             ResolveStart(q, i, c, allowed, approve)
      PROVE  /\ r # q => req'[r] = req[r]
             /\ req[q].pc = "new"
  BY <1>2 DEF ResolveStart
<1>3. ASSUME NEW q \in Resolvers, ResolveStep(q)
      PROVE  /\ req[q].pc # "new"
             /\ \E pc \in {"asking", "done"} : req' = [req EXCEPT ![q].pc = pc]
  BY <1>3 DEF ResolveStep, ResolveHere, ResolveNoSubscription, ResolvePublish,
              ResolvePublishFails, ResolveAcked, ResolveTimeout, Return, Goto
<1>4. ASSUME NEW q \in Resolvers, ResolveStep(q)
      PROVE  /\ req[q].pc # "new" /\ req[q] \in Requests
             /\ r # q => req'[r] = req[r]
             /\ \E pc \in {"asking", "done"} : req'[q] = [req[q] EXCEPT !.pc = pc]
  <2>1. req[q].pc # "new" /\ req[q] \in Requests
    BY <1>3, <1>4, ResolverMoves
  <2> QED
    BY <1>3, <1>4, <2>1
<1>5. ASSUME NEW q \in Resolvers, ResolveStep(q)
      PROVE  /\ req[q].pc # "new" => /\ req'[q].call = req[q].call
                                     /\ req'[q].at = req[q].at
                                     /\ req'[q].allowed = req[q].allowed
                                     /\ req'[q].approve = req[q].approve
             /\ req'[q].pc \in {"asking", "done"}
  BY <1>4, <1>5 DEF Requests
<1>6. \/ req' = req
      \/ \E q \in Resolvers : ResolveStep(q)
      \/ \E q \in Resolvers, i \in Instances, c \in Calls, allowed, approve \in BOOLEAN :
              ResolveStart(q, i, c, allowed, approve)
  BY DEF Next, CallStep, SubscriberStep, vars, CallFree, CallRegister, CallAnnounce,
         CallEmitFails, CallGivesUp, CallObeys, CallForget, SubscriberTake,
         SubscriberDeliver, SubscriberAck, SubscriberStop
<1>7. ASSUME NEW q \in Resolvers, ResolveStep(q), r # q PROVE req'[r] = req[r]
  BY <1>4, <1>7
<1>8. ASSUME req'[r] = req[r]
      PROVE  Asked(r) => Asked(r)'
  BY <1>8 DEF Asked
<1>9. ASSUME NEW q \in Resolvers, ResolveStep(q), r = q
      PROVE  /\ Asked(r)' /\ req'[r].pc # "found" /\ req'[r].pc # "new"
             /\ req'[r].call = req[r].call /\ req'[r].at = req[r].at
             /\ req'[r].allowed = req[r].allowed /\ req'[r].approve = req[r].approve
  BY <1>4, <1>5, <1>9 DEF Asked
<1>10. req[r].pc = "new" => ~Asked(r)
  BY DEF Asked
<1>11. CASE req'[r] = req[r]
  BY <1>8, <1>11
<1>12. CASE \E q \in Resolvers : ResolveStep(q)
  BY <1>7, <1>9, <1>11, <1>12
<1>13. CASE \E q \in Resolvers, i \in Instances, c \in Calls, allowed, approve \in BOOLEAN :
              ResolveStart(q, i, c, allowed, approve)
  BY <1>2, <1>10, <1>11, <1>13
<1> QED
  BY <1>1, <1>6, <1>12, <1>13

(* A verdict is never replaced, and a new one comes from the timer, the end *)
(* of the request, or a resolver that was allowed to and was not heard      *)
(* before; the call is then announcing itself, waiting or has failed.       *)
Settled(c) ==
    /\ verdict[c] = Open /\ phase[c] \in {"registered", "waiting", "failed"}
    /\ verdict'[c] # Open
    /\ phase'[c] = phase[c] \/ (phase[c] = "waiting" /\ phase'[c] = "leaving")
    /\ owner'[c] = owner[c] /\ outcome'[c] = outcome[c]
    /\ \/ verdict'[c] \in [by : {"timer", "cancel"}, approve : {FALSE}]
       \/ \E r \in Resolvers : /\ verdict'[c] = [by |-> r, approve |-> req[r].approve]
                               /\ req[r].call = c /\ req[r].allowed
                               /\ req[r].pc # "new" /\ Asked(r)'

(* Delivering settles a call that is not settled yet.                       *)
LEMMA DeliverSettles ==
  ASSUME IInv, NEW c \in Calls, NEW v \in Verdicts, v.by # "nobody", Deliver(c, v)
  PROVE  \A d \in Calls : \/ verdict'[d] = verdict[d]
                          \/ d = c /\ verdict[c] = Open /\ verdict'[c] = v /\ v # Open
BY DEF Deliver, IInv, TypeOK, Open

(* Each step leaves a verdict alone or settles it.                          *)
LEMMA VerdictMoves ==
  ASSUME IInv, [Next]_vars, NEW c \in Calls
  PROVE  verdict'[c] = verdict[c] \/ Settled(c)
<1> USE DEF IInv
<1>0. TypeOK /\ InStep(c)
  OBVIOUS
<1>1. ASSUME NEW d \in Calls, NEW why \in {"timer", "cancel"}, CallGivesUp(d, why)
      PROVE  verdict'[c] = verdict[c] \/ Settled(c)
  <2> DEFINE v == [by |-> why, approve |-> FALSE]
  <2>1. v \in Verdicts /\ v.by # "nobody" /\ v \in [by : {"timer", "cancel"}, approve : {FALSE}]
    BY DEF Verdicts
  <2> HIDE DEF v
  <2>2. verdict'[c] = verdict[c] \/ (c = d /\ verdict[c] = Open /\ verdict'[c] = v /\ v # Open)
    BY <1>1, <2>1, DeliverSettles DEF CallGivesUp, v
  <2>3. phase[d] = "waiting" /\ phase'[d] = "leaving" /\ owner' = owner /\ outcome' = outcome
    BY <1>0, <1>1 DEF CallGivesUp, TypeOK
  <2> QED
    BY <2>1, <2>2, <2>3 DEF Settled
<1>2. ASSUME NEW r \in Resolvers, Asked(r)', req[r].pc # "new", req[r].allowed,
             Deliver(req[r].call, [by |-> r, approve |-> req[r].approve]),
             UNCHANGED <<phase, owner, outcome>>
      PROVE  verdict'[c] = verdict[c] \/ Settled(c)
  <2> DEFINE v == [by |-> r, approve |-> req[r].approve]
  <2>1. /\ req[r] \in Requests /\ Announced(req[r].call)
    BY <1>0, <1>2, ResolverMoves DEF Resolving
  <2>2. v \in Verdicts /\ v.by = r /\ r # "nobody" /\ req[r].call \in Calls
    BY <1>0, <2>1, VerdictType, RequestFlags, NamesAssumption DEF Requests
  <2>3. verdict'[c] = verdict[c] \/ (c = req[r].call /\ verdict[c] = Open /\ verdict'[c] = v /\ v # Open)
    <3> HIDE DEF v
    <3> QED
      BY <1>2, <2>2, DeliverSettles DEF v
  <2>4. CASE verdict'[c] = verdict[c]
    BY <2>4
  <2>5. CASE c = req[r].call /\ verdict[c] = Open /\ verdict'[c] = v /\ v # Open
    <3>1. phase[c] \in {"registered", "waiting", "failed"}
      BY <1>0, <2>1, <2>5 DEF InStep, Announced, TypeOK, Phases
    <3>2. /\ verdict'[c] = [by |-> r, approve |-> req[r].approve] /\ verdict'[c] # Open
          /\ req[r].call = c /\ verdict[c] = Open
      BY <2>5
    <3>3. phase'[c] = phase[c] /\ owner'[c] = owner[c] /\ outcome'[c] = outcome[c]
      BY <1>2
    <3> HIDE DEF v
    <3> QED
      BY <1>2, <3>1, <3>2, <3>3 DEF Settled
  <2> QED
    BY <2>3, <2>4, <2>5
<1>3. ASSUME NEW r \in Resolvers, ResolveHere(r)
      PROVE  verdict'[c] = verdict[c] \/ Settled(c)
  <2>1. req[r].pc # "new" /\ req[r].allowed /\ req[r] \in Requests
    BY <1>0, <1>3, ResolverMoves DEF ResolveHere, Resolving
  <2>2. Asked(r)'
    BY <1>0, <1>3, <2>1 DEF ResolveHere, Return, Asked, TypeOK, Requests
  <2> QED
    BY <1>2, <1>3, <2>1, <2>2 DEF ResolveHere
<1>4. ASSUME NEW i \in Instances, SubscriberDeliver(i)
      PROVE  verdict'[c] = verdict[c] \/ Settled(c)
  <2> DEFINE r == handling[i].at
  <2>1. handling[i] # Idle /\ handling[i] \in [at : Resolvers, status : {"found", "mismatch", "ok", "already"}]
    BY <1>0, <1>4 DEF SubscriberDeliver, TypeOK, Idle
  <2>2. r \in Resolvers /\ Asked(r) /\ req[r].allowed
    BY <1>4, <2>1 DEF SubscriberDeliver, HandlingOwn
  <2>3. req[r].pc # "new" /\ Asked(r)'
    BY <1>4, <2>2 DEF SubscriberDeliver, Asked
  <2> HIDE DEF r
  <2> QED
    BY <1>2, <1>4, <2>2, <2>3 DEF SubscriberDeliver, r
<1>5. \/ verdict' = verdict
      \/ \E r \in Resolvers : ResolveHere(r)
      \/ \E i \in Instances : SubscriberDeliver(i)
      \/ \E d \in Calls, why \in {"timer", "cancel"} : CallGivesUp(d, why)
  BY DEF Next, CallStep, ResolveStep, SubscriberStep, vars, callVars, CallFree, CallRegister, CallAnnounce,
         CallEmitFails, CallObeys, CallForget, ResolveStart, ResolveNoSubscription, ResolvePublish,
         ResolvePublishFails, ResolveAcked, ResolveTimeout, SubscriberTake, SubscriberAck, SubscriberStop
<1> QED
  BY <1>1, <1>3, <1>4, <1>5

(* Verdicts stay genuine.                                                   *)
LEMMA GenuineStep ==
  ASSUME IInv, [Next]_vars, NEW c \in Calls
  PROVE  Genuine(c)'
<1>1. Genuine(c) /\ TypeOK
  BY DEF IInv
<1>2. CASE verdict'[c] = verdict[c]
  <2>1. ASSUME NEW r \in Resolvers, verdict[c].by = r
        PROVE  /\ Asked(r)' /\ req'[r].call = c
               /\ req'[r].allowed /\ req'[r].approve = verdict[c].approve
    <3>1. Asked(r) /\ req[r].pc # "new"
      BY <1>1, <2>1 DEF Genuine, Asked
    <3> QED
      BY <1>1, <2>1, <3>1, ArgumentsKept DEF Genuine
  <2>2. verdict'[c].by \in Resolvers =>
            LET r == verdict'[c].by IN
            /\ req'[r].pc \in {"asking", "done"} /\ req'[r].call = c
            /\ req'[r].allowed /\ req'[r].approve = verdict'[c].approve
    BY <1>2, <2>1 DEF Asked
  <2> QED
    BY <1>1, <1>2, <2>2 DEF Genuine
<1>3. CASE Settled(c)
  <2>1. CASE verdict'[c] \in [by : {"timer", "cancel"}, approve : {FALSE}]
    BY <2>1, NamesAssumption DEF Genuine
  <2>2. ASSUME NEW r \in Resolvers,
               verdict'[c] = [by |-> r, approve |-> req[r].approve],
               req[r].call = c, req[r].allowed, req[r].pc # "new", Asked(r)'
        PROVE  Genuine(c)'
    <3>1. /\ req'[r].call = c /\ req'[r].allowed /\ req'[r].approve = verdict'[c].approve
          /\ req'[r].pc \in {"asking", "done"}
      BY <2>2, ArgumentsKept DEF Asked
    <3>2. verdict'[c].by = r /\ r \notin {"nobody", "timer", "cancel"}
      BY <2>2, NamesAssumption
    <3> QED
      BY <3>1, <3>2 DEF Genuine
  <2> QED
    BY <1>3, <2>1, <2>2 DEF Settled
<1> QED
  BY <1>2, <1>3, VerdictMoves

(* Phase, owner, verdict and outcome of a call move together.               *)
LEMMA InStepStep ==
  ASSUME IInv, [Next]_vars, NEW c \in Calls
  PROVE  /\ InStep(c)'
         /\ Announced(c) => Announced(c)' /\ owner'[c] = owner[c]
<1> USE DEF Announced
<1>1. InStep(c) /\ TypeOK
  BY DEF IInv
<1>2. CASE Settled(c)
  BY <1>1, <1>2 DEF Settled, InStep
<1>3. CASE verdict'[c] = verdict[c] /\ phase'[c] = phase[c] /\ owner'[c] = owner[c] /\ outcome'[c] = outcome[c]
  BY <1>1, <1>3 DEF InStep
<1>4. CASE verdict'[c] = verdict[c] /\ \E d \in Calls : CallStep(d)
  <2>1. PICK d \in Calls : CallStep(d)
    BY <1>4
  <2>2. CASE d # c
    <3>1. phase'[c] = phase[c] /\ owner'[c] = owner[c] /\ outcome'[c] = outcome[c]
      BY <1>1, <2>1, <2>2 DEF CallStep, CallFree, CallRegister, CallAnnounce, CallEmitFails,
                              CallGivesUp, CallObeys, CallForget, TypeOK
    <3> QED
      BY <1>3, <1>4, <3>1
  <2>3. CASE d = c
    <3> USE <1>1, <1>4, <2>3 DEF InStep, TypeOK
    <3>1. CASE CallFree(c)
      BY <3>1 DEF CallFree
    <3>2. CASE \E i \in Instances : CallRegister(c, i)
      BY <3>2 DEF CallRegister
    <3>3. CASE CallAnnounce(c)
      BY <3>3 DEF CallAnnounce
    <3>4. CASE CallEmitFails(c)
      BY <3>4 DEF CallEmitFails
    <3>5. ASSUME NEW why \in {"timer", "cancel"}, CallGivesUp(c, why)
          PROVE  InStep(c)' /\ (Announced(c) => Announced(c)' /\ owner'[c] = owner[c])
      <4>1. verdict'[c] # Open
        BY <3>5 DEF CallGivesUp, Deliver, Open
      <4> QED
        BY <3>5, <4>1 DEF CallGivesUp
    <3>6. CASE CallObeys(c)
      BY <3>6 DEF CallObeys
    <3>7. CASE CallForget(c)
      BY <3>7 DEF CallForget
    <3> QED
      BY <2>1, <2>3, <3>1, <3>2, <3>3, <3>4, <3>5, <3>6, <3>7 DEF CallStep
  <2> QED
    BY <2>2, <2>3
<1>5. \/ UNCHANGED <<phase, owner, outcome>>
      \/ \E d \in Calls : CallStep(d)
  BY DEF Next, ResolveStep, SubscriberStep, vars, callVars, ResolveStart, ResolveHere, ResolveNoSubscription,
         ResolvePublish, ResolvePublishFails, ResolveAcked, ResolveTimeout, SubscriberTake,
         SubscriberDeliver, SubscriberAck, SubscriberStop
<1> QED
  BY <1>2, <1>3, <1>4, <1>5, VerdictMoves

(* What was said of a resolver stays true.                                  *)
LEMMA TruthKept ==
  ASSUME IInv, [Next]_vars, NEW r \in Resolvers, req[r].pc # "new"
  PROVE  /\ Mine(r) => Mine(r)'
         /\ Others(r) => Others(r)'
         /\ ~req[r].allowed => ~req'[r].allowed
<1>1. /\ req[r].call \in Calls
      /\ req'[r].call = req[r].call /\ req'[r].approve = req[r].approve
      /\ req'[r].allowed = req[r].allowed
  BY ResolverMoves, ArgumentsKept DEF IInv, Requests
<1>2. verdict[req[r].call].by # "nobody" => verdict'[req[r].call] = verdict[req[r].call]
  BY <1>1, VerdictMoves, OpenVerdict DEF Settled
<1>3. Mine(r) \/ Others(r) => verdict[req[r].call].by # "nobody"
  BY NamesAssumption DEF Mine, Others
<1> QED
  BY <1>1, <1>2, <1>3 DEF Mine, Others

(* An open verdict is won, a settled one belongs to somebody else than a    *)
(* resolver that has not decided.                                           *)
LEMMA WonTruthful ==
  ASSUME IInv, NEW r \in Resolvers, req[r] \in Requests,
         verdict[req[r].call].by # r,
         Deliver(req[r].call, [by |-> r, approve |-> req[r].approve])
  PROVE  /\ Won(req[r].call) = "ok" => verdict'[req[r].call] = [by |-> r, approve |-> req[r].approve]
         /\ Won(req[r].call) = "already" => verdict'[req[r].call].by \notin {"nobody", r}
<1> DEFINE c == req[r].call
<1>1. c \in Calls /\ TypeOK
  BY DEF Requests, IInv
<1>2. CASE verdict[c] = Open
  BY <1>1, <1>2 DEF Won, Deliver, TypeOK
<1>3. CASE verdict[c] # Open
  <2>1. verdict[c].by \notin {"nobody", r}
    BY <1>1, <1>3, OpenVerdict
  <2>2. verdict'[c] = verdict[c]
    BY <1>1, <1>3 DEF Deliver, TypeOK
  <2> QED
    BY <1>3, <2>1, <2>2 DEF Won
<1> QED
  BY <1>2, <1>3

(* Answers and arguments of a resolver stay consistent.                     *)
LEMMA ResolvingStep ==
  ASSUME IInv, [Next]_vars, NEW r \in Resolvers
  PROVE  Resolving(r)'
<1>1. Resolving(r) /\ TypeOK
  BY DEF IInv
<1>2. ASSUME req'[r] = req[r], reply'[r] = reply[r], ack'[r] = ack[r]
      PROVE  Resolving(r)'
  <2>1. CASE req[r].pc = "new"
    BY <1>1, <1>2, <2>1 DEF Resolving, Asked, Truthful
  <2>2. CASE req[r].pc # "new"
    <3>1. req[r].call \in Calls
      BY <1>1, <2>2, ResolverMoves DEF Requests
    <3>2. Announced(req[r].call)'
      BY <1>1, <1>2, <2>2, <3>1, InStepStep DEF Resolving, Announced
    <3> QED
      BY <1>1, <1>2, <2>2, <3>2, TruthKept DEF Resolving, Asked, Truthful
  <2> QED
    BY <2>1, <2>2
<1>3. ASSUME NEW i \in Instances, NEW c \in Calls, NEW allowed \in BOOLEAN, NEW approve \in BOOLEAN,
             ResolveStart(r, i, c, allowed, approve)
      PROVE  Resolving(r)'
  <2>1. /\ req'[r].call = c /\ req'[r].allowed = allowed
        /\ req'[r].pc = IF ~PendingAt(c, i) THEN (IF WithRedis THEN "remote" ELSE "done")
                        ELSE IF allowed THEN "found" ELSE "done"
        /\ reply'[r] = IF req'[r].pc # "done" THEN "none"
                       ELSE IF PendingAt(c, i) THEN "mismatch" ELSE "notfound"
        /\ ack' = ack /\ phase' = phase
    BY <1>1, <1>3 DEF ResolveStart, TypeOK, callVars, redisVars
  <2>2. ack[r] = "none" /\ Announced(c)
    BY <1>1, <1>3 DEF ResolveStart, Resolving, Asked
  <2> QED
    BY <2>1, <2>2 DEF Resolving, Announced, Truthful
<1>4. ASSUME ResolveStep(r) PROVE Resolving(r)'
  <2>1. /\ req[r].pc \in {"found", "remote", "asking"} /\ req[r] \in Requests
        /\ ack' = ack /\ phase' = phase /\ reply[r] = "none"
    <3>1. req[r].pc \in {"found", "remote", "asking"} /\ ack' = ack /\ phase' = phase
      BY <1>4 DEF ResolveStep, ResolveHere, ResolveNoSubscription, ResolvePublish, ResolvePublishFails,
                  ResolveAcked, ResolveTimeout, callVars, redisVars
    <3> QED
      BY <1>1, <3>1, ResolverMoves DEF Resolving
  <2>2. /\ Announced(req[r].call)'
        /\ Truthful(r, ack[r])'
    <3>1. req'[r].call = req[r].call /\ req[r].pc # "new"
      BY <2>1, ArgumentsKept
    <3>2. Announced(req[r].call)'
      BY <1>1, <2>1, <3>1 DEF Resolving, Announced
    <3>3. Truthful(r, ack[r])'
      BY <1>1, <2>1, <3>1, TruthKept DEF Resolving, Truthful
    <3> QED
      BY <3>2, <3>3
  <2>3. ASSUME NEW word \in Replies \ {"none"}, Return(r, word),
               word = "ok" => Mine(r)', word = "already" => Others(r)',
               word = "mismatch" => ~req[r].allowed
        PROVE  Resolving(r)'
    <3>1. req'[r].pc = "done" /\ reply'[r] = word /\ req'[r].allowed = req[r].allowed
      BY <1>1, <2>1, <2>3 DEF Return, TypeOK, Requests
    <3> QED
      BY <2>1, <2>2, <2>3, <3>1 DEF Resolving, Asked, Truthful
  <2>4. CASE ResolveHere(r)
    <3>1. /\ verdict[req[r].call].by # r
          /\ Won(req[r].call) \in {"ok", "already"}
      BY <2>1, <2>4 DEF ResolveHere, IInv, Genuine, Requests, Won
    <3>2. /\ Won(req[r].call) = "ok" => Mine(r)'
          /\ Won(req[r].call) = "already" => Others(r)'
      BY <2>1, <2>4, <3>1, WonTruthful, ArgumentsKept DEF ResolveHere, Mine, Others
    <3> QED
      BY <2>3, <2>4, <3>1, <3>2 DEF ResolveHere, Replies
  <2>5. CASE ResolveNoSubscription(r) \/ ResolvePublishFails(r) \/ ResolveTimeout(r)
    BY <2>3, <2>5 DEF ResolveNoSubscription, ResolvePublishFails, ResolveTimeout, Replies
  <2>6. CASE ResolvePublish(r)
    <3>1. req'[r].pc = "asking" /\ reply'[r] = "none"
      BY <1>1, <2>1, <2>6 DEF ResolvePublish, Goto, TypeOK, Requests
    <3> QED
      BY <2>1, <2>2, <3>1 DEF Resolving, Asked, Truthful
  <2>7. CASE ResolveAcked(r)
    <3>1. ack[r] \in {"ok", "already", "mismatch"} /\ Truthful(r, ack[r])
      BY <1>1, <2>7 DEF ResolveAcked, TypeOK, Resolving
    <3>2. ack[r] \in Replies \ {"none"}
      BY <3>1 DEF Replies
    <3>3. /\ ack[r] = "ok" => Mine(r)'
          /\ ack[r] = "already" => Others(r)'
          /\ ack[r] = "mismatch" => ~req[r].allowed
      BY <2>1, <3>1, TruthKept DEF Truthful
    <3> QED
      BY <2>3, <2>7, <3>2, <3>3 DEF ResolveAcked
  <2> QED
    BY <1>4, <2>4, <2>5, <2>6, <2>7 DEF ResolveStep
<1>5. ASSUME NEW i \in Instances, SubscriberAck(i), ack'[r] # ack[r]
      PROVE  Resolving(r)'
  <2>1. /\ handling[i] # Idle /\ handling[i].at = r /\ req[r].pc = "asking"
        /\ ack'[r] = handling[i].status /\ ack'[r] # "none"
        /\ req' = req /\ reply' = reply /\ verdict' = verdict /\ phase' = phase
    BY <1>1, <1>5 DEF SubscriberAck, TypeOK, Idle, callVars
  <2>2. Truthful(r, handling[i].status)
    BY <2>1 DEF IInv, HandlingOwn
  <2> QED
    BY <1>1, <2>1, <2>2 DEF Resolving, Truthful, Asked, Announced, Mine, Others
<1>6. \/ req'[r] = req[r] /\ reply'[r] = reply[r] /\ ack'[r] = ack[r]
      \/ ResolveStep(r)
      \/ \E i \in Instances, c \in Calls, allowed, approve \in BOOLEAN :
              ResolveStart(r, i, c, allowed, approve)
      \/ \E i \in Instances : SubscriberAck(i)
  <2>1. ASSUME NEW q \in Resolvers, q # r, ResolveStep(q)
        PROVE  req'[r] = req[r] /\ reply'[r] = reply[r] /\ ack'[r] = ack[r]
    BY <1>1, <2>1 DEF ResolveStep, ResolveHere, ResolveNoSubscription, ResolvePublish, ResolvePublishFails,
                      ResolveAcked, ResolveTimeout, Return, Goto, TypeOK, redisVars
  <2>2. ASSUME NEW q \in Resolvers, q # r, NEW i \in Instances, NEW c \in Calls,
               NEW allowed \in BOOLEAN, NEW approve \in BOOLEAN, ResolveStart(q, i, c, allowed, approve)
        PROVE  req'[r] = req[r] /\ reply'[r] = reply[r] /\ ack'[r] = ack[r]
    BY <1>1, <2>2 DEF ResolveStart, TypeOK, redisVars
  <2>3. \/ req' = req /\ reply' = reply /\ ack' = ack
        \/ \E q \in Resolvers : ResolveStep(q)
        \/ \E q \in Resolvers, i \in Instances, c \in Calls, allowed, approve \in BOOLEAN :
               ResolveStart(q, i, c, allowed, approve)
        \/ \E i \in Instances : SubscriberAck(i)
    BY DEF Next, CallStep, SubscriberStep, vars, redisVars, CallFree, CallRegister, CallAnnounce,
           CallEmitFails, CallGivesUp, CallObeys, CallForget, SubscriberTake, SubscriberDeliver, SubscriberStop
  <2> QED
    BY <2>1, <2>2, <2>3
<1>7. ASSUME NEW i \in Instances, SubscriberAck(i)
      PROVE  req'[r] = req[r] /\ reply'[r] = reply[r]
  BY <1>7 DEF SubscriberAck
<1> QED
  BY <1>2, <1>3, <1>4, <1>5, <1>6, <1>7

(* A resolver that asked over Redis becomes the decider only through the    *)
(* subscriber of the instance of the call, while it handles its message.    *)
LEMMA Decider ==
  ASSUME IInv, [Next]_vars, NEW r \in Resolvers, Asked(r),
         verdict[req[r].call].by # r, verdict'[req[r].call].by = r
  PROVE  \E i \in Instances : /\ SubscriberDeliver(i) /\ handling[i].at = r
                              /\ owner[req[r].call] = i /\ handling[i] # Idle
<1> DEFINE c == req[r].call
<1>1. TypeOK /\ req[r] \in Requests /\ c \in Calls
  <2>1. req[r].pc # "new"
    BY DEF Asked
  <2> QED
    BY <2>1, ResolverMoves DEF IInv, Requests
<1>2. ASSUME NEW d \in Calls, NEW why \in {"timer", "cancel"}, CallGivesUp(d, why) PROVE FALSE
  BY <1>1, <1>2, NamesAssumption DEF CallGivesUp, Deliver, TypeOK
<1>3. ASSUME NEW q \in Resolvers, ResolveHere(q) PROVE FALSE
  <2>1. req[q].pc = "found" /\ q # r
    BY <1>3 DEF ResolveHere, Asked
  <2>2. req[q] \in Requests
    BY <1>1, <2>1, ResolverMoves
  <2> QED
    BY <1>1, <1>3, <2>1, <2>2 DEF ResolveHere, Deliver, TypeOK, Requests
<1>4. ASSUME NEW i \in Instances, SubscriberDeliver(i)
      PROVE  handling[i].at = r /\ owner[c] = i /\ handling[i] # Idle
  <2>1. handling[i] # Idle
    BY <1>4 DEF SubscriberDeliver, Idle
  <2>2. handling[i].at = r
    BY <1>1, <1>4 DEF SubscriberDeliver, Deliver, TypeOK
  <2> QED
    BY <2>1, <2>2 DEF IInv, HandlingOwn
<1>5. \/ verdict' = verdict
      \/ \E q \in Resolvers : ResolveHere(q)
      \/ \E i \in Instances : SubscriberDeliver(i)
      \/ \E d \in Calls, why \in {"timer", "cancel"} : CallGivesUp(d, why)
  BY DEF Next, CallStep, ResolveStep, SubscriberStep, vars, callVars, CallFree, CallRegister, CallAnnounce,
         CallEmitFails, CallObeys, CallForget, ResolveStart, ResolveNoSubscription, ResolvePublish,
         ResolvePublishFails, ResolveAcked, ResolveTimeout, SubscriberTake, SubscriberAck, SubscriberStop
<1> QED
  BY <1>2, <1>3, <1>4, <1>5

(* The call of a resolver that asked keeps its instance, and only this      *)
(* instance makes the resolver the decider.                                 *)
LEMMA AskedKept ==
  ASSUME IInv, [Next]_vars, NEW r \in Resolvers, Asked(r)
  PROVE  /\ Asked(r)' /\ req'[r].call = req[r].call /\ req'[r].allowed = req[r].allowed
         /\ owner'[req'[r].call] = owner[req[r].call]
<1>1. req[r].pc # "new" /\ Announced(req[r].call)
  BY DEF Asked, IInv, Resolving
<1>2. req[r].call \in Calls
  BY <1>1, ResolverMoves DEF IInv, Requests
<1> QED
  BY <1>1, <1>2, ArgumentsKept, InStepStep

(* Every message is still read once.                                        *)
LEMMA InboxStep ==
  ASSUME IInv, [Next]_vars, NEW i \in Instances
  PROVE  InboxOnce(i)'
<1>1. /\ TypeOK /\ InboxOnce(i) /\ HandlingOwn(i)
      /\ inbox[i] \in Seq(Resolvers)
      /\ handling[i] \in {Idle} \cup [at : Resolvers, status : {"found", "mismatch", "ok", "already"}]
  BY DEF IInv, TypeOK
<1>2. \A n \in 1 .. Len(inbox[i]) : inbox[i][n] \in Resolvers
  BY <1>1, ElementOfSeq
<1>3. ASSUME NEW n \in 1 .. Len(inbox[i]), NEW r, r = inbox[i][n]
      PROVE  /\ r \in Resolvers /\ Asked(r)'
             /\ owner'[req'[r].call] = i => verdict'[req'[r].call].by # r
  <2>1. r \in Resolvers /\ Asked(r) /\ (owner[req[r].call] = i => verdict[req[r].call].by # r)
    BY <1>1, <1>2, <1>3 DEF InboxOnce
  <2>2. Asked(r)' /\ req'[r].call = req[r].call /\ owner'[req'[r].call] = owner[req[r].call]
    BY <2>1, AskedKept
  <2>3. ASSUME owner[req[r].call] = i, verdict'[req[r].call].by = r PROVE FALSE
    <3>1. handling[i] # Idle /\ handling[i].at = r
      BY <2>1, <2>3, Decider
    <3>2. handling[i].status # "none"
      BY <1>1, <3>1
    <3> QED
      BY <1>1, <1>3, <3>1, <3>2 DEF InboxOnce
  <2> QED
    BY <2>1, <2>2, <2>3
<1>4. ASSUME inbox'[i] = inbox[i],
             handling'[i].status # "none" => handling[i].status # "none" /\ handling'[i].at = handling[i].at
      PROVE  InboxOnce(i)'
  BY <1>1, <1>3, <1>4 DEF InboxOnce
<1>5. ASSUME NEW q \in Resolvers, req[q].pc = "remote", inbox'[i] = Append(inbox[i], q),
             handling' = handling, verdict' = verdict, owner' = owner, Asked(q)',
             req'[q].call = req[q].call
      PROVE  InboxOnce(i)'
  <2>1. /\ Len(inbox'[i]) = Len(inbox[i]) + 1
        /\ \A n \in 1 .. Len(inbox[i]) : inbox'[i][n] = inbox[i][n]
        /\ inbox'[i][Len(inbox[i]) + 1] = q
        /\ Len(inbox[i]) \in Nat
    BY <1>1, <1>5, AppendProperties, LenProperties
  <2>2. \A n \in 1 .. Len(inbox[i]) : inbox[i][n] # q
    BY <1>1, <1>5 DEF InboxOnce, Asked
  <2>3. verdict[req[q].call].by # q
    <3>1. req[q].call \in Calls
      BY <1>1, <1>5, ResolverMoves DEF Requests
    <3> QED
      BY <1>5, <3>1 DEF IInv, Genuine
  <2>4. handling[i].status # "none" => handling[i].at # q
    BY <1>1, <1>5 DEF HandlingOwn, Idle, Asked
  <2>5. ASSUME NEW n \in 1 .. Len(inbox'[i]), NEW r, r = inbox'[i][n]
        PROVE  /\ Asked(r)'
               /\ owner'[req'[r].call] = i => verdict'[req'[r].call].by # r
               /\ handling'[i].status # "none" => handling'[i].at # r
               /\ \A m \in 1 .. Len(inbox'[i]) : inbox'[i][m] = r => m = n
    <3>1. CASE n = Len(inbox[i]) + 1
      BY <1>5, <2>1, <2>2, <2>3, <2>4, <2>5, <3>1
    <3>2. CASE n \in 1 .. Len(inbox[i])
      <4>1. r = inbox[i][n] /\ r # q
        BY <2>1, <2>2, <2>5, <3>2
      <4>2. handling[i].status # "none" => handling[i].at # r
        BY <1>1, <3>2, <4>1 DEF InboxOnce
      <4>3. \A m \in 1 .. Len(inbox[i]) : inbox[i][m] = r => m = n
        BY <1>1, <3>2, <4>1 DEF InboxOnce
      <4>4. ASSUME NEW m \in 1 .. Len(inbox'[i]), inbox'[i][m] = r PROVE m = n
        BY <2>1, <4>1, <4>3, <4>4
      <4> QED
        BY <1>3, <1>5, <3>2, <4>1, <4>2, <4>4
    <3> QED
      BY <2>1, <2>5, <3>1, <3>2
  <2> QED
    BY <2>5 DEF InboxOnce
<1>6. CASE SubscriberTake(i)
  <2>1. /\ inbox[i] # <<>> /\ inbox'[i] = Tail(inbox[i])
        /\ handling'[i].status # "none" => handling'[i].at = Head(inbox[i])
    BY <1>1, <1>6 DEF SubscriberTake, TypeOK, Idle
  <2>2. /\ Len(inbox'[i]) = Len(inbox[i]) - 1 /\ Len(inbox[i]) \in Nat
        /\ \A n \in 1 .. Len(inbox'[i]) : inbox'[i][n] = inbox[i][n + 1]
        /\ Head(inbox[i]) = inbox[i][1]
    BY <1>1, <2>1, HeadTailProperties, LenProperties
  <2>3. ASSUME NEW n \in 1 .. Len(inbox'[i]), NEW r, r = inbox'[i][n]
        PROVE  /\ Asked(r)'
               /\ owner'[req'[r].call] = i => verdict'[req'[r].call].by # r
               /\ handling'[i].status # "none" => handling'[i].at # r
               /\ \A m \in 1 .. Len(inbox'[i]) : inbox'[i][m] = r => m = n
    <3>1. n + 1 \in 1 .. Len(inbox[i]) /\ 1 \in 1 .. Len(inbox[i]) /\ r = inbox[i][n + 1]
      BY <2>2, <2>3
    <3>2. \A m \in 1 .. Len(inbox[i]) : inbox[i][m] = r => m = n + 1
      BY <1>1, <3>1 DEF InboxOnce
    <3>3. inbox[i][1] # r
      BY <2>2, <3>1, <3>2
    <3>4. ASSUME NEW m \in 1 .. Len(inbox'[i]), inbox'[i][m] = r PROVE m = n
      <4>1. m + 1 \in 1 .. Len(inbox[i]) /\ inbox[i][m + 1] = r
        BY <2>2, <3>4
      <4> QED
        BY <2>2, <3>2, <4>1
    <3> QED
      BY <1>3, <2>1, <2>2, <3>1, <3>3, <3>4
  <2> QED
    BY <2>3 DEF InboxOnce
<1>7. CASE SubscriberStop(i)
  <2>1. Len(inbox'[i]) = 0
    BY <1>1, <1>7, EmptySeq DEF SubscriberStop, TypeOK
  <2> QED
    BY <2>1 DEF InboxOnce
<1>8. ASSUME NEW q \in Resolvers, ResolvePublish(q) \/ ResolvePublishFails(q)
      PROVE  InboxOnce(i)'
  <2>1. /\ handling' = handling /\ verdict' = verdict /\ owner' = owner /\ req[q].pc = "remote"
        /\ inbox'[i] = inbox[i] \/ inbox'[i] = Append(inbox[i], q)
    BY <1>8 DEF ResolvePublish, ResolvePublishFails, Publish, callVars
  <2>2. req'[q].call = req[q].call
    BY <2>1, ArgumentsKept
  <2>3. Asked(q)'
    <3>1. req[q] \in Requests
      BY <1>1, <2>1, ResolverMoves
    <3> QED
      BY <1>1, <1>8, <3>1 DEF ResolvePublish, ResolvePublishFails, Goto, Return, Asked, TypeOK, Requests
  <2> QED
    BY <1>4, <1>5, <2>1, <2>2, <2>3
<1>9. \/ inbox'[i] = inbox[i] /\ handling'[i] = handling[i]
      \/ \E q \in Resolvers : ResolvePublish(q) \/ ResolvePublishFails(q)
      \/ SubscriberTake(i) \/ SubscriberDeliver(i) \/ SubscriberAck(i) \/ SubscriberStop(i)
  <2>1. ASSUME NEW j \in Instances, j # i, SubscriberStep(j) \/ SubscriberStop(j)
        PROVE  inbox'[i] = inbox[i] /\ handling'[i] = handling[i]
    BY <1>1, <2>1 DEF SubscriberStep, SubscriberStop, SubscriberTake, SubscriberDeliver, SubscriberAck, TypeOK
  <2>2. \/ inbox' = inbox /\ handling' = handling
        \/ \E q \in Resolvers : ResolvePublish(q) \/ ResolvePublishFails(q)
        \/ \E j \in Instances : SubscriberStep(j) \/ SubscriberStop(j)
    BY DEF Next, CallStep, ResolveStep, vars, redisVars, CallFree, CallRegister, CallAnnounce,
           CallEmitFails, CallGivesUp, CallObeys, CallForget, ResolveStart, ResolveHere,
           ResolveNoSubscription, ResolveAcked, ResolveTimeout
  <2> QED
    BY <2>1, <2>2 DEF SubscriberStep
<1>10. ASSUME SubscriberDeliver(i) \/ SubscriberAck(i)
       PROVE  /\ inbox'[i] = inbox[i]
              /\ handling'[i].status # "none" => handling[i].status # "none" /\ handling'[i].at = handling[i].at
  BY <1>1, <1>10 DEF SubscriberDeliver, SubscriberAck, TypeOK, Idle
<1> QED
  BY <1>4, <1>6, <1>7, <1>8, <1>9, <1>10

(* A subscriber keeps working on a call of its own instance.                *)
LEMMA HandlingStep ==
  ASSUME IInv, [Next]_vars, NEW i \in Instances
  PROVE  HandlingOwn(i)'
<1>1. /\ TypeOK /\ InboxOnce(i) /\ HandlingOwn(i)
      /\ inbox[i] \in Seq(Resolvers)
      /\ handling[i] \in {Idle} \cup [at : Resolvers, status : {"found", "mismatch", "ok", "already"}]
  BY DEF IInv, TypeOK
<1>2. ASSUME handling'[i] = handling[i], ~SubscriberDeliver(i), handling[i] # Idle
      PROVE  HandlingOwn(i)'
  <2> DEFINE r == handling[i].at
  <2>1. PICK q \in Resolvers : q = handling[i].at
    BY <1>1, <1>2
  <2>2. Asked(q) /\ owner[req[q].call] = i /\ req[q].pc # "new"
    BY <1>1, <1>2, <2>1 DEF HandlingOwn, Asked
  <2>3. handling[i].status = "found" => verdict'[req'[q].call].by # q
    <3>1. ASSUME handling[i].status = "found", verdict'[req[q].call].by = q PROVE FALSE
      <4>1. verdict[req[q].call].by # q
        BY <1>1, <1>2, <2>1, <3>1 DEF HandlingOwn
      <4> QED
        BY <1>2, <2>2, <3>1, <4>1, Decider
    <3> QED
      BY <2>2, <3>1, AskedKept
  <2>4. Truthful(q, handling[i].status)
    BY <1>1, <1>2, <2>1 DEF HandlingOwn
  <2>5. /\ handling[i].status = "ok" => Mine(q)'
        /\ handling[i].status = "already" => Others(q)'
        /\ handling[i].status = "mismatch" => ~req'[q].allowed
    BY <2>2, <2>4, TruthKept DEF Truthful
  <2>6. handling[i].status = "found" => req'[q].allowed
    BY <1>1, <1>2, <2>1, <2>2, AskedKept DEF HandlingOwn
  <2>7. Asked(q)' /\ owner'[req'[q].call] = i
    BY <2>2, AskedKept
  <2> QED
    BY <1>2, <2>1, <2>3, <2>5, <2>6, <2>7 DEF HandlingOwn, Asked, Truthful, Mine, Others
<1>3. CASE SubscriberTake(i)
  <2>1. CASE handling'[i] = Idle
    BY <2>1 DEF HandlingOwn
  <2>2. CASE handling'[i] # Idle
    <3>1. PICK q \in Resolvers : q = Head(inbox[i])
      BY <1>1, <1>3, HeadTailProperties DEF SubscriberTake
    <3>2. /\ PendingAt(req[q].call, i)
          /\ handling'[i] = [at |-> q, status |-> IF req[q].allowed THEN "found" ELSE "mismatch"]
          /\ req' = req /\ verdict' = verdict /\ owner' = owner /\ inbox[i] # <<>>
      BY <1>1, <1>3, <2>2, <3>1 DEF SubscriberTake, TypeOK, callVars
    <3>3. 1 \in 1 .. Len(inbox[i]) /\ inbox[i][1] = q
      BY <1>1, <3>1, <3>2, HeadTailProperties, LenProperties, EmptySeq
    <3>4. Asked(q) /\ (owner[req[q].call] = i => verdict[req[q].call].by # q)
      BY <1>1, <3>3 DEF InboxOnce
    <3>5. handling'[i].at = q /\ handling'[i].status = IF req[q].allowed THEN "found" ELSE "mismatch"
      BY <3>2
    <3> QED
      BY <3>2, <3>4, <3>5 DEF HandlingOwn, PendingAt, Asked, Truthful
  <2> QED
    BY <2>1, <2>2
<1>4. CASE SubscriberDeliver(i)
  <2>1. PICK q \in Resolvers : q = handling[i].at
    BY <1>1, <1>4 DEF SubscriberDeliver, Idle
  <2>2. handling[i] # Idle /\ handling[i].status = "found"
    BY <1>4 DEF SubscriberDeliver, Idle
  <2>3. Asked(q) /\ owner[req[q].call] = i /\ verdict[req[q].call].by # q /\ req[q].pc # "new"
    BY <1>1, <2>1, <2>2 DEF HandlingOwn, Asked
  <2>4. handling'[i].at = q /\ handling'[i].status = Won(req[q].call) /\ req' = req /\ owner' = owner
    BY <1>1, <1>4, <2>1 DEF SubscriberDeliver, TypeOK
  <2>5. /\ Won(req[q].call) = "ok" => Mine(q)'
        /\ Won(req[q].call) = "already" => Others(q)'
        /\ Won(req[q].call) \in {"ok", "already"}
    <3>1. req[q] \in Requests
      BY <1>1, <2>3, ResolverMoves
    <3> QED
      BY <1>4, <2>1, <2>3, <2>4, <3>1, WonTruthful DEF SubscriberDeliver, Mine, Others, Won
  <2> QED
    BY <2>3, <2>4, <2>5 DEF HandlingOwn, Asked, Truthful, Mine, Others
<1>5. CASE SubscriberAck(i)
  BY <1>1, <1>5 DEF SubscriberAck, HandlingOwn, TypeOK
<1>6. handling'[i] = handling[i] \/ SubscriberTake(i) \/ SubscriberDeliver(i) \/ SubscriberAck(i)
  <2>1. ASSUME NEW j \in Instances, j # i, SubscriberStep(j) \/ SubscriberStop(j)
        PROVE  handling'[i] = handling[i]
    BY <1>1, <2>1 DEF SubscriberStep, SubscriberStop, SubscriberTake, SubscriberDeliver, SubscriberAck, TypeOK
  <2>2. \/ handling' = handling
        \/ \E j \in Instances : SubscriberStep(j)
    BY DEF Next, CallStep, ResolveStep, vars, redisVars, CallFree, CallRegister, CallAnnounce,
           CallEmitFails, CallGivesUp, CallObeys, CallForget, ResolveStart, ResolveHere, ResolvePublish,
           ResolvePublishFails, ResolveNoSubscription, ResolveAcked, ResolveTimeout, SubscriberStop
  <2> QED
    BY <2>1, <2>2 DEF SubscriberStep
<1>7. handling'[i] = handling[i] /\ handling[i] = Idle => HandlingOwn(i)'
  BY DEF HandlingOwn
<1> QED
  BY <1>2, <1>3, <1>4, <1>5, <1>6, <1>7

(* The inductive invariant holds in every state.                            *)
LEMMA Invariance == Spec => []IInv
<1>1. ASSUME IInv, [Next]_vars PROVE IInv'
  <2>1. TypeOK'
    BY <1>1, NextType DEF IInv
  <2>2. \A c \in Calls : Genuine(c)' /\ InStep(c)'
    BY <1>1, GenuineStep, InStepStep
  <2>3. \A r \in Resolvers : Resolving(r)'
    BY <1>1, ResolvingStep
  <2>4. \A i \in Instances : InboxOnce(i)' /\ HandlingOwn(i)'
    BY <1>1, InboxStep, HandlingStep
  <2> QED
    BY <2>1, <2>2, <2>3, <2>4 DEF IInv
<1> QED
  BY <1>1, InitIInv, PTL DEF Spec

(* No dangerous tool runs without the approval of a user who may give it,   *)
(* however resolvers, subscribers, timers and lost messages interleave.     *)
THEOREM RunsAreApproved == Spec => []NoUnapprovedRun
<1>1. IInv => NoUnapprovedRun
  <2> SUFFICES ASSUME IInv, NEW c \in Calls, outcome[c] = "run"
               PROVE  \E r \in Resolvers : /\ req[r].call = c /\ req[r].pc # "new"
                                           /\ req[r].allowed /\ req[r].approve
                                           /\ verdict[c] = [by |-> r, approve |-> TRUE]
    BY DEF NoUnapprovedRun
  <2>1. verdict[c].approve /\ verdict[c] \in Verdicts
    <3>1. phase[c] \in Phases /\ verdict[c] \in Verdicts
      BY DEF IInv, TypeOK
    <3>2. phase[c] \in {"answered", "gone"}
      BY <3>1 DEF IInv, InStep, Phases
    <3> QED
      BY <3>1, <3>2 DEF IInv, InStep
  <2>2. verdict[c].by \in Resolvers
    BY <2>1 DEF IInv, Genuine, Verdicts
  <2> WITNESS verdict[c].by \in Resolvers
  <2>3. verdict[c] = [by |-> verdict[c].by, approve |-> TRUE]
    BY <2>1 DEF Verdicts
  <2> QED
    BY <2>1, <2>2, <2>3 DEF IInv, Genuine
<1> QED
  BY <1>1, Invariance, PTL

(* What Resolve returns is true, on the instance of the call and across     *)
(* instances.                                                               *)
THEOREM RepliesAreHonest == Spec => []RepliesHonest
<1>1. IInv => RepliesHonest
  BY DEF IInv, Resolving, Truthful, Mine, Others, RepliesHonest
<1> QED
  BY <1>1, Invariance, PTL
-------------------------------------------------------------------------------
told == [r \in Resolvers |-> Told(reply[r])]

(* A settling step, told to nobody or to the resolver that decided.         *)
LEMMA SettleMaps ==
  ASSUME IInv, NEW c \in Calls, NEW v \in Verdicts, verdict[c] = Open,
         outcome[c] \in {"waiting", "refused"},
         v.by # "nobody", v.by \in {"timer", "cancel"} => ~v.approve,
         verdict' = [verdict EXCEPT ![c] = v], UNCHANGED outcome,
         told' = told \/ \E r \in Resolvers : D!Tell(r, c, "ok")
  PROVE  D!Next
<1>1. v.by \in Resolvers \cup {"timer", "cancel"} /\ v.approve \in BOOLEAN
  BY DEF IInv, InStep, Verdicts
<1>2. v = [by |-> v.by, approve |-> v.approve]
  BY DEF Verdicts
<1>3. D!Decide(c, v)
  BY <1>1 DEF D!Decide, D!Open, Open
<1> QED
  BY <1>1, <1>2, <1>3 DEF D!Next, told

(* A word that is true may be told.                                         *)
LEMMA TellMaps ==
  ASSUME IInv, NEW r \in Resolvers, NEW c \in Calls, NEW word \in Replies \ {"none"},
         reply[r] = "none", reply' = [reply EXCEPT ![r] = word], UNCHANGED outcome,
         word = "ok" => verdict'[c].by = r,
         word = "already" => verdict'[c].by \notin {"nobody", r}
  PROVE  D!Tell(r, c, Told(word))
<1>1. told[r] = "nothing"
  BY DEF told, Told
<1>2. told' = [told EXCEPT ![r] = Told(word)]
  BY DEF told, IInv, TypeOK
<1>3. /\ Told(word) = "ok" => word = "ok"
      /\ Told(word) = "already" => word = "already"
  BY DEF Told
<1> QED
  BY <1>1, <1>2, <1>3 DEF D!Tell, told

(* Every step of the gate is a step of the one-shot decision or leaves it   *)
(* alone.                                                                   *)
LEMMA StepMaps ==
  ASSUME IInv, [Next]_vars
  PROVE  [D!Next]_(D!vars)
<1>0. TypeOK
  BY DEF IInv
<1>1. ASSUME UNCHANGED <<verdict, outcome, reply>> PROVE [D!Next]_(D!vars)
  BY <1>1 DEF D!vars, told, Told
<1>2. ASSUME NEW c \in Calls, CallStep(c) PROVE [D!Next]_(D!vars)
  <2>1. CASE CallFree(c)
    <3>1. outcome[c] = "waiting" /\ verdict[c] = Open
      BY <2>1 DEF CallFree, IInv, InStep
    <3>2. D!Free(c)
      BY <2>1, <3>1 DEF CallFree, D!Free, D!Open, Open, told
    <3> QED
      BY <3>2 DEF D!Next
  <2>2. CASE CallEmitFails(c)
    <3>1. outcome[c] = "waiting"
      BY <2>2 DEF CallEmitFails, IInv, InStep
    <3>2. D!Abort(c)
      BY <2>2, <3>1 DEF CallEmitFails, D!Abort, told
    <3> QED
      BY <3>2 DEF D!Next
  <2>3. CASE CallObeys(c)
    <3>1. outcome[c] = "waiting"
      BY <2>3 DEF CallObeys, IInv, InStep
    <3>2. D!Run(c) \/ D!Abort(c)
      BY <2>3, <3>1 DEF CallObeys, D!Run, D!Abort, told
    <3> QED
      BY <3>2 DEF D!Next
  <2>4. ASSUME NEW why \in {"timer", "cancel"}, CallGivesUp(c, why) PROVE [D!Next]_(D!vars)
    <3> DEFINE v == [by |-> why, approve |-> FALSE]
    <3>1. CASE verdict[c] # Open
      BY <1>0, <1>1, <2>4, <3>1 DEF CallGivesUp, Deliver, TypeOK
    <3>2. CASE verdict[c] = Open
      <4>1. v \in Verdicts /\ v.by # "nobody" /\ ~v.approve
        BY DEF Verdicts
      <4>2. verdict' = [verdict EXCEPT ![c] = v] /\ UNCHANGED outcome /\ told' = told
            /\ outcome[c] = "waiting"
        BY <1>0, <2>4, <3>2 DEF CallGivesUp, Deliver, TypeOK, told, IInv, InStep
      <4> HIDE DEF v
      <4> QED
        BY <3>2, <4>1, <4>2, SettleMaps
    <3> QED
      BY <3>1, <3>2
  <2>5. CASE CallAnnounce(c) \/ CallForget(c) \/ \E i \in Instances : CallRegister(c, i)
    BY <1>1, <2>5 DEF CallAnnounce, CallForget, CallRegister
  <2> QED
    BY <1>2, <2>1, <2>2, <2>3, <2>4, <2>5 DEF CallStep
<1>3. ASSUME NEW r \in Resolvers, NEW word \in Replies \ {"none"},
             reply[r] = "none", reply' = [reply EXCEPT ![r] = word],
             UNCHANGED <<verdict, outcome>>,
             word = "ok" => verdict'[req[r].call].by = r,
             word = "already" => verdict'[req[r].call].by \notin {"nobody", r},
             \E c \in Calls : req[r].call = c \/ word \notin {"ok", "already"}
      PROVE  [D!Next]_(D!vars)
  <2>1. PICK c \in Calls : req[r].call = c \/ word \notin {"ok", "already"}
    BY <1>3
  <2>2. D!Tell(r, c, Told(word))
    BY <1>3, <2>1, TellMaps
  <2>3. Told(word) \in {"ok", "already", "no"}
    BY <1>3 DEF Told
  <2> QED
    BY <1>3, <2>2, <2>3 DEF D!Next
<1>4. ASSUME NEW r \in Resolvers, NEW i \in Instances, NEW c \in Calls,
             NEW allowed \in BOOLEAN, NEW approve \in BOOLEAN,
             ResolveStart(r, i, c, allowed, approve)
      PROVE  [D!Next]_(D!vars)
  <2>1. reply[r] = "none" /\ UNCHANGED <<verdict, outcome>>
    BY <1>4 DEF ResolveStart, IInv, Resolving, callVars
  <2>2. PICK word \in {"none", "mismatch", "notfound"} : reply' = [reply EXCEPT ![r] = word]
    BY <1>4 DEF ResolveStart
  <2>3. CASE word = "none"
    <3>1. reply' = reply
      BY <1>0, <2>1, <2>2, <2>3 DEF TypeOK
    <3> QED
      BY <1>1, <2>1, <3>1
  <2>4. CASE word # "none"
    BY <1>3, <2>1, <2>2, <2>4 DEF Replies
  <2> QED
    BY <2>3, <2>4
<1>5. ASSUME NEW r \in Resolvers, ResolveStep(r) PROVE [D!Next]_(D!vars)
  <2>1. /\ req[r].pc \in {"found", "remote", "asking"} /\ UNCHANGED outcome
    BY <1>5 DEF ResolveStep, ResolveHere, ResolveNoSubscription, ResolvePublish, ResolvePublishFails,
                ResolveAcked, ResolveTimeout, callVars
  <2>2. /\ req[r] \in Requests /\ req[r].call \in Calls /\ reply[r] = "none"
        /\ Truthful(r, ack[r])
    BY <1>0, <2>1, ResolverMoves DEF IInv, Resolving, Requests
  <2>3. CASE ResolveNoSubscription(r) \/ ResolvePublishFails(r) \/ ResolveTimeout(r)
    BY <1>3, <2>2, <2>3 DEF ResolveNoSubscription, ResolvePublishFails, ResolveTimeout, Return, Replies, callVars
  <2>4. CASE ResolvePublish(r)
    BY <1>1, <2>4 DEF ResolvePublish, Goto, callVars
  <2>5. CASE ResolveAcked(r)
    <3>1. ack[r] \in {"ok", "already", "mismatch"} /\ UNCHANGED <<verdict, outcome>>
      BY <1>0, <2>5 DEF ResolveAcked, TypeOK, callVars
    <3>2. /\ ack[r] = "ok" => verdict[req[r].call].by = r
          /\ ack[r] = "already" => verdict[req[r].call].by \notin {"nobody", r}
      BY <2>2 DEF Truthful, Mine, Others
    <3>3. ack[r] \in Replies \ {"none"} /\ reply' = [reply EXCEPT ![r] = ack[r]]
      BY <2>5, <3>1 DEF ResolveAcked, Return, Replies
    <3>4. PICK word \in Replies \ {"none"} : word = ack[r]
      BY <3>3
    <3> QED
      BY <1>3, <2>2, <3>1, <3>2, <3>3, <3>4
  <2>6. CASE ResolveHere(r)
    <3> DEFINE c == req[r].call
               v == [by |-> r, approve |-> req[r].approve]
    <3>1. verdict[c].by # r
      BY <2>2, <2>6 DEF ResolveHere, IInv, Genuine
    <3>2. v \in Verdicts /\ v.by \notin {"nobody", "timer", "cancel"} /\ Deliver(c, v) /\ UNCHANGED outcome
      BY <2>2, <2>6, VerdictType, RequestFlags, NamesAssumption DEF ResolveHere
    <3>3. PICK word \in {"ok", "already"} : word = Won(c) /\ reply' = [reply EXCEPT ![r] = word]
      BY <2>6 DEF ResolveHere, Return, Won
    <3>4. /\ word = "ok" => verdict'[c].by = r
          /\ word = "already" => verdict'[c].by \notin {"nobody", r}
      BY <2>2, <2>6, <3>1, <3>3, WonTruthful DEF ResolveHere
    <3>5. D!Tell(r, c, Told(word))
      BY <2>1, <2>2, <3>3, <3>4, TellMaps DEF Replies
    <3>6. CASE word = "already"
      <4>1. verdict' = verdict
        BY <1>0, <2>2, <3>2, <3>3, <3>6 DEF Deliver, Won, TypeOK
      <4> QED
        BY <2>2, <3>5, <3>6, <4>1 DEF D!Next, Told
    <3>7. CASE word = "ok"
      <4>1. verdict[c] = Open /\ Announced(c)
        BY <2>1, <3>3, <3>7 DEF Won, IInv, Resolving
      <4>2. outcome[c] \in {"waiting", "refused"}
        BY <1>0, <2>2, <4>1 DEF Announced, IInv, InStep, TypeOK, Phases
      <4>3. verdict' = [verdict EXCEPT ![c] = v] /\ D!Tell(r, c, "ok")
        BY <1>0, <2>2, <3>2, <3>5, <3>7, <4>1 DEF Deliver, TypeOK, Told
      <4> HIDE DEF v, c
      <4>4. c \in Calls
        BY <2>2 DEF c
      <4> QED
        BY <3>2, <4>1, <4>2, <4>3, <4>4, SettleMaps
    <3> QED
      BY <3>3, <3>6, <3>7
  <2> QED
    BY <1>5, <2>3, <2>4, <2>5, <2>6 DEF ResolveStep
<1>6. ASSUME NEW i \in Instances, SubscriberDeliver(i) PROVE [D!Next]_(D!vars)
  <2>1. handling[i] # Idle
    BY <1>6 DEF SubscriberDeliver, Idle
  <2>2. PICK r \in Resolvers : r = handling[i].at
    BY <1>0, <2>1 DEF TypeOK
  <2>3. Asked(r) /\ req[r] \in Requests /\ req[r].call \in Calls /\ Announced(req[r].call)
    <3>1. Asked(r) /\ req[r].pc # "new"
      BY <2>1, <2>2 DEF IInv, HandlingOwn, Asked
    <3> QED
      BY <1>0, <3>1, ResolverMoves DEF Requests, IInv, Resolving
  <2> DEFINE c == req[r].call
             v == [by |-> r, approve |-> req[r].approve]
  <2>4. v \in Verdicts /\ v.by \notin {"nobody", "timer", "cancel"} /\ Deliver(c, v)
        /\ UNCHANGED <<outcome, reply>>
    BY <1>6, <2>2, <2>3, VerdictType, RequestFlags, NamesAssumption DEF SubscriberDeliver
  <2>5. CASE verdict[c] # Open
    <3>1. verdict' = verdict
      BY <1>0, <2>3, <2>4, <2>5 DEF Deliver, TypeOK
    <3> QED
      BY <1>1, <2>4, <3>1
  <2>6. CASE verdict[c] = Open
    <3>1. outcome[c] \in {"waiting", "refused"}
      BY <1>0, <2>3, <2>6 DEF Announced, IInv, InStep, TypeOK, Phases
    <3>2. verdict' = [verdict EXCEPT ![c] = v] /\ told' = told
      BY <1>0, <2>3, <2>4, <2>6 DEF Deliver, TypeOK, told
    <3> HIDE DEF v, c
    <3>3. c \in Calls
      BY <2>3 DEF c
    <3> QED
      BY <2>4, <2>6, <3>1, <3>2, <3>3, SettleMaps
  <2> QED
    BY <2>5, <2>6
<1>7. ASSUME NEW i \in Instances, SubscriberTake(i) \/ SubscriberAck(i) \/ SubscriberStop(i)
      PROVE  [D!Next]_(D!vars)
  BY <1>1, <1>7 DEF SubscriberTake, SubscriberAck, SubscriberStop, callVars
<1>8. CASE UNCHANGED vars
  BY <1>1, <1>8 DEF vars, callVars
<1> QED
  BY <1>2, <1>4, <1>5, <1>6, <1>7, <1>8 DEF Next, SubscriberStep

(* The gate implements the one-shot decision of ApprovalDecision, for every *)
(* number of calls, resolvers and instances and every loss of messages.     *)
THEOREM GateImplementsDecision == Spec => Implements
<1>1. Init => D!Init
  BY DEF Init, D!Init, D!Open, Open, told, Told
<1> QED
  BY <1>1, Invariance, StepMaps, PTL DEF Spec, Implements, D!Spec
===============================================================================
