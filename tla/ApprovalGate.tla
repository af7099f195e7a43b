----------------------------- MODULE ApprovalGate -----------------------------
(***************************************************************************)
(* The human approval of dangerous MCP tool calls (agent/approval/gate.go). *)
(* A call waits on the instance that runs it, for a decision, its timer or  *)
(* the end of its request. Resolve delivers the decision of a user: to a    *)
(* waiter of its own instance, else over Redis publish/subscribe to the     *)
(* other instances, whose subscriber delivers it and answers with an        *)
(* acknowledgement. Both messages can get lost, and the resolver waits for  *)
(* the answer for three seconds only.                                       *)
(***************************************************************************)
EXTENDS Naturals, Sequences

CONSTANTS Calls,        \* tool calls that may need approval
          Resolvers,    \* Resolve calls (the nonce of each is its identity)
          Instances,    \* backend replicas
          WithRedis     \* whether a Redis client is configured

ASSUME NamesAssumption ==
    /\ WithRedis \in BOOLEAN
    /\ "none" \notin Calls
    /\ Resolvers \cap {"nobody", "timer", "cancel"} = {}
    /\ "none" \notin Instances

VARIABLES
    phase,      \* per call: where RequestAndWait is
    owner,      \* per call: the instance it runs on, "none" before
    verdict,    \* per call: what the waiter's once let through, and from whom
    outcome,    \* per call: what the tool did
    req,        \* per resolver: where Resolve is, and its arguments
    reply,      \* per resolver: what Resolve returned
    ack,        \* per resolver: the acknowledgement on its reply channel
    inbox,      \* per instance: messages its subscriber has not read
    handling,   \* per instance: the message its subscriber works on
    stopped     \* per instance: Shutdown closed the subscriber

callVars == <<phase, owner, verdict, outcome>>
redisVars == <<ack, inbox, handling, stopped>>
vars == <<callVars, req, reply, redisVars>>

Open == [by |-> "nobody", approve |-> FALSE]
Idle == [at |-> "idle", status |-> "none"]
Unasked == [pc |-> "new", at |-> "none", call |-> "none", allowed |-> FALSE, approve |-> FALSE]

Phases == {"idle", "registered", "waiting", "leaving", "answered", "gone", "free", "failed"}
Replies == {"none", "ok", "already", "mismatch", "notfound", "error"}
Steps == {"found", "remote", "asking", "done"}

\* The event shows the id of the call to the user, perhaps before Emit returns.
Announced(c) == phase[c] \notin {"idle", "free"}

\* The waiter is in the pending map of instance i: from the start of
\* RequestAndWait to its deferred delete.
PendingAt(c, i) == owner[c] = i /\ phase[c] \in {"registered", "waiting", "leaving", "answered"}

\* Mutant: without sync.Once the last decision replaces the one before.
DeliverAgain(c, v) == verdict' = [verdict EXCEPT ![c] = v]

\* sync.Once and the one-slot channel: the first decision is kept, a later one lost.
Deliver(c, v) == verdict' = [verdict EXCEPT ![c] = IF @ = Open THEN v ELSE @]
Won(c) == IF verdict[c] = Open THEN "ok" ELSE "already"
-------------------------------------------------------------------------------
(* The tool call: MCPTool.Execute and RequestAndWait.                       *)

\* NeedsApproval says no: the tool runs at once.
CallFree(c) ==
    /\ phase[c] = "idle"
    /\ phase' = [phase EXCEPT ![c] = "free"]
    /\ outcome' = [outcome EXCEPT ![c] = "free"]
    /\ UNCHANGED <<owner, verdict, req, reply, redisVars>>

\* Approval is required, or the checker failed: the waiter is registered.
CallRegister(c, i) ==
    /\ phase[c] = "idle"
    /\ phase' = [phase EXCEPT ![c] = "registered"]
    /\ owner' = [owner EXCEPT ![c] = i]
    /\ UNCHANGED <<verdict, outcome, req, reply, redisVars>>

CallAnnounce(c) ==
    /\ phase[c] = "registered"
    /\ phase' = [phase EXCEPT ![c] = "waiting"]
    /\ UNCHANGED <<owner, verdict, outcome, req, reply, redisVars>>

\* A handler of the event fails, perhaps after another one showed it: an error,
\* and the tool does not run whatever was decided meanwhile.
CallEmitFails(c) ==
    /\ phase[c] = "registered"
    /\ phase' = [phase EXCEPT ![c] = "failed"]
    /\ outcome' = [outcome EXCEPT ![c] = "refused"]
    /\ UNCHANGED <<owner, verdict, req, reply, redisVars>>

\* Mutant: only the end of the request is waited for, not the timer.
CallGivesUpOnCancel(c, why) ==
    /\ why = "cancel"
    /\ phase[c] = "waiting"
    /\ phase' = [phase EXCEPT ![c] = "leaving"]
    /\ Deliver(c, [by |-> why, approve |-> FALSE])
    /\ UNCHANGED <<owner, outcome, req, reply, redisVars>>

\* The timer or the end of the request is chosen, perhaps though a decision
\* is already there; its own decision may come second.
CallGivesUp(c, why) ==
    /\ phase[c] = "waiting"
    /\ phase' = [phase EXCEPT ![c] = "leaving"]
    /\ Deliver(c, [by |-> why, approve |-> FALSE])
    /\ UNCHANGED <<owner, outcome, req, reply, redisVars>>

\* d = <-w.ch, and what MCPTool.Execute does with it: arguments that came with
\* an approval may not parse.
CallObeys(c) ==
    /\ phase[c] \in {"waiting", "leaving"}
    /\ verdict[c] # Open
    /\ phase' = [phase EXCEPT ![c] = "answered"]
    /\ \E word \in {"run", "refused"} :
         /\ word = "run" => verdict[c].approve
         /\ outcome' = [outcome EXCEPT ![c] = word]
    /\ UNCHANGED <<owner, verdict, req, reply, redisVars>>

\* The deferred delete from the pending map.
CallForget(c) ==
    /\ phase[c] = "answered"
    /\ phase' = [phase EXCEPT ![c] = "gone"]
    /\ UNCHANGED <<owner, verdict, outcome, req, reply, redisVars>>
-------------------------------------------------------------------------------
(* Resolve on the instance of the request.                                  *)

Return(r, word) == /\ req' = [req EXCEPT ![r].pc = "done"]
                   /\ reply' = [reply EXCEPT ![r] = word]

Goto(r, pc) == /\ req' = [req EXCEPT ![r].pc = pc]
               /\ UNCHANGED reply

\* deliverLocal up to g.mu.Unlock: the lookup and the check of tenant and user.
ResolveStart(r, i, c, allowed, approve) ==
    /\ req[r].pc = "new"
    /\ Announced(c)
    /\ LET lookup == IF ~PendingAt(c, i) THEN (IF WithRedis THEN "remote" ELSE "done")
                     ELSE IF allowed THEN "found" ELSE "done"
       IN /\ req' = [req EXCEPT ![r] = [pc |-> lookup, at |-> i, call |-> c,
                                        allowed |-> allowed, approve |-> approve]]
          /\ reply' = [reply EXCEPT ![r] = IF lookup # "done" THEN "none"
                                           ELSE IF PendingAt(c, i) THEN "mismatch" ELSE "notfound"]
    /\ UNCHANGED <<callVars, redisVars>>

\* The rest of deliverLocal, without the mutex: the call may be gone by now.
ResolveHere(r) ==
    /\ req[r].pc = "found"
    /\ Deliver(req[r].call, [by |-> r, approve |-> req[r].approve])
    /\ Return(r, Won(req[r].call))
    /\ UNCHANGED <<phase, owner, outcome, redisVars>>

\* The reply channel cannot be subscribed.
ResolveNoSubscription(r) ==
    /\ req[r].pc = "remote"
    /\ Return(r, "error")
    /\ UNCHANGED <<callVars, redisVars>>

\* Redis hands the message to the subscribers it can reach, at most once.
Publish(r, reached) ==
    inbox' = [i \in Instances |-> IF i \in reached THEN Append(inbox[i], r) ELSE inbox[i]]

\* The subscriber of the own instance skips what carries its OriginID.
Reachable(r) == {i \in Instances \ {req[r].at} : ~stopped[i]}

ResolvePublish(r) ==
    /\ req[r].pc = "remote"
    /\ \E reached \in SUBSET Reachable(r) : Publish(r, reached)
    /\ Goto(r, "asking")
    /\ UNCHANGED <<callVars, ack, handling, stopped>>

\* Publish returns an error; the message may be out all the same.
ResolvePublishFails(r) ==
    /\ req[r].pc = "remote"
    /\ \E reached \in SUBSET Reachable(r) : Publish(r, reached)
    /\ Return(r, "error")
    /\ UNCHANGED <<callVars, ack, handling, stopped>>

\* Mutant: the nonce is not compared, any acknowledgement for the call is taken.
ResolveAckedByAny(r) ==
    /\ req[r].pc = "asking"
    /\ \E q \in Resolvers : /\ req[q].call = req[r].call /\ ack[q] # "none"
                            /\ Return(r, ack[q])
    /\ UNCHANGED <<callVars, redisVars>>

\* Acknowledgements with the nonce of another Resolve are skipped.
ResolveAcked(r) ==
    /\ req[r].pc = "asking"
    /\ ack[r] # "none"
    /\ Return(r, ack[r])
    /\ UNCHANGED <<callVars, redisVars>>

\* Mutant: waiting for an acknowledgement without a limit.
ResolveNoTimeout(r) ==
    /\ req[r].pc = "asking" /\ ack[r] # "none"
    /\ Return(r, "notfound")
    /\ UNCHANGED <<callVars, redisVars>>

\* ackCtx ends after three seconds.
ResolveTimeout(r) ==
    /\ req[r].pc = "asking"
    /\ Return(r, "notfound")
    /\ UNCHANGED <<callVars, redisVars>>
-------------------------------------------------------------------------------
(* runSubscriber on every other instance.                                   *)

\* Mutant: the subscriber does not check tenant and user again.
SubscriberTakeAny(i) ==
    /\ ~stopped[i] /\ handling[i] = Idle /\ inbox[i] # <<>>
    /\ LET r == Head(inbox[i])
       IN handling' = [handling EXCEPT ![i] =
              IF ~PendingAt(req[r].call, i) THEN Idle
              ELSE [at |-> r, status |-> "found"]]
    /\ inbox' = [inbox EXCEPT ![i] = Tail(@)]
    /\ UNCHANGED <<callVars, req, reply, ack, stopped>>

\* The lookup of deliverLocal; a call that is not here is passed over
\* in silence.
SubscriberTake(i) ==
    /\ ~stopped[i] /\ handling[i] = Idle /\ inbox[i] # <<>>
    /\ LET r == Head(inbox[i])
       IN handling' = [handling EXCEPT ![i] =
              IF ~PendingAt(req[r].call, i) THEN Idle
              ELSE [at |-> r, status |-> IF req[r].allowed THEN "found" ELSE "mismatch"]]
    /\ inbox' = [inbox EXCEPT ![i] = Tail(@)]
    /\ UNCHANGED <<callVars, req, reply, ack, stopped>>

SubscriberDeliver(i) ==
    /\ handling[i].status = "found"
    /\ LET r == handling[i].at
       IN /\ Deliver(req[r].call, [by |-> r, approve |-> req[r].approve])
          /\ handling' = [handling EXCEPT ![i].status = Won(req[r].call)]
    /\ UNCHANGED <<phase, owner, outcome, req, reply, ack, inbox, stopped>>

\* Mutant: the acknowledgement is sent for a decision not delivered yet.
SubscriberAckEarly(i) ==
    /\ handling[i] # Idle
    /\ LET r == handling[i].at
       IN \/ req[r].pc = "asking" /\ ack' = [ack EXCEPT ![r] = handling[i].status]
          \/ UNCHANGED ack
    /\ handling' = [handling EXCEPT ![i] = Idle]
    /\ UNCHANGED <<callVars, req, reply, inbox, stopped>>

\* The answer reaches a resolver that still listens, or gets lost.
SubscriberAck(i) ==
    /\ handling[i].status \in {"ok", "already", "mismatch"}
    /\ LET r == handling[i].at
       IN \/ req[r].pc = "asking" /\ ack' = [ack EXCEPT ![r] = handling[i].status]
          \/ UNCHANGED ack
    /\ handling' = [handling EXCEPT ![i] = Idle]
    /\ UNCHANGED <<callVars, req, reply, inbox, stopped>>

\* Shutdown: the loop returns between two messages; what it had not read is lost.
SubscriberStop(i) ==
    /\ WithRedis
    /\ ~stopped[i] /\ handling[i] = Idle
    /\ stopped' = [stopped EXCEPT ![i] = TRUE]
    /\ inbox' = [inbox EXCEPT ![i] = <<>>]
    /\ UNCHANGED <<callVars, req, reply, ack, handling>>
-------------------------------------------------------------------------------
Init ==
    /\ phase = [c \in Calls |-> "idle"]
    /\ owner = [c \in Calls |-> "none"]
    /\ verdict = [c \in Calls |-> Open]
    /\ outcome = [c \in Calls |-> "waiting"]
    /\ req = [r \in Resolvers |-> Unasked]
    /\ reply = [r \in Resolvers |-> "none"]
    /\ ack = [r \in Resolvers |-> "none"]
    /\ inbox = [i \in Instances |-> <<>>]
    /\ handling = [i \in Instances |-> Idle]
    /\ stopped = [i \in Instances |-> FALSE]

CallStep(c) == \/ CallFree(c)
               \/ \E i \in Instances : CallRegister(c, i)
               \/ CallAnnounce(c)
               \/ CallEmitFails(c)
               \/ CallGivesUp(c, "timer")
               \/ CallGivesUp(c, "cancel")
               \/ CallObeys(c)
               \/ CallForget(c)

ResolveStep(r) == \/ ResolveHere(r)
                  \/ ResolveNoSubscription(r)
                  \/ ResolvePublish(r)
                  \/ ResolvePublishFails(r)
                  \/ ResolveAcked(r)
                  \/ ResolveTimeout(r)

SubscriberStep(i) == SubscriberTake(i) \/ SubscriberDeliver(i) \/ SubscriberAck(i)

Next == \/ \E c \in Calls : CallStep(c)
        \/ \E r \in Resolvers, i \in Instances, c \in Calls, allowed, approve \in BOOLEAN :
              ResolveStart(r, i, c, allowed, approve)
        \/ \E r \in Resolvers : ResolveStep(r)
        \/ \E i \in Instances : SubscriberStep(i) \/ SubscriberStop(i)

\* The timer of a waiting call fires and Go schedules every goroutine; nobody
\* has to ask, to decide or to shut down.
Fairness ==
    /\ \A c \in Calls : WF_vars(\/ CallAnnounce(c) \/ CallEmitFails(c)
                                \/ CallGivesUp(c, "timer") \/ CallObeys(c) \/ CallForget(c))
    /\ \A r \in Resolvers : WF_vars(ResolveStep(r))
    /\ \A i \in Instances : WF_vars(SubscriberStep(i))

Spec == Init /\ [][Next]_vars
FairSpec == Spec /\ Fairness
-------------------------------------------------------------------------------
Requests == [pc : Steps, at : Instances, call : Calls, allowed : BOOLEAN, approve : BOOLEAN]
Verdicts == [by : Resolvers \cup {"nobody", "timer", "cancel"}, approve : BOOLEAN]

(* Every variable keeps its type.                                           *)
TypeOK ==
    /\ phase \in [Calls -> Phases]
    /\ owner \in [Calls -> Instances \cup {"none"}]
    /\ verdict \in [Calls -> Verdicts]
    /\ outcome \in [Calls -> {"waiting", "free", "run", "refused"}]
    /\ req \in [Resolvers -> {Unasked} \cup Requests]
    /\ reply \in [Resolvers -> Replies]
    /\ ack \in [Resolvers -> {"none", "ok", "already", "mismatch"}]
    /\ inbox \in [Instances -> Seq(Resolvers)]
    /\ handling \in [Instances ->
          {Idle} \cup [at : Resolvers, status : {"found", "mismatch", "ok", "already"}]]
    /\ stopped \in [Instances -> BOOLEAN]

(* A tool that needs approval runs only if a user of its session approved   *)
(* it: no race between a timeout, a cancel, a rejection and several         *)
(* resolvers on several instances lets another decision through.            *)
NoUnapprovedRun ==
    \A c \in Calls : outcome[c] = "run" =>
        \E r \in Resolvers : /\ req[r].call = c /\ req[r].pc # "new"
                             /\ req[r].allowed /\ req[r].approve
                             /\ verdict[c] = [by |-> r, approve |-> TRUE]

(* What Resolve returns is true: after nil the decision of this call is the *)
(* one its waiter keeps, and after ErrAlreadyResolved it is somebody else's,   *)
(* also when the answer came from another instance.                         *)
RepliesHonest ==
    \A r \in Resolvers :
        /\ reply[r] = "ok" => verdict[req[r].call] = [by |-> r, approve |-> req[r].approve]
        /\ reply[r] = "already" => verdict[req[r].call].by \notin {"nobody", r}
        /\ reply[r] = "mismatch" => ~req[r].allowed

(* Every call that asked for approval comes back.                           *)
CallsEnd == \A c \in Calls : phase[c] = "registered" ~> phase[c] \in {"gone", "failed"}

(* Every Resolve returns, whatever Redis does.                              *)
ResolversReturn == \A r \in Resolvers : req[r].pc # "new" ~> reply[r] # "none"

(* The gate implements the abstract decision.                               *)
Told(word) == CASE word = "none" -> "nothing"
                [] word \in {"ok", "already"} -> word
                [] OTHER -> "no"

D == INSTANCE ApprovalDecision WITH told <- [r \in Resolvers |-> Told(reply[r])]

(* Each step of waiters, resolvers and subscribers is a step of the one-shot *)
(* decision or changes nothing of it.                                       *)
Implements == D!Spec
===============================================================================
