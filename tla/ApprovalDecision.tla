--------------------------- MODULE ApprovalDecision ---------------------------
(***************************************************************************)
(* What the approval gate promises for dangerous tool calls: each call has  *)
(* one verdict, set once, by one resolver, by the timer or by the caller    *)
(* going away; the tool runs on an approval only; and a resolver who is     *)
(* told "ok" is the one whose verdict it is.                                *)
(***************************************************************************)
CONSTANTS Calls,        \* tool calls
          Resolvers     \* Resolve calls, each for one tool call

VARIABLES verdict,      \* per call: who decided, and what
          outcome,      \* per call: what became of the tool
          told          \* per resolver: what it was told

vars == <<verdict, outcome, told>>

Open == [by |-> "nobody", approve |-> FALSE]

Init == /\ verdict = [c \in Calls |-> Open]
        /\ outcome = [c \in Calls |-> "waiting"]
        /\ told = [r \in Resolvers |-> "nothing"]

\* A call that needs no approval.
Free(c) == /\ outcome[c] = "waiting" /\ verdict[c] = Open
           /\ outcome' = [outcome EXCEPT ![c] = "free"]
           /\ UNCHANGED <<verdict, told>>

\* A call that cannot ask, or whose asking failed: it does not run, whatever is
\* decided.
Abort(c) == /\ outcome[c] = "waiting"
            /\ outcome' = [outcome EXCEPT ![c] = "refused"]
            /\ UNCHANGED <<verdict, told>>

\* The timer or the cancelled request can only refuse.
Decide(c, v) == /\ outcome[c] \in {"waiting", "refused"} /\ verdict[c] = Open
                /\ v.by \in Resolvers \/ (v.by \in {"timer", "cancel"} /\ ~v.approve)
                /\ verdict' = [verdict EXCEPT ![c] = v]
                /\ UNCHANGED outcome

\* The tool runs on an approval only.
Run(c) == /\ outcome[c] = "waiting" /\ verdict[c].approve
          /\ outcome' = [outcome EXCEPT ![c] = "run"]
          /\ UNCHANGED <<verdict, told>>

\* "no" promises nothing: not found, not allowed, or Redis failed.
Tell(r, c, word) == /\ told[r] = "nothing"
                    /\ word = "ok" => verdict'[c].by = r
                    /\ word = "already" => verdict'[c].by \notin {"nobody", r}
                    /\ told' = [told EXCEPT ![r] = word]
                    /\ UNCHANGED outcome

\* A resolver on the instance of the call decides and is told in one step.
Next == \/ \E c \in Calls : Free(c) \/ Abort(c) \/ Run(c)
        \/ \E c \in Calls, by \in Resolvers \cup {"timer", "cancel"}, approve \in BOOLEAN :
              /\ Decide(c, [by |-> by, approve |-> approve])
              /\ UNCHANGED told \/ \E r \in Resolvers : Tell(r, c, "ok")
        \/ \E r \in Resolvers, c \in Calls, word \in {"ok", "already", "no"} :
              Tell(r, c, word) /\ UNCHANGED verdict

Spec == Init /\ [][Next]_vars
===============================================================================
