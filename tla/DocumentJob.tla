----------------------------- MODULE DocumentJob -----------------------------
(***************************************************************************)
(* What the pipeline promises for one parse of a document.  Parsing ends   *)
(* in a plan of enrichment tasks, all of them owed at once.  Each ends     *)
(* once, in whatever order; the document is completed when none is owed.   *)
(* It may fail, but not while a task is owed that the housekeeping can     *)
(* see; and a failed one stays failed.                                     *)
(***************************************************************************)
CONSTANTS Tasks,        \* enrichment tasks there may be
          Unwatched     \* those the housekeeping does not see

VARIABLES phase,        \* parsing, enriching, completed or failed
          owed          \* tasks planned and not over

vars == <<phase, owed>>

Init == phase = "parsing" /\ owed = {}

Plan == /\ phase = "parsing" /\ phase' = "enriching"
        /\ owed = {} /\ owed' \subseteq Tasks

\* Done, failed for good, or never enqueued.
Settle == /\ \E t \in owed : owed' = owed \ {t}
          /\ UNCHANGED phase

\* Without a plan if there is nothing to enrich.
Complete == /\ phase \in {"parsing", "enriching"} /\ phase' = "completed"
            /\ owed = {} /\ UNCHANGED owed

\* Completed, too: a document without text is, and its post-processing may
\* still die.
Fail == /\ phase' = "failed"
        /\ owed \subseteq Unwatched /\ UNCHANGED owed

Next == Plan \/ Settle \/ Complete \/ Fail

Spec == Init /\ [][Next]_vars
==============================================================================
