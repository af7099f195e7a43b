------------------------ MODULE LifecycleInvariants ------------------------
(***************************************************************************)
(* What is always true of KnowledgeLifecycle beyond its promises: the      *)
(* inductive invariants the promises follow from.  Each says how the       *)
(* places where the tasks stand bound the row, the counter, the chunks and *)
(* the vectors.                                                            *)
(***************************************************************************)
EXTENDS KnowledgeLifecycle

\* Whatever the disturbances: a release has counted its shortfall with nothing
\* left to enqueue, only the summary task holds a row, and a call that was
\* never made has done nothing.
Shapes ==
    /\ \A p \in PostIds : /\ post[p].pc \notin {"enqueue", "promote"} => post[p].short = 0
                          /\ post[p].pc = "promote" => post[p].todo = {}
    /\ \A s \in SubIds : sub[s].pc \in {"loaded", "marked", "saved", "indexing"} =>
                           s.slot = SummarySlot
    /\ cancel.calls = 0 => cancel.pc = "idle"
    /\ delete.calls = 0 => delete.pc = "idle"
    /\ \A n \in ReparseIds : reparse[n].pc = "idle" => doc[n].pc = "none"

\* The stages follow one another: one post-process task, queued by a document
\* task that is through, and enrichment tasks only once it has planned them.
StagesInOrder ==
    /\ \A p \in PostIds : post[p].pc # "none" => doc[0].pc \in {"account", "done"}
    /\ \A p, q \in PostIds : post[p].pc # "none" /\ post[q].pc # "none" => p = q
    /\ \A s \in SubIds : sub[s].pc # "none" =>
         \E p \in PostIds : post[p].pc \in {"enqueue", "promote", "done"}

Stages == OneRun => StagesInOrder

\* Nothing of the document is queued or at work but wiki ops.
PipelineIdle ==
    /\ \A d \in DocIds : doc[d].pc \in Idle
    /\ \A p \in PostIds : post[p].pc \in Idle
    /\ \A s \in SubIds : s.slot # WikiSlot => sub[s].pc \in Idle

\* A queue the sweep has read stays empty: nothing is queued behind the scan.
Scanned(queue) == sweep.pc # "idle" /\ queue \notin sweep.left
ScanQuiet ==
    /\ Scanned(DefaultQueue) =>
         /\ \A d \in DocIds : doc[d].pc \in Idle
         /\ \A p \in PostIds : post[p].pc \in Idle
    /\ \A s \in SubIds : s.slot # WikiSlot /\ Scanned(s.slot) => sub[s].pc \in Idle
    /\ sweep.pc = "probe" /\ DefaultQueue \in sweep.left => QueuesScanned \subseteq sweep.left
    /\ sweep.pc = "update" => sweep.left = {}

QuietSweep == ScansRight /\ OneParse => ScanQuiet

\* What post-processing has yet to hand to a task or to release.
Owed(p) == IF post[p].pc \in {"seeded", "enqueue", "promote"}
             THEN Cardinality(post[p].todo) + post[p].short ELSE 0

Covered == \A p \in PostIds : row.count >= Cardinality(Held) + Owed(p)

\* The sweep gave the row up: wiki ops may still drain, nobody promotes.
GivenUp == PipelineIdle /\ row.status \notin {"finalizing", "completed"}

CounterOwned ==
    /\ IsFiniteSet(Held)
    /\ Covered \/ GivenUp
    /\ row.status = "completed" => Held = {} /\ \A p \in PostIds : Owed(p) = 0
    /\ \A s \in SubIds : sub[s].pc \in {"loaded", "marked"} => sub[s].snap.status # "completed"

Counter == CounterUndisturbed => CounterOwned

\* A failed row has no task left that would write another status.
FailedAtRest ==
    /\ row.status = "failed" =>
         /\ doc[0].pc \in {"none", "unindex", "dead", "account", "done"}
         /\ \A p \in PostIds : post[p].pc \in Idle
         /\ \A s \in SubIds : s.slot # WikiSlot => sub[s].pc \in Idle
    /\ \A s \in SubIds : sub[s].pc \in {"loaded", "marked"} => sub[s].snap.status # "failed"

Failing == Undisturbed => FailedAtRest

\* The text of the one run: nothing before it writes, its chunk before it
\* indexes, both once it is past that, whoever completes the row.
TextChunks == chunks \intersect TextOrigin
TextVectors == vectors \intersect TextOrigin

BeforeWrite == {"none", "queued", "loaded", "rechecked", "marked", "convert",
                "clean", "prewrite", "write"}
PastIndex == {"postindex", "save", "fanout", "account"}

TextIndexed ==
    /\ doc[0].pc \in BeforeWrite => TextChunks = {} /\ TextVectors = {}
    /\ doc[0].pc \in {"preindex", "index"} =>
         TextVectors = {} /\ TextChunks = IF doc[0].text THEN {Text(0)} ELSE {}
    /\ \/ doc[0].pc \in PastIndex
       \/ \E p \in PostIds : post[p].pc # "none"
       \/ row.status = "completed"
       => TextChunks = TextVectors
    /\ row.status = "completed" => doc[0].pc \in {"fanout", "account", "done"}

\* Nothing was dropped from outside: no delete and no reparse.
NothingDropped == NoReparse /\ delete.calls = 0

Indexing == OneRun /\ NothingDropped /\ NeedsEmbedding => TextIndexed

\* Clean before write, whatever crashes in between.
TextOnce ==
    /\ doc[0].pc \in {"prewrite", "write"} => TextChunks = {}
    /\ \A x, y \in TextChunks : x = y

Writing == ~FlakyStore /\ OneParse => TextOnce

\* After a cancel: tasks end at their load, in the dead letter, or write back
\* the failure they found.
CancelledAtRest ==
    /\ row.status \in {"cancelled", "failed", "deleting"}
    /\ \A d \in DocIds : doc[d].pc \in {"none", "queued", "done"}
    /\ \A d \in DocIds : doc[d].pc = "queued" => row.status # "failed"
    /\ \A p \in PostIds : post[p].pc \in {"none", "queued", "dead", "done"}
    /\ \A s \in SubIds : sub[s].pc \in {"loaded", "marked"} => sub[s].snap.status = "failed"

Cancelled == row.gone \/ CancelledAtRest \/ Disturbed

\* How far the row may be: no further than the parser while that is at work, in
\* finalizing from the seed on and as long as a watched task is owed, which is
\* also what a summary task has read.
JobInOrder ==
    /\ row.status \notin Aborted
    /\ doc[0].pc \notin {"fanout", "account", "done"} =>
         row.status \in {"pending", "processing", "failed"}
    /\ row.status = "finalizing" =>
         \E p \in PostIds : post[p].pc \in {"seeded", "enqueue", "promote", "done"}
    /\ \A s \in Promised : /\ row.status \notin {"pending", "processing"}
                           /\ s.slot # WikiSlot => row.status = "finalizing"
    /\ \A s \in SubIds : sub[s].pc \in {"loaded", "marked"} => sub[s].snap.status = "finalizing"

Jobs == Undisturbed => JobInOrder
-----------------------------------------------------------------------------
(* Across reparses and restarts, while users and servers are patient.       *)

Reparsing(n) == reparse[n].pc \notin {"idle", "done"}

\* A reparse, its document task, its post-process task: one after the other.
OneAtATime ==
    /\ \A n \in ReparseIds : Reparsing(n) =>
         /\ \A m \in ReparseIds : Reparsing(m) => m = n
         /\ \A d \in DocIds : doc[d].pc \in Idle
         /\ \A p \in PostIds : post[p].pc \in Idle
         /\ row.status \notin {"processing", "finalizing"}
         /\ sweep.pc = "idle"
    /\ \A d, e \in DocIds : doc[d].pc \notin Idle /\ doc[e].pc \notin Idle => d = e
    /\ \A d \in DocIds, p \in PostIds : doc[d].pc \in Idle \union {"account"} \/ post[p].pc \in Idle
    /\ \A p, q \in PostIds : post[p].pc \notin Idle /\ post[q].pc \notin Idle => p = q
    /\ ScanQuiet

\* Whoever works for an attempt works for one that was opened.
Opened(att) == att > 0 /\ att <= latest
AttemptsOpened ==
    /\ \A s \in SubIds : sub[s].pc \notin Idle => Opened(sub[s].att)
    /\ \A p \in PostIds : post[p].pc \notin Idle => Opened(post[p].att)
    /\ \A d \in DocIds : doc[d].pc \notin Idle =>
         \/ Opened(doc[d].att)
         \/ doc[d].opens /\ doc[d].pc \in {"queued", "loaded", "rechecked", "marked"}
    /\ \A n \in ReparseIds : Reparsing(n) => Opened(doc[n].att) /\ ~doc[n].opens

\* Until the new attempt plans its subtasks, those of the old one are through or
\* superseded in the queue.
NewAttempt ==
    \/ \E n \in ReparseIds : Reparsing(n)
    \/ \E d \in DocIds : doc[d].pc \notin Idle \union {"account"}
    \/ \E p \in PostIds : post[p].pc \notin Idle \union {"enqueue", "promote"}
OldOver == NewAttempt => Outstanding = {} /\ \A s \in SubIds : sub[s].pc # "promote"

\* The counter covers what is outstanding and owed, or the row was given up: its
\* subtasks may still drain, nobody promotes.
CoveredNow == \A p \in PostIds : row.count >= Cardinality(Outstanding) + Owed(p)
GivenUpNow ==
    /\ \A n \in ReparseIds : ~Reparsing(n)
    /\ \A d \in DocIds : doc[d].pc \in Idle
    /\ \A p \in PostIds : post[p].pc \in Idle
    /\ row.status \notin {"finalizing", "completed"}
    /\ \A s \in SubIds : sub[s].pc \in {"loaded", "marked"} =>
                            sub[s].snap.status \notin {"finalizing", "completed"}

CounterKept ==
    /\ IsFiniteSet(Outstanding)
    /\ CoveredNow \/ GivenUpNow
    /\ row.status = "completed" => Outstanding = {} /\ \A p \in PostIds : Owed(p) = 0
    /\ \A s \in SubIds : sub[s].pc \in {"loaded", "marked"} => sub[s].snap.status # "completed"

Across == Orderly => OneAtATime /\ AttemptsOpened /\ OldOver /\ CounterKept
=============================================================================
