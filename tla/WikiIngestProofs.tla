--------------------------- MODULE WikiIngestProofs ---------------------------
(***************************************************************************)
(* The wiki ingest, for any number of documents, pages, workers, reparses, *)
(* deletions and faults: its types, that one batch runs at a time, that a  *)
(* queued operation is never forgotten, that a seeded slot keeps its       *)
(* operation until it is released, and that no page refers to a deleted    *)
(* document for good.                                                      *)
(***************************************************************************)
EXTENDS WikiIngest, TLAPS

Updates == [Slugs -> SUBSET Docs]

DocsTyped ==
    /\ status \in [Docs -> {"processing", "finalizing", "completed", "deleting", "deleted"}]
    /\ owed \in [Docs -> {0, 1}]
    /\ posting \in [Docs -> {"no", "insert", "trigger", "reset"}]
    /\ reparsed \subseteq Docs
DelTyped ==
    del \in [Docs -> [pc: {"no", "scrub", "list", "pages", "insert", "trigger"},
                      found: Updates, slugs: SUBSET Slugs]]
QueueTyped == rows \subseteq Row /\ nextId \in Nat /\ triggers \in Nat
PcTyped == lock \in BOOLEAN /\ pc \in [Workers -> {"idle", "begun", "work", "requeue", "release"}]
BatchTyped == batch \in [Workers -> Batch]
PagesTyped == pages \subseteq Slugs /\ refs \in Updates /\ spoilt \subseteq Slugs \X Docs
FaultsTyped == faults \subseteq Faults

TypeInv ==
    DocsTyped /\ DelTyped /\ QueueTyped /\ PcTyped /\ BatchTyped /\ PagesTyped /\ FaultsTyped

\* The parts are the types.
LEMMA TypeInvImplies == TypeInv => TypeOK
BY DEF TypeInv, TypeOK, DocsTyped, DelTyped, QueueTyped, PcTyped, BatchTyped, PagesTyped, FaultsTyped, Updates

\* What a step leaves alone keeps its type.
LEMMA FrameType ==
  ASSUME TypeInv
  PROVE  /\ UNCHANGED docVars => DocsTyped'
         /\ UNCHANGED del => DelTyped'
         /\ UNCHANGED <<queueVars, triggers>> => QueueTyped'
         /\ UNCHANGED <<lock, pc>> => PcTyped'
         /\ UNCHANGED batch => BatchTyped'
         /\ UNCHANGED wikiVars => PagesTyped'
         /\ UNCHANGED faults => FaultsTyped'
BY DEF TypeInv, DocsTyped, DelTyped, QueueTyped, PcTyped, BatchTyped, PagesTyped, FaultsTyped,
   docVars, queueVars, wikiVars

\* A fault is on record once it has happened.
LEMMA FaultType ==
  ASSUME TypeInv, NEW kind, Fault(kind)
  PROVE  FaultsTyped' /\ faults \subseteq faults' /\ kind \in faults'
BY DEF TypeInv, FaultsTyped, Fault

\* A document that is released keeps its type.
LEMMA FinalizeType ==
  ASSUME TypeInv, NEW d \in Docs, Finalize(d)
  PROVE  /\ owed' \in [Docs -> {0, 1}]
         /\ status' \in [Docs -> {"processing", "finalizing", "completed", "deleting", "deleted"}]
BY DEF TypeInv, DocsTyped, Finalize

\* So does the table after an INSERT.
LEMMA InsertType ==
  ASSUME TypeInv, NEW op \in {"ingest", "retract"}, NEW d \in Docs, NEW slugs \in SUBSET Slugs,
         Insert(op, d, slugs)
  PROVE  rows' \subseteq Row /\ nextId' \in Nat
<1>1. nextId \in Nat /\ rows \subseteq Row
  BY DEF TypeInv, QueueTyped
<1>2. [id |-> nextId, op |-> op, doc |-> d, slugs |-> slugs, fails |-> 0] \in Row
  BY <1>1 DEF Row
<1> QED
  BY <1>1, <1>2 DEF Insert

\* Nothing is held at first.
LEMMA NothingType == NoUpdates \in Updates /\ NoBatch \in Batch
<1>1. NoUpdates \in Updates
  BY DEF NoUpdates, Updates
<1> QED
  BY <1>1 DEF NoBatch, Batch, Updates

\* Additions to a set of updates are updates.
LEMMA WithType ==
  ASSUME NEW updates \in Updates, NEW slugs \in SUBSET Slugs, NEW d \in Docs
  PROVE  With(updates, slugs, d) \in Updates
BY DEF With, Updates

\* A batch without one page is a batch.
LEMMA DroppedType ==
  ASSUME NEW b \in Batch, NEW s \in Slugs
  PROVE  Dropped(b, s) \in Batch
<1>1. [b.adds EXCEPT ![s] = {}] \in Updates /\ [b.rets EXCEPT ![s] = {}] \in Updates
      /\ [b.base EXCEPT ![s] = {}] \in Updates
  BY DEF Batch, Updates
<1> DEFINE adds == [b.adds EXCEPT ![s] = {}]
           rets == [b.rets EXCEPT ![s] = {}]
           base == [b.base EXCEPT ![s] = {}]
<1>2. Dropped(b, s) =
         [ops |-> b.ops, peeked |-> b.peeked, failed |-> b.failed, done |-> b.done,
          adds |-> adds, rets |-> rets,
          read |-> b.read \ {s}, missing |-> b.missing \ {s}, base |-> base]
  <2>1. Dropped(b, s) = [b EXCEPT !.adds = adds, !.rets = rets, !.base = base,
                                  !.read = b.read \ {s}, !.missing = b.missing \ {s}]
    BY DEF Dropped, Batch
  <2> HIDE DEF adds, rets, base
  <2>2. b = [ops |-> b.ops, peeked |-> b.peeked, failed |-> b.failed, done |-> b.done,
             adds |-> b.adds, rets |-> b.rets, read |-> b.read, missing |-> b.missing,
             base |-> b.base]
    BY DEF Batch
  <2> QED
    BY <2>1, <2>2
<1>3. /\ b.ops \in SUBSET Row /\ b.peeked \in SUBSET Nat /\ b.failed \in SUBSET Row
      /\ b.done \in SUBSET Docs /\ b.read \ {s} \in SUBSET Slugs /\ b.missing \ {s} \in SUBSET Slugs
  BY DEF Batch
<1>4. adds \in Updates /\ rets \in Updates /\ base \in Updates
  BY <1>1
<1> HIDE DEF adds, rets, base
<1> QED
  BY <1>2, <1>3, <1>4 DEF Batch, Updates

\* Every initial state has its types.
LEMMA InitType == Init => TypeInv
<1> SUFFICES ASSUME Init PROVE TypeInv
  OBVIOUS
<1>1. DocsTyped
  BY DEF Init, DocsTyped
<1>2. DelTyped
  BY NothingType DEF Init, DelTyped, NotDeleting
<1>3. QueueTyped /\ PcTyped /\ FaultsTyped
  BY DEF Init, QueueTyped, PcTyped, FaultsTyped
<1>4. BatchTyped
  BY NothingType DEF Init, BatchTyped
<1>5. PagesTyped
  BY WikiAssumption DEF Init, PagesTyped, Updates
<1> QED
  BY <1>1, <1>2, <1>3, <1>4, <1>5 DEF TypeInv

\* The steps of the post-processing and of a reparse keep the types.
LEMMA DocumentType ==
  ASSUME TypeInv, NEW d \in Docs, PostStep(d) \/ Reparse(d) \/ DeleteMark(d)
  PROVE  TypeInv'
<1>0. /\ DocsTyped /\ DelTyped /\ QueueTyped /\ PcTyped /\ BatchTyped /\ PagesTyped /\ FaultsTyped
  BY DEF TypeInv
<1>1. CASE PostSeed(d)
  <2>1. DocsTyped'
    BY <1>0, <1>1 DEF PostSeed, DocsTyped
  <2> QED
    BY <1>1, <2>1, FrameType DEF TypeInv, PostSeed, runVars
<1>2. CASE PostInsert(d)
  <2>1. DocsTyped'
    BY <1>0, <1>2 DEF PostInsert, DocsTyped
  <2>2. QueueTyped' /\ FaultsTyped'
    BY <1>0, <1>2, InsertType, FaultType, FrameType DEF PostInsert, QueueTyped, queueVars
  <2> QED
    BY <1>2, <2>1, <2>2, FrameType DEF TypeInv, PostInsert, runVars
<1>3. CASE PostTrigger(d)
  <2>1. DocsTyped'
    BY <1>0, <1>3 DEF PostTrigger, DocsTyped
  <2>2. QueueTyped' /\ FaultsTyped'
    BY <1>0, <1>3, FaultType, FrameType DEF PostTrigger, QueueTyped, queueVars
  <2> QED
    BY <1>3, <2>1, <2>2, FrameType DEF TypeInv, PostTrigger, runVars
<1>4. CASE Reparse(d)
  <2>1. DocsTyped'
    BY <1>0, <1>4 DEF Reparse, DocsTyped
  <2>2. QueueTyped'
    BY <1>0, <1>4 DEF Reparse, QueueTyped, Scrub
  <2> QED
    BY <1>4, <2>1, <2>2, FrameType DEF TypeInv, Reparse, runVars
<1>6. CASE ReparseReset(d)
  <2>1. DocsTyped'
    BY <1>0, <1>6, WikiAssumption DEF ReparseReset, DocsTyped
  <2> QED
    BY <1>6, <2>1, FrameType DEF TypeInv, ReparseReset, runVars
<1>7. CASE ReparseFails(d)
  <2>1. DocsTyped' /\ FaultsTyped'
    BY <1>0, <1>7, FaultType DEF ReparseFails, DocsTyped
  <2> QED
    BY <1>7, <2>1, FrameType DEF TypeInv, ReparseFails, runVars
<1>5. CASE DeleteMark(d)
  <2>1. DocsTyped'
    BY <1>0, <1>5 DEF DeleteMark, DocsTyped
  <2>2. DelTyped'
    BY <1>0, <1>5 DEF DeleteMark, DelTyped, DeleteGoto
  <2> QED
    BY <1>5, <2>1, <2>2, FrameType DEF TypeInv, DeleteMark, runVars
<1> QED
  BY <1>1, <1>2, <1>3, <1>4, <1>5, <1>6, <1>7 DEF PostStep

\* So do the steps of a deletion.
LEMMA DeleteType ==
  ASSUME TypeInv, NEW d \in Docs, DeleteStep(d)
  PROVE  TypeInv'
<1>0. /\ DocsTyped /\ DelTyped /\ QueueTyped /\ PcTyped /\ BatchTyped /\ PagesTyped /\ FaultsTyped
  BY DEF TypeInv
<1>1. CASE DeleteScrub(d)
  <2>1. DelTyped'
    BY <1>0, <1>1 DEF DeleteScrub, DelTyped, DeleteGoto
  <2>2. QueueTyped'
    BY <1>0, <1>1 DEF DeleteScrub, QueueTyped, Scrub
  <2> QED
    BY <1>1, <2>1, <2>2, FrameType DEF TypeInv, DeleteScrub, runVars
<1>2. CASE DeleteList(d)
  <2>1. [s \in Slugs |-> IF s \in pages /\ d \in refs[s] THEN refs[s] ELSE {}] \in Updates
    BY <1>0 DEF PagesTyped, Updates
  <2>2. DelTyped'
    <3> DEFINE found == [s \in Slugs |-> IF s \in pages /\ d \in refs[s] THEN refs[s] ELSE {}]
    <3>1. \/ del' = [del EXCEPT ![d] = [pc |-> "pages", slugs |-> {}, found |-> found]]
          \/ del' = [del EXCEPT ![d].pc = "insert"]
      BY <1>2 DEF DeleteList, DeleteGoto
    <3>2. [pc |-> "pages", slugs |-> {}, found |-> found] \in
              [pc: {"no", "scrub", "list", "pages", "insert", "trigger"},
               found: Updates, slugs: SUBSET Slugs]
      BY <2>1
    <3> HIDE DEF found
    <3> QED
      BY <1>0, <3>1, <3>2 DEF DelTyped
  <2>3. FaultsTyped'
    BY <1>2, FaultType, FrameType DEF DeleteList
  <2> QED
    BY <1>2, <2>2, <2>3, FrameType DEF TypeInv, DeleteList, runVars
<1>3. ASSUME NEW s \in Slugs, DeletePage(d, s) PROVE TypeInv'
  <2>1. del[d].found \in Updates /\ del[d].found[s] \in SUBSET Docs /\ del[d].slugs \in SUBSET Slugs
    BY <1>0 DEF DelTyped, Updates
  <2>2. PagesTyped'
    BY <1>0, <1>3, <2>1 DEF DeletePage, PagesTyped, Updates
  <2>3. DelTyped'
    <3> DEFINE D == [pc: {"no", "scrub", "list", "pages", "insert", "trigger"},
                     found: Updates, slugs: SUBSET Slugs]
               slugs == IF s \in pages THEN del[d].slugs \union {s} ELSE del[d].slugs
               found == [del[d].found EXCEPT ![s] = {}]
    <3>1. found \in Updates /\ slugs \in SUBSET Slugs
      BY <2>1 DEF Updates
    <3>2. del[d] = [pc |-> del[d].pc, found |-> del[d].found, slugs |-> del[d].slugs]
          /\ del[d].pc \in {"no", "scrub", "list", "pages", "insert", "trigger"}
      BY <1>0 DEF DelTyped
    <3>3. \A x \in Docs : x # d => del'[x] = del[x]
      BY <1>0, <1>3 DEF DeletePage, DelTyped
    <3>4. del' = [x \in Docs |-> del'[x]]
      BY <1>0, <1>3 DEF DeletePage, DelTyped
    <3>5. del'[d] = [pc |-> del[d].pc, found |-> found, slugs |-> slugs]
      <4>1. del'[d] = [[del[d] EXCEPT !.found = [del[d].found EXCEPT ![s] = {}]] EXCEPT !.slugs = slugs]
        BY <1>0, <1>3 DEF DeletePage, DelTyped
      <4> QED
        BY <3>2, <4>1
    <3> HIDE DEF found, slugs
    <3>6. del'[d] \in D
      BY <3>1, <3>2, <3>5
    <3>7. \A x \in Docs : del'[x] \in D
      BY <1>0, <3>3, <3>6 DEF DelTyped
    <3> QED
      BY <3>4, <3>7 DEF DelTyped
  <2> QED
    BY <1>3, <2>2, <2>3, FrameType DEF TypeInv, DeletePage, runVars
<1>4. CASE DeleteInsert(d)
  <2>1. del[d].slugs \in SUBSET Slugs
    BY <1>0 DEF DelTyped
  <2>2. QueueTyped' /\ FaultsTyped'
    BY <1>0, <1>4, <2>1, InsertType, FaultType, FrameType DEF DeleteInsert, QueueTyped, queueVars
  <2>3. DelTyped'
    BY <1>0, <1>4, NothingType DEF DeleteInsert, DelTyped, NotDeleting
  <2> QED
    BY <1>4, <2>2, <2>3, FrameType DEF TypeInv, DeleteInsert, runVars
<1>5. CASE DeleteTrigger(d)
  <2>1. DocsTyped'
    BY <1>0, <1>5 DEF DeleteTrigger, DocsTyped
  <2>2. QueueTyped' /\ FaultsTyped'
    BY <1>0, <1>5, FaultType, FrameType DEF DeleteTrigger, QueueTyped, queueVars
  <2>3. DelTyped'
    BY <1>0, <1>5 DEF DeleteTrigger, DelTyped, DeleteGoto
  <2> QED
    BY <1>5, <2>1, <2>2, <2>3, FrameType DEF TypeInv, DeleteTrigger, runVars
<1> QED
  BY <1>1, <1>2, <1>3, <1>4, <1>5 DEF DeleteStep

\* One batch changes, and it is a batch again.
Changes(w) ==
    /\ batch' = [v \in Workers |-> batch'[v]]
    /\ batch'[w] \in Batch
    /\ \A v \in Workers : v # w => batch'[v] = batch[v]

\* The batches keep their type then.
LEMMA ChangesType ==
  ASSUME TypeInv, NEW w \in Workers, Changes(w)
  PROVE  BatchTyped'
<1>1. \A v \in Workers : batch'[v] \in Batch
  BY DEF Changes, TypeInv, BatchTyped
<1> QED
  BY <1>1 DEF Changes, BatchTyped

\* What a batch holds.
LEMMA BatchFields ==
  ASSUME TypeInv, NEW w \in Workers
  PROVE  /\ batch[w].ops \in SUBSET Row /\ batch[w].peeked \in SUBSET Nat
         /\ batch[w].failed \in SUBSET Row /\ batch[w].done \in SUBSET Docs
         /\ batch[w].adds \in Updates /\ batch[w].rets \in Updates
         /\ batch[w].read \in SUBSET Slugs /\ batch[w].missing \in SUBSET Slugs
         /\ batch[w].base \in Updates
         /\ batch[w] = [ops |-> batch[w].ops, peeked |-> batch[w].peeked,
                        failed |-> batch[w].failed, done |-> batch[w].done,
                        adds |-> batch[w].adds, rets |-> batch[w].rets,
                        read |-> batch[w].read, missing |-> batch[w].missing,
                        base |-> batch[w].base]
<1>1. batch[w] \in Batch
  BY DEF TypeInv, BatchTyped
<1> QED
  BY <1>1 DEF Batch, Updates

\* A batch that peeks holds rows of the table.
LEMMA PeekChanges ==
  ASSUME TypeInv, NEW w \in Workers, Peek(w), rows # {}
  PROVE  /\ Changes(w)
         /\ batch'[w].ops = LastPerDoc(Oldest) /\ batch'[w].peeked = {r.id : r \in Oldest}
         /\ batch'[w].failed = batch[w].failed /\ batch'[w].done = batch[w].done
         /\ batch'[w].adds = batch[w].adds /\ batch'[w].rets = batch[w].rets
         /\ batch'[w].missing = batch[w].missing /\ batch'[w].base = batch[w].base
<1> DEFINE ops == LastPerDoc(Oldest)
           peeked == {r.id : r \in Oldest}
<1>0. batch \in [Workers -> Batch]
  BY DEF TypeInv, BatchTyped
<1>1. ops \in SUBSET Row /\ peeked \in SUBSET Nat
  BY DEF TypeInv, QueueTyped, LastPerDoc, Oldest, Row
<1>2. batch' = [batch EXCEPT ![w].ops = ops, ![w].peeked = peeked]
  BY DEF Peek
<1> HIDE DEF ops, peeked
<1>3. batch'[w] = [batch[w] EXCEPT !.ops = ops, !.peeked = peeked]
  BY <1>0, <1>2
<1>4. batch'[w] = [ops |-> ops, peeked |-> peeked, failed |-> batch[w].failed,
                   done |-> batch[w].done, adds |-> batch[w].adds, rets |-> batch[w].rets,
                   read |-> batch[w].read, missing |-> batch[w].missing,
                   base |-> batch[w].base]
  BY <1>3, BatchFields
<1>5. batch'[w] \in Batch
  BY <1>4, <1>0, <1>1, BatchFields DEF Batch, Updates
<1>6. \A v \in Workers : v # w => batch'[v] = batch[v]
  BY <1>0, <1>2
<1>7. batch' = [v \in Workers |-> batch'[v]] /\ batch'[w] \in Batch
  BY <1>0, <1>2, <1>5
<1>9. /\ batch'[w].ops = ops /\ batch'[w].peeked = peeked
      /\ batch'[w].failed = batch[w].failed /\ batch'[w].done = batch[w].done
      /\ batch'[w].adds = batch[w].adds /\ batch'[w].rets = batch[w].rets
      /\ batch'[w].missing = batch[w].missing /\ batch'[w].base = batch[w].base
  BY <1>4
<1> QED
  BY <1>6, <1>7, <1>9 DEF Changes, ops, peeked

\* A batch that maps an operation takes it off its list: a retract,
LEMMA MapRetractChanges ==
  ASSUME TypeInv, NEW w \in Workers, NEW r \in batch[w].ops, MapRetract(w, r)
  PROVE  /\ Changes(w)
         /\ batch'[w].ops = batch[w].ops \ {r} /\ batch'[w].peeked = batch[w].peeked
         /\ batch'[w].failed = batch[w].failed /\ batch'[w].done = batch[w].done
         /\ batch'[w].adds = batch[w].adds
         /\ batch'[w].missing = batch[w].missing /\ batch'[w].base = batch[w].base
         /\ \E live \in {PagesOf(r.doc), {}} :
                /\ live = PagesOf(r.doc) \/ Fault("database")
                /\ batch'[w].rets = With(batch[w].rets, r.slugs \union live, r.doc)
<1> DEFINE ops == batch[w].ops \ {r}
<1>0. /\ r \in Row /\ r.doc \in Docs /\ r.slugs \in SUBSET Slugs /\ ops \in SUBSET Row
      /\ batch \in [Workers -> Batch] /\ PagesOf(r.doc) \in SUBSET Slugs
  BY BatchFields DEF Row, TypeInv, BatchTyped, PagesTyped, PagesOf
<1>1. PICK live \in {PagesOf(r.doc), {}} :
          /\ live = PagesOf(r.doc) \/ Fault("database")
          /\ batch' = [batch EXCEPT ![w].ops = @ \ {r},
                                    ![w].rets = With(@, r.slugs \union live, r.doc)]
  BY DEF MapRetract
<1> DEFINE rets == With(batch[w].rets, r.slugs \union live, r.doc)
<1>10. rets \in Updates
  <2>1. r.slugs \union live \in SUBSET Slugs
    BY <1>0, <1>1
  <2> QED
    BY <1>0, <2>1, BatchFields, WithType
<1>2. batch' = [batch EXCEPT ![w].ops = ops, ![w].rets = rets]
  BY <1>1
<1> HIDE DEF ops, rets
<1>3. batch'[w] = [batch[w] EXCEPT !.ops = ops, !.rets = rets]
  BY <1>0, <1>2
<1>4. batch'[w] = [ops |-> ops, peeked |-> batch[w].peeked, failed |-> batch[w].failed,
                   done |-> batch[w].done, adds |-> batch[w].adds, rets |-> rets,
                   read |-> batch[w].read, missing |-> batch[w].missing,
                   base |-> batch[w].base]
  BY <1>3, BatchFields
<1>5. batch'[w] \in Batch
  BY <1>4, <1>0, <1>10, BatchFields DEF Batch, Updates
<1>6. \A v \in Workers : v # w => batch'[v] = batch[v]
  BY <1>0, <1>2
<1>7. batch' = [v \in Workers |-> batch'[v]] /\ batch'[w] \in Batch
  BY <1>0, <1>2, <1>5
<1>9. /\ batch'[w].ops = ops /\ batch'[w].peeked = batch[w].peeked
      /\ batch'[w].failed = batch[w].failed /\ batch'[w].done = batch[w].done
      /\ batch'[w].adds = batch[w].adds /\ batch'[w].rets = rets
      /\ batch'[w].missing = batch[w].missing /\ batch'[w].base = batch[w].base
  BY <1>4
<1> QED
  BY <1>1, <1>6, <1>7, <1>9 DEF Changes, ops, rets

\* a document without text,
LEMMA MapSkipChanges ==
  ASSUME TypeInv, NEW w \in Workers, NEW r \in batch[w].ops, MapSkip(w, r)
  PROVE  /\ Changes(w)
         /\ batch'[w].ops = batch[w].ops \ {r} /\ batch'[w].peeked = batch[w].peeked
         /\ batch'[w].failed = batch[w].failed /\ batch'[w].done = batch[w].done
         /\ batch'[w].adds = batch[w].adds /\ batch'[w].rets = batch[w].rets
         /\ batch'[w].missing = batch[w].missing /\ batch'[w].base = batch[w].base
<1> DEFINE ops == batch[w].ops \ {r}
<1>0. /\ r \in Row /\ r.doc \in Docs /\ r.slugs \in SUBSET Slugs /\ ops \in SUBSET Row
      /\ batch \in [Workers -> Batch] /\ PagesOf(r.doc) \in SUBSET Slugs
  BY BatchFields DEF Row, TypeInv, BatchTyped, PagesTyped, PagesOf
<1>2. batch' = [batch EXCEPT ![w].ops = ops]
  BY DEF MapSkip
<1> HIDE DEF ops
<1>3. batch'[w] = [batch[w] EXCEPT !.ops = ops]
  BY <1>0, <1>2
<1>4. batch'[w] = [ops |-> ops, peeked |-> batch[w].peeked, failed |-> batch[w].failed,
                   done |-> batch[w].done, adds |-> batch[w].adds, rets |-> batch[w].rets,
                   read |-> batch[w].read, missing |-> batch[w].missing,
                   base |-> batch[w].base]
  BY <1>3, BatchFields
<1>5. batch'[w] \in Batch
  BY <1>4, <1>0, BatchFields DEF Batch, Updates
<1>6. \A v \in Workers : v # w => batch'[v] = batch[v]
  BY <1>0, <1>2
<1>7. batch' = [v \in Workers |-> batch'[v]] /\ batch'[w] \in Batch
  BY <1>0, <1>2, <1>5
<1>9. /\ batch'[w].ops = ops /\ batch'[w].peeked = batch[w].peeked
      /\ batch'[w].failed = batch[w].failed /\ batch'[w].done = batch[w].done
      /\ batch'[w].adds = batch[w].adds /\ batch'[w].rets = batch[w].rets
      /\ batch'[w].missing = batch[w].missing /\ batch'[w].base = batch[w].base
  BY <1>4
<1> QED
  BY <1>6, <1>7, <1>9 DEF Changes, ops

\* a failure, which it keeps,
LEMMA MapFailsChanges ==
  ASSUME TypeInv, NEW w \in Workers, NEW r \in batch[w].ops, MapFails(w, r)
  PROVE  /\ Changes(w)
         /\ batch'[w].ops = batch[w].ops \ {r} /\ batch'[w].peeked = batch[w].peeked
         /\ batch'[w].failed = batch[w].failed \union {r} /\ batch'[w].done = batch[w].done
         /\ batch'[w].adds = batch[w].adds /\ batch'[w].rets = batch[w].rets
         /\ batch'[w].missing = batch[w].missing /\ batch'[w].base = batch[w].base
<1> DEFINE ops == batch[w].ops \ {r}
           failed == batch[w].failed \union {r}
<1>0. /\ r \in Row /\ r.doc \in Docs /\ r.slugs \in SUBSET Slugs /\ ops \in SUBSET Row
      /\ batch \in [Workers -> Batch] /\ PagesOf(r.doc) \in SUBSET Slugs
  BY BatchFields DEF Row, TypeInv, BatchTyped, PagesTyped, PagesOf
<1>1. failed \in SUBSET Row
  BY <1>0, BatchFields
<1>2. batch' = [batch EXCEPT ![w].ops = ops, ![w].failed = failed]
  BY DEF MapFails
<1> HIDE DEF ops, failed
<1>3. batch'[w] = [batch[w] EXCEPT !.ops = ops, !.failed = failed]
  BY <1>0, <1>2
<1>4. batch'[w] = [ops |-> ops, peeked |-> batch[w].peeked, failed |-> failed,
                   done |-> batch[w].done, adds |-> batch[w].adds, rets |-> batch[w].rets,
                   read |-> batch[w].read, missing |-> batch[w].missing,
                   base |-> batch[w].base]
  BY <1>3, BatchFields
<1>5. batch'[w] \in Batch
  BY <1>4, <1>0, <1>1, BatchFields DEF Batch, Updates
<1>6. \A v \in Workers : v # w => batch'[v] = batch[v]
  BY <1>0, <1>2
<1>7. batch' = [v \in Workers |-> batch'[v]] /\ batch'[w] \in Batch
  BY <1>0, <1>2, <1>5
<1>9. /\ batch'[w].ops = ops /\ batch'[w].peeked = batch[w].peeked
      /\ batch'[w].failed = failed /\ batch'[w].done = batch[w].done
      /\ batch'[w].adds = batch[w].adds /\ batch'[w].rets = batch[w].rets
      /\ batch'[w].missing = batch[w].missing /\ batch'[w].base = batch[w].base
  BY <1>4
<1> QED
  BY <1>6, <1>7, <1>9 DEF Changes, ops, failed

\* or a document with its pages.
LEMMA MapDocChanges ==
  ASSUME TypeInv, NEW w \in Workers, NEW r \in batch[w].ops, NEW slugs \in SUBSET Slugs,
         MapDoc(w, r, slugs)
  PROVE  /\ Changes(w)
         /\ batch'[w].ops = batch[w].ops \ {r} /\ batch'[w].peeked = batch[w].peeked
         /\ batch'[w].failed = batch[w].failed /\ batch'[w].done = batch[w].done \union {r.doc}
         /\ batch'[w].adds = With(batch[w].adds, slugs, r.doc)
         /\ batch'[w].rets = With(batch[w].rets, PagesOf(r.doc), r.doc)
         /\ batch'[w].missing = batch[w].missing /\ batch'[w].base = batch[w].base
<1> DEFINE ops == batch[w].ops \ {r}
           done == batch[w].done \union {r.doc}
           adds == With(batch[w].adds, slugs, r.doc)
           rets == With(batch[w].rets, PagesOf(r.doc), r.doc)
<1>0. /\ r \in Row /\ r.doc \in Docs /\ r.slugs \in SUBSET Slugs /\ ops \in SUBSET Row
      /\ batch \in [Workers -> Batch] /\ PagesOf(r.doc) \in SUBSET Slugs
  BY BatchFields DEF Row, TypeInv, BatchTyped, PagesTyped, PagesOf
<1>1. done \in SUBSET Docs /\ adds \in Updates /\ rets \in Updates
  BY <1>0, BatchFields, WithType
<1>2. batch' = [batch EXCEPT ![w].ops = ops, ![w].done = done, ![w].adds = adds, ![w].rets = rets]
  BY DEF MapDoc
<1> HIDE DEF ops, done, adds, rets
<1>3. batch'[w] = [batch[w] EXCEPT !.ops = ops, !.done = done, !.adds = adds, !.rets = rets]
  BY <1>0, <1>2
<1>4. batch'[w] = [ops |-> ops, peeked |-> batch[w].peeked, failed |-> batch[w].failed,
                   done |-> done, adds |-> adds, rets |-> rets, read |-> batch[w].read,
                   missing |-> batch[w].missing, base |-> batch[w].base]
  BY <1>3, BatchFields
<1>5. batch'[w] \in Batch
  BY <1>4, <1>0, <1>1, BatchFields DEF Batch, Updates
<1>6. \A v \in Workers : v # w => batch'[v] = batch[v]
  BY <1>0, <1>2
<1>7. batch' = [v \in Workers |-> batch'[v]] /\ batch'[w] \in Batch
  BY <1>0, <1>2, <1>5
<1>9. /\ batch'[w].ops = ops /\ batch'[w].peeked = batch[w].peeked
      /\ batch'[w].failed = batch[w].failed /\ batch'[w].done = done
      /\ batch'[w].adds = adds /\ batch'[w].rets = rets
      /\ batch'[w].missing = batch[w].missing /\ batch'[w].base = batch[w].base
  BY <1>4
<1> QED
  BY <1>6, <1>7, <1>9 DEF Changes, ops, done, adds, rets

\* A batch that finalises a document drops it.
LEMMA FinalizeChanges ==
  ASSUME TypeInv, NEW w \in Workers, NEW d, FinalizeDone(w, d)
  PROVE  /\ Changes(w)
         /\ batch'[w].ops = batch[w].ops /\ batch'[w].peeked = batch[w].peeked
         /\ batch'[w].failed = batch[w].failed /\ batch'[w].done = batch[w].done \ {d}
         /\ batch'[w].adds = batch[w].adds /\ batch'[w].rets = batch[w].rets
         /\ batch'[w].missing = batch[w].missing /\ batch'[w].base = batch[w].base
<1> DEFINE done == batch[w].done \ {d}
<1>0. batch \in [Workers -> Batch]
  BY DEF TypeInv, BatchTyped
<1>1. done \in SUBSET Docs
  BY BatchFields
<1>2. batch' = [batch EXCEPT ![w].done = done]
  BY DEF FinalizeDone
<1> HIDE DEF done
<1>3. batch'[w] = [batch[w] EXCEPT !.done = done]
  BY <1>0, <1>2
<1>4. batch'[w] = [ops |-> batch[w].ops, peeked |-> batch[w].peeked,
                   failed |-> batch[w].failed, done |-> done, adds |-> batch[w].adds,
                   rets |-> batch[w].rets, read |-> batch[w].read,
                   missing |-> batch[w].missing, base |-> batch[w].base]
  BY <1>3, BatchFields
<1>5. batch'[w] \in Batch
  BY <1>4, <1>0, <1>1, BatchFields DEF Batch, Updates
<1>6. \A v \in Workers : v # w => batch'[v] = batch[v]
  BY <1>0, <1>2
<1>7. batch' = [v \in Workers |-> batch'[v]] /\ batch'[w] \in Batch
  BY <1>0, <1>2, <1>5
<1>9. /\ batch'[w].ops = batch[w].ops /\ batch'[w].peeked = batch[w].peeked
      /\ batch'[w].failed = batch[w].failed /\ batch'[w].done = done
      /\ batch'[w].adds = batch[w].adds /\ batch'[w].rets = batch[w].rets
      /\ batch'[w].missing = batch[w].missing /\ batch'[w].base = batch[w].base
  BY <1>4
<1> QED
  BY <1>6, <1>7, <1>9 DEF Changes, done

\* A batch that requeues a failure drops it.
LEMMA RequeueChanges ==
  ASSUME TypeInv, NEW w \in Workers, NEW f, Requeue(w, f)
  PROVE  /\ Changes(w)
         /\ batch'[w].ops = batch[w].ops /\ batch'[w].peeked = batch[w].peeked
         /\ batch'[w].failed = batch[w].failed \ {f} /\ batch'[w].done = batch[w].done
         /\ batch'[w].adds = batch[w].adds /\ batch'[w].rets = batch[w].rets
         /\ batch'[w].missing = batch[w].missing /\ batch'[w].base = batch[w].base
<1> DEFINE failed == batch[w].failed \ {f}
<1>0. batch \in [Workers -> Batch]
  BY DEF TypeInv, BatchTyped
<1>1. failed \in SUBSET Row
  BY BatchFields
<1>2. batch' = [batch EXCEPT ![w].failed = failed]
  BY DEF Requeue
<1> HIDE DEF failed
<1>3. batch'[w] = [batch[w] EXCEPT !.failed = failed]
  BY <1>0, <1>2
<1>4. batch'[w] = [ops |-> batch[w].ops, peeked |-> batch[w].peeked, failed |-> failed,
                   done |-> batch[w].done, adds |-> batch[w].adds, rets |-> batch[w].rets,
                   read |-> batch[w].read, missing |-> batch[w].missing,
                   base |-> batch[w].base]
  BY <1>3, BatchFields
<1>5. batch'[w] \in Batch
  BY <1>4, <1>0, <1>1, BatchFields DEF Batch, Updates
<1>6. \A v \in Workers : v # w => batch'[v] = batch[v]
  BY <1>0, <1>2
<1>7. batch' = [v \in Workers |-> batch'[v]] /\ batch'[w] \in Batch
  BY <1>0, <1>2, <1>5
<1>9. /\ batch'[w].ops = batch[w].ops /\ batch'[w].peeked = batch[w].peeked
      /\ batch'[w].failed = failed /\ batch'[w].done = batch[w].done
      /\ batch'[w].adds = batch[w].adds /\ batch'[w].rets = batch[w].rets
      /\ batch'[w].missing = batch[w].missing /\ batch'[w].base = batch[w].base
  BY <1>4
<1> QED
  BY <1>6, <1>7, <1>9 DEF Changes, failed

\* A batch that gives up on a failure has it in hand.
LEMMA GiveUpChanges ==
  ASSUME TypeInv, NEW w \in Workers, NEW f \in batch[w].failed, GiveUp(w, f)
  PROVE  /\ Changes(w)
         /\ batch'[w].ops = {f} /\ batch'[w].peeked = batch[w].peeked
         /\ batch'[w].failed = batch[w].failed /\ batch'[w].done = batch[w].done
         /\ batch'[w].adds = batch[w].adds /\ batch'[w].rets = batch[w].rets
         /\ batch'[w].missing = batch[w].missing /\ batch'[w].base = batch[w].base
<1> DEFINE ops == {f}
<1>0. batch \in [Workers -> Batch]
  BY DEF TypeInv, BatchTyped
<1>1. ops \in SUBSET Row
  BY BatchFields
<1>2. batch' = [batch EXCEPT ![w].ops = ops]
  BY DEF GiveUp
<1> HIDE DEF ops
<1>3. batch'[w] = [batch[w] EXCEPT !.ops = ops]
  BY <1>0, <1>2
<1>4. batch'[w] = [ops |-> ops, peeked |-> batch[w].peeked, failed |-> batch[w].failed,
                   done |-> batch[w].done, adds |-> batch[w].adds, rets |-> batch[w].rets,
                   read |-> batch[w].read, missing |-> batch[w].missing,
                   base |-> batch[w].base]
  BY <1>3, BatchFields
<1>5. batch'[w] \in Batch
  BY <1>4, <1>0, <1>1, BatchFields DEF Batch, Updates
<1>6. \A v \in Workers : v # w => batch'[v] = batch[v]
  BY <1>0, <1>2
<1>7. batch' = [v \in Workers |-> batch'[v]] /\ batch'[w] \in Batch
  BY <1>0, <1>2, <1>5
<1>9. /\ batch'[w].ops = ops /\ batch'[w].peeked = batch[w].peeked
      /\ batch'[w].failed = batch[w].failed /\ batch'[w].done = batch[w].done
      /\ batch'[w].adds = batch[w].adds /\ batch'[w].rets = batch[w].rets
      /\ batch'[w].missing = batch[w].missing /\ batch'[w].base = batch[w].base
  BY <1>4
<1> QED
  BY <1>6, <1>7, <1>9 DEF Changes, ops

\* A batch that has dropped the row of a failure is done with it.
LEMMA DropChanges ==
  ASSUME TypeInv, NEW w \in Workers, NEW f, Drop(w, f)
  PROVE  /\ Changes(w)
         /\ batch'[w].ops = {} /\ batch'[w].peeked = batch[w].peeked
         /\ batch'[w].failed = batch[w].failed \ {f} /\ batch'[w].done = batch[w].done
         /\ batch'[w].adds = batch[w].adds /\ batch'[w].rets = batch[w].rets
         /\ batch'[w].missing = batch[w].missing /\ batch'[w].base = batch[w].base
<1> DEFINE failed == batch[w].failed \ {f}
<1>0. batch \in [Workers -> Batch]
  BY DEF TypeInv, BatchTyped
<1>1. failed \in SUBSET Row
  BY BatchFields
<1>2. batch' = [batch EXCEPT ![w].ops = {}, ![w].failed = failed]
  BY DEF Drop
<1> HIDE DEF failed
<1>3. batch'[w] = [batch[w] EXCEPT !.ops = {}, !.failed = failed]
  BY <1>0, <1>2
<1>4. batch'[w] = [ops |-> {}, peeked |-> batch[w].peeked, failed |-> failed,
                   done |-> batch[w].done, adds |-> batch[w].adds, rets |-> batch[w].rets,
                   read |-> batch[w].read, missing |-> batch[w].missing,
                   base |-> batch[w].base]
  BY <1>3, BatchFields
<1>5. batch'[w] \in Batch
  BY <1>4, <1>0, <1>1, BatchFields DEF Batch, Updates
<1>6. \A v \in Workers : v # w => batch'[v] = batch[v]
  BY <1>0, <1>2
<1>7. batch' = [v \in Workers |-> batch'[v]] /\ batch'[w] \in Batch
  BY <1>0, <1>2, <1>5
<1>9. /\ batch'[w].ops = {} /\ batch'[w].peeked = batch[w].peeked
      /\ batch'[w].failed = failed /\ batch'[w].done = batch[w].done
      /\ batch'[w].adds = batch[w].adds /\ batch'[w].rets = batch[w].rets
      /\ batch'[w].missing = batch[w].missing /\ batch'[w].base = batch[w].base
  BY <1>4
<1> QED
  BY <1>6, <1>7, <1>9 DEF Changes, failed

\* A batch at work on a page keeps its operations.
LEMMA ReduceChanges ==
  ASSUME TypeInv, NEW w \in Workers, NEW s \in Slugs,
         ReduceRead(w, s) \/ ReduceWrite(w, s) \/ ReduceFails(w, s)
  PROVE  /\ Changes(w)
         /\ batch'[w].ops = batch[w].ops /\ batch'[w].peeked = batch[w].peeked
         /\ batch'[w].failed = batch[w].failed /\ batch'[w].done = batch[w].done
<1>0. batch \in [Workers -> Batch] /\ batch[w] \in Batch
  BY DEF TypeInv, BatchTyped
<1>1. ASSUME NEW b \in Batch, batch' = [batch EXCEPT ![w] = b],
             b.ops = batch[w].ops, b.peeked = batch[w].peeked,
             b.failed = batch[w].failed, b.done = batch[w].done
      PROVE  /\ Changes(w)
             /\ batch'[w].ops = batch[w].ops /\ batch'[w].peeked = batch[w].peeked
             /\ batch'[w].failed = batch[w].failed /\ batch'[w].done = batch[w].done
  BY <1>0, <1>1 DEF Changes
<1>2. /\ Dropped(batch[w], s) \in Batch
      /\ Dropped(batch[w], s).ops = batch[w].ops /\ Dropped(batch[w], s).peeked = batch[w].peeked
      /\ Dropped(batch[w], s).failed = batch[w].failed /\ Dropped(batch[w], s).done = batch[w].done
  <2>1. Dropped(batch[w], s) \in Batch
    BY <1>0, DroppedType
  <2> QED
    BY <1>0, <2>1 DEF Dropped, Batch
<1>3. CASE ReduceWrite(w, s) \/ ReduceFails(w, s)
  <2>1. batch' = [batch EXCEPT ![w] = Dropped(batch[w], s)]
    BY <1>3 DEF ReduceWrite, ReduceFails
  <2> QED
    BY <1>1, <1>2, <2>1
<1>4. CASE ReduceRead(w, s)
  <2> DEFINE live == {d \in batch[w].adds[s] : ~Gone(d)}
             idle == live = {} /\ (s \notin pages \/ batch[w].rets[s] = {})
             adds == [batch[w].adds EXCEPT ![s] = live]
             read == batch[w].read \union {s}
             missing == IF s \in pages THEN batch[w].missing ELSE batch[w].missing \union {s}
             base == [batch[w].base EXCEPT ![s] = IF s \in pages THEN refs[s] ELSE {}]
             b == [ops |-> batch[w].ops, peeked |-> batch[w].peeked, failed |-> batch[w].failed,
                   done |-> batch[w].done, adds |-> adds, rets |-> batch[w].rets,
                   read |-> read, missing |-> missing, base |-> base]
  <2> DEFINE edited == Opened(batch[w], s, live)
             dropped == Dropped(batch[w], s)
  <2>0. batch' = [batch EXCEPT ![w] = IF idle THEN dropped ELSE edited]
    BY <1>4 DEF ReduceRead
  <2>1. CASE idle
    <3> HIDE DEF idle, edited
    <3>1. batch' = [batch EXCEPT ![w] = dropped]
      BY <2>0, <2>1
    <3> QED
      BY <1>1, <1>2, <3>1
  <2>2. CASE ~idle
    <3>1. batch' = [batch EXCEPT ![w] = edited]
      <4> HIDE DEF idle, edited, dropped
      <4> QED
        BY <2>0, <2>2
    <3>2. adds \in Updates /\ read \in SUBSET Slugs /\ missing \in SUBSET Slugs /\ base \in Updates
      <4>1. batch[w].adds \in Updates /\ batch[w].base \in Updates /\ refs \in Updates
        BY BatchFields DEF TypeInv, PagesTyped
      <4>2. adds \in Updates
        BY <4>1 DEF Updates
      <4>3. base \in Updates
        BY <4>1 DEF Updates
      <4>4. read \in SUBSET Slugs /\ missing \in SUBSET Slugs
        BY BatchFields
      <4> QED
        BY <4>2, <4>3, <4>4
    <3>3. edited = b
      <4>1. edited = [batch[w] EXCEPT !.adds = adds, !.read = read, !.missing = missing, !.base = base]
        <5>1. CASE s \in pages
          BY <1>0, <5>1 DEF Batch, Opened
        <5>2. CASE s \notin pages
          BY <1>0, <5>2 DEF Batch, Opened
        <5> HIDE DEF edited, adds, read, missing, base
        <5> QED
          BY <5>1, <5>2
      <4>2. batch[w] = [ops |-> batch[w].ops, peeked |-> batch[w].peeked,
                        failed |-> batch[w].failed, done |-> batch[w].done,
                        adds |-> batch[w].adds, rets |-> batch[w].rets,
                        read |-> batch[w].read, missing |-> batch[w].missing,
                        base |-> batch[w].base]
        BY BatchFields
      <4> HIDE DEF live, idle, dropped, adds, read, missing, base, edited
      <4> QED
        BY <4>1, <4>2
    <3> HIDE DEF adds, read, missing, base
    <3>4. b \in Batch
      BY <3>2, BatchFields DEF Batch, Updates
    <3>5. batch' = [batch EXCEPT ![w] = b]
      <4> HIDE DEF edited, b
      <4> QED
        BY <3>1, <3>3
    <3> QED
      BY <1>1, <3>4, <3>5
  <2> QED
    BY <2>1, <2>2
<1> QED
  BY <1>3, <1>4

\* A batch that is given up holds nothing any more.
LEMMA LeaveChanges ==
  ASSUME TypeInv, NEW w \in Workers, batch' = [batch EXCEPT ![w] = NoBatch]
  PROVE  Changes(w)
BY NothingType DEF Changes, TypeInv, BatchTyped

\* The steps of a batch keep the types.
LEMMA BatchType ==
  ASSUME TypeInv, NEW w \in Workers, BatchStep(w)
  PROVE  TypeInv'
<1>0. /\ DocsTyped /\ DelTyped /\ QueueTyped /\ PcTyped /\ BatchTyped /\ PagesTyped /\ FaultsTyped
  BY DEF TypeInv
<1>1. CASE Peek(w)
  <2>1. PcTyped'
    BY <1>0, <1>1 DEF Peek, PcTyped
  <2>2. BatchTyped'
    BY <1>1, PeekChanges, ChangesType, FrameType DEF Peek
  <2> QED
    BY <1>1, <2>1, <2>2, FrameType DEF TypeInv, Peek
<1>2. ASSUME NEW r \in batch[w].ops, MapRetract(w, r) PROVE TypeInv'
  <2>1. BatchTyped'
    BY <1>2, MapRetractChanges, ChangesType
  <2>2. FaultsTyped'
    BY <1>2, FaultType, FrameType DEF MapRetract
  <2> QED
    BY <1>2, <2>1, <2>2, FrameType DEF TypeInv, MapRetract
<1>3. ASSUME NEW r \in batch[w].ops, MapSkip(w, r) PROVE TypeInv'
  <2>0. r.doc \in Docs
    BY BatchFields DEF Row
  <2>1. BatchTyped'
    BY <1>3, MapSkipChanges, ChangesType
  <2>2. DocsTyped'
    BY <1>0, <1>3, <2>0, FinalizeType DEF MapSkip, DocsTyped
  <2> QED
    BY <1>3, <2>1, <2>2, FrameType DEF TypeInv, MapSkip
<1>4. ASSUME NEW r \in batch[w].ops, MapFails(w, r) PROVE TypeInv'
  <2>1. BatchTyped'
    BY <1>4, MapFailsChanges, ChangesType
  <2> QED
    BY <1>4, <2>1, FrameType DEF TypeInv, MapFails
<1>5. ASSUME NEW r \in batch[w].ops, NEW slugs \in SUBSET Slugs, MapDoc(w, r, slugs) PROVE TypeInv'
  <2>1. BatchTyped'
    BY <1>5, MapDocChanges, ChangesType
  <2> QED
    BY <1>5, <2>1, FrameType DEF TypeInv, MapDoc
<1>6. ASSUME NEW s \in Slugs, ReduceRead(w, s) PROVE TypeInv'
  <2>1. BatchTyped'
    BY <1>6, ReduceChanges, ChangesType
  <2> QED
    BY <1>6, <2>1, FrameType DEF TypeInv, ReduceRead
<1>7. ASSUME NEW s \in Slugs, ReduceWrite(w, s) PROVE TypeInv'
  <2>1. BatchTyped'
    BY <1>7, ReduceChanges, ChangesType
  <2>2. PagesTyped'
    <3>1. (batch[w].base[s] \ batch[w].rets[s]) \union batch[w].adds[s] \in SUBSET Docs
      BY BatchFields DEF Updates
    <3> QED
      BY <1>0, <1>7, <3>1 DEF ReduceWrite, PagesTyped, Updates
  <2> QED
    BY <1>7, <2>1, <2>2, FrameType DEF TypeInv, ReduceWrite
<1>8. ASSUME NEW d \in batch[w].done, FinalizeDone(w, d) PROVE TypeInv'
  <2>0. d \in Docs
    BY BatchFields
  <2>1. BatchTyped'
    BY <1>8, FinalizeChanges, ChangesType
  <2>2. DocsTyped'
    BY <1>0, <1>8, <2>0, FinalizeType DEF FinalizeDone, DocsTyped
  <2> QED
    BY <1>8, <2>1, <2>2, FrameType DEF TypeInv, FinalizeDone
<1>9. CASE Trim(w)
  <2>1. PcTyped'
    BY <1>0, <1>9 DEF Trim, PcTyped
  <2>2. QueueTyped'
    BY <1>0, <1>9 DEF Trim, QueueTyped
  <2>3. FaultsTyped'
    BY <1>9, FaultType, FrameType DEF Trim
  <2> QED
    BY <1>9, <2>1, <2>2, <2>3, FrameType DEF TypeInv, Trim
<1>10. ASSUME NEW f \in batch[w].failed, RequeueStep(w, f) PROVE TypeInv'
  <2>0. f.doc \in Docs
    BY BatchFields DEF Row
  <2>1. BatchTyped'
    BY <1>10, RequeueChanges, GiveUpChanges, DropChanges, ChangesType DEF RequeueStep
  <2>2. DocsTyped'
    <3>1. CASE GiveUp(w, f)
      BY <1>0, <3>1, <2>0, FinalizeType DEF GiveUp, DocsTyped
    <3> QED
      BY <1>0, <1>10, <3>1, FrameType DEF RequeueStep, Requeue, Drop
  <2>3. QueueTyped'
    <3>1. \A r \in rows : [r EXCEPT !.fails = @ + 1] \in Row
      BY <1>0 DEF QueueTyped, Row
    <3>2. rows' \subseteq Row
      BY <1>0, <1>10, <3>1 DEF RequeueStep, Requeue, GiveUp, Drop, Count, QueueTyped
    <3> QED
      BY <1>0, <1>10, <3>2 DEF RequeueStep, Requeue, GiveUp, Drop, QueueTyped
  <2>4. FaultsTyped'
    BY <1>10, FaultType, FrameType DEF RequeueStep, Requeue, GiveUp, Drop
  <2> QED
    BY <1>10, <2>1, <2>2, <2>3, <2>4, FrameType DEF TypeInv, RequeueStep, Requeue, GiveUp, Drop
<1>11. CASE FollowUp(w)
  <2>1. PcTyped'
    BY <1>0, <1>11 DEF FollowUp, PcTyped
  <2>2. QueueTyped'
    BY <1>0, <1>11 DEF FollowUp, QueueTyped, queueVars
  <2>3. FaultsTyped'
    BY <1>11, FaultType, FrameType DEF FollowUp
  <2> QED
    BY <1>11, <2>1, <2>2, <2>3, FrameType DEF TypeInv, FollowUp
<1>12. CASE Release(w)
  <2>1. PcTyped'
    BY <1>0, <1>12 DEF Release, Leave, PcTyped
  <2>2. BatchTyped'
    BY <1>12, LeaveChanges, ChangesType DEF Release, Leave
  <2> QED
    BY <1>12, <2>1, <2>2, FrameType DEF TypeInv, Release
<1> QED
  BY <1>1, <1>2, <1>3, <1>4, <1>5, <1>6, <1>7, <1>8, <1>9, <1>10, <1>11, <1>12
  DEF BatchStep, MapStep

\* So do the steps of the trigger tasks and their lock, and the faults of a batch.
LEMMA TriggerType ==
  ASSUME TypeInv,
         \/ Superfluous \/ Exhausted \/ Expire
         \/ \E w \in Workers : Acquire(w) \/ BatchFault(w)
  PROVE  TypeInv'
<1>0. /\ DocsTyped /\ DelTyped /\ QueueTyped /\ PcTyped /\ BatchTyped /\ PagesTyped /\ FaultsTyped
  BY DEF TypeInv
<1>1. CASE Superfluous \/ Exhausted
  <2>1. QueueTyped' /\ UNCHANGED <<lock, pc>> /\ UNCHANGED batch
    BY <1>0, <1>1 DEF Superfluous, Exhausted, QueueTyped, queueVars, runVars
  <2> QED
    BY <1>1, <2>1, FrameType DEF TypeInv, Superfluous, Exhausted
<1>2. CASE Expire
  <2>1. PcTyped'
    BY <1>0, <1>2 DEF Expire, PcTyped
  <2>2. FaultsTyped'
    BY <1>2, FaultType, FrameType DEF Expire
  <2> QED
    BY <1>2, <2>1, <2>2, FrameType DEF TypeInv, Expire
<1>3. ASSUME NEW w \in Workers, Acquire(w) PROVE TypeInv'
  <2>1. PcTyped' /\ QueueTyped'
    BY <1>0, <1>3 DEF Acquire, PcTyped, QueueTyped, queueVars
  <2> QED
    BY <1>3, <2>1, FrameType DEF TypeInv, Acquire
<1>4. ASSUME NEW w \in Workers, AcquireBlind(w) PROVE TypeInv'
  <2>1. PcTyped' /\ QueueTyped'
    BY <1>0, <1>4 DEF AcquireBlind, PcTyped, QueueTyped, queueVars
  <2>2. FaultsTyped'
    BY <1>4, FaultType DEF AcquireBlind
  <2> QED
    BY <1>4, <2>1, <2>2, FrameType DEF TypeInv, AcquireBlind
<1>5. ASSUME NEW w \in Workers, SetupFails(w) \/ Crash(w) PROVE TypeInv'
  <2>1. /\ pc' = [pc EXCEPT ![w] = "idle"] /\ lock' \in {FALSE, lock}
        /\ triggers' = triggers + 1 /\ UNCHANGED queueVars
    BY <1>5 DEF SetupFails, Crash, Leave
  <2>4. PcTyped'
    BY <1>0, <2>1 DEF PcTyped
  <2>5. QueueTyped'
    BY <1>0, <2>1 DEF QueueTyped, queueVars
  <2>2. FaultsTyped'
    BY <1>5, FaultType DEF SetupFails, Crash
  <2>3. BatchTyped'
    BY <1>5, LeaveChanges, ChangesType DEF SetupFails, Crash, Leave
  <2> QED
    BY <1>5, <2>2, <2>3, <2>4, <2>5, FrameType DEF TypeInv, SetupFails, Crash
<1>6. ASSUME NEW w \in Workers, PeekFails(w) PROVE TypeInv'
  <2>1. PcTyped'
    BY <1>0, <1>6 DEF PeekFails, PcTyped
  <2>2. FaultsTyped'
    BY <1>6, FaultType DEF PeekFails
  <2> QED
    BY <1>6, <2>1, <2>2, FrameType DEF TypeInv, PeekFails
<1>7. ASSUME NEW w \in Workers, NEW s \in Slugs, ReduceFails(w, s) PROVE TypeInv'
  <2>1. BatchTyped'
    BY <1>7, ReduceChanges, ChangesType
  <2>2. FaultsTyped'
    BY <1>7, FaultType DEF ReduceFails
  <2>3. PagesTyped'
    <3>1. batch[w].rets[s] \in SUBSET Docs
      BY BatchFields DEF Updates
    <3>2. {s} \X batch[w].rets[s] \subseteq Slugs \X Docs
      BY <3>1
    <3> QED
      BY <1>0, <1>7, <3>2 DEF ReduceFails, PagesTyped
  <2> QED
    BY <1>7, <2>1, <2>2, <2>3, FrameType DEF TypeInv, ReduceFails
<1> QED
  BY <1>1, <1>2, <1>3, <1>4, <1>5, <1>6, <1>7 DEF BatchFault

\* Every step keeps the types.
LEMMA NextType == TypeInv /\ [Next]_vars => TypeInv'
<1> SUFFICES ASSUME TypeInv, [Next]_vars PROVE TypeInv'
  OBVIOUS
<1>1. CASE UNCHANGED vars
  BY <1>1, FrameType DEF vars, TypeInv, queueVars, runVars
<1>2. CASE Next
  BY <1>2, DocumentType, DeleteType, BatchType, TriggerType DEF Next
<1> QED
  BY <1>1, <1>2

\* The variables of the wiki ingest keep their types: a slot is owed at most once
\* (FinalizeSubtask stops at zero), a row of the table is an operation on a
\* document, and what a batch holds are rows it has read.
THEOREM TypeCorrect == Spec => []TypeOK
<1>1. Init => TypeInv
  BY InitType
<1>2. TypeInv /\ [Next]_vars => TypeInv'
  BY NextType
<1> QED
  BY <1>1, <1>2, TypeInvImplies, PTL DEF Spec
-------------------------------------------------------------------------------
(* One batch at a time.                                                     *)

\* A fault that has happened stays on record.
LEMMA FaultsGrow == TypeInv /\ [Next]_vars => faults \subseteq faults'
<1> SUFFICES ASSUME TypeInv, [Next]_vars PROVE faults \subseteq faults'
  OBVIOUS
<1>1. ASSUME NEW kind, Fault(kind) PROVE faults \subseteq faults'
  BY <1>1, FaultType
<1>2. CASE UNCHANGED vars
  BY <1>2 DEF vars
<1>3. ASSUME NEW d \in Docs, PostStep(d) \/ Reparse(d) \/ DeleteMark(d) PROVE faults \subseteq faults'
  BY <1>1, <1>3 DEF PostStep, PostSeed, PostInsert, PostTrigger, ReparseReset, ReparseFails, Reparse, DeleteMark
<1>4. ASSUME NEW d \in Docs, DeleteStep(d) PROVE faults \subseteq faults'
  BY <1>1, <1>4 DEF DeleteStep, DeleteScrub, DeleteList, DeletePage, DeleteInsert, DeleteTrigger
<1>5. ASSUME NEW w \in Workers, BatchStep(w) PROVE faults \subseteq faults'
  BY <1>1, <1>5 DEF BatchStep, MapStep, Peek, MapRetract, MapSkip, MapFails, MapDoc, ReduceRead,
                    ReduceWrite, FinalizeDone, Trim, RequeueStep, Requeue, GiveUp, Drop, FollowUp, Release
<1>6. CASE Superfluous \/ Exhausted \/ Expire
  BY <1>1, <1>6 DEF Superfluous, Exhausted, Expire
<1>7. ASSUME NEW w \in Workers, Acquire(w) \/ BatchFault(w) PROVE faults \subseteq faults'
  BY <1>1, <1>7 DEF Acquire, BatchFault, AcquireBlind, SetupFails, Crash, PeekFails, ReduceFails
<1> QED
  BY <1>2, <1>3, <1>4, <1>5, <1>6, <1>7 DEF Next

\* Whoever runs is alone and finds the key taken.
Holding ==
    "redis" \notin faults =>
        /\ \A v, w \in Workers : Running(v) /\ Running(w) => v = w
        /\ \A w \in Workers : Running(w) => lock

\* Every step keeps it so: the deferred Del is the owner's as long as it is alone.
LEMMA NextHolding == TypeInv /\ Holding /\ [Next]_vars => Holding'
<1> SUFFICES ASSUME TypeInv, Holding, [Next]_vars, "redis" \notin faults'
             PROVE  /\ \A v, w \in Workers : Running(v)' /\ Running(w)' => v = w
                    /\ \A w \in Workers : Running(w)' => lock'
  BY DEF Holding
<1>0. /\ \A v, w \in Workers : Running(v) /\ Running(w) => v = w
      /\ \A w \in Workers : Running(w) => lock
      /\ "redis" \notin faults /\ pc \in [Workers -> {"idle", "begun", "work", "requeue", "release"}]
  BY FaultsGrow DEF Holding, TypeInv, PcTyped
<1>1. CASE UNCHANGED <<lock, pc>>
  BY <1>0, <1>1 DEF Running
<1>2. ASSUME NEW w \in Workers, pc' = [pc EXCEPT ![w] = "idle"], UNCHANGED lock
      PROVE  /\ \A v, u \in Workers : Running(v)' /\ Running(u)' => v = u
             /\ \A u \in Workers : Running(u)' => lock'
  BY <1>0, <1>2 DEF Running
<1>3. ASSUME NEW w \in Workers, Running(w), NEW next \in {"work", "requeue", "release"},
             pc' = [pc EXCEPT ![w] = next], UNCHANGED lock
      PROVE  /\ \A v, u \in Workers : Running(v)' /\ Running(u)' => v = u
             /\ \A u \in Workers : Running(u)' => lock'
  <2>1. \A u \in Workers : Running(u)' => Running(u)
    BY <1>0, <1>3 DEF Running
  <2> QED
    BY <1>0, <1>3, <2>1
<1>4. ASSUME NEW w \in Workers, Running(w), Leave(w)
      PROVE  /\ \A v, u \in Workers : Running(v)' /\ Running(u)' => v = u
             /\ \A u \in Workers : Running(u)' => lock'
  <2>1. \A u \in Workers : ~Running(u)'
    BY <1>0, <1>4 DEF Running, Leave
  <2> QED
    BY <2>1
<1>5. ASSUME NEW w \in Workers, BatchStep(w)
      PROVE  \/ UNCHANGED <<lock, pc>>
             \/ Running(w) /\ UNCHANGED lock /\ \E next \in {"work", "requeue", "release"} : pc' = [pc EXCEPT ![w] = next]
             \/ Running(w) /\ Leave(w)
  <2>1. CASE Peek(w) \/ Trim(w) \/ FollowUp(w)
    BY <2>1 DEF Peek, Trim, FollowUp, Running, Reduced, Reducing
  <2>2. CASE Release(w)
    BY <2>2 DEF Release, Running
  <2>3. CASE MapStep(w)
    BY <2>3 DEF MapStep, MapRetract, MapSkip, MapFails, MapDoc
  <2>4. CASE \E s \in Slugs : ReduceRead(w, s) \/ ReduceWrite(w, s)
    BY <2>4 DEF ReduceRead, ReduceWrite
  <2>5. CASE (\E d \in batch[w].done : FinalizeDone(w, d)) \/ (\E f \in batch[w].failed : RequeueStep(w, f))
    BY <2>5 DEF FinalizeDone, RequeueStep, Requeue, Requeuing, GiveUp, Drop
  <2> QED
    BY <1>5, <2>1, <2>2, <2>3, <2>4, <2>5 DEF BatchStep
<1>6. ASSUME NEW w \in Workers, Acquire(w)
      PROVE  /\ \A v, u \in Workers : Running(v)' /\ Running(u)' => v = u
             /\ \A u \in Workers : Running(u)' => lock'
  <2>1. ~lock /\ lock' /\ pc' = [pc EXCEPT ![w] = "begun"]
    BY <1>6 DEF Acquire
  <2>2. \A u \in Workers : u # w => ~Running(u)'
    BY <1>0, <2>1 DEF Running
  <2> QED
    BY <2>1, <2>2
<1>7. ASSUME NEW w \in Workers, BatchFault(w)
      PROVE  \/ UNCHANGED <<lock, pc>>
             \/ pc' = [pc EXCEPT ![w] = "idle"] /\ UNCHANGED lock
             \/ Running(w) /\ UNCHANGED lock /\ \E next \in {"work", "requeue", "release"} : pc' = [pc EXCEPT ![w] = next]
             \/ Running(w) /\ Leave(w)
  <2>1. ~AcquireBlind(w)
    BY FaultType DEF AcquireBlind
  <2>2. CASE SetupFails(w)
    BY <2>2 DEF SetupFails, Running
  <2>3. CASE Crash(w)
    BY <2>3 DEF Crash
  <2>4. CASE PeekFails(w)
    BY <2>4 DEF PeekFails, Running
  <2>5. CASE \E s \in Slugs : ReduceFails(w, s)
    BY <2>5 DEF ReduceFails
  <2> QED
    BY <1>7, <2>1, <2>2, <2>3, <2>4, <2>5 DEF BatchFault
<1>8. CASE Expire
  <2>1. \A u \in Workers : ~Running(u)
    BY <1>8, FaultType DEF Expire
  <2>2. UNCHANGED pc
    BY <1>8 DEF Expire
  <2> QED
    BY <2>1, <2>2 DEF Running
<1>9. CASE Superfluous \/ Exhausted \/ UNCHANGED vars
  <2>1. UNCHANGED <<lock, pc>>
    BY <1>9 DEF Superfluous, Exhausted, vars, runVars
  <2> QED
    BY <1>1, <2>1
<1>10. ASSUME NEW d \in Docs, PostStep(d) \/ Reparse(d) \/ DeleteMark(d) \/ DeleteStep(d)
       PROVE  UNCHANGED <<lock, pc>>
  BY <1>10 DEF PostStep, PostSeed, PostInsert, PostTrigger, ReparseReset, ReparseFails, Reparse, DeleteMark, DeleteStep,
               DeleteScrub, DeleteList, DeletePage, DeleteInsert, DeleteTrigger, runVars
<1>11. ASSUME NEW w \in Workers, BatchStep(w)
       PROVE  /\ \A v, u \in Workers : Running(v)' /\ Running(u)' => v = u
              /\ \A u \in Workers : Running(u)' => lock'
  BY <1>1, <1>3, <1>4, <1>5, <1>11
<1>12. ASSUME NEW w \in Workers, BatchFault(w)
       PROVE  /\ \A v, u \in Workers : Running(v)' /\ Running(u)' => v = u
              /\ \A u \in Workers : Running(u)' => lock'
  BY <1>1, <1>2, <1>3, <1>4, <1>7, <1>12
<1> QED
  BY <1>1, <1>6, <1>8, <1>9, <1>10, <1>11, <1>12 DEF Next

\* The key wiki:active keeps batches of a knowledge base apart (ProcessWikiIngest),
\* for any number of workers, crashes, expiries and retries, until a Redis call on
\* the key fails.
THEOREM BatchesAlone == Spec => []OneBatch
<1>1. Init => TypeInv /\ Holding
  BY InitType DEF Init, Holding, Running
<1>2. (TypeInv /\ Holding) /\ [Next]_vars => (TypeInv /\ Holding)'
  BY NextType, NextHolding
<1>3. Holding => OneBatch
  BY DEF Holding, OneBatch
<1> QED
  BY <1>1, <1>2, <1>3, PTL DEF Spec
-------------------------------------------------------------------------------
(* A queued operation is never forgotten.                                   *)

\* A document whose clean-up is under way is gone.
Deleting == \A d \in Docs : del[d].pc # "no" => Gone(d)

\* Nobody brings a document back.
LEMMA GoneStays == TypeInv /\ [Next]_vars => \A d \in Docs : Gone(d) => Gone(d)'
<1> SUFFICES ASSUME TypeInv, [Next]_vars, NEW d \in Docs, Gone(d) PROVE Gone(d)'
  OBVIOUS
<1>0. status \in [Docs -> {"processing", "finalizing", "completed", "deleting", "deleted"}]
  BY DEF TypeInv, DocsTyped
<1>1. CASE UNCHANGED status
  BY <1>1 DEF Gone
<1>2. ASSUME NEW e \in Docs, Finalize(e) PROVE Gone(d)'
  BY <1>0, <1>2 DEF Finalize, Gone
<1>3. ASSUME NEW e \in Docs, PostStep(e) \/ Reparse(e) \/ DeleteMark(e) PROVE Gone(d)'
  <2>1. CASE PostSeed(e) \/ ReparseReset(e) \/ DeleteMark(e)
    BY <1>0, <2>1 DEF PostSeed, ReparseReset, DeleteMark, Gone
  <2> QED
    BY <1>1, <1>3, <2>1 DEF PostStep, PostInsert, PostTrigger, ReparseFails, Reparse
<1>4. ASSUME NEW e \in Docs, DeleteStep(e) PROVE Gone(d)'
  <2>1. CASE DeleteTrigger(e)
    BY <1>0, <2>1 DEF DeleteTrigger, Gone
  <2> QED
    BY <1>1, <1>4, <2>1 DEF DeleteStep, DeleteScrub, DeleteList, DeletePage, DeleteInsert, docVars
<1>5. ASSUME NEW w \in Workers, BatchStep(w) PROVE Gone(d)'
  <2>1. ASSUME NEW r \in batch[w].ops, MapSkip(w, r) PROVE Gone(d)'
    <3>1. r.doc \in Docs /\ Finalize(r.doc)
      BY <2>1, BatchFields DEF Row, MapSkip
    <3> QED
      BY <1>2, <3>1
  <2>2. ASSUME NEW e \in batch[w].done, FinalizeDone(w, e) PROVE Gone(d)'
    <3>1. e \in Docs /\ Finalize(e)
      BY <2>2, BatchFields DEF FinalizeDone
    <3> QED
      BY <1>2, <3>1
  <2>3. ASSUME NEW f \in batch[w].failed, RequeueStep(w, f) PROVE Gone(d)'
    <3>1. f.doc \in Docs /\ (Finalize(f.doc) \/ UNCHANGED status)
      BY <2>3, BatchFields DEF Row, RequeueStep, Requeue, GiveUp, Drop, docVars
    <3> QED
      BY <1>1, <1>2, <3>1
  <2> QED
    BY <1>1, <1>5, <2>1, <2>2, <2>3
    DEF BatchStep, MapStep, Peek, MapRetract, MapFails, MapDoc, ReduceRead, ReduceWrite, Trim,
        FollowUp, Release, docVars
<1>6. CASE Superfluous \/ Exhausted \/ Expire \/ UNCHANGED vars
  BY <1>1, <1>6 DEF Superfluous, Exhausted, Expire, docVars, vars
<1>7. ASSUME NEW w \in Workers, Acquire(w) \/ BatchFault(w) PROVE Gone(d)'
  BY <1>1, <1>7 DEF Acquire, BatchFault, AcquireBlind, SetupFails, Crash, PeekFails, ReduceFails, docVars
<1> QED
  BY <1>3, <1>4, <1>5, <1>6, <1>7 DEF Next

\* A clean-up begins with the mark.
LEMMA NextDeleting == TypeInv /\ Deleting /\ [Next]_vars => Deleting'
<1> SUFFICES ASSUME TypeInv, Deleting, [Next]_vars, NEW d \in Docs, del'[d].pc # "no"
             PROVE  Gone(d)'
  BY DEF Deleting
<1>0. Gone(d) => Gone(d)'
  BY GoneStays
<1>1. CASE del'[d].pc = "no" \/ del[d].pc # "no"
  BY <1>0, <1>1 DEF Deleting
<1>2. CASE UNCHANGED del
  BY <1>1, <1>2
<1>3. ASSUME NEW e \in Docs, PostStep(e) \/ Reparse(e) \/ DeleteMark(e) PROVE Gone(d)'
  <2>1. CASE DeleteMark(e)
    <3>1. CASE e = d
      BY <2>1, <3>1 DEF DeleteMark, Gone, TypeInv, DocsTyped
    <3>2. CASE e # d
      BY <1>1, <2>1, <3>2 DEF DeleteMark, DeleteGoto, TypeInv, DelTyped
    <3> QED
      BY <3>1, <3>2
  <2> QED
    BY <1>2, <1>3, <2>1 DEF PostStep, PostSeed, PostInsert, PostTrigger, ReparseReset, ReparseFails, Reparse
<1>4. ASSUME NEW e \in Docs, DeleteStep(e) PROVE Gone(d)'
  <2>0. del[e].pc # "no"
    BY <1>4 DEF DeleteStep, DeleteScrub, DeleteList, DeletePage, DeleteInsert, DeleteTrigger
  <2>1. e # d => del'[d] = del[d]
    <3>1. CASE DeleteScrub(e) \/ DeleteTrigger(e)
      BY <3>1 DEF DeleteScrub, DeleteTrigger, DeleteGoto, TypeInv, DelTyped
    <3>2. CASE DeleteList(e) \/ DeleteInsert(e)
      BY <3>2 DEF DeleteList, DeleteInsert, DeleteGoto, TypeInv, DelTyped
    <3>3. ASSUME NEW s \in Slugs, DeletePage(e, s) PROVE e # d => del'[d] = del[d]
      BY <3>3 DEF DeletePage, TypeInv, DelTyped
    <3> QED
      BY <1>4, <3>1, <3>2, <3>3 DEF DeleteStep
  <2> QED
    BY <1>1, <2>0, <2>1
<1>5. ASSUME NEW w \in Workers, BatchStep(w) PROVE UNCHANGED del
  BY <1>5 DEF BatchStep, MapStep, Peek, MapRetract, MapSkip, MapFails, MapDoc, ReduceRead,
              ReduceWrite, FinalizeDone, Trim, RequeueStep, Requeue, GiveUp, Drop, FollowUp, Release
<1>6. CASE Superfluous \/ Exhausted \/ Expire \/ UNCHANGED vars
  BY <1>2, <1>6 DEF Superfluous, Exhausted, Expire, vars
<1>7. ASSUME NEW w \in Workers, Acquire(w) \/ BatchFault(w) PROVE UNCHANGED del
  BY <1>7 DEF Acquire, BatchFault, AcquireBlind, SetupFails, Crash, PeekFails, ReduceFails
<1> QED
  BY <1>2, <1>3, <1>4, <1>5, <1>6, <1>7 DEF Next

\* Somebody will look at the table.
Attended ==
    \/ triggers > 0
    \/ \E w \in Workers : pc[w] \in {"begun", "work", "requeue"}
    \/ \E d \in Docs : posting[d] = "trigger" \/ del[d].pc = "trigger"

\* What leaves those who will look alone leaves the table attended.
LEMMA AttendedStays ==
  ASSUME TypeInv, Attended,
         UNCHANGED triggers, UNCHANGED pc,
         \A d \in Docs : posting[d] = "trigger" => posting'[d] = "trigger",
         \A d \in Docs : del[d].pc = "trigger" => del'[d].pc = "trigger"
  PROVE  Attended'
BY DEF Attended

\* The steps of the documents keep the table attended.
LEMMA DocumentAttended ==
  ASSUME TypeInv, Deleting, NoStrandedOp, NEW d \in Docs,
         PostStep(d) \/ Reparse(d) \/ DeleteMark(d) \/ DeleteStep(d),
         rows' # {}, faults' \cap {"trigger", "database"} = {}
  PROVE  Attended'
<1>0. /\ triggers \in Nat /\ posting \in [Docs -> {"no", "insert", "trigger", "reset"}]
      /\ del \in [Docs -> [pc: {"no", "scrub", "list", "pages", "insert", "trigger"},
                          found: Updates, slugs: SUBSET Slugs]]
  BY DEF TypeInv, QueueTyped, DocsTyped, DelTyped
<1>1. faults \cap {"trigger", "database"} = {}
  <2>1. [Next]_vars
    BY DEF Next
  <2> QED
    BY <2>1, FaultsGrow
<1>2. rows # {} => Attended
  BY <1>1 DEF NoStrandedOp, Attended
<1>3. CASE PostSeed(d)
  <2>1. /\ rows' = rows /\ UNCHANGED <<triggers, pc, del>> /\ posting[d] = "no"
        /\ posting' = [posting EXCEPT ![d] = "insert"]
    BY <1>3 DEF PostSeed, queueVars, runVars
  <2>2. \A e \in Docs : posting[e] = "trigger" => posting'[e] = "trigger"
    BY <1>0, <2>1
  <2> QED
    BY <1>2, <2>1, <2>2, AttendedStays
<1>4. CASE PostInsert(d)
  <2>1. posting'[d] = "trigger"
    BY <1>0, <1>4 DEF PostInsert
  <2> QED
    BY <2>1 DEF Attended
<1>5. CASE PostTrigger(d)
  <2>1. triggers' = triggers + 1
    BY <1>5, FaultType DEF PostTrigger
  <2> QED
    BY <1>0, <2>1 DEF Attended
<1>6. CASE Reparse(d)
  <2>1. rows # {}
    BY <1>6 DEF Reparse, Scrub
  <2> QED
    BY <1>2, <1>6, <2>1, AttendedStays DEF Reparse, runVars
<1>7. CASE DeleteMark(d)
  <2>1. /\ rows' = rows /\ UNCHANGED <<triggers, pc, posting>> /\ ~Gone(d)
        /\ del' = [del EXCEPT ![d].pc = "scrub"]
    BY <1>7 DEF DeleteMark, DeleteGoto, queueVars, runVars
  <2>2. del[d].pc # "trigger"
    BY <2>1 DEF Deleting
  <2>3. \A e \in Docs : del[e].pc = "trigger" => del'[e].pc = "trigger"
    BY <1>0, <2>1, <2>2
  <2> QED
    BY <1>2, <2>1, <2>3, AttendedStays
<1>8. CASE DeleteScrub(d)
  <2>1. rows # {} /\ UNCHANGED <<triggers, pc, posting>>
    BY <1>8 DEF DeleteScrub, Scrub, runVars, docVars
  <2>2. \A e \in Docs : del[e].pc = "trigger" => del'[e].pc = "trigger"
    BY <1>0, <1>8 DEF DeleteScrub, DeleteGoto
  <2> QED
    BY <1>2, <2>1, <2>2, AttendedStays
<1>9. CASE DeleteList(d)
  <2>1. rows # {} /\ UNCHANGED <<triggers, pc, posting>> /\ del[d].pc = "list"
    BY <1>9 DEF DeleteList, runVars, docVars, queueVars
  <2>2. \A e \in Docs : e # d => del'[e] = del[e]
    BY <1>0, <1>9 DEF DeleteList, DeleteGoto
  <2>3. \A e \in Docs : del[e].pc = "trigger" => del'[e].pc = "trigger"
    BY <2>1, <2>2
  <2> QED
    BY <1>2, <2>1, <2>3, AttendedStays
<1>10. ASSUME NEW s \in Slugs, DeletePage(d, s) PROVE Attended'
  <2>1. rows # {} /\ UNCHANGED <<triggers, pc, posting>> /\ del[d].pc = "pages"
    BY <1>10 DEF DeletePage, runVars, docVars, queueVars
  <2>2. \A e \in Docs : e # d => del'[e] = del[e]
    BY <1>0, <1>10 DEF DeletePage
  <2>3. \A e \in Docs : del[e].pc = "trigger" => del'[e].pc = "trigger"
    BY <2>1, <2>2
  <2> QED
    BY <1>2, <2>1, <2>3, AttendedStays
<1>11. CASE DeleteInsert(d)
  <2>1. del'[d].pc = "trigger"
    BY <1>0, <1>11 DEF DeleteInsert, NotDeleting
  <2> QED
    BY <2>1 DEF Attended
<1>12. CASE DeleteTrigger(d)
  <2>1. triggers' = triggers + 1
    BY <1>12, FaultType DEF DeleteTrigger
  <2> QED
    BY <1>0, <2>1 DEF Attended
<1>13. CASE ReparseReset(d) \/ ReparseFails(d)
  <2>1. /\ rows' = rows /\ UNCHANGED <<triggers, pc, del>> /\ posting[d] = "reset"
        /\ posting' = [posting EXCEPT ![d] = "no"]
    BY <1>13 DEF ReparseReset, ReparseFails, queueVars, runVars
  <2>2. \A e \in Docs : posting[e] = "trigger" => posting'[e] = "trigger"
    BY <1>0, <2>1
  <2> QED
    BY <1>2, <2>1, <2>2, AttendedStays
<1> QED
  BY <1>3, <1>4, <1>5, <1>6, <1>7, <1>8, <1>9, <1>10, <1>11, <1>12, <1>13 DEF PostStep, DeleteStep

\* So do the steps of the batches and of their trigger tasks.
LEMMA BatchAttended ==
  ASSUME TypeInv, NoStrandedOp,
         \/ Superfluous \/ Exhausted \/ Expire
         \/ \E w \in Workers : Acquire(w) \/ BatchStep(w) \/ BatchFault(w),
         rows' # {}, faults' \cap {"trigger", "database"} = {}
  PROVE  Attended'
<1>0. triggers \in Nat /\ pc \in [Workers -> {"idle", "begun", "work", "requeue", "release"}]
  BY DEF TypeInv, QueueTyped, PcTyped
<1>1. faults \cap {"trigger", "database"} = {}
  <2>1. [Next]_vars
    BY DEF Next
  <2> QED
    BY <2>1, FaultsGrow
<1>2. rows # {} => Attended
  BY <1>1 DEF NoStrandedOp, Attended
<1>3. ASSUME NEW w \in Workers, pc[w] \in {"begun", "work", "requeue"}, UNCHANGED pc PROVE Attended'
  BY <1>3 DEF Attended
<1>4. ASSUME NEW w \in Workers, NEW next \in {"begun", "work", "requeue"}, pc' = [pc EXCEPT ![w] = next]
      PROVE  Attended'
  <2>1. pc'[w] = next
    BY <1>0, <1>4
  <2> QED
    BY <2>1 DEF Attended
<1>5. ASSUME triggers' = triggers + 1 PROVE Attended'
  BY <1>0, <1>5 DEF Attended
<1>6. CASE Superfluous
  BY <1>6 DEF Superfluous, queueVars
<1>7. CASE Exhausted
  BY <1>3, <1>7 DEF Exhausted, runVars
<1>8. CASE Expire
  BY <1>2, <1>8, AttendedStays DEF Expire, queueVars, docVars
<1>9. ASSUME NEW w \in Workers, Acquire(w) PROVE Attended'
  BY <1>4, <1>9 DEF Acquire
<1>10. ASSUME NEW w \in Workers, BatchStep(w) PROVE Attended'
  <2>1. CASE Peek(w)
    BY <1>4, <2>1 DEF Peek, queueVars
  <2>2. CASE Trim(w)
    BY <1>4, <2>2 DEF Trim
  <2>3. CASE FollowUp(w)
    <3>1. rows # {} /\ triggers' = triggers + 1
      BY <2>3, FaultType DEF FollowUp, queueVars
    <3> QED
      BY <1>5, <3>1
  <2>4. CASE Release(w)
    <3>1. /\ pc' = [pc EXCEPT ![w] = "idle"] /\ pc[w] = "release" /\ rows' = rows
          /\ UNCHANGED <<triggers, posting, del>>
      BY <2>4 DEF Release, Leave, queueVars, docVars
    <3>2. \A v \in Workers : pc[v] \in {"begun", "work", "requeue"} => pc'[v] = pc[v]
      BY <1>0, <3>1
    <3> QED
      BY <1>2, <3>1, <3>2 DEF Attended
  <2>5. CASE MapStep(w)
    BY <1>3, <2>5 DEF MapStep, MapRetract, MapSkip, MapFails, MapDoc, Mapping
  <2>6. CASE \E s \in Slugs : ReduceRead(w, s) \/ ReduceWrite(w, s)
    BY <1>3, <2>6 DEF ReduceRead, ReduceWrite, Reducing
  <2>7. CASE (\E d \in batch[w].done : FinalizeDone(w, d)) \/ (\E f \in batch[w].failed : RequeueStep(w, f))
    BY <1>3, <2>7 DEF FinalizeDone, RequeueStep, Requeue, Requeuing, GiveUp, Drop, Reduced, Reducing
  <2> QED
    BY <1>10, <2>1, <2>2, <2>3, <2>4, <2>5, <2>6, <2>7 DEF BatchStep
<1>11. ASSUME NEW w \in Workers, BatchFault(w) PROVE Attended'
  <2>1. CASE AcquireBlind(w)
    BY <1>4, <2>1 DEF AcquireBlind
  <2>2. CASE SetupFails(w) \/ Crash(w)
    BY <1>5, <2>2 DEF SetupFails, Crash
  <2>3. CASE PeekFails(w)
    BY <2>3, FaultType DEF PeekFails
  <2>4. CASE \E s \in Slugs : ReduceFails(w, s)
    BY <1>3, <2>4 DEF ReduceFails, Reducing
  <2> QED
    BY <1>11, <2>1, <2>2, <2>3, <2>4 DEF BatchFault
<1> QED
  BY <1>6, <1>7, <1>8, <1>9, <1>10, <1>11

\* Every step keeps the table attended.
LEMMA NextAttended == TypeInv /\ Deleting /\ NoStrandedOp /\ [Next]_vars => NoStrandedOp'
<1> SUFFICES ASSUME TypeInv, Deleting, NoStrandedOp, [Next]_vars,
                    rows' # {}, faults' \cap {"trigger", "database"} = {}
             PROVE  Attended'
  BY DEF NoStrandedOp, Attended
<1>1. CASE UNCHANGED vars
  <2>1. Attended
    BY <1>1 DEF vars, queueVars, NoStrandedOp, Attended
  <2> QED
    BY <1>1, <2>1, AttendedStays DEF vars, docVars, runVars
<1>2. CASE Next
  BY <1>2, DocumentAttended, BatchAttended DEF Next
<1> QED
  BY <1>1, <1>2

\* An operation in task_pending_ops is never forgotten: whatever triggers meet the
\* key and give up, and wherever workers die, one is scheduled, about to be, or a
\* batch runs that will look at the table again.
THEOREM NothingStranded == Spec => []NoStrandedOp
<1>1. Init => TypeInv /\ Deleting /\ NoStrandedOp
  BY InitType DEF Init, Deleting, NotDeleting, NoStrandedOp
<1>2. (TypeInv /\ Deleting /\ NoStrandedOp) /\ [Next]_vars => (TypeInv /\ Deleting /\ NoStrandedOp)'
  BY NextType, NextDeleting, NextAttended
<1> QED
  BY <1>1, <1>2, PTL DEF Spec
-------------------------------------------------------------------------------
(* A seeded slot keeps its operation.                                       *)

\* The rows have ids of their own.
RowIds ==
    /\ \A r \in rows : r.id < nextId
    /\ \A r, q \in rows : r.id = q.id => r = q

\* A document that is parsed is not being posted.
Seeding == \A d \in Docs : posting[d] # "no" => status[d] # "processing"

\* A document has one ingest row, none before its post-processing wrote it, and
\* a retract row only once it is gone.
RowDocs ==
    /\ \A r, q \in rows : r.op = "ingest" /\ q.op = "ingest" /\ r.doc = q.doc => r = q
    /\ \A r \in rows : r.op = "ingest" => status[r.doc] # "processing" /\ posting[r.doc] \notin {"insert", "reset"}
    /\ \A r \in rows : r.op = "retract" => Gone(r.doc)

\* What a batch holds are rows that were written, as the table has them if it
\* still does.
Held(w) == batch[w].ops \union batch[w].failed
HeldRows ==
    \A w \in Workers :
        /\ \A q \in Held(w) :
               q.id < nextId /\ \A r \in rows : r.id = q.id => r.op = q.op /\ r.doc = q.doc
        /\ \A i \in batch[w].peeked : i < nextId

\* The row of an owed slot survives the Trim of every batch: it was not peeked,
\* is still held, or the document is about to be finalised.
Owed(d) == owed[d] = 1 /\ ~Gone(d) /\ posting[d] \notin {"insert", "reset"}
Kept == faults \cap {"insert", "cleanup"} = {}
Survives(w, d) ==
    \/ d \in batch[w].done
    \/ \E r \in rows : /\ r.op = "ingest" /\ r.doc = d
                       /\ r.id \notin batch[w].peeked \/ \E q \in Held(w) : q.id = r.id
\* The slot of a document whose row is about to be dropped is released.
Released ==
    \A w \in Workers : pc[w] = "requeue" =>
        \A f \in batch[w].ops, r \in rows : r.id = f.id /\ r.op = "ingest" => owed[r.doc] = 0
Backed ==
    Kept =>
        \A w \in Workers : pc[w] = "work" => \A d \in Docs : Owed(d) => Survives(w, d)

Bumped(f) == {IF r.id = f.id THEN [r EXCEPT !.fails = @ + 1] ELSE r : r \in rows}

\* What a step may do to the table.
LEMMA RowsChange ==
  ASSUME TypeInv, [Next]_vars
  PROVE  \/ UNCHANGED queueVars
         \/ \E d \in Docs : PostInsert(d) /\ Insert("ingest", d, {})
         \/ \E d \in Docs : DeleteInsert(d) /\ Insert("retract", d, del[d].slugs)
         \/ nextId' = nextId /\ \E d \in Docs : (Reparse(d) \/ DeleteScrub(d)) /\ Scrub(d)
         \/ /\ nextId' = nextId
            /\ \E w \in Workers :
                   /\ Trim(w)
                   /\ rows' = {r \in rows : r.id \in batch[w].peeked => r.id \in {f.id : f \in batch[w].failed}}
         \/ /\ nextId' = nextId
            /\ \E w \in Workers : \E f \in batch[w].failed :
                   \/ rows' = Bumped(f)
                   \/ rows' = {r \in rows : r.id # f.id} /\ Drop(w, f)
<1>1. CASE UNCHANGED vars \/ Superfluous \/ Exhausted \/ Expire
  BY <1>1 DEF vars, Superfluous, Exhausted, Expire
<1>2. ASSUME NEW d \in Docs, PostStep(d) \/ DeleteMark(d)
      PROVE  UNCHANGED queueVars \/ (PostInsert(d) /\ Insert("ingest", d, {}))
  BY <1>2 DEF PostStep, PostSeed, PostInsert, PostTrigger, ReparseReset, ReparseFails, DeleteMark
<1>3. ASSUME NEW d \in Docs, Reparse(d) PROVE Scrub(d) /\ nextId' = nextId
  BY <1>3 DEF Reparse
<1>4. ASSUME NEW d \in Docs, DeleteStep(d)
      PROVE  \/ UNCHANGED queueVars
             \/ DeleteInsert(d) /\ Insert("retract", d, del[d].slugs)
             \/ DeleteScrub(d) /\ Scrub(d) /\ nextId' = nextId
  BY <1>4 DEF DeleteStep, DeleteScrub, DeleteList, DeletePage, DeleteInsert, DeleteTrigger
<1>5. ASSUME NEW w \in Workers, Trim(w)
      PROVE  \/ UNCHANGED queueVars
             \/ nextId' = nextId /\ rows' = {r \in rows : r.id \in batch[w].peeked => r.id \in {f.id : f \in batch[w].failed}}
  BY <1>5 DEF Trim, queueVars
<1>6. ASSUME NEW w \in Workers, NEW f \in batch[w].failed, RequeueStep(w, f)
      PROVE  /\ nextId' = nextId
             /\ \/ rows' = rows
                \/ rows' = Bumped(f)
                \/ rows' = {r \in rows : r.id # f.id} /\ Drop(w, f)
  BY <1>6 DEF RequeueStep, Requeue, GiveUp, Drop, Count, Bumped
<1>7. ASSUME NEW w \in Workers, BatchStep(w),
             ~Trim(w), ~(\E f \in batch[w].failed : RequeueStep(w, f))
      PROVE  UNCHANGED queueVars
  BY <1>7 DEF BatchStep, MapStep, Peek, MapRetract, MapSkip, MapFails, MapDoc, ReduceRead,
              ReduceWrite, FinalizeDone, FollowUp, Release
<1>8. ASSUME NEW w \in Workers, Acquire(w) \/ BatchFault(w) PROVE UNCHANGED queueVars
  BY <1>8 DEF Acquire, BatchFault, AcquireBlind, SetupFails, Crash, PeekFails, ReduceFails
<1>9. CASE \E d \in Docs : PostStep(d) \/ DeleteMark(d)
  BY <1>2, <1>9
<1>10. CASE \E d \in Docs : Reparse(d)
  BY <1>3, <1>10
<1>11. CASE \E d \in Docs : DeleteStep(d)
  BY <1>4, <1>11
<1>12. CASE \E w \in Workers : BatchStep(w)
  <2>1. CASE \E w \in Workers : Trim(w)
    BY <1>5, <2>1
  <2>2. CASE \E w \in Workers : \E f \in batch[w].failed : RequeueStep(w, f)
    BY <1>6, <2>2 DEF queueVars
  <2> QED
    BY <1>7, <1>12, <2>1, <2>2
<1>13. CASE \E w \in Workers : Acquire(w) \/ BatchFault(w)
  BY <1>8, <1>13
<1> QED
  BY <1>1, <1>9, <1>10, <1>11, <1>12, <1>13 DEF Next

\* A row of the table was there before, but for the count of its failures, or is new.
LEMMA RowOrigin ==
  ASSUME TypeInv, [Next]_vars
  PROVE  /\ nextId <= nextId'
         /\ \A r \in rows' :
                \/ \E q \in rows : q.id = r.id /\ q.op = r.op /\ q.doc = r.doc
                \/ /\ r.id = nextId /\ nextId' = nextId + 1 /\ r.doc \in Docs
                   /\ \/ r.op = "ingest" /\ PostInsert(r.doc)
                      \/ r.op = "retract" /\ DeleteInsert(r.doc)
<1>0. nextId \in Nat /\ rows \subseteq Row
  BY DEF TypeInv, QueueTyped
<1>1. CASE rows' \subseteq rows /\ nextId' = nextId
  BY <1>0, <1>1
<1>2. ASSUME NEW d \in Docs, PostInsert(d), Insert("ingest", d, {})
      PROVE  /\ nextId' = nextId + 1
             /\ \A r \in rows' : r \in rows \/ (r.id = nextId /\ r.op = "ingest" /\ r.doc = d)
  BY <1>2 DEF Insert
<1>3. ASSUME NEW d \in Docs, DeleteInsert(d), Insert("retract", d, del[d].slugs)
      PROVE  /\ nextId' = nextId + 1
             /\ \A r \in rows' : r \in rows \/ (r.id = nextId /\ r.op = "retract" /\ r.doc = d)
  BY <1>3 DEF Insert
<1>4. ASSUME NEW f, rows' = Bumped(f)
      PROVE  \A r \in rows' : \E q \in rows : q.id = r.id /\ q.op = r.op /\ q.doc = r.doc
  <2>1. \A q \in rows : /\ [q EXCEPT !.fails = @ + 1].id = q.id
                        /\ [q EXCEPT !.fails = @ + 1].op = q.op
                        /\ [q EXCEPT !.fails = @ + 1].doc = q.doc
    BY <1>0 DEF Row
  <2> QED
    BY <1>4, <2>1 DEF Bumped
<1>5. CASE \E d \in Docs : PostInsert(d) /\ Insert("ingest", d, {})
  BY <1>0, <1>2, <1>5
<1>6. CASE \E d \in Docs : DeleteInsert(d) /\ Insert("retract", d, del[d].slugs)
  BY <1>0, <1>3, <1>6
<1>7. CASE nextId' = nextId /\ \E f : rows' = Bumped(f)
  BY <1>0, <1>4, <1>7
<1> QED
  BY <1>1, <1>5, <1>6, <1>7, RowsChange DEF Scrub, queueVars

\* Every step keeps the ids apart.
LEMMA NextRowIds == TypeInv /\ RowIds /\ [Next]_vars => RowIds'
<1> SUFFICES ASSUME TypeInv, RowIds, [Next]_vars PROVE RowIds'
  OBVIOUS
<1>0. nextId \in Nat /\ rows \subseteq Row /\ rows' \subseteq Row /\ nextId' \in Nat
  BY NextType DEF TypeInv, QueueTyped
<1>1. \A r \in rows' : r.id < nextId'
  BY <1>0, RowOrigin DEF RowIds, Row
<1>2. CASE rows' \subseteq rows
  BY <1>1, <1>2 DEF RowIds
<1>3. ASSUME NEW op, NEW d, NEW slugs, Insert(op, d, slugs) PROVE RowIds'
  <2> DEFINE new == [id |-> nextId, op |-> op, doc |-> d, slugs |-> slugs, fails |-> 0]
  <2>1. rows' = rows \union {new}
    BY <1>3 DEF Insert
  <2>2. new.id = nextId /\ \A r \in rows : r.id # nextId
    BY <1>0 DEF RowIds, Row
  <2> HIDE DEF new
  <2> QED
    BY <1>1, <2>1, <2>2 DEF RowIds
<1>4. ASSUME NEW f, rows' = Bumped(f) PROVE RowIds'
  <2>1. \A r \in rows : (IF r.id = f.id THEN [r EXCEPT !.fails = @ + 1] ELSE r).id = r.id
    BY <1>0 DEF Row
  <2>2. \A r \in rows' : \E q \in rows :
            q.id = r.id /\ r = (IF q.id = f.id THEN [q EXCEPT !.fails = @ + 1] ELSE q)
    <3> SUFFICES ASSUME NEW r \in rows'
                 PROVE  \E q \in rows :
                     q.id = r.id /\ r = (IF q.id = f.id THEN [q EXCEPT !.fails = @ + 1] ELSE q)
      OBVIOUS
    <3>1. PICK q \in rows : r = (IF q.id = f.id THEN [q EXCEPT !.fails = @ + 1] ELSE q)
      BY <1>4, Zenon DEF Bumped
    <3>2. q.id = r.id
      BY <2>1, <3>1
    <3> QED
      BY <3>1, <3>2
  <2>3. \A r, q \in rows : r.id = q.id => r = q
    BY DEF RowIds
  <2>4. \A r, q \in rows' : r.id = q.id => r = q
    BY <2>2, <2>3
  <2> QED
    BY <1>1, <2>4 DEF RowIds
<1> QED
  BY <1>2, <1>3, <1>4, RowsChange DEF Scrub, queueVars

\* What a step may do to a document.
LEMMA DocChange ==
  ASSUME TypeInv, [Next]_vars, NEW d \in Docs
  PROVE  /\ status'[d] = "processing" => status[d] = "processing" \/ (ReparseReset(d) /\ ~Gone(d))
         /\ posting'[d] # "no" => posting[d] # "no" \/ PostSeed(d) \/ Reparse(d)
         /\ posting'[d] = "insert" => posting[d] = "insert" \/ PostSeed(d)
         /\ posting'[d] = "reset" => posting[d] = "reset" \/ Reparse(d)
         /\ posting[d] = "insert" => posting'[d] = "insert" \/ PostInsert(d)
         /\ posting[d] = "reset" => posting'[d] = "reset" \/ ReparseReset(d) \/ ReparseFails(d)
         /\ owed'[d] = 1 => owed[d] = 1 \/ PostSeed(d)
<1>0. /\ status \in [Docs -> {"processing", "finalizing", "completed", "deleting", "deleted"}]
      /\ owed \in [Docs -> {0, 1}] /\ posting \in [Docs -> {"no", "insert", "trigger", "reset"}]
  BY DEF TypeInv, DocsTyped
<1> DEFINE Goal ==
         /\ status'[d] = "processing" => status[d] = "processing" \/ (ReparseReset(d) /\ ~Gone(d))
         /\ posting'[d] # "no" => posting[d] # "no" \/ PostSeed(d) \/ Reparse(d)
         /\ posting'[d] = "insert" => posting[d] = "insert" \/ PostSeed(d)
         /\ posting'[d] = "reset" => posting[d] = "reset" \/ Reparse(d)
         /\ posting[d] = "insert" => posting'[d] = "insert" \/ PostInsert(d)
         /\ posting[d] = "reset" => posting'[d] = "reset" \/ ReparseReset(d) \/ ReparseFails(d)
         /\ owed'[d] = 1 => owed[d] = 1 \/ PostSeed(d)
<1>1. CASE UNCHANGED <<status, owed, posting>>
  BY <1>1
<1>2. ASSUME NEW e \in Docs, Finalize(e), UNCHANGED posting PROVE Goal
  BY <1>0, <1>2 DEF Finalize
<1>3. ASSUME NEW e \in Docs, PostStep(e) PROVE Goal
  <2>1. CASE PostSeed(e)
    BY <1>0, <2>1 DEF PostSeed
  <2>2. CASE PostInsert(e)
    BY <1>0, <2>2 DEF PostInsert
  <2>3. CASE PostTrigger(e)
    BY <1>0, <2>3 DEF PostTrigger
  <2>4. CASE ReparseReset(e)
    BY <1>0, <2>4 DEF ReparseReset
  <2>5. CASE ReparseFails(e)
    BY <1>0, <2>5 DEF ReparseFails
  <2> QED
    BY <1>3, <2>1, <2>2, <2>3, <2>4, <2>5 DEF PostStep
<1>4. ASSUME NEW e \in Docs, Reparse(e) PROVE Goal
  BY <1>0, <1>4 DEF Reparse
<1>5. ASSUME NEW e \in Docs, DeleteMark(e) PROVE Goal
  BY <1>0, <1>5 DEF DeleteMark
<1>6. ASSUME NEW e \in Docs, DeleteStep(e) PROVE Goal
  <2>1. CASE DeleteTrigger(e)
    BY <1>0, <2>1 DEF DeleteTrigger
  <2> QED
    BY <1>1, <1>6, <2>1 DEF DeleteStep, DeleteScrub, DeleteList, DeletePage, DeleteInsert, docVars
<1>7. ASSUME NEW w \in Workers, BatchStep(w) PROVE Goal
  <2>1. ASSUME NEW r \in batch[w].ops, MapSkip(w, r) PROVE Goal
    <3>1. r.doc \in Docs /\ Finalize(r.doc) /\ UNCHANGED posting
      BY <2>1, BatchFields DEF Row, MapSkip
    <3> QED
      BY <1>2, <3>1
  <2>2. ASSUME NEW e \in batch[w].done, FinalizeDone(w, e) PROVE Goal
    <3>1. e \in Docs /\ Finalize(e) /\ UNCHANGED posting
      BY <2>2, BatchFields DEF FinalizeDone
    <3> QED
      BY <1>2, <3>1
  <2>3. ASSUME NEW f \in batch[w].failed, RequeueStep(w, f) PROVE Goal
    <3>1. f.doc \in Docs /\ UNCHANGED posting /\ (Finalize(f.doc) \/ UNCHANGED <<status, owed>>)
      BY <2>3, BatchFields DEF Row, RequeueStep, Requeue, GiveUp, Drop, docVars
    <3> QED
      BY <1>1, <1>2, <3>1
  <2>4. CASE \/ Peek(w) \/ Trim(w) \/ FollowUp(w) \/ Release(w)
             \/ \E s \in Slugs : ReduceRead(w, s) \/ ReduceWrite(w, s)
             \/ \E r \in batch[w].ops : MapRetract(w, r) \/ MapFails(w, r)
             \/ \E r \in batch[w].ops : \E slugs \in SUBSET Slugs : MapDoc(w, r, slugs)
    <3>1. UNCHANGED <<status, owed, posting>>
      BY <2>4 DEF Peek, MapRetract, MapFails, MapDoc, ReduceRead, ReduceWrite, Trim,
                  FollowUp, Release, docVars
    <3> QED
      BY <1>1, <3>1
  <2> QED
    BY <1>7, <2>1, <2>2, <2>3, <2>4 DEF BatchStep, MapStep
<1>8. CASE Superfluous \/ Exhausted \/ Expire \/ UNCHANGED vars
  <2>1. UNCHANGED <<status, owed, posting>>
    BY <1>8 DEF Superfluous, Exhausted, Expire, docVars, vars
  <2> QED
    BY <1>1, <2>1
<1>9. ASSUME NEW w \in Workers, Acquire(w) \/ BatchFault(w) PROVE Goal
  <2>1. UNCHANGED <<status, owed, posting>>
    BY <1>9 DEF Acquire, BatchFault, AcquireBlind, SetupFails, Crash, PeekFails, ReduceFails, docVars
  <2> QED
    BY <1>1, <2>1
<1>10. CASE \E e \in Docs : PostStep(e) \/ Reparse(e) \/ DeleteMark(e) \/ DeleteStep(e)
  <2> QED
    BY <1>3, <1>4, <1>5, <1>6, <1>10
<1>11. CASE \E w \in Workers : Acquire(w) \/ BatchStep(w) \/ BatchFault(w)
  <2> QED
    BY <1>7, <1>9, <1>11
<1> QED
  BY <1>8, <1>10, <1>11 DEF Next

\* An owed slot was owed before, or its row is being written.
LEMMA OwedBefore ==
  ASSUME TypeInv, [Next]_vars, Kept', NEW d \in Docs, Owed(d)'
  PROVE  Owed(d) \/ PostInsert(d)
<1>0. /\ posting \in [Docs -> {"no", "insert", "trigger", "reset"}]
      /\ owed \in [Docs -> {0, 1}]
  BY DEF TypeInv, DocsTyped
<1>1. PostSeed(d) => posting'[d] = "insert"
  BY <1>0 DEF PostSeed
<1>2. owed'[d] = 1 /\ ~Gone(d)' /\ posting'[d] \notin {"insert", "reset"}
  BY DEF Owed
<1>3. ~Gone(d)
  BY <1>2, GoneStays
<1>4. ~ReparseReset(d)
  BY <1>0, <1>2, <1>3 DEF ReparseReset
<1>5. ~ReparseFails(d)
  BY FaultType DEF ReparseFails, Kept
<1> QED
  BY <1>1, <1>2, <1>3, <1>4, <1>5, DocChange DEF Owed

\* Every step keeps the parse and the posting of a document apart.
LEMMA NextSeeding == TypeInv /\ Seeding /\ [Next]_vars => Seeding'
<1> SUFFICES ASSUME TypeInv, Seeding, [Next]_vars, NEW d \in Docs,
                    posting'[d] # "no", status'[d] = "processing"
             PROVE  FALSE
  BY DEF Seeding
<1>0. /\ status \in [Docs -> {"processing", "finalizing", "completed", "deleting", "deleted"}]
      /\ posting \in [Docs -> {"no", "insert", "trigger", "reset"}]
  BY DEF TypeInv, DocsTyped
<1>1. ~ReparseReset(d) /\ ~Reparse(d)
  BY <1>0 DEF ReparseReset, Reparse
<1>2. ~PostSeed(d)
  BY <1>0 DEF PostSeed
<1>3. status[d] = "processing" /\ posting[d] # "no"
  BY <1>1, <1>2, DocChange
<1> QED
  BY <1>3 DEF Seeding

\* Every step leaves a document with one ingest row.
LEMMA NextRowDocs ==
  TypeInv /\ Deleting /\ Seeding /\ RowIds /\ RowDocs /\ [Next]_vars => RowDocs'
<1> SUFFICES ASSUME TypeInv, Deleting, Seeding, RowIds, RowDocs, [Next]_vars PROVE RowDocs'
  OBVIOUS
<1>0. /\ status \in [Docs -> {"processing", "finalizing", "completed", "deleting", "deleted"}]
      /\ posting \in [Docs -> {"no", "insert", "trigger", "reset"}]
      /\ rows \subseteq Row /\ rows' \subseteq Row
      /\ \A r \in rows : r.doc \in Docs
      /\ \A r \in rows' : r.doc \in Docs
  BY NextType DEF TypeInv, DocsTyped, QueueTyped, Row
<1>1. \A r, q \in rows' : r.op = "ingest" /\ q.op = "ingest" /\ r.doc = q.doc => r = q
  <2> SUFFICES ASSUME NEW r \in rows', NEW q \in rows',
                      r.op = "ingest", q.op = "ingest", r.doc = q.doc
               PROVE  r.id = q.id
    BY NextRowIds DEF RowIds
  <2>1. CASE r.id = nextId /\ q.id = nextId
    BY <2>1
  <2>2. ASSUME NEW a \in rows', NEW b \in rows, PostInsert(a.doc), b.op = "ingest", b.doc = a.doc
        PROVE  FALSE
    BY <2>2 DEF RowDocs, PostInsert
  <2>3. CASE \E a \in rows : a.id = r.id /\ a.op = r.op /\ a.doc = r.doc
    <3>1. PICK a \in rows : a.id = r.id /\ a.op = r.op /\ a.doc = r.doc
      BY <2>3
    <3>2. PICK b \in rows : b.id = q.id /\ b.op = q.op /\ b.doc = q.doc
      BY <2>2, <3>1, RowOrigin
    <3> QED
      BY <3>1, <3>2 DEF RowDocs
  <2>4. CASE r.id = nextId /\ PostInsert(r.doc)
    <3>1. q.id = nextId
      BY <2>2, <2>4, RowOrigin
    <3> QED
      BY <2>4, <3>1
  <2> QED
    BY <2>3, <2>4, RowOrigin
<1>2. ASSUME NEW r \in rows', r.op = "ingest"
      PROVE  status'[r.doc] # "processing" /\ posting'[r.doc] \notin {"insert", "reset"}
  <2>1. CASE \E q \in rows : q.id = r.id /\ q.op = r.op /\ q.doc = r.doc
    <3>1. status[r.doc] # "processing" /\ posting[r.doc] \notin {"insert", "reset"}
      BY <1>2, <2>1 DEF RowDocs
    <3>2. ~PostSeed(r.doc)
      BY <3>1 DEF PostSeed
    <3>4. ~ReparseReset(r.doc)
      BY <3>1 DEF ReparseReset
    <3>3. ~Reparse(r.doc)
      <4>1. ASSUME Reparse(r.doc) PROVE r \in rows /\ (r.doc # r.doc \/ r.op # "ingest")
        BY <4>1 DEF Reparse, Scrub
      <4> QED
        BY <1>2, <4>1
    <3> QED
      BY <1>0, <3>1, <3>2, <3>3, <3>4, DocChange
  <2>2. CASE PostInsert(r.doc)
    <3>1. status'[r.doc] = status[r.doc] /\ posting'[r.doc] = "trigger" /\ posting[r.doc] = "insert"
      BY <1>0, <2>2 DEF PostInsert
    <3> QED
      BY <1>0, <3>1 DEF Seeding
  <2> QED
    BY <1>2, <2>1, <2>2, RowOrigin
<1>3. ASSUME NEW r \in rows', r.op = "retract" PROVE Gone(r.doc)'
  <2>1. CASE \E q \in rows : q.id = r.id /\ q.op = r.op /\ q.doc = r.doc
    BY <1>0, <1>3, <2>1, GoneStays DEF RowDocs
  <2>2. CASE DeleteInsert(r.doc)
    <3>1. del[r.doc].pc # "no"
      BY <2>2 DEF DeleteInsert
    <3> QED
      BY <1>0, <3>1, GoneStays DEF Deleting
  <2> QED
    BY <1>3, <2>1, <2>2, RowOrigin
<1> QED
  BY <1>1, <1>2, <1>3 DEF RowDocs

\* A batch comes to hold nothing but rows of the table.
LEMMA HeldChange ==
  ASSUME TypeInv, [Next]_vars, NEW w \in Workers
  PROVE  /\ Held(w)' \subseteq Held(w) \union rows
         /\ batch'[w].peeked \subseteq batch[w].peeked \union {r.id : r \in rows}
<1> DEFINE Goal ==
         /\ Held(w)' \subseteq Held(w) \union rows
         /\ batch'[w].peeked \subseteq batch[w].peeked \union {r.id : r \in rows}
<1>1. CASE batch'[w] = batch[w]
  BY <1>1 DEF Held
<1>2. ASSUME NEW v \in Workers, Changes(v), v # w PROVE batch'[w] = batch[w]
  BY <1>2 DEF Changes
<1>3. CASE batch'[w] = NoBatch
  BY <1>3 DEF NoBatch, Held
<1>4. ASSUME NEW v \in Workers, batch' = [batch EXCEPT ![v] = NoBatch] PROVE Goal
  <2>1. batch'[v] = NoBatch
    BY <1>4 DEF TypeInv, BatchTyped
  <2> QED
    BY <1>1, <1>2, <1>3, <1>4, <2>1, LeaveChanges
<1>5. ASSUME NEW v \in Workers, BatchStep(v) PROVE Goal
  <2>1. CASE Peek(v)
    <3>1. CASE rows = {}
      BY <1>1, <2>1, <3>1 DEF Peek
    <3>2. CASE rows # {} /\ v # w
      BY <1>1, <1>2, <2>1, <3>2, PeekChanges
    <3>3. CASE rows # {} /\ v = w
      <4>1. /\ batch'[w].ops \subseteq rows /\ batch'[w].failed = batch[w].failed
            /\ batch'[w].peeked \subseteq {r.id : r \in rows}
        <5>1. Oldest \subseteq rows /\ LastPerDoc(Oldest) \subseteq rows
          BY DEF LastPerDoc, Oldest
        <5> QED
          BY <2>1, <3>3, <5>1, PeekChanges
      <4> QED
        BY <4>1 DEF Held
    <3> QED
      BY <3>1, <3>2, <3>3
  <2>2. ASSUME NEW r \in batch[v].ops,
               \/ MapRetract(v, r) \/ MapSkip(v, r) \/ MapFails(v, r)
               \/ \E slugs \in SUBSET Slugs : MapDoc(v, r, slugs)
        PROVE  Goal
    <3>1. /\ Changes(v) /\ batch'[v].ops = batch[v].ops \ {r}
          /\ batch'[v].peeked = batch[v].peeked
          /\ batch'[v].failed \subseteq batch[v].failed \union {r}
      <4>1. CASE MapRetract(v, r) \/ MapSkip(v, r)
        BY <4>1, MapRetractChanges, MapSkipChanges
      <4>2. CASE MapFails(v, r) \/ \E slugs \in SUBSET Slugs : MapDoc(v, r, slugs)
        BY <4>2, MapFailsChanges, MapDocChanges
      <4> QED
        BY <2>2, <4>1, <4>2
    <3>2. CASE v = w
      BY <3>1, <3>2 DEF Held
    <3> QED
      BY <1>1, <1>2, <3>1, <3>2
  <2>3. ASSUME Changes(v), batch'[v].peeked = batch[v].peeked,
               batch'[v].ops \subseteq batch[v].ops \union batch[v].failed,
               batch'[v].failed \subseteq batch[v].failed
        PROVE  Goal
    <3>1. CASE v = w
      BY <2>3, <3>1 DEF Held
    <3> QED
      BY <1>1, <1>2, <2>3, <3>1
  <2>4. CASE \E s \in Slugs : ReduceRead(v, s) \/ ReduceWrite(v, s)
    BY <2>3, <2>4, ReduceChanges
  <2>5. CASE (\E d \in batch[v].done : FinalizeDone(v, d)) \/ (\E f \in batch[v].failed : RequeueStep(v, f))
    BY <2>3, <2>5, FinalizeChanges, RequeueChanges, GiveUpChanges, DropChanges DEF RequeueStep
  <2>6. CASE Trim(v) \/ FollowUp(v)
    BY <1>1, <2>6 DEF Trim, FollowUp
  <2>7. CASE Release(v)
    BY <1>4, <2>7 DEF Release, Leave
  <2> QED
    BY <1>5, <2>1, <2>2, <2>4, <2>5, <2>6, <2>7 DEF BatchStep, MapStep
<1>6. ASSUME NEW v \in Workers, Acquire(v) \/ BatchFault(v) PROVE Goal
  <2>1. CASE SetupFails(v) \/ Crash(v)
    BY <1>4, <2>1 DEF SetupFails, Crash, Leave
  <2>2. CASE \E s \in Slugs : ReduceFails(v, s)
    <3>1. /\ Changes(v) /\ batch'[v].ops = batch[v].ops
          /\ batch'[v].peeked = batch[v].peeked /\ batch'[v].failed = batch[v].failed
      BY <2>2, ReduceChanges
    <3>2. CASE v = w
      BY <3>1, <3>2 DEF Held
    <3> QED
      BY <1>1, <1>2, <3>1, <3>2
  <2> QED
    BY <1>1, <1>6, <2>1, <2>2 DEF BatchFault, Acquire, AcquireBlind, PeekFails
<1>7. ASSUME \/ Superfluous \/ Exhausted \/ Expire \/ UNCHANGED vars
             \/ \E d \in Docs : PostStep(d) \/ Reparse(d) \/ DeleteMark(d) \/ DeleteStep(d)
      PROVE  batch'[w] = batch[w]
  BY <1>7 DEF Superfluous, Exhausted, Expire, vars, runVars, PostStep, PostSeed, PostInsert,
              PostTrigger, ReparseReset, ReparseFails, Reparse, DeleteMark, DeleteStep, DeleteScrub, DeleteList, DeletePage,
              DeleteInsert, DeleteTrigger
<1> QED
  BY <1>1, <1>5, <1>6, <1>7 DEF Next

\* Every step keeps what the batches hold in line with the table.
LEMMA NextHeldRows == TypeInv /\ RowIds /\ HeldRows /\ [Next]_vars => HeldRows'
<1> SUFFICES ASSUME TypeInv, RowIds, HeldRows, [Next]_vars, NEW w \in Workers
             PROVE  /\ \A q \in Held(w)' :
                           q.id < nextId' /\ \A r \in rows' : r.id = q.id => r.op = q.op /\ r.doc = q.doc
                    /\ \A i \in batch'[w].peeked : i < nextId'
  BY DEF HeldRows
<1>0. nextId \in Nat /\ nextId' \in Nat /\ nextId <= nextId' /\ rows \subseteq Row
  BY NextType, RowOrigin DEF TypeInv, QueueTyped
<1>1. batch[w].ops \subseteq Row /\ batch[w].failed \subseteq Row /\ batch[w].peeked \subseteq Nat
  BY BatchFields
<1>2. ASSUME NEW q \in Held(w)'
      PROVE  q.id < nextId' /\ \A r \in rows' : r.id = q.id => r.op = q.op /\ r.doc = q.doc
  <2>1. q \in Held(w) \union rows
    BY HeldChange
  <2>2. q.id \in Nat /\ q.id < nextId
    <3>1. q \in Row
      BY <1>0, <1>1, <2>1 DEF Held
    <3> QED
      BY <2>1, <3>1 DEF HeldRows, RowIds, Row
  <2>3. \A r \in rows : r.id = q.id => r.op = q.op /\ r.doc = q.doc
    BY <2>1 DEF HeldRows, RowIds
  <2>4. ASSUME NEW r \in rows', r.id = q.id PROVE r.op = q.op /\ r.doc = q.doc
    <3>1. r.id # nextId
      BY <1>0, <2>2, <2>4
    <3>2. PICK p \in rows : p.id = r.id /\ p.op = r.op /\ p.doc = r.doc
      BY <3>1, RowOrigin
    <3> QED
      BY <2>3, <2>4, <3>2
  <2> QED
    BY <1>0, <2>2, <2>4
<1>3. ASSUME NEW i \in batch'[w].peeked PROVE i < nextId'
  <2>1. i \in batch[w].peeked \/ \E r \in rows : i = r.id
    BY HeldChange
  <2>2. i \in Nat /\ i < nextId
    BY <1>0, <1>1, <2>1 DEF HeldRows, RowIds, Row
  <2> QED
    BY <1>0, <2>2
<1> QED
  BY <1>2, <1>3

\* The row of a slot that stays owed stays in the table: nobody scrubs it, no batch
\* trims it, and a batch that drops it has released the slot.
LEMMA KeepRow ==
  ASSUME TypeInv, Deleting, RowIds, RowDocs, HeldRows, Backed, Released, [Next]_vars,
         Kept, NEW d \in Docs, Owed(d), Owed(d)',
         NEW r \in rows, r.op = "ingest", r.doc = d
  PROVE  \E q \in rows' : q.id = r.id /\ q.op = "ingest" /\ q.doc = d
<1>0. /\ rows \subseteq Row /\ owed \in [Docs -> {0, 1}]
      /\ owed'[d] = 1 /\ ~Gone(d)
  BY DEF TypeInv, DocsTyped, QueueTyped, Owed
<1>1. CASE r \in rows'
  BY <1>1
<1>2. ASSUME NEW e \in Docs, Finalize(e) PROVE e # d
  BY <1>0, <1>2 DEF Finalize
<1>3. ASSUME NEW e \in Docs, (Reparse(e) \/ DeleteScrub(e)) /\ Scrub(e) PROVE r \in rows'
  <2>1. ~Reparse(d)
    <3>1. posting \in [Docs -> {"no", "insert", "trigger", "reset"}]
      BY DEF TypeInv, DocsTyped
    <3> QED
      BY <3>1 DEF Reparse, Owed
  <2>2. ~DeleteScrub(d)
    <3>1. ASSUME DeleteScrub(d) PROVE Gone(d)
      BY <3>1 DEF DeleteScrub, Deleting
    <3> QED
      BY <1>0, <3>1
  <2>3. e # d
    BY <1>3, <2>1, <2>2
  <2> QED
    BY <1>3, <2>3 DEF Scrub
<1>4. ASSUME NEW w \in Workers, Trim(w),
             rows' = {q \in rows : q.id \in batch[w].peeked => q.id \in {f.id : f \in batch[w].failed}}
      PROVE  r \in rows'
  <2>1. pc[w] = "work" /\ batch[w].ops = {} /\ batch[w].done = {}
    BY <1>4 DEF Trim, Reduced, Reducing
  <2>2. PICK q \in rows : /\ q.op = "ingest" /\ q.doc = d
                          /\ q.id \notin batch[w].peeked \/ \E f \in Held(w) : f.id = q.id
    BY <2>1 DEF Backed, Survives
  <2>3. q = r
    BY <2>2 DEF RowDocs
  <2>4. r.id \in batch[w].peeked => r.id \in {f.id : f \in batch[w].failed}
    BY <2>1, <2>2, <2>3 DEF Held
  <2> QED
    BY <1>4, <2>4
<1>5. ASSUME NEW w \in Workers, NEW f \in batch[w].failed,
             rows' = {q \in rows : q.id # f.id}, Drop(w, f)
      PROVE  r \in rows'
  <2>1. pc[w] = "requeue" /\ f \in batch[w].ops
    BY <1>5 DEF Drop
  <2>2. r.id # f.id
    BY <1>0, <2>1 DEF Released, Owed
  <2> QED
    BY <1>5, <2>2
<1>6. ASSUME NEW f, rows' = Bumped(f)
      PROVE  \E q \in rows' : q.id = r.id /\ q.op = "ingest" /\ q.doc = d
  <2> DEFINE new == IF r.id = f.id THEN [r EXCEPT !.fails = @ + 1] ELSE r
  <2>1. new \in rows'
    BY <1>6 DEF Bumped
  <2>2. new.id = r.id /\ new.op = r.op /\ new.doc = r.doc
    BY <1>0 DEF Row
  <2> QED
    BY <2>1, <2>2
<1>7. CASE UNCHANGED queueVars
  BY <1>7 DEF queueVars
<1>8. CASE \E op, e, slugs : Insert(op, e, slugs)
  BY <1>8 DEF Insert
<1>9. CASE \E e \in Docs : (Reparse(e) \/ DeleteScrub(e)) /\ Scrub(e)
  BY <1>1, <1>3, <1>9
<1>10. CASE \E w \in Workers : \E f \in batch[w].failed :
                \/ rows' = Bumped(f)
                \/ rows' = {q \in rows : q.id # f.id} /\ Drop(w, f)
  BY <1>1, <1>5, <1>6, <1>10
<1> QED
  BY <1>1, <1>4, <1>7, <1>8, <1>9, <1>10, RowsChange

SlotInv ==
    Deleting /\ Seeding /\ RowIds /\ RowDocs /\ HeldRows /\ SlotBacked /\ Backed /\ Released

\* Every step keeps the row of an owed slot in the table.
LEMMA NextSlotBacked == TypeInv /\ SlotInv /\ [Next]_vars => SlotBacked'
<1> SUFFICES ASSUME TypeInv, SlotInv, [Next]_vars, Kept',
                    NEW d \in Docs, Owed(d)'
             PROVE  \E r \in rows' : r.doc = d /\ r.op = "ingest"
  BY DEF SlotBacked, Owed, Kept
<1>0. Kept
  BY FaultsGrow DEF Kept
<1>1. CASE Owed(d)
  <2>1. PICK r \in rows : r.doc = d /\ r.op = "ingest"
    BY <1>0, <1>1 DEF SlotInv, SlotBacked, Owed, Kept
  <2>2. \E q \in rows' : q.id = r.id /\ q.op = "ingest" /\ q.doc = d
    BY <1>0, <1>1, <2>1, KeepRow DEF SlotInv
  <2> QED
    BY <2>2
<1>2. CASE PostInsert(d)
  <2>1. Insert("ingest", d, {})
    BY <1>2, FaultType DEF PostInsert, Kept
  <2>2. [id |-> nextId, op |-> "ingest", doc |-> d, slugs |-> {}, fails |-> 0] \in rows'
    BY <2>1 DEF Insert
  <2> QED
    BY <2>2
<1> QED
  BY <1>1, <1>2, OwedBefore

\* A batch that has peeked holds the row of every owed slot it peeked at: the last
\* row of the document is its ingest.
LEMMA PeekSurvives ==
  ASSUME TypeInv, SlotInv, [Next]_vars, Kept,
         NEW w \in Workers, Peek(w), rows # {}, NEW d \in Docs, Owed(d)
  PROVE  Survives(w, d)'
<1>0. /\ batch'[w].ops = LastPerDoc(Oldest) /\ batch'[w].peeked = {q.id : q \in Oldest}
      /\ rows' = rows /\ rows \subseteq Row /\ Oldest \subseteq rows
  <2>1. Oldest \subseteq rows
    BY DEF Oldest
  <2> QED
    BY <2>1, PeekChanges DEF Peek, queueVars, TypeInv, QueueTyped
<1>1. PICK r \in rows : r.doc = d /\ r.op = "ingest"
  BY DEF SlotInv, SlotBacked, Owed, Kept
<1>2. CASE r \notin Oldest
  <2>1. r.id \notin batch'[w].peeked
    BY <1>0, <1>2 DEF SlotInv, RowIds
  <2> QED
    BY <1>0, <1>1, <2>1 DEF Survives
<1>3. CASE r \in Oldest
  <2>1. ASSUME NEW q \in Oldest, q.doc = d PROVE q = r
    <3>1. q.op \in {"ingest", "retract"} /\ q \in rows
      BY <1>0 DEF Row
    <3>2. q.op # "retract"
      BY <2>1, <3>1 DEF SlotInv, RowDocs, Owed
    <3> QED
      BY <1>1, <2>1, <3>1, <3>2 DEF SlotInv, RowDocs
  <2>2. r.id \in Nat
    BY <1>0 DEF Row
  <2>3. r \in LastPerDoc(Oldest)
    BY <1>1, <1>3, <2>1, <2>2 DEF LastPerDoc
  <2>4. r \in Held(w)'
    BY <1>0, <2>3 DEF Held
  <2> QED
    BY <1>0, <1>1, <2>4 DEF Survives
<1> QED
  BY <1>2, <1>3

\* A batch that maps an operation still holds its row, has the document among its
\* results, or has released the slot.
LEMMA MapSurvives ==
  ASSUME TypeInv, SlotInv, NEW w \in Workers, NEW m \in batch[w].ops,
         \/ MapRetract(w, m) \/ MapSkip(w, m) \/ MapFails(w, m)
         \/ \E slugs \in SUBSET Slugs : MapDoc(w, m, slugs),
         NEW d \in Docs, Owed(d)', Survives(w, d)
  PROVE  Survives(w, d)'
<1>0. /\ rows' = rows /\ batch'[w].peeked = batch[w].peeked
      /\ batch'[w].ops = batch[w].ops \ {m}
      /\ batch[w].done \subseteq batch'[w].done
      /\ batch[w].failed \subseteq batch'[w].failed
  <2>1. rows' = rows
    BY DEF MapRetract, MapSkip, MapFails, MapDoc, queueVars
  <2>2. CASE MapRetract(w, m) \/ MapSkip(w, m)
    BY <2>1, <2>2, MapRetractChanges, MapSkipChanges
  <2>3. CASE MapFails(w, m) \/ \E slugs \in SUBSET Slugs : MapDoc(w, m, slugs)
    BY <2>1, <2>3, MapFailsChanges, MapDocChanges
  <2> QED
    BY <2>2, <2>3
<1>1. CASE d \in batch[w].done
  BY <1>0, <1>1 DEF Survives
<1>2. ASSUME NEW r \in rows, r.op = "ingest", r.doc = d,
             r.id \notin batch[w].peeked \/ \E q \in Held(w) : q.id = r.id
      PROVE  Survives(w, d)'
  <2>1. CASE r.id \notin batch[w].peeked
    BY <1>0, <1>2, <2>1 DEF Survives
  <2>2. CASE \E q \in Held(w) : q.id = r.id /\ (q # m \/ q \in batch[w].failed)
    <3>1. \E q \in Held(w)' : q.id = r.id
      BY <1>0, <2>2 DEF Held
    <3> QED
      BY <1>0, <1>2, <3>1 DEF Survives
  <2>3. CASE m.id = r.id
    <3>1. m.op = "ingest" /\ m.doc = d
      <4>1. m \in Held(w)
        BY DEF Held
      <4> QED
        BY <1>2, <2>3, <4>1 DEF SlotInv, HeldRows
    <3>2. ~MapRetract(w, m)
      BY <3>1 DEF MapRetract
    <3>3. ~MapSkip(w, m)
      <4>1. ASSUME Finalize(d) PROVE owed'[d] = 0
        BY <4>1 DEF Finalize, TypeInv, DocsTyped
      <4> QED
        BY <3>1, <4>1 DEF MapSkip, Owed
    <3>4. CASE MapFails(w, m)
      <4>1. m \in Held(w)'
        BY <3>4, MapFailsChanges DEF Held
      <4> QED
        BY <1>0, <1>2, <2>3, <4>1 DEF Survives
    <3>5. ASSUME NEW slugs \in SUBSET Slugs, MapDoc(w, m, slugs) PROVE Survives(w, d)'
      <4>1. d \in batch'[w].done
        BY <3>1, <3>5, MapDocChanges
      <4> QED
        BY <4>1 DEF Survives
    <3> QED
      BY <3>2, <3>3, <3>4, <3>5
  <2> QED
    BY <1>2, <2>1, <2>2, <2>3
<1> QED
  BY <1>1, <1>2 DEF Survives

\* A batch that stays as it is keeps what it has: the row is only rewritten.
LEMMA StillSurvives ==
  ASSUME TypeInv, SlotInv, [Next]_vars, Kept, NEW w \in Workers,
         batch'[w] = batch[w], NEW d \in Docs, Owed(d), Owed(d)', Survives(w, d)
  PROVE  Survives(w, d)'
<1>1. CASE d \in batch[w].done
  BY <1>1 DEF Survives
<1>2. ASSUME NEW r \in rows, r.op = "ingest", r.doc = d,
             r.id \notin batch[w].peeked \/ \E q \in Held(w) : q.id = r.id
      PROVE  Survives(w, d)'
  <2>1. PICK q \in rows' : q.id = r.id /\ q.op = "ingest" /\ q.doc = d
    BY <1>2, KeepRow DEF SlotInv
  <2>2. Held(w)' = Held(w)
    BY DEF Held
  <2> QED
    BY <1>2, <2>1, <2>2 DEF Survives
<1> QED
  BY <1>1, <1>2 DEF Survives

\* What a batch is at when it is at work after a step.
LEMMA WorkStep ==
  ASSUME TypeInv, [Next]_vars, NEW w \in Workers, pc'[w] = "work"
  PROVE  \/ pc[w] = "work" /\ batch'[w] = batch[w]
         \/ Peek(w) /\ rows # {}
         \/ \E m \in batch[w].ops :
                \/ MapRetract(w, m) \/ MapSkip(w, m) \/ MapFails(w, m)
                \/ \E slugs \in SUBSET Slugs : MapDoc(w, m, slugs)
         \/ \E s \in Slugs : ReduceRead(w, s) \/ ReduceWrite(w, s) \/ ReduceFails(w, s)
         \/ \E e \in batch[w].done : FinalizeDone(w, e)
<1>0. /\ pc \in [Workers -> {"idle", "begun", "work", "requeue", "release"}]
      /\ batch \in [Workers -> Batch]
  BY DEF TypeInv, PcTyped, BatchTyped
<1>1. ASSUME NEW v \in Workers, v # w, BatchStep(v) \/ BatchFault(v) \/ Acquire(v)
      PROVE  pc[w] = "work" /\ batch'[w] = batch[w]
  <2>1. ASSUME Changes(v) PROVE batch'[w] = batch[w]
    BY <1>1, <2>1 DEF Changes
  <2>2. ASSUME NEW next, pc' = pc \/ pc' = [pc EXCEPT ![v] = next] PROVE pc[w] = "work"
    BY <1>0, <1>1, <2>2
  <2>3. CASE Peek(v)
    BY <2>1, <2>2, <2>3, PeekChanges DEF Peek
  <2>4. CASE MapStep(v)
    <3>1. PICK m \in batch[v].ops :
              \/ MapRetract(v, m) \/ MapSkip(v, m) \/ MapFails(v, m)
              \/ \E slugs \in SUBSET Slugs : MapDoc(v, m, slugs)
      BY <2>4 DEF MapStep
    <3>2. Changes(v)
      BY <3>1, MapRetractChanges, MapSkipChanges, MapFailsChanges, MapDocChanges
    <3>3. pc' = pc
      BY <3>1 DEF MapRetract, MapSkip, MapFails, MapDoc
    <3> QED
      BY <2>1, <2>2, <3>2, <3>3
  <2>5. CASE \E s \in Slugs : ReduceRead(v, s) \/ ReduceWrite(v, s) \/ ReduceFails(v, s)
    BY <2>1, <2>2, <2>5, ReduceChanges DEF ReduceRead, ReduceWrite, ReduceFails
  <2>6. CASE (\E e \in batch[v].done : FinalizeDone(v, e)) \/ (\E f \in batch[v].failed : RequeueStep(v, f))
    BY <2>1, <2>2, <2>6, FinalizeChanges, RequeueChanges, GiveUpChanges, DropChanges
    DEF FinalizeDone, RequeueStep, Requeue, GiveUp, Drop
  <2>7. CASE Trim(v) \/ FollowUp(v) \/ PeekFails(v) \/ Acquire(v) \/ AcquireBlind(v)
    BY <2>2, <2>7 DEF Trim, FollowUp, PeekFails, Acquire, AcquireBlind
  <2>8. CASE Release(v) \/ SetupFails(v) \/ Crash(v)
    BY <2>1, <2>2, <2>8, LeaveChanges DEF Release, SetupFails, Crash, Leave
  <2> QED
    BY <1>1, <2>3, <2>4, <2>5, <2>6, <2>7, <2>8 DEF BatchStep, BatchFault
<1>2. ASSUME BatchStep(w) \/ BatchFault(w) \/ Acquire(w)
      PROVE  \/ Peek(w) /\ rows # {}
             \/ MapStep(w)
             \/ \E s \in Slugs : ReduceRead(w, s) \/ ReduceWrite(w, s) \/ ReduceFails(w, s)
             \/ \E e \in batch[w].done : FinalizeDone(w, e)
  <2>1. ASSUME NEW next, next # "work", pc' = [pc EXCEPT ![w] = next] PROVE FALSE
    BY <1>0, <2>1
  <2>2. ~(Release(w) \/ SetupFails(w) \/ Crash(w) \/ PeekFails(w))
    BY <2>1 DEF Release, Leave, SetupFails, Crash, PeekFails
  <2>3. ~(Trim(w) \/ FollowUp(w) \/ Acquire(w) \/ AcquireBlind(w))
    BY <2>1 DEF Trim, FollowUp, Acquire, AcquireBlind
  <2>4. ~(Peek(w) /\ rows = {})
    BY <2>1 DEF Peek
  <2>5. ~(\E f \in batch[w].failed : RequeueStep(w, f))
    BY <1>0 DEF RequeueStep, Requeue, Requeuing, GiveUp, Drop
  <2> QED
    BY <1>2, <2>2, <2>3, <2>4, <2>5 DEF BatchStep, BatchFault
<1>3. ASSUME \/ Superfluous \/ Exhausted \/ Expire \/ UNCHANGED vars
             \/ \E e \in Docs : PostStep(e) \/ Reparse(e) \/ DeleteMark(e) \/ DeleteStep(e)
      PROVE  UNCHANGED <<pc, batch>>
  BY <1>3 DEF Superfluous, Exhausted, Expire, vars, runVars, PostStep, PostSeed, PostInsert,
              PostTrigger, ReparseReset, ReparseFails, Reparse, DeleteMark, DeleteStep, DeleteScrub, DeleteList, DeletePage,
              DeleteInsert, DeleteTrigger
<1> QED
  BY <1>1, <1>2, <1>3 DEF Next, MapStep

\* Every step leaves the row of an owed slot out of reach of a Trim.
LEMMA NextBacked == TypeInv /\ SlotInv /\ [Next]_vars => Backed'
<1> SUFFICES ASSUME TypeInv, SlotInv, [Next]_vars, Kept',
                    NEW w \in Workers, pc'[w] = "work", NEW d \in Docs, Owed(d)'
             PROVE  Survives(w, d)'
  BY DEF Backed
<1>0. /\ Kept
      /\ pc \in [Workers -> {"idle", "begun", "work", "requeue", "release"}]
      /\ owed \in [Docs -> {0, 1}] /\ batch \in [Workers -> Batch]
  BY FaultsGrow DEF TypeInv, PcTyped, DocsTyped, BatchTyped, Kept
<1>1. CASE PostInsert(d)
  <2>1. Insert("ingest", d, {}) /\ batch'[w] = batch[w]
    BY <1>1, FaultType DEF PostInsert, runVars, Kept
  <2> DEFINE new == [id |-> nextId, op |-> "ingest", doc |-> d, slugs |-> {}, fails |-> 0]
  <2>2. new \in rows' /\ new.id = nextId /\ new.op = "ingest" /\ new.doc = d
    BY <2>1 DEF Insert
  <2> HIDE DEF new
  <2>3. nextId \notin batch'[w].peeked
    <3>1. nextId \in Nat
      BY DEF TypeInv, QueueTyped
    <3>2. \A i \in batch[w].peeked : i < nextId
      BY DEF SlotInv, HeldRows
    <3> QED
      BY <2>1, <3>1, <3>2
  <2> QED
    BY <2>2, <2>3 DEF Survives
<1>2. CASE Owed(d) /\ pc[w] = "work" /\ batch'[w] = batch[w]
  <2>1. Survives(w, d)
    BY <1>0, <1>2 DEF SlotInv, Backed
  <2> QED
    BY <1>0, <1>2, <2>1, StillSurvives
<1>3. CASE Owed(d) /\ Peek(w) /\ rows # {}
  BY <1>0, <1>3, PeekSurvives
<1>4. ASSUME Owed(d), NEW m \in batch[w].ops,
             \/ MapRetract(w, m) \/ MapSkip(w, m) \/ MapFails(w, m)
             \/ \E slugs \in SUBSET Slugs : MapDoc(w, m, slugs)
      PROVE  Survives(w, d)'
  <2>1. pc[w] = "work"
    BY <1>4 DEF MapRetract, MapSkip, MapFails, MapDoc, Mapping
  <2>2. Survives(w, d)
    BY <1>0, <1>4, <2>1 DEF SlotInv, Backed
  <2> QED
    BY <1>4, <2>2, MapSurvives
<1>5. ASSUME Owed(d), NEW s \in Slugs, ReduceRead(w, s) \/ ReduceWrite(w, s) \/ ReduceFails(w, s)
      PROVE  Survives(w, d)'
  <2>1. /\ pc[w] = "work" /\ rows' = rows
        /\ batch'[w].ops = batch[w].ops /\ batch'[w].peeked = batch[w].peeked
        /\ batch'[w].failed = batch[w].failed /\ batch'[w].done = batch[w].done
    BY <1>5, ReduceChanges DEF ReduceRead, ReduceWrite, ReduceFails, Reducing, queueVars
  <2>2. Survives(w, d)
    BY <1>0, <1>5, <2>1 DEF SlotInv, Backed
  <2> QED
    BY <2>1, <2>2 DEF Survives, Held
<1>6. ASSUME Owed(d), NEW e \in batch[w].done, FinalizeDone(w, e) PROVE Survives(w, d)'
  <2>1. /\ pc[w] = "work" /\ rows' = rows /\ e \in Docs
        /\ batch'[w].ops = batch[w].ops /\ batch'[w].peeked = batch[w].peeked
        /\ batch'[w].failed = batch[w].failed /\ batch'[w].done = batch[w].done \ {e}
    BY <1>6, FinalizeChanges, BatchFields DEF FinalizeDone, Reduced, Reducing, queueVars
  <2>2. e # d
    BY <1>0, <1>6 DEF FinalizeDone, Finalize, Owed
  <2>3. Survives(w, d)
    BY <1>0, <1>6, <2>1 DEF SlotInv, Backed
  <2> QED
    BY <2>1, <2>2, <2>3 DEF Survives, Held
<1>7. CASE Owed(d)
  BY <1>2, <1>3, <1>4, <1>5, <1>6, <1>7, WorkStep
<1> QED
  BY <1>1, <1>7, OwedBefore

\* What a batch has in hand when it is requeuing after a step.
LEMMA RequeuingStep ==
  ASSUME TypeInv, [Next]_vars, NEW w \in Workers, pc'[w] = "requeue"
  PROVE  \/ pc[w] = "requeue" /\ batch'[w] = batch[w]
         \/ batch'[w].ops = {}
         \/ \E f \in batch[w].failed : GiveUp(w, f) /\ batch'[w].ops = {f}
<1>0. pc \in [Workers -> {"idle", "begun", "work", "requeue", "release"}]
  BY DEF TypeInv, PcTyped
<1>1. ASSUME NEW v \in Workers, v # w, BatchStep(v) \/ BatchFault(v) \/ Acquire(v)
      PROVE  pc[w] = "requeue" /\ batch'[w] = batch[w]
  <2>1. ASSUME Changes(v) PROVE batch'[w] = batch[w]
    BY <1>1, <2>1 DEF Changes
  <2>2. ASSUME NEW next, pc' = pc \/ pc' = [pc EXCEPT ![v] = next] PROVE pc[w] = "requeue"
    BY <1>0, <1>1, <2>2
  <2>3. CASE Peek(v)
    BY <2>1, <2>2, <2>3, PeekChanges DEF Peek
  <2>4. CASE MapStep(v)
    <3>1. PICK m \in batch[v].ops :
              \/ MapRetract(v, m) \/ MapSkip(v, m) \/ MapFails(v, m)
              \/ \E slugs \in SUBSET Slugs : MapDoc(v, m, slugs)
      BY <2>4 DEF MapStep
    <3>2. Changes(v)
      BY <3>1, MapRetractChanges, MapSkipChanges, MapFailsChanges, MapDocChanges
    <3>3. pc' = pc
      BY <3>1 DEF MapRetract, MapSkip, MapFails, MapDoc
    <3> QED
      BY <2>1, <2>2, <3>2, <3>3
  <2>5. CASE \E s \in Slugs : ReduceRead(v, s) \/ ReduceWrite(v, s) \/ ReduceFails(v, s)
    BY <2>1, <2>2, <2>5, ReduceChanges DEF ReduceRead, ReduceWrite, ReduceFails
  <2>6. CASE (\E e \in batch[v].done : FinalizeDone(v, e)) \/ (\E f \in batch[v].failed : RequeueStep(v, f))
    BY <2>1, <2>2, <2>6, FinalizeChanges, RequeueChanges, GiveUpChanges, DropChanges
    DEF FinalizeDone, RequeueStep, Requeue, GiveUp, Drop
  <2>7. CASE Trim(v) \/ FollowUp(v) \/ PeekFails(v) \/ Acquire(v) \/ AcquireBlind(v)
    BY <2>2, <2>7 DEF Trim, FollowUp, PeekFails, Acquire, AcquireBlind
  <2>8. CASE Release(v) \/ SetupFails(v) \/ Crash(v)
    BY <2>1, <2>2, <2>8, LeaveChanges DEF Release, SetupFails, Crash, Leave
  <2> QED
    BY <1>1, <2>3, <2>4, <2>5, <2>6, <2>7, <2>8 DEF BatchStep, BatchFault
<1>2. ASSUME BatchStep(w) \/ BatchFault(w) \/ Acquire(w)
      PROVE  \/ batch'[w].ops = {}
             \/ \E f \in batch[w].failed : GiveUp(w, f) /\ batch'[w].ops = {f}
  <2>1. ASSUME NEW next, next # "requeue", pc' = [pc EXCEPT ![w] = next] PROVE FALSE
    BY <1>0, <2>1
  <2>2. ~(Release(w) \/ SetupFails(w) \/ Crash(w) \/ PeekFails(w) \/ Peek(w))
    BY <2>1 DEF Release, Leave, SetupFails, Crash, PeekFails, Peek
  <2>3. ~(FollowUp(w) \/ Acquire(w) \/ AcquireBlind(w))
    BY <2>1 DEF FollowUp, Acquire, AcquireBlind
  <2>4. ~(\/ MapStep(w)
          \/ \E s \in Slugs : ReduceRead(w, s) \/ ReduceWrite(w, s) \/ ReduceFails(w, s)
          \/ \E e \in batch[w].done : FinalizeDone(w, e))
    BY DEF MapStep, MapRetract, MapSkip, MapFails, MapDoc, Mapping, ReduceRead, ReduceWrite,
           ReduceFails, FinalizeDone, Reduced, Reducing
  <2>5. CASE Trim(w)
    BY <2>5 DEF Trim, Reduced, Reducing
  <2>6. ASSUME NEW f \in batch[w].failed, RequeueStep(w, f)
        PROVE  batch'[w].ops = {} \/ (GiveUp(w, f) /\ batch'[w].ops = {f})
    BY <2>6, RequeueChanges, GiveUpChanges, DropChanges DEF RequeueStep, Requeue, Requeuing
  <2> QED
    BY <1>2, <2>2, <2>3, <2>4, <2>5, <2>6 DEF BatchStep, BatchFault
<1>3. ASSUME \/ Superfluous \/ Exhausted \/ Expire \/ UNCHANGED vars
             \/ \E e \in Docs : PostStep(e) \/ Reparse(e) \/ DeleteMark(e) \/ DeleteStep(e)
      PROVE  UNCHANGED <<pc, batch>>
  BY <1>3 DEF Superfluous, Exhausted, Expire, vars, runVars, PostStep, PostSeed, PostInsert,
              PostTrigger, ReparseReset, ReparseFails, Reparse, DeleteMark, DeleteStep, DeleteScrub, DeleteList, DeletePage,
              DeleteInsert, DeleteTrigger
<1> QED
  BY <1>1, <1>2, <1>3 DEF Next

\* Every step keeps the slot of a row that is about to be dropped released.
LEMMA NextReleased == TypeInv /\ SlotInv /\ [Next]_vars => Released'
<1> SUFFICES ASSUME TypeInv, SlotInv, [Next]_vars, NEW w \in Workers, pc'[w] = "requeue",
                    NEW f \in batch'[w].ops, NEW r \in rows', r.id = f.id, r.op = "ingest"
             PROVE  owed'[r.doc] = 0
  BY DEF Released
<1>0. /\ owed \in [Docs -> {0, 1}] /\ owed' \in [Docs -> {0, 1}]
      /\ nextId \in Nat /\ rows \subseteq Row /\ rows' \subseteq Row /\ r.doc \in Docs
      /\ batch[w].ops \subseteq Row /\ batch[w].failed \subseteq Row
  BY NextType, BatchFields DEF TypeInv, DocsTyped, QueueTyped, Row
<1>1. ASSUME f \in Held(w)
      PROVE  \E q \in rows : q.id = f.id /\ q.op = "ingest" /\ q.doc = r.doc /\ q.doc = f.doc
  <2>1. f.id \in Nat /\ f.id < nextId
    BY <1>0, <1>1 DEF SlotInv, HeldRows, Held, Row
  <2>2. PICK q \in rows : q.id = r.id /\ q.op = r.op /\ q.doc = r.doc
    BY <1>0, <2>1, RowOrigin
  <2> QED
    BY <1>1, <2>2 DEF SlotInv, HeldRows
<1>2. CASE pc[w] = "requeue" /\ batch'[w] = batch[w]
  <2>1. f \in Held(w)
    BY <1>2 DEF Held
  <2>2. PICK q \in rows : q.id = f.id /\ q.op = "ingest" /\ q.doc = r.doc
    BY <1>1, <2>1
  <2>3. owed[r.doc] = 0
    BY <1>2, <2>2 DEF SlotInv, Released
  <2>4. ~PostSeed(r.doc)
    BY <2>2 DEF SlotInv, RowDocs, PostSeed
  <2> QED
    BY <1>0, <2>3, <2>4, DocChange
<1>3. ASSUME NEW g \in batch[w].failed, GiveUp(w, g), batch'[w].ops = {g}
      PROVE  owed'[r.doc] = 0
  <2>1. f = g /\ f \in Held(w)
    BY <1>3 DEF Held
  <2>2. f.doc = r.doc
    BY <1>1, <2>1
  <2> QED
    BY <1>0, <1>3, <2>1, <2>2 DEF GiveUp, Finalize
<1> QED
  BY <1>2, <1>3, RequeuingStep

\* The slot that SetFinalizing seeds for the wiki can always be drained: its ingest
\* row stays in task_pending_ops until the slot is released, for any number of
\* batches at a time, crashes, retries, scrubs and trims that failed.
THEOREM SlotIsBacked == Spec => []SlotBacked
<1>1. Init => TypeInv /\ SlotInv
  <2> SUFFICES ASSUME Init PROVE TypeInv /\ SlotInv
    OBVIOUS
  <2>1. Deleting /\ Seeding /\ RowIds /\ RowDocs
    BY DEF Init, Deleting, NotDeleting, Seeding, RowIds, RowDocs
  <2>2. HeldRows
    BY DEF Init, HeldRows, Held, NoBatch
  <2>3. SlotBacked /\ Backed /\ Released
    BY DEF Init, SlotBacked, Backed, Released, Owed
  <2> QED
    BY <2>1, <2>2, <2>3, InitType DEF SlotInv
<1>2. (TypeInv /\ SlotInv) /\ [Next]_vars => (TypeInv /\ SlotInv)'
  BY NextType, NextDeleting, NextSeeding, NextRowIds, NextRowDocs, NextHeldRows,
     NextSlotBacked, NextBacked, NextReleased
  DEF SlotInv
<1>3. SlotInv => SlotBacked
  BY DEF SlotInv
<1> QED
  BY <1>1, <1>2, <1>3, PTL DEF Spec
-------------------------------------------------------------------------------
(* No page refers to a deleted document for good.                           *)

\* The faults under which the clean-up of a deletion is sure to be done.
Tame == faults \subseteq {"crash", "edit", "setup"}

\* The clean-up of a document has still to write its retract, which is then the last
\* operation of the document; a batch that has it is going to edit the page.
Cleaning(d) == del[d].pc \in {"scrub", "list", "pages", "insert"}
LastOf(r, d) == r.op = "retract" /\ r.doc = d /\ \A q \in rows : q.doc = d => q.id <= r.id
Retracting(w, d) == \E m \in batch[w].ops : m.op = "retract" /\ m.doc = d
InHand(w, r, d, s) ==
    pc[w] = "work" /\ r.id \in batch[w].peeked => Retracting(w, d) \/ d \in batch[w].rets[s]
ChasedAt(d, s) ==
    \/ Cleaning(d)
    \/ \E r \in rows : LastOf(r, d) /\ \A w \in Workers : InHand(w, r, d, s)

\* Whatever refers to a deleted document is chased.
Chased ==
    \A d \in Docs, s \in Slugs :
        Gone(d) /\ s \in pages /\ d \in refs[s] /\ <<s, d>> \notin spoilt => ChasedAt(d, s)

\* What a batch is going to write into a page, and a retract it has not seen.
Edits(w, s) == batch[w].adds[s] \union (batch[w].base[s] \ batch[w].rets[s])
Unpeeked(w, d) ==
    Cleaning(d) \/ \E r \in rows : LastOf(r, d) /\ r.id \notin batch[w].peeked

\* A batch that is about to write a deleted document back leaves its retract queued.
Editing ==
    \A w \in Workers, s \in Slugs, d \in Docs :
        pc[w] = "work" /\ d \in Edits(w, s) /\ Gone(d) /\ <<s, d>> \notin spoilt => Unpeeked(w, d)

\* A page a batch missed is not created behind its back.
MissingPages == \A w \in Workers : pc[w] = "work" => batch[w].missing \cap pages = {}

\* A document whose first ingest is not queued yet is nowhere in the wiki.
Unborn(d) == d \notin reparsed /\ (status[d] = "processing" \/ posting[d] = "insert")
Nowhere(d) ==
    /\ \A s \in Slugs : d \notin refs[s] /\ \A e \in Docs : d \notin del[e].found[s]
    /\ \A r \in rows : r.doc = d => r.op = "retract"
    /\ \A w \in Workers :
           /\ \A r \in batch[w].ops : r.doc = d => r.op = "retract"
           /\ \A s \in Slugs : d \notin batch[w].adds[s] /\ d \notin batch[w].base[s]
NothingYet == \A d \in Docs : Unborn(d) => Nowhere(d)

\* A batch that has not peeked holds nothing, and it keeps only ingests that failed.
Blank == \A w \in Workers : pc[w] \in {"idle", "begun"} => batch[w] = NoBatch
FailedIngests == \A w \in Workers : \A f \in batch[w].failed : f.op = "ingest"

GhostInv ==
    /\ RowIds /\ HeldRows /\ Holding /\ Seeding
    /\ NothingYet /\ Blank /\ FailedIngests
    /\ Tame => Chased /\ Editing /\ MissingPages

\* A batch that has dropped a page leaves the others as they are.
LEMMA DroppedFields ==
  ASSUME NEW b \in Batch, NEW s \in Slugs
  PROVE  /\ Dropped(b, s).adds[s] = {} /\ Dropped(b, s).rets[s] = {} /\ Dropped(b, s).base[s] = {}
         /\ Dropped(b, s).missing = b.missing \ {s}
         /\ \A t \in Slugs : t # s => /\ Dropped(b, s).adds[t] = b.adds[t]
                                      /\ Dropped(b, s).rets[t] = b.rets[t]
                                      /\ Dropped(b, s).base[t] = b.base[t]
<1>1. b.adds \in Updates /\ b.rets \in Updates /\ b.base \in Updates
  BY DEF Batch, Updates
<1> DEFINE adds == [b.adds EXCEPT ![s] = {}]
           rets == [b.rets EXCEPT ![s] = {}]
           base == [b.base EXCEPT ![s] = {}]
<1>2. /\ adds[s] = {} /\ rets[s] = {} /\ base[s] = {}
      /\ \A t \in Slugs : t # s => adds[t] = b.adds[t] /\ rets[t] = b.rets[t] /\ base[t] = b.base[t]
  BY <1>1 DEF Updates
<1>3. Dropped(b, s) = [b EXCEPT !.adds = adds, !.rets = rets, !.base = base,
                                !.read = b.read \ {s}, !.missing = b.missing \ {s}]
  BY DEF Dropped, Batch
<1> HIDE DEF adds, rets, base
<1>4. /\ Dropped(b, s).adds = adds /\ Dropped(b, s).rets = rets /\ Dropped(b, s).base = base
      /\ Dropped(b, s).missing = b.missing \ {s}
  BY <1>3 DEF Batch
<1> QED
  BY <1>2, <1>4

\* What the work on a page does to a batch: other pages are left alone; this one is
\* dropped, or opened.
LEMMA ReduceFields ==
  ASSUME TypeInv, NEW w \in Workers, NEW s \in Slugs,
         ReduceRead(w, s) \/ ReduceWrite(w, s) \/ ReduceFails(w, s)
  PROVE  /\ \A t \in Slugs : t # s => /\ batch'[w].adds[t] = batch[w].adds[t]
                                      /\ batch'[w].rets[t] = batch[w].rets[t]
                                      /\ batch'[w].base[t] = batch[w].base[t]
         /\ batch'[w].missing \subseteq batch[w].missing \union ({s} \ pages)
         /\ \/ /\ batch'[w].adds[s] = {} /\ batch'[w].base[s] = {} /\ batch'[w].rets[s] = {}
               /\ batch'[w].missing = batch[w].missing \ {s}
               /\ ReduceRead(w, s) => s \notin pages \/ batch[w].rets[s] = {}
            \/ /\ ReduceRead(w, s)
               /\ batch'[w].adds[s] = {d \in batch[w].adds[s] : ~Gone(d)}
               /\ batch'[w].base[s] = IF s \in pages THEN refs[s] ELSE {}
               /\ batch'[w].rets[s] = batch[w].rets[s]
<1>0. batch \in [Workers -> Batch] /\ batch[w] \in Batch
  BY DEF TypeInv, BatchTyped
<1>1. CASE ReduceRead(w, s)
  <2> DEFINE live == {d \in batch[w].adds[s] : ~Gone(d)}
             idle == live = {} /\ (s \notin pages \/ batch[w].rets[s] = {})
             opened == Opened(batch[w], s, live)
             dropped == Dropped(batch[w], s)
  <2>1. batch'[w] = IF idle THEN dropped ELSE opened
    BY <1>0, <1>1 DEF ReduceRead
  <2>2. CASE idle
    <3>1. batch'[w] = dropped /\ (s \notin pages \/ batch[w].rets[s] = {})
      <4> HIDE DEF opened, dropped
      <4> QED
        BY <2>1, <2>2
    <3> HIDE DEF idle, opened, live
    <3> QED
      BY <1>0, <1>1, <3>1, DroppedFields
  <2>3. CASE ~idle
    <3>1. batch'[w] = opened
      <4> HIDE DEF opened, dropped, idle
      <4> QED
        BY <2>1, <2>3
    <3> DEFINE adds == [batch[w].adds EXCEPT ![s] = live]
               base == [batch[w].base EXCEPT ![s] = IF s \in pages THEN refs[s] ELSE {}]
               missing == IF s \in pages THEN batch[w].missing ELSE batch[w].missing \union {s}
    <3>2. opened = [batch[w] EXCEPT !.adds = adds, !.read = batch[w].read \union {s},
                                    !.missing = missing, !.base = base]
      <4>1. CASE s \in pages
        BY <1>0, <4>1 DEF Opened, Batch
      <4>2. CASE s \notin pages
        BY <1>0, <4>2 DEF Opened, Batch
      <4> QED
        BY <4>1, <4>2
    <3>3. /\ adds[s] = live /\ base[s] = IF s \in pages THEN refs[s] ELSE {}
          /\ \A t \in Slugs : t # s => adds[t] = batch[w].adds[t] /\ base[t] = batch[w].base[t]
      BY BatchFields DEF Updates
    <3> HIDE DEF opened, idle, dropped, adds, base, missing
    <3>4. /\ batch'[w].adds = adds /\ batch'[w].base = base
          /\ batch'[w].rets = batch[w].rets /\ batch'[w].missing = missing
      BY <1>0, <3>1, <3>2 DEF Batch
    <3> QED
      BY <1>1, <3>3, <3>4 DEF missing
  <2> QED
    BY <2>2, <2>3
<1>2. CASE ReduceWrite(w, s) \/ ReduceFails(w, s)
  <2>1. batch'[w] = Dropped(batch[w], s)
    BY <1>0, <1>2 DEF ReduceWrite, ReduceFails
  <2>2. ~ReduceRead(w, s) \/ (s \notin batch[w].read /\ s \in batch[w].read)
    BY <1>2 DEF ReduceRead, ReduceWrite, ReduceFails
  <2> QED
    BY <1>0, <2>1, <2>2, DroppedFields
<1> QED
  BY <1>1, <1>2

\* Where nothing but crashes, failing models and failing edits is on record, nothing
\* else happens or has happened.
LEMMA TameBefore ==
  ASSUME TypeInv, [Next]_vars, Tame'
  PROVE  Tame /\ "redis" \notin faults /\ ~Fault("insert") /\ ~Fault("database")
<1>1. faults \subseteq faults'
  BY FaultsGrow
<1>2. ASSUME NEW kind, Fault(kind) PROVE kind \in faults'
  BY <1>2, FaultType
<1>3. "redis" \notin faults' /\ "insert" \notin faults' /\ "database" \notin faults'
  BY DEF Tame
<1> QED
  BY <1>1, <1>2, <1>3 DEF Tame

\* A document is deleted by the mark.
LEMMA GoneBegins ==
  ASSUME TypeInv, Deleting, [Next]_vars, NEW d \in Docs, Gone(d)'
  PROVE  Gone(d) \/ DeleteMark(d)
<1> SUFFICES ASSUME ~Gone(d), ~DeleteMark(d) PROVE FALSE
  OBVIOUS
<1>0. status \in [Docs -> {"processing", "finalizing", "completed", "deleting", "deleted"}]
  BY DEF TypeInv, DocsTyped
<1>1. status' # status
  BY DEF Gone
<1>2. ASSUME NEW e \in Docs, Finalize(e) PROVE FALSE
  BY <1>0, <1>2 DEF Finalize, Gone
<1>3. ASSUME NEW e \in Docs, PostStep(e) \/ Reparse(e) \/ DeleteMark(e) PROVE FALSE
  <2>1. CASE PostSeed(e) \/ ReparseReset(e) \/ DeleteMark(e)
    BY <1>0, <2>1 DEF PostSeed, ReparseReset, DeleteMark, Gone
  <2> QED
    BY <1>1, <1>3, <2>1 DEF PostStep, PostInsert, PostTrigger, ReparseFails, Reparse
<1>4. ASSUME NEW e \in Docs, DeleteStep(e) PROVE FALSE
  <2>1. CASE DeleteTrigger(e)
    <3>1. Gone(e)
      BY <2>1 DEF DeleteTrigger, Deleting
    <3>2. e # d
      BY <3>1
    <3> QED
      BY <1>0, <2>1, <3>2 DEF DeleteTrigger, Gone
  <2> QED
    BY <1>1, <1>4, <2>1 DEF DeleteStep, DeleteScrub, DeleteList, DeletePage, DeleteInsert, docVars
<1>5. ASSUME NEW w \in Workers, BatchStep(w) PROVE FALSE
  <2>1. ASSUME NEW r \in batch[w].ops, MapSkip(w, r) PROVE FALSE
    <3>1. r.doc \in Docs /\ Finalize(r.doc)
      BY <2>1, BatchFields DEF Row, MapSkip
    <3> QED
      BY <1>2, <3>1
  <2>2. ASSUME NEW e \in batch[w].done, FinalizeDone(w, e) PROVE FALSE
    <3>1. e \in Docs /\ Finalize(e)
      BY <2>2, BatchFields DEF FinalizeDone
    <3> QED
      BY <1>2, <3>1
  <2>3. ASSUME NEW f \in batch[w].failed, RequeueStep(w, f) PROVE FALSE
    <3>1. f.doc \in Docs /\ (Finalize(f.doc) \/ UNCHANGED status)
      BY <2>3, BatchFields DEF Row, RequeueStep, Requeue, GiveUp, Drop, docVars
    <3> QED
      BY <1>1, <1>2, <3>1
  <2> QED
    BY <1>1, <1>5, <2>1, <2>2, <2>3
    DEF BatchStep, MapStep, Peek, MapRetract, MapFails, MapDoc, ReduceRead, ReduceWrite, Trim,
        FollowUp, Release, docVars
<1>6. ~(Superfluous \/ Exhausted \/ Expire \/ UNCHANGED vars)
  BY <1>1 DEF Superfluous, Exhausted, Expire, docVars, vars
<1>7. ~(\E w \in Workers : Acquire(w) \/ BatchFault(w))
  BY <1>1 DEF Acquire, BatchFault, AcquireBlind, SetupFails, Crash, PeekFails, ReduceFails, docVars
<1> QED
  BY <1>3, <1>4, <1>5, <1>6, <1>7 DEF Next

\* A clean-up ends with its retract, and lists the pages as they are.
LEMMA DelChange ==
  ASSUME TypeInv, Deleting, [Next]_vars, NEW d \in Docs
  PROVE  /\ Cleaning(d) => Cleaning(d)' \/ DeleteInsert(d)
         /\ DeleteMark(d) => Cleaning(d)'
         /\ \A s \in Slugs : del'[d].found[s] \subseteq del[d].found[s] \union refs[s]
<1> DEFINE Goal == /\ Cleaning(d) => Cleaning(d)' \/ DeleteInsert(d)
                   /\ DeleteMark(d) => Cleaning(d)'
                   /\ \A s \in Slugs : del'[d].found[s] \subseteq del[d].found[s] \union refs[s]
<1>0. /\ del \in [Docs -> [pc: {"no", "scrub", "list", "pages", "insert", "trigger"},
                          found: Updates, slugs: SUBSET Slugs]]
      /\ del[d].found \in Updates /\ refs \in Updates
  BY DEF TypeInv, DelTyped, PagesTyped
<1>1. CASE del'[d] = del[d] /\ ~DeleteMark(d)
  BY <1>1 DEF Cleaning
<1>2. ASSUME NEW e \in Docs, DeleteMark(e) PROVE Goal
  <2>1. CASE e = d
    BY <1>0, <1>2, <2>1 DEF DeleteMark, DeleteGoto, Cleaning
  <2>2. CASE e # d
    <3>1. del'[d] = del[d]
      BY <1>0, <1>2, <2>2 DEF DeleteMark, DeleteGoto
    <3>2. DeleteMark(d) => del'[d].pc = "scrub" /\ del[d].pc = "no"
      BY <1>0 DEF DeleteMark, DeleteGoto, Deleting
    <3> QED
      BY <3>1, <3>2 DEF Cleaning
  <2> QED
    BY <2>1, <2>2
<1>3. DeleteMark(d) => Cleaning(d)'
  BY <1>0 DEF DeleteMark, DeleteGoto, Cleaning
<1>4. ASSUME NEW e \in Docs, DeleteStep(e), ~DeleteMark(d) PROVE Goal
  <2>1. CASE DeleteScrub(e) \/ DeleteTrigger(e)
    <3>1. CASE e = d
      <4>1. \/ del[d].pc = "scrub" /\ del' = [del EXCEPT ![d].pc = "list"]
            \/ del[d].pc = "trigger" /\ del' = [del EXCEPT ![d].pc = "no"]
        BY <2>1, <3>1 DEF DeleteScrub, DeleteTrigger, DeleteGoto
      <4>2. del'[d].found = del[d].found
        BY <1>0, <4>1
      <4>3. Cleaning(d) => Cleaning(d)'
        BY <1>0, <4>1 DEF Cleaning
      <4> QED
        BY <1>4, <4>2, <4>3
    <3>2. CASE e # d
      <4>1. del'[d] = del[d]
        BY <1>0, <2>1, <3>2 DEF DeleteScrub, DeleteTrigger, DeleteGoto
      <4> QED
        BY <1>1, <1>4, <4>1
    <3> QED
      BY <3>1, <3>2
  <2>2. CASE DeleteList(e)
    <3>1. CASE e = d
      <4> DEFINE found == [s \in Slugs |-> IF s \in pages /\ d \in refs[s] THEN refs[s] ELSE {}]
      <4>1. \A s \in Slugs : found[s] \subseteq refs[s]
        OBVIOUS
      <4>2. \/ del' = [del EXCEPT ![d] = [pc |-> "pages", slugs |-> {}, found |-> found]]
            \/ del' = [del EXCEPT ![d].pc = "insert"]
        BY <2>2, <3>1 DEF DeleteList, DeleteGoto
      <4> HIDE DEF found
      <4> QED
        BY <1>0, <1>4, <4>1, <4>2 DEF Cleaning
    <3>2. CASE e # d
      BY <1>0, <1>1, <1>4, <2>2, <3>2 DEF DeleteList, DeleteGoto
    <3> QED
      BY <3>1, <3>2
  <2>3. ASSUME NEW s \in Slugs, DeletePage(e, s) PROVE Goal
    <3>1. CASE e = d
      <4> DEFINE slugs == IF s \in pages THEN del[d].slugs \union {s} ELSE del[d].slugs
                 found == [del[d].found EXCEPT ![s] = {}]
      <4>1. \A t \in Slugs : found[t] \subseteq del[d].found[t]
        BY <1>0 DEF Updates
      <4>2. del'[d] = [[del[d] EXCEPT !.found = [del[d].found EXCEPT ![s] = {}]] EXCEPT !.slugs = slugs]
        BY <1>0, <2>3, <3>1 DEF DeletePage
      <4> HIDE DEF slugs
      <4>3. del'[d].pc = del[d].pc /\ del'[d].found = found
        <5>1. del[d] = [pc |-> del[d].pc, found |-> del[d].found, slugs |-> del[d].slugs]
          BY <1>0
        <5> QED
          BY <4>2, <5>1
      <4> HIDE DEF found
      <4> QED
        BY <1>4, <4>1, <4>3 DEF Cleaning
    <3>2. CASE e # d
      BY <1>0, <1>1, <1>4, <2>3, <3>2 DEF DeletePage
    <3> QED
      BY <3>1, <3>2
  <2>4. CASE DeleteInsert(e)
    <3>1. CASE e = d
      <4>1. del'[d].found = NoUpdates
        BY <1>0, <2>4, <3>1 DEF DeleteInsert, NotDeleting
      <4> QED
        BY <1>4, <2>4, <3>1, <4>1 DEF NoUpdates
    <3>2. CASE e # d
      BY <1>0, <1>1, <1>4, <2>4, <3>2 DEF DeleteInsert
    <3> QED
      BY <3>1, <3>2
  <2> QED
    BY <1>4, <2>1, <2>2, <2>3, <2>4 DEF DeleteStep
<1>5. CASE UNCHANGED del /\ ~DeleteMark(d)
  BY <1>1, <1>5
<1>6. ASSUME NEW e \in Docs, PostStep(e) \/ Reparse(e) PROVE UNCHANGED del
  BY <1>6 DEF PostStep, PostSeed, PostInsert, PostTrigger, ReparseReset, ReparseFails, Reparse
<1>7. ASSUME NEW w \in Workers, BatchStep(w) PROVE UNCHANGED del
  BY <1>7 DEF BatchStep, MapStep, Peek, MapRetract, MapSkip, MapFails, MapDoc, ReduceRead,
              ReduceWrite, FinalizeDone, Trim, RequeueStep, Requeue, GiveUp, Drop, FollowUp, Release
<1>8. Superfluous \/ Exhausted \/ Expire \/ UNCHANGED vars => UNCHANGED del
  BY DEF Superfluous, Exhausted, Expire, vars
<1>9. ASSUME NEW w \in Workers, Acquire(w) \/ BatchFault(w) PROVE UNCHANGED del
  BY <1>9 DEF Acquire, BatchFault, AcquireBlind, SetupFails, Crash, PeekFails, ReduceFails
<1> QED
  BY <1>2, <1>4, <1>5, <1>6, <1>7, <1>8, <1>9 DEF Next

\* What a step may do to a page.
LEMMA PageChange ==
  ASSUME TypeInv, [Next]_vars, NEW s \in Slugs
  PROVE  /\ spoilt \subseteq spoilt'
         /\ \/ (s \in pages' => s \in pages) /\ refs'[s] \in {refs[s], {}}
            \/ \E e \in Docs : DeletePage(e, s) /\ s \in pages /\ refs'[s] = del[e].found[s] \ {e}
            \/ \E w \in Workers : /\ ReduceWrite(w, s) /\ refs'[s] = Edits(w, s)
                                  /\ (s \in batch[w].missing) # (s \in pages)
<1> DEFINE Goal == 
         /\ spoilt \subseteq spoilt'
         /\ \/ (s \in pages' => s \in pages) /\ refs'[s] \in {refs[s], {}}
            \/ \E e \in Docs : DeletePage(e, s) /\ s \in pages /\ refs'[s] = del[e].found[s] \ {e}
            \/ \E w \in Workers : /\ ReduceWrite(w, s) /\ refs'[s] = Edits(w, s)
                                  /\ (s \in batch[w].missing) # (s \in pages)
<1>0. refs \in Updates /\ pages \subseteq Slugs
  BY DEF TypeInv, PagesTyped
<1>1. CASE UNCHANGED wikiVars
  BY <1>1 DEF wikiVars
<1>2. ASSUME NEW e \in Docs, NEW t \in Slugs, DeletePage(e, t) PROVE Goal
  <2>1. spoilt' = spoilt
    BY <1>2 DEF DeletePage
  <2>2. CASE t = s
    <3>1. CASE del[e].found[s] = {e}
      BY <1>0, <1>2, <2>1, <2>2, <3>1 DEF DeletePage, Updates
    <3>2. CASE del[e].found[s] # {e}
      BY <1>0, <1>2, <2>1, <2>2, <3>2 DEF DeletePage, Updates
    <3> QED
      BY <3>1, <3>2
  <2>3. CASE t # s
    BY <1>0, <1>2, <2>1, <2>3 DEF DeletePage, Updates
  <2> QED
    BY <2>2, <2>3
<1>3. ASSUME NEW w \in Workers, NEW t \in Slugs, ReduceWrite(w, t) PROVE Goal
  <2>1. spoilt' = spoilt
    BY <1>3 DEF ReduceWrite
  <2>2. CASE (t \in batch[w].missing) = (t \in pages)
    BY <1>3, <2>1, <2>2 DEF ReduceWrite
  <2>3. CASE (t \in batch[w].missing) # (t \in pages)
    <3>1. /\ pages' = pages \union {t}
          /\ refs' = [refs EXCEPT ![t] = (batch[w].base[t] \ batch[w].rets[t]) \union batch[w].adds[t]]
      BY <1>3, <2>3 DEF ReduceWrite
    <3>2. CASE t = s
      BY <1>0, <1>3, <2>1, <2>3, <3>1, <3>2 DEF Edits, Updates
    <3>3. CASE t # s
      BY <1>0, <2>1, <3>1, <3>3 DEF Updates
    <3> QED
      BY <3>2, <3>3
  <2> QED
    BY <2>2, <2>3
<1>4. ASSUME NEW w \in Workers, NEW t \in Slugs, ReduceFails(w, t) PROVE Goal
  BY <1>4 DEF ReduceFails
<1>5. ASSUME NEW d \in Docs, PostStep(d) \/ Reparse(d) \/ DeleteMark(d) PROVE UNCHANGED wikiVars
  BY <1>5 DEF PostStep, PostSeed, PostInsert, PostTrigger, ReparseReset, ReparseFails, Reparse, DeleteMark
<1>6. ASSUME NEW d \in Docs, DeleteStep(d) PROVE Goal
  BY <1>1, <1>2, <1>6 DEF DeleteStep, DeleteScrub, DeleteList, DeleteInsert, DeleteTrigger
<1>7. ASSUME NEW w \in Workers, BatchStep(w) PROVE Goal
  BY <1>1, <1>3, <1>7 DEF BatchStep, MapStep, Peek, MapRetract, MapSkip, MapFails, MapDoc, ReduceRead,
              FinalizeDone, Trim, RequeueStep, Requeue, GiveUp, Drop, FollowUp, Release
<1>8. Superfluous \/ Exhausted \/ Expire \/ UNCHANGED vars => UNCHANGED wikiVars
  BY DEF Superfluous, Exhausted, Expire, vars, wikiVars
<1>9. ASSUME NEW w \in Workers, Acquire(w) \/ BatchFault(w) PROVE Goal
  BY <1>1, <1>4, <1>9 DEF Acquire, BatchFault, AcquireBlind, SetupFails, Crash, PeekFails
<1> QED
  BY <1>1, <1>5, <1>6, <1>7, <1>8, <1>9 DEF Next

\* A clean-up leaves its retract behind as the last operation of the document, which
\* no batch has seen.
LEMMA RetractQueued ==
  ASSUME TypeInv, RowIds, HeldRows, NEW d \in Docs, DeleteInsert(d), ~Fault("insert")
  PROVE  /\ \A w \in Workers : Unpeeked(w, d)'
         /\ \A s \in Slugs : ChasedAt(d, s)'
<1>0. nextId \in Nat /\ rows \subseteq Row
  BY DEF TypeInv, QueueTyped
<1>1. PICK new : /\ rows' = rows \union {new} /\ batch' = batch /\ pc' = pc
                 /\ new.id = nextId /\ new.op = "retract" /\ new.doc = d
  <2> DEFINE row == [id |-> nextId, op |-> "retract", doc |-> d, slugs |-> del[d].slugs, fails |-> 0]
  <2>1. rows' = rows \union {row} /\ batch' = batch /\ pc' = pc
    BY DEF DeleteInsert, Insert, runVars
  <2>2. row.id = nextId /\ row.op = "retract" /\ row.doc = d
    OBVIOUS
  <2> HIDE DEF row
  <2> QED
    BY <2>1, <2>2
<1>3. \A q \in rows' : q.id <= new.id
  <2>1. \A q \in rows : q.id < nextId /\ q.id \in Nat
    BY <1>0 DEF RowIds, Row
  <2> QED
    BY <1>0, <1>1, <2>1
<1>4. new \in rows' /\ LastOf(new, d)'
  BY <1>1, <1>3 DEF LastOf
<1>5. \A w \in Workers : new.id \notin batch'[w].peeked
  <2>1. \A w \in Workers : \A i \in batch[w].peeked : i < nextId
    BY DEF HeldRows
  <2> QED
    BY <1>0, <1>1, <2>1
<1>6. \A w \in Workers : Unpeeked(w, d)'
  BY <1>4, <1>5 DEF Unpeeked
<1>7. ASSUME NEW s \in Slugs PROVE ChasedAt(d, s)'
  <2>1. \A w \in Workers : InHand(w, new, d, s)'
    BY <1>5 DEF InHand
  <2> QED
    BY <1>4, <2>1 DEF ChasedAt
<1> QED
  BY <1>6, <1>7

\* A retract that is the last operation of its document stays the last one until
\* another operation is queued or a batch trims it.
LEMMA LastStays ==
  ASSUME TypeInv, HeldRows, FailedIngests, [Next]_vars, NEW d \in Docs,
         NEW r \in rows, LastOf(r, d), ~PostInsert(d), ~DeleteInsert(d),
         \A w \in Workers : Trim(w) => r.id \notin batch[w].peeked
  PROVE  r \in rows' /\ LastOf(r, d)'
<1>0. r.op = "retract" /\ r.doc = d
  BY DEF LastOf
<1>1. ASSUME NEW w \in Workers, NEW f \in batch[w].failed PROVE r.id # f.id
  <2>1. f \in Held(w) /\ f.op = "ingest"
    BY DEF Held, FailedIngests
  <2> QED
    BY <1>0, <2>1 DEF HeldRows
<1>2. r \in rows'
  <2>1. CASE UNCHANGED queueVars
    BY <2>1 DEF queueVars
  <2>2. CASE \E op, e, slugs : Insert(op, e, slugs)
    BY <2>2 DEF Insert
  <2>3. CASE \E e \in Docs : Scrub(e)
    BY <1>0, <2>3 DEF Scrub
  <2>4. ASSUME NEW w \in Workers, NEW f \in batch[w].failed,
               rows' = Bumped(f) \/ rows' = {q \in rows : q.id # f.id}
        PROVE  r \in rows'
    BY <1>1, <2>4 DEF Bumped
  <2> QED
    BY <2>1, <2>2, <2>3, <2>4, RowsChange
<1>3. ASSUME NEW q \in rows', q.doc = d PROVE q.id <= r.id
  <2>1. PICK p \in rows : p.id = q.id /\ p.doc = q.doc
    BY <1>3, RowOrigin
  <2> QED
    BY <1>3, <2>1 DEF LastOf
<1> QED
  BY <1>0, <1>2, <1>3 DEF LastOf

\* What a step may do to a batch.
LEMMA BatchChange ==
  ASSUME TypeInv, [Next]_vars, NEW w \in Workers
  PROVE  /\ batch'[w].failed \subseteq batch[w].failed \union {r \in batch[w].ops : r.op = "ingest"}
         /\ \A m \in batch'[w].ops :
                m \in batch[w].ops \union rows \/ (m \in batch[w].failed /\ \E r \in rows : r.id = m.id)
         /\ \A s \in Slugs : /\ \A d \in batch'[w].adds[s] \ batch[w].adds[s] :
                                    \E r \in batch[w].ops : r.op = "ingest" /\ r.doc = d
                             /\ batch'[w].base[s] \subseteq batch[w].base[s] \union refs[s]
         /\ \/ batch'[w] = NoBatch
            \/ pc'[w] \in {"work", "requeue", "release"}
            \/ batch'[w] = batch[w] /\ pc[w] \in {"idle", "begun"}
<1> DEFINE Goal ==
         /\ batch'[w].failed \subseteq batch[w].failed \union {r \in batch[w].ops : r.op = "ingest"}
         /\ \A m \in batch'[w].ops :
                m \in batch[w].ops \union rows \/ (m \in batch[w].failed /\ \E r \in rows : r.id = m.id)
         /\ \A s \in Slugs : /\ \A d \in batch'[w].adds[s] \ batch[w].adds[s] :
                                    \E r \in batch[w].ops : r.op = "ingest" /\ r.doc = d
                             /\ batch'[w].base[s] \subseteq batch[w].base[s] \union refs[s]
           Place ==
         \/ batch'[w] = NoBatch
         \/ pc'[w] \in {"work", "requeue", "release"}
         \/ batch'[w] = batch[w] /\ pc[w] \in {"idle", "begun"}
<1>0. /\ pc \in [Workers -> {"idle", "begun", "work", "requeue", "release"}]
      /\ batch \in [Workers -> Batch]
  BY DEF TypeInv, PcTyped, BatchTyped
<1>1. CASE batch'[w] = batch[w] /\ pc'[w] = pc[w]
  BY <1>0, <1>1
<1>2. CASE batch'[w] = NoBatch
  BY <1>2 DEF NoBatch, NoUpdates
<1>3. ASSUME NEW v \in Workers, v # w, Changes(v) \/ batch' = batch,
             pc' = pc \/ \E next : pc' = [pc EXCEPT ![v] = next]
      PROVE  Goal /\ Place
  BY <1>0, <1>1, <1>3 DEF Changes
<1>4. ASSUME pc'[w] \in {"work", "requeue", "release"},
             batch' = batch \/ /\ batch'[w].ops \subseteq batch[w].ops
                               /\ batch'[w].failed \subseteq batch[w].failed
                               /\ batch'[w].adds = batch[w].adds /\ batch'[w].base = batch[w].base
      PROVE  Goal /\ Place
  BY <1>4
<1>5. ASSUME NEW v \in Workers, BatchStep(v) \/ BatchFault(v) \/ Acquire(v)
      PROVE  Goal /\ Place
  <2>1. CASE Peek(v)
    <3>1. batch' = batch \/ Changes(v)
      BY <2>1, PeekChanges DEF Peek
    <3>2. \E next \in {"work", "release"} : pc' = [pc EXCEPT ![v] = next]
      BY <2>1 DEF Peek
    <3>3. CASE v = w
      <4>1. pc'[w] \in {"work", "release"}
        BY <1>0, <3>2, <3>3
      <4>2. CASE rows = {}
        BY <1>4, <2>1, <3>3, <4>1, <4>2 DEF Peek
      <4>3. CASE rows # {}
        <5>1. LastPerDoc(Oldest) \subseteq rows
          BY DEF LastPerDoc, Oldest
        <5>2. /\ batch'[w].ops \subseteq rows /\ batch'[w].failed = batch[w].failed
              /\ batch'[w].adds = batch[w].adds /\ batch'[w].base = batch[w].base
          BY <2>1, <3>3, <4>3, <5>1, PeekChanges
        <5> QED
          BY <4>1, <5>2
      <4> QED
        BY <4>2, <4>3
    <3> QED
      BY <1>3, <3>1, <3>2, <3>3
  <2>2. ASSUME NEW r \in batch[v].ops, MapRetract(v, r) \/ MapSkip(v, r) \/ MapFails(v, r)
        PROVE  Goal /\ Place
    <3>1. /\ Changes(v) /\ batch'[v].ops = batch[v].ops \ {r}
          /\ batch'[v].adds = batch[v].adds /\ batch'[v].base = batch[v].base
          /\ \/ batch'[v].failed = batch[v].failed
             \/ batch'[v].failed = batch[v].failed \union {r} /\ r.op = "ingest"
      BY <2>2, MapRetractChanges, MapSkipChanges, MapFailsChanges DEF MapFails
    <3>2. pc' = pc /\ pc[v] = "work"
      BY <2>2 DEF MapRetract, MapSkip, MapFails, Mapping
    <3>3. CASE v = w
      BY <3>1, <3>2, <3>3
    <3> QED
      BY <1>3, <3>1, <3>2, <3>3
  <2>3. ASSUME NEW r \in batch[v].ops, NEW slugs \in SUBSET Slugs, MapDoc(v, r, slugs)
        PROVE  Goal /\ Place
    <3>1. /\ Changes(v) /\ batch'[v].ops = batch[v].ops \ {r}
          /\ batch'[v].adds = With(batch[v].adds, slugs, r.doc) /\ batch'[v].base = batch[v].base
          /\ batch'[v].failed = batch[v].failed /\ r.op = "ingest"
      BY <2>3, MapDocChanges DEF MapDoc
    <3>2. pc' = pc /\ pc[v] = "work"
      BY <2>3 DEF MapDoc, Mapping
    <3>3. CASE v = w
      BY <3>1, <3>2, <3>3 DEF With
    <3> QED
      BY <1>3, <3>1, <3>2, <3>3
  <2>4. ASSUME NEW s \in Slugs, ReduceRead(v, s) \/ ReduceWrite(v, s) \/ ReduceFails(v, s)
        PROVE  Goal /\ Place
    <3>1. Changes(v) /\ batch'[v].ops = batch[v].ops /\ batch'[v].failed = batch[v].failed
      BY <2>4, ReduceChanges
    <3>2. pc' = pc /\ pc[v] = "work"
      BY <2>4 DEF ReduceRead, ReduceWrite, ReduceFails, Reducing
    <3>3. CASE v = w
      <4>1. \A t \in Slugs : /\ batch'[w].adds[t] \subseteq batch[w].adds[t]
                             /\ batch'[w].base[t] \subseteq batch[w].base[t] \union refs[t]
        <5>1. \A t \in Slugs : t # s => /\ batch'[w].adds[t] = batch[w].adds[t]
                                        /\ batch'[w].base[t] = batch[w].base[t]
          BY <2>4, <3>3, ReduceFields
        <5>2. /\ batch'[w].adds[s] \subseteq batch[w].adds[s]
              /\ batch'[w].base[s] \subseteq refs[s]
          BY <2>4, <3>3, ReduceFields
        <5> QED
          BY <5>1, <5>2
      <4> QED
        BY <3>1, <3>2, <3>3, <4>1
    <3> QED
      BY <1>3, <3>1, <3>2, <3>3
  <2>5. ASSUME NEW e \in batch[v].done, FinalizeDone(v, e) PROVE Goal /\ Place
    <3>1. /\ Changes(v) /\ batch'[v].ops = batch[v].ops /\ batch'[v].failed = batch[v].failed
          /\ batch'[v].adds = batch[v].adds /\ batch'[v].base = batch[v].base
      BY <2>5, FinalizeChanges
    <3>2. pc' = pc /\ pc[v] = "work"
      BY <2>5 DEF FinalizeDone, Reduced, Reducing
    <3> QED
      BY <1>3, <1>4, <3>1, <3>2
  <2>6. ASSUME NEW f \in batch[v].failed, RequeueStep(v, f) PROVE Goal /\ Place
    <3>1. /\ Changes(v) /\ batch'[v].failed \subseteq batch[v].failed
          /\ batch'[v].adds = batch[v].adds /\ batch'[v].base = batch[v].base
          /\ \/ batch'[v].ops \subseteq batch[v].ops
             \/ batch'[v].ops = {f} /\ \E r \in rows : r.id = f.id
      BY <2>6, RequeueChanges, GiveUpChanges, DropChanges DEF RequeueStep, GiveUp
    <3>2. pc' = pc /\ pc[v] = "requeue"
      BY <2>6 DEF RequeueStep, Requeue, Requeuing, GiveUp, Drop
    <3>3. CASE v = w
      BY <3>1, <3>2, <3>3
    <3> QED
      BY <1>3, <3>1, <3>2, <3>3
  <2>7. CASE Trim(v) \/ FollowUp(v) \/ PeekFails(v)
    <3>1. batch' = batch /\ \E next \in {"requeue", "release"} : pc' = [pc EXCEPT ![v] = next]
      BY <2>7 DEF Trim, FollowUp, PeekFails
    <3>2. CASE v = w
      <4>1. pc'[w] \in {"requeue", "release"}
        BY <1>0, <3>1, <3>2
      <4> QED
        BY <1>4, <3>1, <4>1
    <3> QED
      BY <1>3, <3>1, <3>2
  <2>8. CASE Acquire(v) \/ AcquireBlind(v)
    <3>1. batch' = batch /\ pc' = [pc EXCEPT ![v] = "begun"] /\ pc[v] = "idle"
      BY <2>8 DEF Acquire, AcquireBlind, Ready, Running
    <3>2. CASE v = w
      BY <3>1, <3>2
    <3> QED
      BY <1>3, <3>1, <3>2
  <2>9. CASE Release(v) \/ SetupFails(v) \/ Crash(v)
    <3>1. batch' = [batch EXCEPT ![v] = NoBatch] /\ pc' = [pc EXCEPT ![v] = "idle"]
      BY <2>9 DEF Release, SetupFails, Crash, Leave
    <3>2. CASE v = w
      BY <1>0, <1>2, <3>1, <3>2
    <3>3. CASE v # w
      BY <1>3, <3>1, <3>3, LeaveChanges
    <3> QED
      BY <3>2, <3>3
  <2> QED
    BY <1>5, <2>1, <2>2, <2>3, <2>4, <2>5, <2>6, <2>7, <2>8, <2>9
    DEF BatchStep, MapStep, BatchFault
<1>6. ASSUME \/ Superfluous \/ Exhausted \/ Expire \/ UNCHANGED vars
             \/ \E e \in Docs : PostStep(e) \/ Reparse(e) \/ DeleteMark(e) \/ DeleteStep(e)
      PROVE  batch' = batch /\ pc' = pc
  BY <1>6 DEF Superfluous, Exhausted, Expire, vars, runVars, PostStep, PostSeed, PostInsert,
              PostTrigger, ReparseReset, ReparseFails, Reparse, DeleteMark, DeleteStep, DeleteScrub, DeleteList, DeletePage,
              DeleteInsert, DeleteTrigger
<1> QED
  BY <1>1, <1>5, <1>6 DEF Next

\* Every step keeps an idle batch empty, and an ingest what a batch has failed.
LEMMA NextBatch ==
  TypeInv /\ Blank /\ FailedIngests /\ [Next]_vars => Blank' /\ FailedIngests'
<1> SUFFICES ASSUME TypeInv, Blank, FailedIngests, [Next]_vars, NEW w \in Workers
             PROVE  /\ pc'[w] \in {"idle", "begun"} => batch'[w] = NoBatch
                    /\ \A f \in batch'[w].failed : f.op = "ingest"
  BY DEF Blank, FailedIngests
<1>1. pc'[w] \in {"idle", "begun"} => batch'[w] = NoBatch
  BY BatchChange DEF Blank
<1>2. \A f \in batch'[w].failed : f.op = "ingest"
  BY BatchChange DEF FailedIngests
<1> QED
  BY <1>1, <1>2

\* What has been parsed again stays on record.
LEMMA ReparsedGrows ==
  ASSUME [Next]_vars
  PROVE  reparsed \subseteq reparsed' /\ \A d \in Docs : ReparseReset(d) => d \in reparsed' \/ Gone(d)
<1>1. ASSUME NEW d \in Docs, PostStep(d) \/ Reparse(d) \/ DeleteMark(d)
      PROVE  reparsed \subseteq reparsed'
  BY <1>1 DEF PostStep, PostSeed, PostInsert, PostTrigger, ReparseReset, ReparseFails, Reparse, DeleteMark
<1>2. ASSUME NEW d \in Docs, DeleteStep(d) PROVE reparsed' = reparsed
  BY <1>2 DEF DeleteStep, DeleteScrub, DeleteList, DeletePage, DeleteInsert, DeleteTrigger, docVars
<1>3. ASSUME NEW w \in Workers, BatchStep(w) PROVE reparsed' = reparsed
  BY <1>3 DEF BatchStep, MapStep, Peek, MapRetract, MapSkip, MapFails, MapDoc, ReduceRead,
              ReduceWrite, FinalizeDone, Trim, RequeueStep, Requeue, GiveUp, Drop, FollowUp, Release, docVars
<1>4. Superfluous \/ Exhausted \/ Expire \/ UNCHANGED vars => reparsed' = reparsed
  BY DEF Superfluous, Exhausted, Expire, docVars, vars
<1>5. ASSUME NEW w \in Workers, Acquire(w) \/ BatchFault(w) PROVE reparsed' = reparsed
  BY <1>5 DEF Acquire, BatchFault, AcquireBlind, SetupFails, Crash, PeekFails, ReduceFails, docVars
<1>6. \A d \in Docs : ReparseReset(d) => d \in reparsed' \/ Gone(d)
  BY DEF ReparseReset
<1> QED
  BY <1>1, <1>2, <1>3, <1>4, <1>5, <1>6 DEF Next

\* Every step keeps a document out of the wiki until its first ingest is queued.
LEMMA NextNothingYet ==
  TypeInv /\ Deleting /\ Seeding /\ HeldRows /\ NothingYet /\ [Next]_vars => NothingYet'
<1> SUFFICES ASSUME TypeInv, Deleting, Seeding, HeldRows, NothingYet, [Next]_vars,
                    NEW d \in Docs, Unborn(d)'
             PROVE  Nowhere(d)'
  BY DEF NothingYet
<1>0. /\ rows \subseteq Row /\ refs \in Updates /\ posting \in [Docs -> {"no", "insert", "trigger", "reset"}]
  BY DEF TypeInv, QueueTyped, PagesTyped, DocsTyped
<1>1. d \notin reparsed /\ (ReparseReset(d) => Gone(d))
  BY ReparsedGrows DEF Unborn
<1>2. Unborn(d)
  <2>1. PostSeed(d) => status[d] = "processing"
    BY DEF PostSeed
  <2> QED
    BY <1>1, <2>1, DocChange DEF Unborn
<1>3. ~PostInsert(d)
  <2>1. Seeding'
    BY NextSeeding
  <2>2. PostInsert(d) => posting'[d] = "trigger"
    BY <1>0 DEF PostInsert
  <2> QED
    BY <2>1, <2>2 DEF Seeding, Unborn
<1>4. Nowhere(d)
  BY <1>2 DEF NothingYet
<1>5. ASSUME NEW s \in Slugs PROVE d \notin refs'[s] /\ \A e \in Docs : d \notin del'[e].found[s]
  <2>1. \A w \in Workers : d \notin Edits(w, s)
    BY <1>4 DEF Nowhere, Edits
  <2>2. \A e \in Docs : d \notin del[e].found[s]
    BY <1>4 DEF Nowhere
  <2>3. d \notin refs[s]
    BY <1>4 DEF Nowhere
  <2>4. d \notin refs'[s]
    BY <2>1, <2>2, <2>3, PageChange
  <2>5. \A e \in Docs : d \notin del'[e].found[s]
    BY <2>2, <2>3, DelChange
  <2> QED
    BY <2>4, <2>5
<1>6. ASSUME NEW r \in rows', r.doc = d PROVE r.op = "retract"
  <2>1. CASE \E q \in rows : q.op = r.op /\ q.doc = d
    BY <1>4, <2>1 DEF Nowhere
  <2> QED
    BY <1>3, <1>6, <2>1, RowOrigin
<1>7. ASSUME NEW w \in Workers
      PROVE  /\ \A r \in batch'[w].ops : r.doc = d => r.op = "retract"
             /\ \A s \in Slugs : d \notin batch'[w].adds[s] /\ d \notin batch'[w].base[s]
  <2>1. /\ \A r \in batch[w].ops : r.doc = d => r.op = "retract"
        /\ \A r \in rows : r.doc = d => r.op = "retract"
        /\ \A s \in Slugs : d \notin batch[w].adds[s] /\ d \notin batch[w].base[s] /\ d \notin refs[s]
    BY <1>4 DEF Nowhere
  <2>2. \A r \in batch'[w].ops : r.doc = d => r.op = "retract"
    <3>1. ASSUME NEW m \in batch[w].failed, NEW r \in rows, r.id = m.id, m.doc = d
          PROVE  m.op = "retract"
      BY <2>1, <3>1 DEF HeldRows, Held
    <3> QED
      BY <2>1, <3>1, BatchChange
  <2>3. ~(\E r \in batch[w].ops : r.op = "ingest" /\ r.doc = d)
    BY <2>1
  <2>4. \A s \in Slugs : d \notin batch'[w].adds[s] /\ d \notin batch'[w].base[s]
    BY <2>1, <2>3, BatchChange
  <2> QED
    BY <2>2, <2>4
<1> QED
  BY <1>5, <1>6, <1>7 DEF Nowhere

\* A batch at work is alone.
LEMMA Alone ==
  ASSUME Holding, "redis" \notin faults, NEW v \in Workers, NEW w \in Workers,
         pc[v] = "work", pc[w] = "work"
  PROVE  v = w
BY DEF Holding, Running

\* Every step keeps the pages a batch missed from being created behind its back.
LEMMA NextMissing ==
  ASSUME TypeInv, Holding, Blank, MissingPages, [Next]_vars, "redis" \notin faults
  PROVE  MissingPages'
<1> SUFFICES ASSUME NEW w \in Workers, pc'[w] = "work", NEW s \in batch'[w].missing, s \in pages'
             PROVE  FALSE
  BY DEF MissingPages
<1>0. pages \subseteq Slugs /\ pages' \subseteq Slugs /\ s \in Slugs
  BY NextType DEF TypeInv, PagesTyped
<1>1. s \in pages \/ \E v \in Workers : ReduceWrite(v, s)
  BY <1>0, PageChange
<1>2. ASSUME pc[w] = "work", s \in batch[w].missing PROVE ReduceWrite(w, s)
  <2>1. s \notin pages
    BY <1>2 DEF MissingPages
  <2>2. PICK v \in Workers : ReduceWrite(v, s)
    BY <1>1, <2>1
  <2>3. v = w
    BY <1>2, <2>2, Alone DEF ReduceWrite, Reducing
  <2> QED
    BY <2>2, <2>3
<1>3. ~ReduceWrite(w, s)
  <2>1. ReduceWrite(w, s) => s \in batch[w].read /\ ~ReduceRead(w, s)
    BY DEF ReduceWrite, ReduceRead
  <2> QED
    BY <1>0, <2>1, ReduceFields
<1>4. CASE pc[w] = "work" /\ batch'[w].missing \subseteq batch[w].missing
  BY <1>2, <1>3, <1>4
<1>5. CASE Peek(w) /\ rows # {}
  <2>1. pc[w] = "begun" /\ batch'[w].missing = batch[w].missing
    BY <1>5, PeekChanges DEF Peek
  <2> QED
    BY <2>1 DEF Blank, NoBatch
<1>6. ASSUME NEW m \in batch[w].ops,
             \/ MapRetract(w, m) \/ MapSkip(w, m) \/ MapFails(w, m)
             \/ \E slugs \in SUBSET Slugs : MapDoc(w, m, slugs)
      PROVE  FALSE
  <2>1. batch'[w].missing = batch[w].missing
    BY <1>6, MapRetractChanges, MapSkipChanges, MapFailsChanges, MapDocChanges
  <2>2. pc[w] = "work"
    BY <1>6 DEF MapRetract, MapSkip, MapFails, MapDoc, Mapping
  <2> QED
    BY <1>4, <2>1, <2>2
<1>7. ASSUME NEW t \in Slugs, ReduceRead(w, t) \/ ReduceWrite(w, t) \/ ReduceFails(w, t)
      PROVE  FALSE
  <2>1. s \in batch[w].missing \/ (s = t /\ s \notin pages)
    BY <1>7, ReduceFields
  <2>2. pc[w] = "work"
    BY <1>7 DEF ReduceRead, ReduceWrite, ReduceFails, Reducing
  <2>3. s \notin batch[w].missing
    BY <1>2, <1>3, <2>2
  <2>4. s = t /\ s \notin pages
    BY <2>1, <2>3
  <2>5. ~ReduceFails(w, s) \/ s \notin batch'[w].missing
    <3>1. ReduceFails(w, s) => s \in batch[w].read /\ ~ReduceRead(w, s)
      BY DEF ReduceFails, ReduceRead
    <3> QED
      BY <1>0, <3>1, ReduceFields
  <2>6. pages' = pages
    BY <1>3, <1>7, <2>4, <2>5 DEF ReduceRead, wikiVars
  <2> QED
    BY <2>4, <2>6
<1>8. ASSUME NEW e \in batch[w].done, FinalizeDone(w, e) PROVE FALSE
  <2>1. batch'[w].missing = batch[w].missing /\ pc[w] = "work"
    BY <1>8, FinalizeChanges DEF FinalizeDone, Reduced, Reducing
  <2> QED
    BY <1>4, <2>1
<1> QED
  BY <1>4, <1>5, <1>6, <1>7, <1>8, WorkStep

\* A document that is gone before its first ingest is queued is nowhere in the wiki.
LEMMA LateInsert ==
  ASSUME NothingYet, InsertsInTime, NEW d \in Docs, Gone(d), PostInsert(d)
  PROVE  Nowhere(d)
<1>1. posting[d] = "insert"
  BY DEF PostInsert
<1>2. d \notin reparsed
  BY <1>1 DEF InsertsInTime
<1> QED
  BY <1>1, <1>2 DEF NothingYet, Unborn

\* A retract a batch has not seen stays queued behind its back.
LEMMA UnpeekedStays ==
  ASSUME TypeInv, Deleting, HeldRows, FailedIngests, [Next]_vars, NEW w \in Workers, NEW d \in Docs,
         Unpeeked(w, d), ~PostInsert(d), ~DeleteInsert(d),
         batch'[w].peeked = batch[w].peeked, \A v \in Workers : ~Trim(v)
  PROVE  Unpeeked(w, d)'
<1>1. CASE Cleaning(d)
  BY <1>1, DelChange DEF Unpeeked
<1>2. ASSUME NEW r \in rows, LastOf(r, d), r.id \notin batch[w].peeked PROVE Unpeeked(w, d)'
  <2>1. r \in rows' /\ LastOf(r, d)'
    BY <1>2, LastStays
  <2> QED
    BY <1>2, <2>1 DEF Unpeeked
<1> QED
  BY <1>1, <1>2 DEF Unpeeked

\* Every step keeps a batch that writes a deleted document back from having seen its
\* retract.
LEMMA NextEditing ==
  ASSUME TypeInv, Deleting, GhostInv, InsertsInTime, [Next]_vars, Tame'
  PROVE  Editing'
<1> SUFFICES ASSUME NEW w \in Workers, NEW s \in Slugs, NEW d \in Docs,
                    pc'[w] = "work", d \in Edits(w, s)', Gone(d)', <<s, d>> \notin spoilt'
             PROVE  Unpeeked(w, d)'
  BY DEF Editing
<1>0. /\ "redis" \notin faults /\ ~Fault("insert")
      /\ Chased /\ Editing /\ MissingPages
      /\ RowIds /\ HeldRows /\ Holding /\ NothingYet /\ Blank /\ FailedIngests
      /\ pc \in [Workers -> {"idle", "begun", "work", "requeue", "release"}]
  BY TameBefore DEF GhostInv, TypeInv, PcTyped
<1>1. <<s, d>> \notin spoilt
  BY PageChange
<1>2. CASE DeleteMark(d)
  BY <1>2, DelChange DEF Unpeeked
<1>3. CASE DeleteInsert(d)
  BY <1>0, <1>3, RetractQueued
<1>4. ASSUME Gone(d), ~DeleteInsert(d) PROVE Unpeeked(w, d)'
  <2>1. ASSUME pc[w] = "work", Unpeeked(w, d), ~PostInsert(d), batch'[w].peeked = batch[w].peeked
        PROVE  Unpeeked(w, d)'
    <3>1. ASSUME NEW v \in Workers, Trim(v) PROVE FALSE
      <4>1. v = w
        BY <1>0, <2>1, <3>1, Alone DEF Trim, Reduced, Reducing
      <4> QED
        BY <1>0, <3>1, <4>1 DEF Trim
    <3> QED
      BY <1>0, <1>4, <2>1, <3>1, UnpeekedStays
  <2>2. ASSUME pc[w] = "work", d \in Edits(w, s), batch'[w].peeked = batch[w].peeked
        PROVE  Unpeeked(w, d)'
    <3>1. Unpeeked(w, d)
      BY <1>0, <1>1, <1>4, <2>2 DEF Editing
    <3>2. ~PostInsert(d)
      <4>1. ~Nowhere(d)
        BY <2>2 DEF Nowhere, Edits
      <4> QED
        BY <1>0, <1>4, <4>1, LateInsert
    <3> QED
      BY <2>1, <2>2, <3>1, <3>2
  <2>3. CASE pc[w] = "work" /\ batch'[w] = batch[w]
    BY <2>2, <2>3 DEF Edits
  <2>4. CASE Peek(w) /\ rows # {}
    <3>1. pc[w] = "begun" /\ batch'[w].adds = batch[w].adds /\ batch'[w].base = batch[w].base
      BY <2>4, PeekChanges DEF Peek
    <3>2. batch[w] = NoBatch
      BY <1>0, <3>1 DEF Blank
    <3> QED
      BY <3>1, <3>2 DEF Edits, NoBatch, NoUpdates
  <2>5. ASSUME NEW m \in batch[w].ops, MapRetract(w, m) \/ MapSkip(w, m) \/ MapFails(w, m)
        PROVE  Unpeeked(w, d)'
    <3>1. /\ pc[w] = "work" /\ batch'[w].peeked = batch[w].peeked
          /\ batch'[w].adds = batch[w].adds /\ batch'[w].base = batch[w].base
      BY <2>5, MapRetractChanges, MapSkipChanges, MapFailsChanges
      DEF MapRetract, MapSkip, MapFails, Mapping
    <3>2. batch[w].rets[s] \subseteq batch'[w].rets[s]
      <4>1. CASE MapRetract(w, m)
        <5>1. PICK live : batch'[w].rets = With(batch[w].rets, m.slugs \union live, m.doc)
          BY <4>1, MapRetractChanges
        <5> QED
          BY <5>1 DEF With
      <4>2. CASE MapSkip(w, m) \/ MapFails(w, m)
        BY <4>2, MapSkipChanges, MapFailsChanges
      <4> QED
        BY <2>5, <4>1, <4>2
    <3>3. d \in Edits(w, s)
      BY <3>1, <3>2 DEF Edits
    <3> QED
      BY <2>2, <3>1, <3>3
  <2>6. ASSUME NEW m \in batch[w].ops, NEW slugs \in SUBSET Slugs, MapDoc(w, m, slugs)
        PROVE  Unpeeked(w, d)'
    <3>0. pc[w] = "work" /\ ~Gone(m.doc)
      BY <2>6 DEF MapDoc, Mapping
    <3>1. /\ batch'[w].peeked = batch[w].peeked
          /\ batch'[w].adds = With(batch[w].adds, slugs, m.doc) /\ batch'[w].base = batch[w].base
          /\ batch'[w].rets = With(batch[w].rets, PagesOf(m.doc), m.doc)
      BY <2>6, MapDocChanges
    <3>2. m.doc # d
      BY <1>4, <3>0
    <3>3. d \in Edits(w, s)
      BY <3>1, <3>2 DEF Edits, With
    <3> QED
      BY <2>2, <3>0, <3>1, <3>3
  <2>7. ASSUME NEW t \in Slugs, ReduceRead(w, t) \/ ReduceWrite(w, t) \/ ReduceFails(w, t)
        PROVE  Unpeeked(w, d)'
    <3>1. pc[w] = "work" /\ batch[w].ops = {} /\ batch'[w].peeked = batch[w].peeked
      BY <2>7, ReduceChanges DEF ReduceRead, ReduceWrite, ReduceFails, Reducing
    <3>2. CASE t # s
      <4>1. d \in Edits(w, s)
        BY <2>7, <3>2, ReduceFields DEF Edits
      <4> QED
        BY <2>2, <3>1, <4>1
    <3>3. CASE t = s
      <4>1. /\ ReduceRead(w, s) /\ s \in pages /\ d \in refs[s] /\ d \notin batch[w].rets[s]
        <5>1. \/ batch'[w].adds[s] = {} /\ batch'[w].base[s] = {}
              \/ /\ ReduceRead(w, s)
                 /\ batch'[w].adds[s] = {e \in batch[w].adds[s] : ~Gone(e)}
                 /\ batch'[w].base[s] = IF s \in pages THEN refs[s] ELSE {}
                 /\ batch'[w].rets[s] = batch[w].rets[s]
          BY <2>7, <3>3, ReduceFields
        <5>2. d \in batch'[w].adds[s] \/ (d \in batch'[w].base[s] /\ d \notin batch'[w].rets[s])
          BY DEF Edits
        <5> QED
          BY <1>4, <5>1, <5>2
      <4>2. ChasedAt(d, s)
        BY <1>0, <1>1, <1>4, <4>1 DEF Chased
      <4>3. Unpeeked(w, d)
        <5>1. ASSUME NEW r \in rows, InHand(w, r, d, s) PROVE r.id \notin batch[w].peeked
          BY <3>1, <4>1, <5>1 DEF InHand, Retracting
        <5> QED
          BY <4>2, <5>1 DEF ChasedAt, Unpeeked
      <4>4. ~PostInsert(d)
        <5>1. ~Nowhere(d)
          BY <4>1 DEF Nowhere
        <5> QED
          BY <1>0, <1>4, <5>1, LateInsert
      <4> QED
        BY <2>1, <3>1, <4>3, <4>4
    <3> QED
      BY <3>2, <3>3
  <2>8. ASSUME NEW e \in batch[w].done, FinalizeDone(w, e) PROVE Unpeeked(w, d)'
    <3>1. /\ pc[w] = "work" /\ batch'[w].peeked = batch[w].peeked
          /\ batch'[w].adds = batch[w].adds /\ batch'[w].base = batch[w].base
          /\ batch'[w].rets = batch[w].rets
      BY <2>8, FinalizeChanges DEF FinalizeDone, Reduced, Reducing
    <3>2. d \in Edits(w, s)
      BY <3>1 DEF Edits
    <3> QED
      BY <2>2, <3>1, <3>2
  <2> QED
    BY <2>3, <2>4, <2>5, <2>6, <2>7, <2>8, WorkStep
<1> QED
  BY <1>2, <1>3, <1>4, GoneBegins

\* A batch that has a retract in hand still has it after a step, or edits the page.
LEMMA HandStays ==
  ASSUME TypeInv, RowIds, MissingPages, [Next]_vars, ~Fault("database"),
         NEW s \in Slugs, NEW d \in Docs, s \in pages, d \in refs[s], <<s, d>> \notin spoilt',
         NEW r \in rows, LastOf(r, d), NEW w \in Workers, InHand(w, r, d, s), ~ReduceWrite(w, s)
  PROVE  InHand(w, r, d, s)'
<1> SUFFICES ASSUME pc'[w] = "work", r.id \in batch'[w].peeked
             PROVE  Retracting(w, d)' \/ d \in batch'[w].rets[s]
  BY DEF InHand
<1>0. r.op = "retract" /\ r.doc = d /\ rows \subseteq Row
  BY DEF LastOf, TypeInv, QueueTyped
<1>1. ASSUME pc[w] = "work", batch'[w].peeked = batch[w].peeked
      PROVE  Retracting(w, d) \/ d \in batch[w].rets[s]
  BY <1>1 DEF InHand
<1>2. CASE pc[w] = "work" /\ batch'[w] = batch[w]
  BY <1>1, <1>2 DEF Retracting
<1>3. CASE Peek(w) /\ rows # {}
  <2>1. batch'[w].ops = LastPerDoc(Oldest) /\ batch'[w].peeked = {q.id : q \in Oldest}
    BY <1>3, PeekChanges
  <2>2. Oldest \subseteq rows
    BY DEF Oldest
  <2>3. r \in Oldest
    BY <2>1, <2>2 DEF RowIds
  <2>4. r \in LastPerDoc(Oldest)
    BY <1>0, <2>2, <2>3 DEF LastPerDoc, LastOf
  <2> QED
    BY <1>0, <2>1, <2>4 DEF Retracting
<1>4. ASSUME NEW m \in batch[w].ops, MapRetract(w, m)
      PROVE  Retracting(w, d)' \/ d \in batch'[w].rets[s]
  <2>1. /\ pc[w] = "work" /\ batch'[w].peeked = batch[w].peeked
        /\ batch'[w].ops = batch[w].ops \ {m}
    BY <1>4, MapRetractChanges DEF MapRetract, Mapping
  <2>2. batch'[w].rets[s] = With(batch[w].rets, m.slugs \union PagesOf(m.doc), m.doc)[s]
    <3>1. PICK live \in {PagesOf(m.doc), {}} :
              /\ live = PagesOf(m.doc) \/ Fault("database")
              /\ batch'[w].rets = With(batch[w].rets, m.slugs \union live, m.doc)
      BY <1>4, MapRetractChanges
    <3> QED
      BY <3>1
  <2>3. m.doc = d => d \in batch'[w].rets[s]
    BY <2>2 DEF With, PagesOf
  <2>4. d \in batch[w].rets[s] => d \in batch'[w].rets[s]
    BY <2>2 DEF With
  <2>5. Retracting(w, d) /\ m.doc # d => Retracting(w, d)'
    BY <2>1 DEF Retracting
  <2> QED
    BY <1>1, <2>1, <2>3, <2>4, <2>5
<1>5. ASSUME NEW m \in batch[w].ops,
             \/ MapSkip(w, m) \/ MapFails(w, m)
             \/ \E slugs \in SUBSET Slugs : MapDoc(w, m, slugs)
      PROVE  Retracting(w, d)' \/ d \in batch'[w].rets[s]
  <2>1. /\ pc[w] = "work" /\ batch'[w].peeked = batch[w].peeked
        /\ batch'[w].ops = batch[w].ops \ {m} /\ m.op = "ingest"
    BY <1>5, MapSkipChanges, MapFailsChanges, MapDocChanges DEF MapSkip, MapFails, MapDoc, Mapping
  <2>2. batch[w].rets[s] \subseteq batch'[w].rets[s]
    <3>1. CASE MapSkip(w, m) \/ MapFails(w, m)
      BY <3>1, MapSkipChanges, MapFailsChanges
    <3>2. ASSUME NEW slugs \in SUBSET Slugs, MapDoc(w, m, slugs)
          PROVE  batch[w].rets[s] \subseteq batch'[w].rets[s]
      <4>1. batch'[w].rets = With(batch[w].rets, PagesOf(m.doc), m.doc)
        BY <3>2, MapDocChanges
      <4> QED
        BY <4>1 DEF With
    <3> QED
      BY <1>5, <3>1, <3>2
  <2>3. Retracting(w, d) => Retracting(w, d)'
    BY <2>1 DEF Retracting
  <2> QED
    BY <1>1, <2>1, <2>2, <2>3
<1>6. ASSUME NEW t \in Slugs, ReduceRead(w, t) \/ ReduceWrite(w, t) \/ ReduceFails(w, t)
      PROVE  Retracting(w, d)' \/ d \in batch'[w].rets[s]
  <2>1. /\ pc[w] = "work" /\ batch'[w].peeked = batch[w].peeked
        /\ batch[w].ops = {} /\ batch'[w].ops = batch[w].ops
    BY <1>6, ReduceChanges DEF ReduceRead, ReduceWrite, ReduceFails, Reducing
  <2>2. d \in batch[w].rets[s]
    BY <1>1, <2>1 DEF Retracting
  <2>3. CASE t # s
    BY <1>6, <2>2, <2>3, ReduceFields
  <2>4. CASE t = s /\ ReduceFails(w, t)
    <3>1. <<s, d>> \in spoilt'
      BY <2>2, <2>4 DEF ReduceFails
    <3> QED
      BY <3>1
  <2>5. CASE t = s /\ ReduceRead(w, t)
    BY <2>2, <2>5, ReduceFields
  <2> QED
    BY <1>6, <2>3, <2>4, <2>5
<1>7. ASSUME NEW e \in batch[w].done, FinalizeDone(w, e)
      PROVE  Retracting(w, d)' \/ d \in batch'[w].rets[s]
  <2>1. /\ pc[w] = "work" /\ batch'[w].peeked = batch[w].peeked
        /\ batch'[w].ops = batch[w].ops /\ batch'[w].rets = batch[w].rets
    BY <1>7, FinalizeChanges DEF FinalizeDone, Reduced, Reducing
  <2> QED
    BY <1>1, <2>1 DEF Retracting
<1> QED
  BY <1>2, <1>3, <1>4, <1>5, <1>6, <1>7, WorkStep

\* Every step keeps what refers to a deleted document chased.
LEMMA NextChased ==
  ASSUME TypeInv, Deleting, GhostInv, DeletesApart, InsertsInTime, [Next]_vars, Tame'
  PROVE  Chased'
<1> SUFFICES ASSUME NEW d \in Docs, NEW s \in Slugs, Gone(d)', s \in pages', d \in refs'[s],
                    <<s, d>> \notin spoilt'
             PROVE  ChasedAt(d, s)'
  BY DEF Chased
<1>0. /\ "redis" \notin faults /\ ~Fault("insert") /\ ~Fault("database")
      /\ Chased /\ Editing /\ MissingPages
      /\ RowIds /\ HeldRows /\ Holding /\ NothingYet /\ Blank /\ FailedIngests
      /\ pc \in [Workers -> {"idle", "begun", "work", "requeue", "release"}]
  BY TameBefore DEF GhostInv, TypeInv, PcTyped
<1>1. <<s, d>> \notin spoilt
  BY PageChange
<1>2. CASE DeleteMark(d)
  BY <1>2, DelChange DEF ChasedAt
<1>3. CASE DeleteInsert(d)
  BY <1>0, <1>3, RetractQueued
<1>4. ASSUME Gone(d), ~DeleteInsert(d), NEW w \in Workers, ReduceWrite(w, s) PROVE ChasedAt(d, s)'
  <2>1. pc[w] = "work" /\ pc' = pc /\ batch'[w].peeked = batch[w].peeked
    BY <1>4, ReduceChanges DEF ReduceWrite, Reducing
  <2>2. d \in Edits(w, s)
    <3>1. refs \in Updates
      BY DEF TypeInv, PagesTyped
    <3>2. (s \in batch[w].missing) # (s \in pages)
      <4>1. CASE s \in pages
        BY <1>0, <2>1, <4>1 DEF MissingPages
      <4>2. CASE s \notin pages
        BY <1>4, <4>2 DEF ReduceWrite
      <4> QED
        BY <4>1, <4>2
    <3>3. refs' = [refs EXCEPT ![s] = (batch[w].base[s] \ batch[w].rets[s]) \union batch[w].adds[s]]
      BY <1>4, <3>2 DEF ReduceWrite
    <3> QED
      BY <3>1, <3>3 DEF Updates, Edits
  <2>3. Unpeeked(w, d)
    BY <1>0, <1>1, <1>4, <2>1, <2>2 DEF Editing
  <2>4. ~PostInsert(d)
    <3>1. ~Nowhere(d)
      BY <2>2 DEF Nowhere, Edits
    <3> QED
      BY <1>0, <1>4, <3>1, LateInsert
  <2>5. ASSUME NEW v \in Workers PROVE ~Trim(v)
    <3>1. Trim(v) => pc[v] = "work" /\ pc'[v] = "requeue"
      BY <1>0 DEF Trim, Reduced, Reducing
    <3> QED
      BY <2>1, <3>1
  <2>6. Unpeeked(w, d)'
    BY <1>0, <1>4, <2>1, <2>3, <2>4, <2>5, UnpeekedStays
  <2>7. ASSUME NEW r, r.id \notin batch'[w].peeked, NEW v \in Workers PROVE InHand(v, r, d, s)'
    <3>1. pc[v] = "work" => v = w
      BY <1>0, <2>1, Alone
    <3> QED
      BY <2>1, <2>7, <3>1 DEF InHand
  <2> QED
    BY <2>6, <2>7 DEF Unpeeked, ChasedAt
<1>5. ASSUME NEW e \in Docs, DeletePage(e, s), d \in del[e].found[s] \ {e}, Gone(d) PROVE FALSE
  BY <1>5 DEF DeletePage, DeletesApart
<1>6. ASSUME Gone(d), ~DeleteInsert(d), \A w \in Workers : ~ReduceWrite(w, s),
             s \in pages, d \in refs[s]
      PROVE  ChasedAt(d, s)'
  <2>1. ChasedAt(d, s)
    BY <1>0, <1>1, <1>6 DEF Chased
  <2>2. CASE Cleaning(d)
    BY <1>6, <2>2, DelChange DEF ChasedAt
  <2>3. ASSUME NEW r \in rows, LastOf(r, d), \A w \in Workers : InHand(w, r, d, s)
        PROVE  ChasedAt(d, s)'
    <3>1. ~PostInsert(d)
      <4>1. ~Nowhere(d)
        BY <1>6 DEF Nowhere
      <4> QED
        BY <1>0, <1>6, <4>1, LateInsert
    <3>2. ASSUME NEW w \in Workers, Trim(w) PROVE r.id \notin batch[w].peeked
      <4>1. pc[w] = "work" /\ batch[w].ops = {} /\ batch[w].rets[s] = {}
        BY <3>2 DEF Trim, Reduced, Reducing, Pending
      <4> QED
        BY <2>3, <4>1 DEF InHand, Retracting
    <3>3. r \in rows' /\ LastOf(r, d)'
      BY <1>0, <1>6, <2>3, <3>1, <3>2, LastStays
    <3>4. \A w \in Workers : InHand(w, r, d, s)'
      BY <1>0, <1>6, <2>3, HandStays
    <3> QED
      BY <3>3, <3>4 DEF ChasedAt
  <2> QED
    BY <2>1, <2>2, <2>3 DEF ChasedAt
<1>7. CASE Gone(d) /\ ~DeleteInsert(d)
  <2>1. CASE \A w \in Workers : ~ReduceWrite(w, s)
    <3>1. s \in pages /\ d \in refs[s]
      BY <1>5, <1>7, <2>1, PageChange
    <3> QED
      BY <1>6, <1>7, <2>1, <3>1
  <2> QED
    BY <1>4, <1>7, <2>1
<1> QED
  BY <1>2, <1>3, <1>7, GoneBegins

\* Once everything is quiet no page refers to a document that was deleted while a
\* batch was at work on it (cleanupWikiOnKnowledgeDelete and ProcessWikiIngest), for
\* any number of documents, pages, workers, reparses and deletions, unless the edit
\* that was to remove it failed: provided that the clean-ups of two documents do not
\* meet on a page and no document is deleted just before its second ingest is queued.
THEOREM GhostsVanish == Spec /\ [](DeletesApart /\ InsertsInTime) => []NoGhostAtRest
<1> DEFINE Inv == TypeInv /\ Deleting /\ GhostInv
<1>1. Init => Inv
  <2> SUFFICES ASSUME Init PROVE Inv
    OBVIOUS
  <2>1. Deleting /\ Seeding /\ RowIds
    BY DEF Init, Deleting, NotDeleting, Seeding, RowIds
  <2>2. HeldRows /\ Blank /\ FailedIngests /\ MissingPages
    BY DEF Init, HeldRows, Held, NoBatch, Blank, FailedIngests, MissingPages
  <2>3. Holding
    BY DEF Init, Holding, Running
  <2>4. NothingYet
    BY DEF Init, NothingYet, Unborn, Nowhere, NotDeleting, NoBatch, NoUpdates
  <2>5. Chased /\ Editing
    BY WikiAssumption DEF Init, Chased, Editing, Gone
  <2> QED
    BY <2>1, <2>2, <2>3, <2>4, <2>5, InitType DEF GhostInv
<1>2. Inv /\ (DeletesApart /\ InsertsInTime) /\ [Next]_vars => Inv'
  <2> SUFFICES ASSUME TypeInv, Deleting, GhostInv, DeletesApart, InsertsInTime, [Next]_vars
               PROVE  Inv'
    OBVIOUS
  <2>1. TypeInv' /\ Deleting'
    BY NextType, NextDeleting
  <2>2. RowIds' /\ HeldRows' /\ Holding' /\ Seeding'
    BY NextRowIds, NextHeldRows, NextHolding, NextSeeding DEF GhostInv
  <2>3. NothingYet' /\ Blank' /\ FailedIngests'
    BY NextNothingYet, NextBatch DEF GhostInv
  <2>4. ASSUME Tame' PROVE Chased' /\ Editing' /\ MissingPages'
    BY <2>4, NextChased, NextEditing, NextMissing, TameBefore DEF GhostInv
  <2> QED
    BY <2>1, <2>2, <2>3, <2>4 DEF GhostInv
<1>3. Inv => NoGhostAtRest
  <2> SUFFICES ASSUME GhostInv, AtRest, Tame, NEW s \in pages, NEW d \in refs[s], TypeInv,
                      Gone(d), <<s, d>> \notin spoilt
               PROVE  FALSE
    BY DEF NoGhostAtRest, Tame
  <2>1. s \in Slugs /\ d \in Docs
    BY DEF TypeInv, PagesTyped, Updates
  <2>2. ChasedAt(d, s)
    BY <2>1 DEF GhostInv, Chased
  <2> QED
    BY <2>1, <2>2 DEF ChasedAt, Cleaning, AtRest
<1> HIDE DEF Inv
<1> QED
  BY <1>1, <1>2, <1>3, PTL DEF Spec
===============================================================================
