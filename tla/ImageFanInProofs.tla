--------------------------- MODULE ImageFanInProofs ---------------------------
(***************************************************************************)
(* The image fan-in, for any number of images, post-processing workers,    *)
(* retries and runs of the parser: its types, that a retry does not write  *)
(* a text twice, that the counter is exact, and that the post-processing   *)
(* comes after the last image.                                             *)
(***************************************************************************)
EXTENDS ImageFanIn, FiniteSetTheorems, TLAPS

Pcs == {"none", "queued"} \union Running \union Ended

\* A task is a run of the parser and an image.
LEMMA TaskParts ==
  /\ \A t \in Tasks : t[1] \in 1..MaxFan /\ t[2] \in Images /\ t = <<t[1], t[2]>>
  /\ \A f \in 1..MaxFan : \A i \in Images :
        <<f, i>> \in Tasks /\ <<f, i>>[1] = f /\ <<f, i>>[2] = i
<1>1. \A t \in (1..MaxFan) \X Images :
          t[1] \in 1..MaxFan /\ t[2] \in Images /\ t = <<t[1], t[2]>>
  BY SMT
<1>2. \A f \in 1..MaxFan : \A i \in Images : <<f, i>> \in (1..MaxFan) \X Images
  BY SMT
<1>3. \A f \in 1..MaxFan : \A i \in Images : <<f, i>>[1] = f /\ <<f, i>>[2] = i
  BY SMT
<1>4. Tasks = (1..MaxFan) \X Images
  BY DEF Tasks
<1> QED
  BY <1>1, <1>2, <1>3, <1>4, Zenon

\* Every initial state has its types.
LEMMA InitType == Init => TypeOK
<1> SUFFICES ASSUME Init PROVE TypeOK
  OBVIOUS
<1>1. NoTask \in [pc: {"none", "queued"} \union Running \union Ended, try: 0..MaxTry]
  BY ImageAssumption DEF NoTask
<1>2. NoPlan \in [listed: BOOLEAN, missing: SUBSET Images]
  BY DEF NoPlan
<1>3. fan \in 0..MaxFan /\ counter \in Int /\ posts \in Nat /\ redis \in BOOLEAN
  BY ImageAssumption DEF Init
<1>4. task \in [Tasks -> [pc: {"none", "queued"} \union Running \union Ended, try: 0..MaxTry]]
  BY <1>1 DEF Init
<1> QED
  BY <1>2, <1>3, <1>4 DEF Init, TypeOK

\* What has happened stays in the record of it.
LEMMA EventType ==
  ASSUME TypeOK, NEW kind, Event(kind)
  PROVE  events' \subseteq Events /\ events \subseteq events' /\ kind \in events'
BY DEF TypeOK, Event

\* A task that moves on, or is tried again, keeps its type, and no other moves.
LEMMA MoveType ==
  ASSUME TypeOK, NEW t \in Tasks, NEW next \in Pcs,
         Goto(t, next) \/ (task[t].try < MaxTry /\ next = "queued" /\ Retry(t))
  PROVE  /\ task' \in [Tasks -> [pc: Pcs, try: 0..MaxTry]]
         /\ task'[t].pc = next
         /\ \A u \in Tasks : u # t => task'[u] = task[u]
<1>0. MaxTry \in Nat /\ task \in [Tasks -> [pc: Pcs, try: 0..MaxTry]]
  BY ImageAssumption DEF TypeOK, Pcs
<1>1. PICK r \in [pc: Pcs, try: 0..MaxTry] : r.pc = next /\ task' = [task EXCEPT ![t] = r]
  <2>1. CASE Goto(t, next)
    <3> DEFINE r == [pc |-> next, try |-> IF next \in Ended THEN 0 ELSE task[t].try]
    <3>1. r \in [pc: Pcs, try: 0..MaxTry] /\ r.pc = next
      BY <1>0
    <3>2. task' = [task EXCEPT ![t] = r]
      BY <1>0, <2>1 DEF Goto
    <3> QED
      BY <3>1, <3>2
  <2>2. CASE task[t].try < MaxTry /\ next = "queued" /\ Retry(t)
    <3> DEFINE r == [pc |-> "queued", try |-> task[t].try + 1]
    <3>1. r \in [pc: Pcs, try: 0..MaxTry] /\ r.pc = next
      BY <1>0, <2>2
    <3>2. task' = [task EXCEPT ![t] = r]
      BY <1>0, <2>2 DEF Retry
    <3> QED
      BY <3>1, <3>2
  <2> QED
    BY <2>1, <2>2
<1>2. task'[t] = r /\ \A u \in Tasks : u # t => task'[u] = task[u]
  BY <1>0, <1>1
<1>3. task' \in [Tasks -> [pc: Pcs, try: 0..MaxTry]]
  BY <1>0, <1>1
<1> QED
  BY <1>1, <1>2, <1>3

\* The steps of an image task keep the types.
LEMMA ImageType ==
  ASSUME TypeOK, NEW t \in Tasks, ImageStep(t) \/ ImageCrash(t)
  PROVE  TypeOK'
<1>0. /\ MaxTry \in Nat /\ task[t].try \in 0..MaxTry
      /\ counter \in Int /\ posts \in Nat /\ texts \in [Tasks -> Nat]
  BY ImageAssumption DEF TypeOK
<1>1. task' \in [Tasks -> [pc: Pcs, try: 0..MaxTry]]
  <2>1. CASE ImageStart(t)
    BY <2>1, MoveType DEF ImageStart, Pcs, Running, Ended
  <2>2. CASE ImageSkipped(t)
    BY <2>2, MoveType DEF ImageSkipped, Pcs, Running
  <2>3. CASE ImageStored(t)
    BY <2>3, MoveType DEF ImageStored, Pcs, Running
  <2>4. CASE ImageFails(t)
    BY <2>4, MoveType DEF ImageFails, Pcs, Running, Ended
  <2>5. CASE ImageCount(t)
    BY <2>5, MoveType DEF ImageCount, Pcs, Running, Ended
  <2>6. CASE ImageClear(t)
    BY <2>6, MoveType DEF ImageClear, Pcs, Running
  <2>7. CASE ImagePost(t)
    BY <2>7, MoveType DEF ImagePost, Pcs, Ended
  <2>8. CASE ImageCrash(t)
    BY <2>8, MoveType DEF ImageCrash, Pcs, Ended
  <2> QED
    BY <2>1, <2>2, <2>3, <2>4, <2>5, <2>6, <2>7, <2>8 DEF ImageStep
<1>2. counter' \in Int
  BY <1>0 DEF ImageStep, ImageStart, ImageSkipped, ImageStored, ImageFails, ImageCount,
              ImageClear, ImagePost, ImageCrash
<1>3. texts' \in [Tasks -> Nat]
  BY <1>0 DEF ImageStep, ImageStart, ImageSkipped, ImageStored, ImageFails, ImageCount,
              ImageClear, ImagePost, ImageCrash, imageVars
<1>4. posts' \in Nat
  BY <1>0 DEF ImageStep, ImageStart, ImageSkipped, ImageStored, ImageFails, ImageCount,
              ImageClear, ImagePost, ImageCrash, postVars
<1>5. events' \subseteq Events
  <2>1. CASE UNCHANGED events
    BY <2>1 DEF TypeOK
  <2>2. ASSUME NEW kind, Event(kind) PROVE events' \subseteq Events
    BY <2>2, EventType
  <2> QED
    BY <2>1, <2>2 DEF ImageStep, ImageStart, ImageSkipped, ImageStored, ImageFails, ImageCount,
                      ImageClear, ImagePost, ImageCrash
<1>6. UNCHANGED <<redis, status, parseVars, plan, missed, cancel>>
  BY DEF ImageStep, ImageStart, ImageSkipped, ImageStored, ImageFails, ImageCount,
         ImageClear, ImagePost, ImageCrash, postVars
<1> QED
  BY <1>1, <1>2, <1>3, <1>4, <1>5, <1>6 DEF TypeOK, parseVars, Pcs

\* So do the steps of the parser.
LEMMA ParserType ==
  ASSUME TypeOK, ParseStep \/ ParseCrash
  PROVE  TypeOK'
<1>0. /\ MaxFan \in Nat /\ fan \in 0..MaxFan /\ counter \in Int
      /\ Cardinality(Images) \in Nat
  BY ImageAssumption, FS_CardinalityType DEF TypeOK
<1>1. CASE ParseStart
  BY <1>0, <1>1 DEF ParseStart, TypeOK, postVars
<1>2. CASE ParseSet
  <2>1. events' \subseteq Events
    BY <1>2, EventType DEF ParseSet, TypeOK
  <2>2. counter' \in Int
    BY <1>0, <1>2 DEF ParseSet
  <2>3. /\ parse' \in {"done", "send"} /\ status' \in {status, "processing"}
        /\ toSend' \in {toSend, Images} /\ UNCHANGED <<redis, fan, imageVars, postVars, cancel>>
    BY <1>2 DEF ParseSet
  <2> QED
    BY <2>1, <2>2, <2>3 DEF TypeOK, imageVars, postVars
<1>3. ASSUME NEW i \in Images, ParseSend(i) PROVE TypeOK'
  <2>1. events' \subseteq Events
    BY <1>3, EventType DEF ParseSend, TypeOK
  <2>2. task' \in [Tasks -> [pc: Pcs, try: 0..MaxTry]]
    <3>1. CASE <<fan, i>> \in Tasks
      BY <1>3, <3>1, MoveType DEF ParseSend, Pcs, Ended
    <3>2. CASE <<fan, i>> \notin Tasks
      <4>1. task' = task
        BY <1>3, <3>2 DEF ParseSend, Goto, TypeOK
      <4> QED
        BY <4>1 DEF TypeOK, Pcs
    <3> QED
      BY <3>1, <3>2
  <2>3. /\ parse' \in {"done", "send"} /\ toSend' \subseteq toSend
        /\ UNCHANGED <<redis, status, fan, counter, texts, postVars, cancel>>
    BY <1>3 DEF ParseSend
  <2> QED
    BY <2>1, <2>2, <2>3 DEF TypeOK, postVars, Pcs
<1>4. CASE ParseCrash
  <2>1. events' \subseteq Events
    BY <1>4, EventType DEF ParseCrash
  <2> QED
    BY <1>4, <2>1 DEF ParseCrash, TypeOK, imageVars, postVars
<1> QED
  BY <1>1, <1>2, <1>3, <1>4 DEF ParseStep

\* So do the others.
LEMMA OtherType ==
  ASSUME TypeOK, Expire \/ PostStep \/ CancelMark \/ CancelDequeue \/ Reparse
  PROVE  TypeOK'
<1>1. CASE Expire
  <2>1. events' \subseteq Events
    BY <1>1, EventType DEF Expire
  <2> QED
    BY <1>1, <2>1 DEF Expire, TypeOK, parseVars, imageVars, postVars
<1>2. ASSUME NEW p \in Posters, PostList(p) PROVE TypeOK'
  <2>1. posts' \in Nat
    BY <1>2 DEF PostList, TypeOK
  <2>2. plan' \in [Posters -> [listed: BOOLEAN, missing: SUBSET Images]]
    BY <1>2 DEF PostList, TypeOK
  <2> QED
    BY <1>2, <2>1, <2>2 DEF PostList, TypeOK, parseVars, imageVars
<1>3. ASSUME NEW p \in Posters, PostSeed(p) PROVE TypeOK'
  <2>1. plan' \in [Posters -> [listed: BOOLEAN, missing: SUBSET Images]]
    BY <1>3 DEF PostSeed, TypeOK, NoPlan
  <2>2. missed' \subseteq Images /\ status' \in {status, "finalizing"}
    BY <1>3 DEF PostSeed, TypeOK
  <2> QED
    BY <1>3, <2>1, <2>2 DEF PostSeed, TypeOK, parseVars, imageVars
<1>4. CASE CancelMark
  <2>1. events' \subseteq Events
    BY <1>4, EventType DEF CancelMark
  <2> QED
    BY <1>4, <2>1 DEF CancelMark, TypeOK, parseVars, imageVars, postVars
<1>5. CASE CancelDequeue
  <2>1. task' \in [Tasks -> [pc: Pcs, try: 0..MaxTry]]
    BY <1>5, ImageAssumption DEF CancelDequeue, TypeOK, Pcs, Ended
  <2> QED
    BY <1>5, <2>1 DEF CancelDequeue, TypeOK, Pcs
<1>6. CASE Reparse
  <2>1. events' \subseteq Events
    BY <1>6, EventType DEF Reparse
  <2> QED
    BY <1>6, <2>1 DEF Reparse, TypeOK, imageVars, postVars
<1> QED
  BY <1>1, <1>2, <1>3, <1>4, <1>5, <1>6 DEF PostStep

\* Every step keeps the types.
LEMMA NextType == TypeOK /\ [Next]_vars => TypeOK'
<1> SUFFICES ASSUME TypeOK, [Next]_vars PROVE TypeOK'
  OBVIOUS
<1>1. CASE UNCHANGED vars
  BY <1>1 DEF vars, TypeOK, parseVars, imageVars, postVars
<1>2. CASE Next
  BY <1>2, ImageType, ParserType, OtherType DEF Next
<1> QED
  BY <1>1, <1>2

\* Every variable of the fan-in keeps its type: the status is one of the four the
\* image tasks meet, no image is tried more than MaxTry times again
\* (isFinalAsynqAttempt), and the counter is an integer that may go below zero.
THEOREM TypeCorrect == Spec => []TypeOK
<1>1. Init => TypeOK
  BY InitType
<1>2. TypeOK /\ [Next]_vars => TypeOK'
  BY NextType
<1> QED
  BY <1>1, <1>2, PTL DEF Spec
-------------------------------------------------------------------------------
(* No run of the parser reads an image twice.                               *)

\* No worker has died and no run of the parser has caught up with another.
Orderly == events \cap {"crash", "overlap"} = {}

\* An image the parser has not sent has no task, and a task that has not ended its
\* work has written nothing.
Fresh ==
    \A t \in Tasks :
        t[1] > fan \/ (t[1] = fan /\ (parse = "save" \/ t[2] \in toSend)) => task[t] = NoTask
Sending == (parse = "send") = (toSend # {})
Unwritten ==
    \A t \in Tasks :
        /\ task[t].pc \in {"none", "queued", "work"} => texts[t] = 0
        /\ texts[t] <= 1
OrderInv == Orderly => Fresh /\ Sending /\ Unwritten

\* The steps of an image task keep the order.
LEMMA ImageOrder ==
  ASSUME TypeOK, OrderInv, NEW t \in Tasks, ImageStep(t) \/ ImageCrash(t)
  PROVE  OrderInv'
<1> SUFFICES ASSUME Orderly' PROVE Fresh' /\ Sending' /\ Unwritten'
  BY DEF OrderInv
<1>0. Orderly /\ ~ImageCrash(t)
  <2>1. events \subseteq events'
    BY EventType DEF ImageStep, ImageStart, ImageSkipped, ImageStored, ImageFails, ImageCount,
                     ImageClear, ImagePost, ImageCrash
  <2>2. ASSUME ImageCrash(t) PROVE "crash" \in events'
    BY <2>2, EventType DEF ImageCrash
  <2> QED
    BY <2>1, <2>2 DEF Orderly
<1>1. Fresh /\ Sending /\ Unwritten /\ UNCHANGED parseVars
  BY <1>0 DEF OrderInv, ImageStep, ImageStart, ImageSkipped, ImageStored, ImageFails, ImageCount,
              ImageClear, ImagePost
<1>2. /\ task[t].pc \notin {"none"}
      /\ \A u \in Tasks : u # t => task'[u] = task[u]
      /\ task'[t].pc \in {"none", "queued", "work"} => task[t].pc \in {"queued", "work"} /\ UNCHANGED texts
  <2>1. CASE ImageStart(t)
    BY <2>1, MoveType DEF ImageStart, Pcs, Running, Ended
  <2>2. CASE ImageSkipped(t)
    BY <2>2, MoveType DEF ImageSkipped, Pcs, Running
  <2>3. CASE ImageStored(t)
    BY <2>3, MoveType DEF ImageStored, Pcs, Running
  <2>4. CASE ImageFails(t)
    BY <2>4, MoveType DEF ImageFails, Pcs, Running, Ended
  <2>5. CASE ImageCount(t)
    BY <2>5, MoveType DEF ImageCount, Pcs, Running, Ended
  <2>6. CASE ImageClear(t)
    BY <2>6, MoveType DEF ImageClear, Pcs, Running
  <2>7. CASE ImagePost(t)
    BY <2>7, MoveType DEF ImagePost, Pcs, Ended
  <2> QED
    BY <1>0, <2>1, <2>2, <2>3, <2>4, <2>5, <2>6, <2>7 DEF ImageStep
<1>3. /\ \A u \in Tasks : u # t => texts'[u] = texts[u]
      /\ texts'[t] = texts[t] \/ (texts[t] = 0 /\ texts'[t] = 1)
  <2>1. CASE ImageStored(t)
    <3>1. texts \in [Tasks -> Nat] /\ texts[t] = 0
      BY <1>1, <2>1 DEF ImageStored, Unwritten, TypeOK
    <3> QED
      BY <2>1, <3>1 DEF ImageStored
  <2>2. CASE UNCHANGED texts
    BY <2>2
  <2> QED
    BY <1>0, <2>1, <2>2 DEF ImageStep, ImageStart, ImageSkipped, ImageFails, ImageCount,
                            ImageClear, ImagePost, imageVars
<1>4. Fresh'
  <2>1. task[t] # NoTask
    BY <1>2 DEF NoTask
  <2> QED
    BY <1>1, <1>2, <2>1 DEF Fresh, parseVars
<1>5. Unwritten'
  <2>1. ASSUME NEW u \in Tasks
        PROVE  /\ task'[u].pc \in {"none", "queued", "work"} => texts'[u] = 0
               /\ texts'[u] <= 1
    <3>1. texts[u] <= 1 /\ (task[u].pc \in {"none", "queued", "work"} => texts[u] = 0)
      BY <1>1 DEF Unwritten
    <3> QED
      BY <1>2, <1>3, <3>1
  <2> QED
    BY <2>1 DEF Unwritten
<1> QED
  BY <1>1, <1>4, <1>5 DEF Sending, parseVars

\* So do the steps of the parser.
LEMMA ParserOrder ==
  ASSUME TypeOK, OrderInv, ParseStep \/ ParseCrash
  PROVE  OrderInv'
<1> SUFFICES ASSUME Orderly' PROVE Fresh' /\ Sending' /\ Unwritten'
  BY DEF OrderInv
<1>0. Orderly /\ ~ParseCrash
  <2>1. events \subseteq events'
    BY EventType DEF ParseStep, ParseStart, ParseSet, ParseSend, ParseCrash
  <2>2. ASSUME ParseCrash PROVE "crash" \in events'
    BY <2>2, EventType DEF ParseCrash
  <2> QED
    BY <2>1, <2>2 DEF Orderly
<1>1. Fresh /\ Sending /\ Unwritten
  BY <1>0 DEF OrderInv
<1>2. fan \in Nat /\ \A t \in Tasks : t[1] \in Nat
  BY TaskParts, ImageAssumption DEF TypeOK
<1>3. CASE ParseStart
  <2>1. CASE status = "cancelled"
    BY <1>1, <1>3, <2>1 DEF ParseStart, Fresh, Sending, Unwritten
  <2>2. CASE status # "cancelled"
    <3>1. /\ parse = "queued" /\ parse' = "save" /\ fan' = fan + 1 /\ UNCHANGED <<toSend, task>>
          /\ texts' = [t \in Tasks |-> 0]
      BY <1>3, <2>2 DEF ParseStart
    <3>2. Fresh'
      <4>1. \A t \in Tasks : t[1] > fan' \/ t[1] = fan' => t[1] > fan
        BY <1>2, <3>1
      <4> QED
        BY <1>1, <3>1, <4>1 DEF Fresh
    <3>3. Sending'
      BY <1>1, <3>1 DEF Sending
    <3>4. Unwritten'
      BY <3>1 DEF Unwritten
    <3> QED
      BY <3>2, <3>3, <3>4
  <2> QED
    BY <2>1, <2>2
<1>4. CASE ParseSet
  <2>0. Images # {}
    BY ImageAssumption
  <2>1. UNCHANGED <<fan, imageVars>> /\ parse = "save"
    BY <1>4 DEF ParseSet
  <2>2. \/ parse' = "done" /\ UNCHANGED toSend
        \/ parse' = "send" /\ toSend' = Images
    BY <1>4 DEF ParseSet
  <2>3. Sending'
    BY <1>1, <2>0, <2>1, <2>2 DEF Sending
  <2>4. Fresh'
    BY <1>1, <2>1, <2>2 DEF Fresh, imageVars
  <2>5. Unwritten'
    BY <1>1, <2>1 DEF Unwritten, imageVars
  <2> QED
    BY <2>3, <2>4, <2>5
<1>5. ASSUME NEW i \in Images, ParseSend(i) PROVE Fresh' /\ Sending' /\ Unwritten'
  <2>1. /\ parse = "send" /\ i \in toSend /\ toSend' = toSend \ {i} /\ UNCHANGED <<fan, texts>>
        /\ parse' = (IF toSend' = {} THEN "done" ELSE "send")
    BY <1>5 DEF ParseSend
  <2>2. /\ \A u \in Tasks : u # <<fan, i>> => task'[u] = task[u]
    <3>1. Goto(<<fan, i>>, "queued") \/ Goto(<<fan, i>>, "lost")
      BY <1>5 DEF ParseSend
    <3> QED
      BY <3>1 DEF Goto, TypeOK
  <2>3. Sending'
    BY <2>1 DEF Sending
  <2>4. Fresh'
    <3>1. ASSUME NEW t \in Tasks, t[1] > fan \/ (t[1] = fan /\ t[2] \in toSend \ {i})
          PROVE  t # <<fan, i>> /\ task[t] = NoTask
      <4>1. task[t] = NoTask
        BY <1>1, <3>1 DEF Fresh
      <4>2. t # <<fan, i>>
        BY <1>2, <3>1
      <4> QED
        BY <4>1, <4>2
    <3>2. parse' # "save"
      BY <2>1
    <3> QED
      BY <2>1, <2>2, <3>1, <3>2 DEF Fresh
  <2>5. Unwritten'
    <3>1. ASSUME NEW t \in Tasks, t = <<fan, i>> PROVE texts[t] = 0
      <4>1. t[1] = fan /\ t[2] = i
        BY <3>1
      <4>2. task[t] = NoTask
        BY <1>1, <2>1, <4>1 DEF Fresh
      <4>3. task[t].pc = "none"
        BY <4>2 DEF NoTask
      <4> QED
        BY <1>1, <4>3 DEF Unwritten
    <3> QED
      BY <1>1, <2>1, <2>2, <3>1 DEF Unwritten
  <2> QED
    BY <2>3, <2>4, <2>5
<1> QED
  BY <1>0, <1>3, <1>4, <1>5 DEF ParseStep

\* So do the others; a reparse of a document whose tasks still run is not orderly.
LEMMA OtherOrder ==
  ASSUME TypeOK, OrderInv, Expire \/ PostStep \/ CancelMark \/ CancelDequeue \/ Reparse
  PROVE  OrderInv'
<1> SUFFICES ASSUME Orderly' PROVE Fresh' /\ Sending' /\ Unwritten'
  BY DEF OrderInv
<1>0. Orderly
  <2>1. events \subseteq events'
    BY EventType DEF Expire, PostStep, PostList, PostSeed, CancelMark, CancelDequeue, Reparse
  <2> QED
    BY <2>1 DEF Orderly
<1>1. Fresh /\ Sending /\ Unwritten
  BY <1>0 DEF OrderInv
<1>2. CASE UNCHANGED <<parseVars, imageVars>>
  BY <1>1, <1>2 DEF Fresh, Sending, Unwritten, parseVars, imageVars
<1>3. CASE CancelDequeue
  <2>1. /\ parse' = (IF parse = "queued" THEN "done" ELSE parse)
        /\ UNCHANGED <<toSend, fan, texts>>
        /\ task' = [t \in Tasks |-> IF task[t].pc = "queued" THEN [pc |-> "done", try |-> 0] ELSE task[t]]
    BY <1>3 DEF CancelDequeue
  <2>2. Sending'
    BY <1>1, <2>1 DEF Sending
  <2>3. Fresh'
    <3>1. \A t \in Tasks : task[t] = NoTask => task'[t] = NoTask
      BY <2>1 DEF NoTask
    <3>2. parse' = "save" => parse = "save"
      BY <2>1
    <3> QED
      BY <1>1, <2>1, <3>1, <3>2 DEF Fresh
  <2>4. Unwritten'
    <3>1. \A t \in Tasks : task'[t].pc \in {"none", "queued", "work"} => task'[t].pc = task[t].pc
      BY <2>1
    <3> QED
      BY <1>1, <2>1, <3>1 DEF Unwritten
  <2> QED
    BY <2>2, <2>3, <2>4
<1>4. CASE Reparse
  <2>1. parse = "done" /\ parse' = "queued" /\ UNCHANGED <<toSend, fan, imageVars>>
    BY <1>4 DEF Reparse
  <2> QED
    BY <1>1, <2>1 DEF Fresh, Sending, Unwritten, imageVars
<1> QED
  BY <1>2, <1>3, <1>4 DEF Expire, PostStep, PostList, PostSeed, CancelMark

\* Every step keeps the order.
LEMMA NextOrder == TypeOK /\ OrderInv /\ [Next]_vars => OrderInv'
<1> SUFFICES ASSUME TypeOK, OrderInv, [Next]_vars PROVE OrderInv'
  OBVIOUS
<1>1. CASE UNCHANGED vars
  BY <1>1 DEF vars, OrderInv, Orderly, Fresh, Sending, Unwritten, parseVars, imageVars
<1>2. CASE Next
  BY <1>2, ImageOrder, ParserOrder, OtherOrder DEF Next
<1> QED
  BY <1>1, <1>2

\* Every initial state is in order.
LEMMA InitOrder == Init => OrderInv
BY DEF Init, OrderInv, Fresh, Sending, Unwritten

\* As long as no worker dies and no reparse overlaps a run of the parser, no
\* number of failed tries makes a run write the text of an image twice: an image
\* task that is tried again (image_multimodal.go) has created no chunks yet.
THEOREM TextOnce == Spec => []ImageTextOnce
<1>1. Init => TypeOK /\ OrderInv
  BY InitType, InitOrder
<1>2. (TypeOK /\ OrderInv) /\ [Next]_vars => (TypeOK /\ OrderInv)'
  BY NextType, NextOrder
<1>3. OrderInv => ImageTextOnce
  BY DEF OrderInv, Orderly, Unwritten, ImageTextOnce
<1> QED
  BY <1>1, <1>2, <1>3, PTL DEF Spec
-------------------------------------------------------------------------------
(* The counter is exact, and the last image enqueues the post-processing.   *)

\* Redis answers, no worker dies and no reparse overlaps: the images may still be
\* tried again, lost in the queue or cancelled.
Calm == redis /\ events \cap {"redis", "expire", "crash", "overlap"} = {}
Over == {"none"} \union Ended

\* The tasks of earlier runs are over; all are while the parser waits.
Old == \A t \in Tasks : t[1] < fan => task[t].pc \in Over
Waiting ==
    parse = "queued" =>
        /\ \A t \in Tasks : task[t].pc \in Over
        /\ posts = 0 /\ \A p \in Posters : ~plan[p].listed
\* A parser that is running, or has run, has its number and its tasks.
Begun == parse \in {"save", "send"} \/ (parse = "done" /\ status # "cancelled") => fan > 0
Sent ==
    parse \in {"send", "done"} /\ status # "cancelled" =>
        \A i \in Images \ toSend : task[<<fan, i>>].pc # "none"
Cancelling ==
    /\ cancel => status = "cancelled"
    /\ status = "cancelled" => "cancel" \in events
    /\ status = "pending" => parse = "queued"
\* The counter is the number of images that have not ended.
Exact ==
    parse \in {"send", "done"} /\ status # "cancelled" => counter = Cardinality(Uncounted)
\* The post-processing is under way only when all have.
Posting ==
    posts > 0 \/ (\E t \in Tasks : task[t].pc \in {"clear", "post"}) \/ \E p \in Posters : plan[p].listed
Late == status # "cancelled" /\ Posting => parse = "done" /\ Uncounted = {}
Complete ==
    /\ missed = {}
    /\ \A p \in Posters : plan[p].missing # {} => plan[p].listed /\ status = "cancelled"
CalmParts == Old /\ Waiting /\ Begun /\ Sent /\ Cancelling /\ Exact /\ Late /\ Complete
CalmInv == Calm => CalmParts

\* What is not calm stays so, and what is calm is orderly.
LEMMA CalmBefore ==
  ASSUME TypeOK, [Next]_vars, Calm'
  PROVE  /\ Calm /\ Orderly /\ Orderly'
         /\ \A kind \in {"redis", "expire", "crash", "overlap"} : kind \notin events'
<1>1. UNCHANGED redis /\ events \subseteq events'
  <2>1. CASE UNCHANGED vars
    BY <2>1 DEF vars
  <2>2. CASE ParseStep \/ ParseCrash
    BY <2>2, EventType DEF ParseStep, ParseStart, ParseSet, ParseSend, ParseCrash
  <2>3. ASSUME NEW t \in Tasks, ImageStep(t) \/ ImageCrash(t)
        PROVE  UNCHANGED redis /\ events \subseteq events'
    BY <2>3, EventType DEF ImageStep, ImageStart, ImageSkipped, ImageStored, ImageFails,
                           ImageCount, ImageClear, ImagePost, ImageCrash
  <2>4. CASE Expire \/ PostStep \/ CancelMark \/ CancelDequeue \/ Reparse
    BY <2>4, EventType DEF Expire, PostStep, PostList, PostSeed, CancelMark, CancelDequeue, Reparse
  <2> QED
    BY <2>1, <2>2, <2>3, <2>4 DEF Next
<1> QED
  BY <1>1 DEF Calm, Orderly

\* Images that have not ended are finitely many.
LEMMA UncountedFinite ==
  /\ IsFiniteSet(Uncounted) /\ Cardinality(Uncounted) \in Nat
  /\ Cardinality(Uncounted) = 0 <=> Uncounted = {}
<1>1. Uncounted \subseteq Images
  BY DEF Uncounted
<1>2. IsFiniteSet(Uncounted)
  BY <1>1, ImageAssumption, FS_Subset
<1> QED
  BY <1>2, FS_CardinalityType, FS_EmptySet

\* A task that is under way belongs to the running run, has been sent, and its run
\* is not about to start.
LEMMA OwnRun ==
  ASSUME TypeOK, Fresh, Old, Waiting, NEW t \in Tasks, task[t].pc \notin Over
  PROVE  /\ t[1] = fan /\ t[2] \notin toSend /\ t = <<fan, t[2]>> /\ t[2] \in Images
         /\ parse \in {"send", "done"}
<1>1. task[t] # NoTask
  BY DEF Over, NoTask
<1>2. fan \in Nat /\ t[1] \in Nat /\ t[2] \in Images /\ t = <<t[1], t[2]>>
  BY TaskParts, ImageAssumption DEF TypeOK
<1>3. ~(t[1] < fan) /\ parse # "queued"
  BY DEF Old, Waiting
<1>4. ~(t[1] > fan) /\ ~(t[1] = fan /\ (parse = "save" \/ t[2] \in toSend))
  BY <1>1 DEF Fresh
<1>5. t[1] = fan
  BY <1>2, <1>3, <1>4
<1> QED
  BY <1>2, <1>3, <1>4, <1>5 DEF TypeOK

\* The steps of an image task before and after its count leave the set of images
\* that have not ended alone.
LEMMA StayUncounted ==
  ASSUME TypeOK, NEW t \in Tasks, UNCHANGED parseVars,
         \A u \in Tasks : u # t => task'[u] = task[u],
         task[t].pc \in {"queued", "work", "count", "lost"} <=>
             task'[t].pc \in {"queued", "work", "count", "lost"},
         fan > 0
  PROVE  Uncounted' = Uncounted
<1>1. \A i \in Images : <<fan, i>> \in Tasks
  BY TaskParts, ImageAssumption DEF TypeOK
<1>2. \A i \in Images : task'[<<fan, i>>].pc \in {"queued", "work", "count", "lost"} <=>
                        task[<<fan, i>>].pc \in {"queued", "work", "count", "lost"}
  BY <1>1
<1> QED
  BY <1>2 DEF Uncounted, parseVars

\* The counted image, and it alone, is not among them any more.
LEMMA OneLessUncounted ==
  ASSUME TypeOK, NEW t \in Tasks, UNCHANGED parseVars, fan > 0,
         \A u \in Tasks : u # t => task'[u] = task[u],
         t = <<fan, t[2]>>, t[2] \notin toSend,
         task[t].pc = "count", task'[t].pc \in {"clear", "done"}
  PROVE  /\ t[2] \in Uncounted
         /\ Uncounted' = Uncounted \ {t[2]}
         /\ Cardinality(Uncounted)' = Cardinality(Uncounted) - 1
<1>1. \A i \in Images : <<fan, i>> \in Tasks /\ <<fan, i>>[2] = i
  BY TaskParts, ImageAssumption DEF TypeOK
<1>2. t[2] \in Images
  BY TaskParts
<1>3. t[2] \in Uncounted
  BY <1>2 DEF Uncounted
<1>4. \A i \in Images : i # t[2] => task'[<<fan, i>>] = task[<<fan, i>>]
  BY <1>1
<1>5. task'[<<fan, t[2]>>].pc \notin {"queued", "work", "count", "lost"}
  OBVIOUS
<1>6. Uncounted' = Uncounted \ {t[2]}
  BY <1>4, <1>5 DEF Uncounted, parseVars
<1> QED
  BY <1>3, <1>6, UncountedFinite, FS_RemoveElement

\* In the calm, the steps of an image task keep the counter exact.
LEMMA ImageCalm ==
  ASSUME TypeOK, OrderInv, CalmInv, NEW t \in Tasks, ImageStep(t) \/ ImageCrash(t), Calm'
  PROVE  CalmParts'
<1>0. /\ Calm /\ Orderly
      /\ \A kind \in {"redis", "expire", "crash", "overlap"} : kind \notin events'
  <2>1. [Next]_vars
    BY DEF Next
  <2> QED
    BY <2>1, CalmBefore
<1>1. Old /\ Waiting /\ Begun /\ Sent /\ Cancelling /\ Exact /\ Late /\ Complete /\ Fresh /\ Sending
  BY <1>0 DEF CalmInv, CalmParts, OrderInv
<1>2. ASSUME ImageCrash(t) PROVE FALSE
  BY <1>0, <1>2, EventType DEF ImageCrash
<1>3. UNCHANGED <<redis, status, parseVars, plan, missed, cancel>> /\ events \subseteq events'
  BY <1>2, EventType DEF ImageStep, ImageStart, ImageSkipped, ImageStored, ImageFails, ImageCount,
              ImageClear, ImagePost, postVars
<1>4. \/ /\ task[t].pc \in {"queued", "work"} /\ task'[t].pc \in {"queued", "work", "count"}
         /\ UNCHANGED <<counter, posts>>
      \/ /\ task[t].pc = "queued" /\ task'[t].pc = "done" /\ status = "cancelled"
         /\ UNCHANGED <<counter, posts>>
      \/ /\ task[t].pc = "count" /\ counter' = counter - 1
         /\ task'[t].pc = (IF counter' <= 0 THEN "clear" ELSE "done") /\ UNCHANGED posts
      \/ /\ task[t].pc = "clear" /\ task'[t].pc = "post" /\ counter' = 0 /\ UNCHANGED posts
      \/ /\ task[t].pc = "post" /\ task'[t].pc = "done" /\ UNCHANGED counter
  <2>1. CASE ImageStart(t)
    <3>1. CASE status = "cancelled"
      <4>1. Goto(t, "done")
        BY <2>1, <3>1 DEF ImageStart
      <4>2. task'[t].pc = "done"
        BY <4>1, MoveType DEF Pcs, Ended
      <4> QED
        BY <2>1, <3>1, <4>2 DEF ImageStart, postVars
    <3>2. CASE status # "cancelled"
      <4>1. Goto(t, "work")
        BY <2>1, <3>2 DEF ImageStart
      <4>2. task'[t].pc = "work"
        BY <4>1, MoveType DEF Pcs, Running
      <4> QED
        BY <2>1, <4>2 DEF ImageStart, postVars
    <3> QED
      BY <3>1, <3>2
  <2>2. CASE ImageSkipped(t)
    <3>1. task'[t].pc = "count"
      BY <2>2, MoveType DEF ImageSkipped, Pcs, Running
    <3> QED
      BY <2>2, <3>1 DEF ImageSkipped, postVars
  <2>3. CASE ImageStored(t)
    <3>1. task'[t].pc = "count"
      BY <2>3, MoveType DEF ImageStored, Pcs, Running
    <3> QED
      BY <2>3, <3>1 DEF ImageStored, postVars
  <2>4. CASE ImageFails(t)
    <3>1. Goto(t, "count") \/ (task[t].try < MaxTry /\ Retry(t))
      <4>1. task[t].try \in 0..MaxTry /\ MaxTry \in Nat /\ redis
        BY <1>0, ImageAssumption DEF TypeOK, Calm
      <4>2. ~Final(t) => task[t].try < MaxTry
        BY <4>1 DEF Final
      <4> QED
        BY <2>4, <4>2 DEF ImageFails
    <3>2. task'[t].pc \in {"queued", "count"}
      BY <3>1, MoveType DEF Pcs, Running
    <3> QED
      BY <2>4, <3>2 DEF ImageFails, postVars
  <2>5. CASE ImageCount(t)
    <3>1. /\ task[t].pc = "count" /\ counter' = counter - 1
          /\ Goto(t, IF counter' <= 0 THEN "clear" ELSE "done") /\ UNCHANGED posts
      BY <1>0, <2>5, EventType DEF ImageCount, Calm, postVars
    <3>2. (IF counter' <= 0 THEN "clear" ELSE "done") \in Pcs
      BY DEF Pcs, Running, Ended
    <3>3. task'[t].pc = (IF counter' <= 0 THEN "clear" ELSE "done")
      BY <3>1, <3>2, MoveType
    <3> QED
      BY <3>1, <3>3
  <2>6. CASE ImageClear(t)
    <3>1. task'[t].pc = "post"
      BY <2>6, MoveType DEF ImageClear, Pcs, Running
    <3> QED
      BY <2>6, <3>1 DEF ImageClear, postVars
  <2>7. CASE ImagePost(t)
    <3>1. task'[t].pc = "done"
      BY <2>7, MoveType DEF ImagePost, Pcs, Ended
    <3> QED
      BY <2>7, <3>1 DEF ImagePost
  <2> QED
    BY <1>2, <2>1, <2>2, <2>3, <2>4, <2>5, <2>6, <2>7 DEF ImageStep
<1>5. \A u \in Tasks : u # t => task'[u] = task[u]
  <2>1. PICK next \in Pcs : Goto(t, next) \/ (task[t].try < MaxTry /\ next = "queued" /\ Retry(t))
    BY <1>2 DEF ImageStep, ImageStart, ImageSkipped, ImageStored, ImageFails, ImageCount,
                ImageClear, ImagePost, Pcs, Running, Ended
  <2> QED
    BY <2>1, MoveType
<1>6. task[t].pc \notin Over /\ task'[t].pc # "none"
  BY <1>4 DEF Over, Ended
<1>7. /\ t[1] = fan /\ t[2] \notin toSend /\ t = <<fan, t[2]>> /\ t[2] \in Images
      /\ parse \in {"send", "done"} /\ fan > 0
  <2>1. fan \in Nat /\ t[1] \in 1..MaxFan
    BY TaskParts, ImageAssumption DEF TypeOK
  <2> QED
    BY <1>1, <1>6, <2>1, OwnRun
<1>8. /\ parse' = parse /\ toSend' = toSend /\ fan' = fan
  BY <1>3 DEF parseVars
<1>9. Old' /\ Waiting' /\ Begun' /\ Cancelling' /\ Complete'
  <2>1. Old'
    <3>1. ASSUME NEW u \in Tasks, u[1] < fan PROVE u # t
      <4>1. fan \in Int
        BY DEF TypeOK
      <4> QED
        BY <1>7, <3>1, <4>1
    <3> QED
      BY <1>1, <1>5, <1>8, <3>1 DEF Old, Over
  <2>2. Waiting'
    BY <1>7, <1>8 DEF Waiting
  <2>3. Begun' /\ Cancelling' /\ Complete'
    BY <1>1, <1>3, <1>8 DEF Begun, Cancelling, Complete
  <2> QED
    BY <2>1, <2>2, <2>3
<1>10. Sent'
  <2>1. \A i \in Images : <<fan, i>> \in Tasks
    BY <1>7, TaskParts, ImageAssumption DEF TypeOK
  <2> QED
    BY <1>1, <1>3, <1>5, <1>6, <1>8, <2>1 DEF Sent
<1>11. CASE status = "cancelled"
  <2>1. Exact' /\ Late'
    BY <1>3, <1>11 DEF Exact, Late
  <2> QED
    BY <1>9, <1>10, <2>1 DEF CalmParts
<1>12. CASE status # "cancelled"
  <2>1. counter = Cardinality(Uncounted) /\ (Posting => parse = "done" /\ Uncounted = {})
    BY <1>1, <1>7, <1>12 DEF Exact, Late
  <2>2. status' # "cancelled"
    BY <1>3, <1>12
  <2>3. CASE /\ task[t].pc \in {"queued", "work"} /\ task'[t].pc \in {"queued", "work", "count"}
             /\ UNCHANGED <<counter, posts>>
    <3>1. Uncounted' = Uncounted
      BY <1>3, <1>5, <1>7, <2>3, StayUncounted
    <3>2. Posting' => Posting
      BY <1>3, <1>5, <2>3 DEF Posting
    <3> QED
      BY <1>8, <1>9, <1>10, <2>1, <2>3, <3>1, <3>2 DEF CalmParts, Exact, Late
  <2>4. CASE /\ task[t].pc = "count" /\ counter' = counter - 1
             /\ task'[t].pc = (IF counter' <= 0 THEN "clear" ELSE "done") /\ UNCHANGED posts
    <3>1. /\ t[2] \in Uncounted /\ Uncounted' = Uncounted \ {t[2]}
          /\ Cardinality(Uncounted)' = Cardinality(Uncounted) - 1
      <4>1. task'[t].pc \in {"clear", "done"}
        BY <2>4
      <4>2. UNCHANGED parseVars
        BY <1>3
      <4> QED
        BY <1>5, <1>7, <2>4, <4>1, <4>2, OneLessUncounted
    <3>2. ~Posting
      BY <2>1, <3>1
    <3>3. counter' = Cardinality(Uncounted')
      BY <2>1, <2>4, <3>1
    <3>4. Posting' => task'[t].pc = "clear"
      BY <1>3, <1>5, <2>4, <3>2 DEF Posting
    <3>5. task'[t].pc = "clear" => Uncounted' = {}
      <4>1. task'[t].pc = "clear" => counter' <= 0
        BY <2>4
      <4>2. Cardinality(Uncounted') \in Nat /\ (Cardinality(Uncounted') = 0 <=> Uncounted' = {})
        <5>1. Uncounted' \subseteq Images
          BY <3>1 DEF Uncounted
        <5>2. IsFiniteSet(Uncounted')
          BY <5>1, ImageAssumption, FS_Subset
        <5> QED
          BY <5>2, FS_CardinalityType, FS_EmptySet
      <4> QED
        BY <3>3, <4>1, <4>2
    <3>6. Uncounted' = {} => parse' = "done"
      <4>1. toSend' \subseteq Uncounted'
        BY <1>8 DEF Uncounted, TypeOK
      <4> QED
        BY <1>1, <1>7, <1>8, <4>1 DEF Sending
    <3> QED
      BY <1>9, <1>10, <3>3, <3>4, <3>5, <3>6 DEF CalmParts, Exact, Late
  <2>5. CASE task[t].pc = "clear" /\ task'[t].pc = "post" /\ counter' = 0 /\ UNCHANGED posts
    <3>1. Uncounted' = Uncounted
      BY <1>3, <1>5, <1>7, <2>5, StayUncounted
    <3>2. Posting
      BY <2>5 DEF Posting
    <3>3. Cardinality(Uncounted) = 0
      BY <2>1, <3>2, UncountedFinite
    <3> QED
      BY <1>8, <1>9, <1>10, <2>1, <2>5, <3>1, <3>2, <3>3 DEF CalmParts, Exact, Late
  <2>6. CASE task[t].pc = "post" /\ task'[t].pc = "done" /\ UNCHANGED counter
    <3>1. Uncounted' = Uncounted
      BY <1>3, <1>5, <1>7, <2>6, StayUncounted
    <3>2. Posting
      BY <2>6 DEF Posting
    <3> QED
      BY <1>8, <1>9, <1>10, <2>1, <2>6, <3>1, <3>2 DEF CalmParts, Exact, Late
  <2> QED
    BY <1>4, <1>12, <2>3, <2>4, <2>5, <2>6
<1> QED
  BY <1>11, <1>12

\* So do the steps of the parser: it sets the counter before it sends an image.
LEMMA ParserCalm ==
  ASSUME TypeOK, OrderInv, CalmInv, ParseStep \/ ParseCrash, Calm'
  PROVE  CalmParts'
<1>0. /\ Calm /\ Orderly
      /\ \A kind \in {"redis", "expire", "crash", "overlap"} : kind \notin events'
  <2>1. [Next]_vars
    BY DEF Next
  <2> QED
    BY <2>1, CalmBefore
<1>1. Old /\ Waiting /\ Begun /\ Sent /\ Cancelling /\ Exact /\ Late /\ Complete /\ Fresh /\ Sending
  BY <1>0 DEF CalmInv, CalmParts, OrderInv
<1>2. ASSUME ParseCrash PROVE FALSE
  BY <1>0, <1>2, EventType DEF ParseCrash
<1>3. fan \in Nat /\ \A t \in Tasks : t[1] \in Nat
  BY TaskParts, ImageAssumption DEF TypeOK
<1>4. CASE ParseStart
  <2>0. /\ parse = "queued" /\ UNCHANGED <<toSend, counter, task, postVars, cancel, events>>
        /\ UNCHANGED <<posts, plan, missed>>
    BY <1>4 DEF ParseStart, postVars
  <2>1. ~Posting
    BY <1>1, <2>0 DEF Waiting, Posting, Over, Ended
  <2>2. ~Posting'
    BY <2>0, <2>1 DEF Posting
  <2>3. CASE status = "cancelled"
    <3>1. parse' = "done" /\ UNCHANGED <<status, fan>>
      BY <1>4, <2>3 DEF ParseStart
    <3> QED
      BY <1>1, <2>0, <2>2, <2>3, <3>1
      DEF CalmParts, Old, Waiting, Begun, Sent, Cancelling, Exact, Late, Complete
  <2>4. CASE status # "cancelled"
    <3>1. parse' = "save" /\ status' = "processing" /\ fan' = fan + 1
      BY <1>4, <2>4 DEF ParseStart
    <3>2. Old'
      BY <1>1, <2>0 DEF Old, Waiting
    <3>3. Begun'
      BY <1>3, <3>1 DEF Begun
    <3>4. Waiting' /\ Sent' /\ Exact' /\ Late'
      BY <2>2, <3>1 DEF Waiting, Sent, Exact, Late
    <3>5. Cancelling' /\ Complete'
      BY <1>1, <2>0, <2>4, <3>1 DEF Cancelling, Complete
    <3> QED
      BY <3>2, <3>3, <3>4, <3>5 DEF CalmParts
  <2> QED
    BY <2>3, <2>4
<1>5. CASE ParseSet
  <2>0. /\ parse = "save" /\ UNCHANGED <<fan, task, posts, plan, missed, cancel>> /\ events \subseteq events'
    BY <1>5, EventType DEF ParseSet, imageVars, postVars
  <2>1. Old' /\ Complete' /\ fan > 0
    BY <1>1, <2>0, <1>5 DEF Old, Complete, Begun, ParseSet
  <2>2. CASE status = "cancelled"
    <3>1. parse' = "done" /\ UNCHANGED <<status, toSend, counter, events>>
      BY <1>5, <2>2 DEF ParseSet
    <3> QED
      BY <1>1, <2>0, <2>1, <2>2, <3>1
      DEF CalmParts, Waiting, Begun, Sent, Cancelling, Exact, Late
  <2>3. CASE status # "cancelled"
    <3>1. parse' = "send" /\ status' = "processing" /\ toSend' = Images
      BY <1>5, <2>3 DEF ParseSet
    <3>2. counter' = Cardinality(Images)
      BY <1>0, <1>5, <2>3, EventType DEF ParseSet, Calm
    <3>3. Uncounted' = Images
      BY <3>1 DEF Uncounted
    <3>4. ~Posting'
      BY <1>1, <2>0, <2>3 DEF Late, Posting
    <3>5. Waiting' /\ Begun' /\ Sent' /\ Exact' /\ Late'
      BY <2>0, <2>1, <3>1, <3>2, <3>3, <3>4 DEF Waiting, Begun, Sent, Exact, Late
    <3>6. Cancelling'
      BY <1>1, <2>0, <2>3, <3>1 DEF Cancelling
    <3> QED
      BY <2>1, <3>5, <3>6 DEF CalmParts
  <2> QED
    BY <2>2, <2>3
<1>6. ASSUME NEW i \in Images, ParseSend(i) PROVE CalmParts'
  <2>0. /\ parse = "send" /\ parse' \in {"send", "done"} /\ i \in toSend /\ toSend' = toSend \ {i}
        /\ UNCHANGED <<status, fan, counter, posts, plan, missed, cancel>> /\ events \subseteq events'
    BY <1>6, EventType DEF ParseSend, postVars
  <2>1. fan > 0 /\ fan \in 1..MaxFan
    BY <1>1, <2>0, ImageAssumption DEF Begun, TypeOK
  <2>2. <<fan, i>> \in Tasks /\ \A j \in Images : <<fan, j>> \in Tasks /\ <<fan, j>>[1] = fan /\ <<fan, j>>[2] = j
    BY <2>1, TaskParts
  <2>3. /\ task'[<<fan, i>>].pc \in {"queued", "lost"}
        /\ \A u \in Tasks : u # <<fan, i>> => task'[u] = task[u]
    <3>1. PICK next \in {"queued", "lost"} : Goto(<<fan, i>>, next)
      BY <1>6 DEF ParseSend
    <3>2. next \in Pcs
      BY DEF Pcs, Ended
    <3> QED
      BY <2>2, <3>1, <3>2, MoveType
  <2>4. Old'
    <3>1. ASSUME NEW u \in Tasks, u[1] < fan PROVE u # <<fan, i>>
      BY <1>3, <2>2, <3>1
    <3> QED
      BY <1>1, <2>0, <2>3, <3>1 DEF Old, Over
  <2>5. Waiting' /\ Begun' /\ Cancelling' /\ Complete'
    BY <1>1, <2>0, <2>1 DEF Waiting, Begun, Cancelling, Complete
  <2>6. Sent'
    <3>1. ASSUME NEW j \in Images \ toSend', status # "cancelled"
          PROVE  task'[<<fan, j>>].pc # "none"
      <4>1. CASE j = i
        BY <2>3, <4>1
      <4>2. CASE j # i
        <5>1. j \in Images \ toSend
          BY <2>0, <4>2
        <5>2. task[<<fan, j>>].pc # "none"
          BY <1>1, <2>0, <3>1, <5>1 DEF Sent
        <5>3. <<fan, j>> # <<fan, i>> /\ <<fan, j>> \in Tasks
          BY <2>2, <4>2
        <5> QED
          BY <2>3, <5>2, <5>3
      <4> QED
        BY <4>1, <4>2
    <3> QED
      BY <2>0, <3>1 DEF Sent
  <2>7. Uncounted' = Uncounted
    <3>1. \A j \in Images : j # i => task'[<<fan, j>>] = task[<<fan, j>>]
      BY <2>2, <2>3
    <3> QED
      BY <2>0, <2>3, <3>1 DEF Uncounted
  <2>8. Exact'
    BY <1>1, <2>0, <2>7 DEF Exact
  <2>9. Late'
    <3>1. status # "cancelled" => ~Posting
      BY <1>1, <2>0 DEF Late
    <3>2. Posting' => Posting
      BY <2>0, <2>3 DEF Posting
    <3> QED
      BY <2>0, <3>1, <3>2 DEF Late
  <2> QED
    BY <2>4, <2>5, <2>6, <2>8, <2>9 DEF CalmParts
<1> QED
  BY <1>2, <1>4, <1>5, <1>6 DEF ParseStep

\* A row that is listed when every image has ended lists them all.
LEMMA ListedComplete ==
  ASSUME TypeOK, CalmParts, status # "cancelled", Posting
  PROVE  {i \in Images : fan > 0 => ~Settled(<<fan, i>>)} = {}
<1>1. parse = "done" /\ Uncounted = {} /\ fan > 0 /\ fan \in 1..MaxFan
  BY ImageAssumption DEF CalmParts, Late, Begun, TypeOK
<1>2. ASSUME NEW i \in Images PROVE Settled(<<fan, i>>)
  <2>1. <<fan, i>> \in Tasks
    BY <1>1, TaskParts
  <2>2. i \notin toSend /\ task[<<fan, i>>].pc \notin {"queued", "work", "count", "lost"}
    BY <1>1 DEF Uncounted
  <2>3. task[<<fan, i>>].pc # "none"
    BY <1>1, <2>2 DEF CalmParts, Sent
  <2>4. task[<<fan, i>>].pc \in Pcs
    BY <2>1 DEF TypeOK, Pcs
  <2> QED
    BY <2>2, <2>3, <2>4 DEF Settled, Pcs, Running, Ended
<1> QED
  BY <1>1, <1>2

\* So do the others: the post-processing lists a complete document.
LEMMA OtherCalm ==
  ASSUME TypeOK, OrderInv, CalmInv,
         Expire \/ PostStep \/ CancelMark \/ CancelDequeue \/ Reparse, Calm'
  PROVE  CalmParts'
<1>0. /\ Calm /\ Orderly
      /\ \A kind \in {"redis", "expire", "crash", "overlap"} : kind \notin events'
  <2>1. [Next]_vars
    BY DEF Next
  <2> QED
    BY <2>1, CalmBefore
<1>1. /\ Old /\ Waiting /\ Begun /\ Sent /\ Cancelling /\ Exact /\ Late /\ Complete
      /\ CalmParts
  BY <1>0 DEF CalmInv, CalmParts
<1>2. ASSUME Expire PROVE FALSE
  BY <1>0, <1>2, EventType DEF Expire
<1>3. ASSUME NEW p \in Posters, PostList(p) PROVE CalmParts'
  <2>0. /\ ~plan[p].listed /\ posts > 0 /\ posts' = posts - 1
        /\ UNCHANGED <<status, parse, toSend, fan, counter, task, missed, cancel, events>>
    BY <1>3 DEF PostList, parseVars, imageVars
  <2>1. Posting /\ posts' \in Nat
    BY <2>0 DEF Posting, TypeOK
  <2>2. Uncounted' = Uncounted
    BY <2>0 DEF Uncounted
  <2>3. Old' /\ Begun' /\ Sent' /\ Cancelling' /\ Exact' /\ Late'
    BY <1>1, <2>0, <2>1, <2>2 DEF Old, Begun, Sent, Cancelling, Exact, Late
  <2>4. Waiting'
    BY <1>1, <2>0 DEF Waiting
  <2>5. Complete'
    <3>1. CASE status = "processing"
      <4>1. plan' = [plan EXCEPT ![p] =
                        [listed |-> TRUE,
                         missing |-> {i \in Images : fan > 0 => ~Settled(<<fan, i>>)}]]
        BY <1>3, <3>1 DEF PostList
      <4>2. {i \in Images : fan > 0 => ~Settled(<<fan, i>>)} = {}
        BY <1>1, <2>1, <3>1, ListedComplete
      <4>3. /\ plan'[p].missing = {}
            /\ \A q \in Posters : q # p => plan'[q] = plan[q]
        BY <4>1, <4>2 DEF TypeOK
      <4> QED
        BY <1>1, <2>0, <4>3 DEF Complete
    <3>2. CASE status # "processing"
      BY <1>1, <1>3, <2>0, <3>2 DEF Complete, PostList
    <3> QED
      BY <3>1, <3>2
  <2> QED
    BY <2>3, <2>4, <2>5 DEF CalmParts
<1>4. ASSUME NEW p \in Posters, PostSeed(p) PROVE CalmParts'
  <2>0. /\ plan[p].listed /\ plan'[p] = NoPlan /\ \A q \in Posters : q # p => plan'[q] = plan[q]
        /\ UNCHANGED <<parse, toSend, fan, counter, task, posts, cancel, events>>
    BY <1>4 DEF PostSeed, parseVars, imageVars, TypeOK
  <2>1. /\ \A q \in Posters : plan'[q].listed => plan[q].listed
        /\ \A q \in Posters : plan'[q].missing # {} => q # p /\ plan[q].missing # {} /\ plan'[q].listed = plan[q].listed
    BY <2>0 DEF NoPlan
  <2>2. \/ status = "processing" /\ status' = "finalizing" /\ missed' = plan[p].missing
        \/ UNCHANGED <<status, missed>>
    BY <1>4 DEF PostSeed
  <2>3. Uncounted' = Uncounted
    BY <2>0 DEF Uncounted
  <2>4. Posting' => Posting
    BY <2>0, <2>1 DEF Posting
  <2>5. Old' /\ Waiting'
    BY <1>1, <2>0 DEF Old, Waiting
  <2>6. (status' = "cancelled" <=> status = "cancelled") /\ (status' = "pending" => status = "pending")
    BY <2>2
  <2>7. Begun' /\ Sent' /\ Cancelling' /\ Exact' /\ Late'
    BY <1>1, <2>0, <2>3, <2>4, <2>6 DEF Begun, Sent, Cancelling, Exact, Late
  <2>8. Complete'
    BY <1>1, <2>1, <2>2, <2>6 DEF Complete
  <2> QED
    BY <2>5, <2>7, <2>8 DEF CalmParts
<1>5. CASE CancelMark
  <2>1. /\ status' = "cancelled" /\ "cancel" \in events' /\ status # "cancelled"
        /\ UNCHANGED <<parse, toSend, fan, counter, task, posts, plan, missed>>
    BY <1>5, EventType DEF CancelMark, parseVars, imageVars, postVars
  <2> QED
    BY <1>1, <2>1 DEF CalmParts, Old, Waiting, Begun, Sent, Cancelling, Exact, Late, Complete
<1>6. CASE CancelDequeue
  <2>1. /\ status = "cancelled" /\ status' = "cancelled" /\ ~cancel' /\ posts' = 0
        /\ parse' = (IF parse = "queued" THEN "done" ELSE parse)
        /\ task' = [t \in Tasks |-> IF task[t].pc = "queued" THEN [pc |-> "done", try |-> 0] ELSE task[t]]
        /\ UNCHANGED <<toSend, fan, counter, plan, missed, events>>
    BY <1>1, <1>6 DEF CancelDequeue, Cancelling
  <2>2. \A t \in Tasks : task[t].pc \in Over => task'[t].pc \in Over
    BY <2>1 DEF Over, Ended
  <2>3. Old'
    BY <1>1, <2>1, <2>2 DEF Old
  <2>4. Waiting' /\ Begun'
    BY <1>1, <2>1 DEF Waiting, Begun
  <2>5. Sent' /\ Exact' /\ Late' /\ Cancelling' /\ Complete'
    BY <1>1, <2>1 DEF Sent, Exact, Late, Cancelling, Complete
  <2> QED
    BY <2>3, <2>4, <2>5 DEF CalmParts
<1>7. CASE Reparse
  <2>1. Quiet
    BY <1>0, <1>7, EventType DEF Reparse
  <2>2. /\ status' = "pending" /\ parse' = "queued" /\ events \subseteq events'
        /\ UNCHANGED <<toSend, fan, counter, task, posts, plan, missed, cancel>>
    BY <1>7, EventType DEF Reparse, imageVars, postVars
  <2>3. ~Posting' /\ Waiting'
    BY <2>1, <2>2 DEF Posting, Waiting, Quiet, Over, Ended
  <2>4. Old' /\ Begun' /\ Sent' /\ Exact' /\ Late'
    BY <1>1, <2>2, <2>3 DEF Old, Begun, Sent, Exact, Late
  <2>5. Cancelling' /\ Complete'
    BY <1>1, <2>1, <2>2 DEF Cancelling, Complete, Quiet
  <2> QED
    BY <2>3, <2>4, <2>5 DEF CalmParts
<1> QED
  BY <1>2, <1>3, <1>4, <1>5, <1>6, <1>7 DEF PostStep

\* Every step keeps the invariant of the calm.
LEMMA NextCalm == TypeOK /\ OrderInv /\ CalmInv /\ [Next]_vars => CalmInv'
<1> SUFFICES ASSUME TypeOK, OrderInv, CalmInv, [Next]_vars, Calm' PROVE CalmParts'
  BY DEF CalmInv
<1>1. CASE UNCHANGED vars
  <2>1. CalmParts
    BY CalmBefore DEF CalmInv
  <2>2. Uncounted' = Uncounted /\ (Posting' <=> Posting)
    BY <1>1 DEF Uncounted, Posting, vars, parseVars, imageVars, postVars
  <2> QED
    BY <1>1, <2>1, <2>2 DEF CalmParts, Old, Waiting, Begun, Sent, Cancelling, Exact, Late, Complete,
       vars, parseVars, imageVars, postVars
<1>2. CASE Next
  BY <1>2, ImageCalm, ParserCalm, OtherCalm DEF Next
<1> QED
  BY <1>1, <1>2

\* Every initial state is calm or does not claim to be.
LEMMA InitCalm == Init => CalmInv
BY DEF Init, CalmInv, CalmParts, Old, Waiting, Begun, Sent, Cancelling, Exact, Late, Posting, Complete,
       Over, NoTask, NoPlan

\* What is always true of a run of the fan-in.
LEMMA Invariants == Spec => [](TypeOK /\ OrderInv /\ CalmInv)
<1>1. Init => TypeOK /\ OrderInv /\ CalmInv
  BY InitType, InitOrder, InitCalm
<1>2. (TypeOK /\ OrderInv /\ CalmInv) /\ [Next]_vars => (TypeOK /\ OrderInv /\ CalmInv)'
  BY NextType, NextOrder, NextCalm
<1> QED
  BY <1>1, <1>2, PTL DEF Spec

\* However often images are tried again, and in whatever order they end, the
\* counter in Redis (checkAndFinalizeAllImages) is the number of images that have
\* not ended, as long as Redis answers, no worker dies and nothing is cancelled.
THEOREM CounterIsExact == Spec => []CounterExact
<1>1. CalmInv => CounterExact
  BY DEF CalmInv, CalmParts, Calm, CounterExact, Exact, Cancelling
<1> QED
  BY <1>1, Invariants, PTL

\* The post-processing that seeds the enrichment has listed the document after its
\* last image ended, also when images are lost, tried again or cancelled.
THEOREM PostIsLast == Spec => []PostAfterLastImage
<1>1. CalmInv => PostAfterLastImage
  BY DEF CalmInv, CalmParts, Calm, PostAfterLastImage, Complete
<1> QED
  BY <1>1, Invariants, PTL
===============================================================================
