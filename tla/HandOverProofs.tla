---------------------------- MODULE HandOverProofs ----------------------------
(***************************************************************************)
(* The worker service implements the hand-over, for every pool, buffer and *)
(* workload: the refinement mapping of AsyncWorker, step by step.          *)
(***************************************************************************)
EXTENDS AsyncWorkerProofs

(* In the dispatcher, in the channel, or with a pool goroutine. *)
InHand(t) ==
    \/ t = held
    \/ \E i \in 1..Len(taskCh) : taskCh[i] = t
    \/ Taken(t)

LEMMA InHandIsInProcess ==
    ASSUME TypeOK, NEW t \in Payloads
    PROVE  t \in InProcess <=> InHand(t)
<1>1. DOMAIN taskCh = 1..Len(taskCh) /\ t # NoTask
  BY Numbers DEF TypeOK
<1>2. QED
  BY <1>1 DEF InProcess, InHand, SeqSet, Taken

(* The stage of a payload follows from its number, from whether the process *)
(* has it and from its rows; and these exclude one another.                *)
StageFacts ==
    /\ pushed \in Nat /\ Popped \in Nat /\ Popped <= pushed
    /\ \A t \in Payloads :
          /\ t > pushed => StageOf(t) = "unsent"
          /\ t <= pushed /\ t > Popped => StageOf(t) = "queued"
          /\ InHand(t) => t <= Popped /\ audit[t] = {} /\ StageOf(t) = "held"
          /\ t <= Popped /\ ~InHand(t) =>
                StageOf(t) = IF audit[t] # {} THEN "audited" ELSE "lost"
          /\ t > Popped => audit[t] = {}

LEMMA StageFactsHold == WorkerInv => StageFacts
<1> SUFFICES ASSUME WorkerInv PROVE StageFacts
  OBVIOUS
<1>1. TypeOK /\ FlowInv
  BY DEF WorkerInv
<1>2. pushed \in Nat /\ Popped \in Nat /\ Popped <= pushed
  BY <1>1, Numbers, PoppedNumber DEF Popped
<1>3. ASSUME NEW t \in Payloads
      PROVE  /\ t > pushed => StageOf(t) = "unsent"
             /\ t <= pushed /\ t > Popped => StageOf(t) = "queued"
             /\ InHand(t) => t <= Popped /\ audit[t] = {} /\ StageOf(t) = "held"
             /\ t <= Popped /\ ~InHand(t) =>
                   StageOf(t) = IF audit[t] # {} THEN "audited" ELSE "lost"
             /\ t > Popped => audit[t] = {}
  <2>1. t \in Nat /\ t # NoTask
    BY <1>1, Numbers
  <2>2. /\ t \in SeqSet(queue) => t > Popped
        /\ t > Popped /\ t <= pushed => t \in SeqSet(queue)
    BY QueueElements
  <2>3. t \in InProcess <=> InHand(t)
    BY <1>1, InHandIsInProcess
  <2>4. t > Popped => Untouched(t)
    BY <1>1 DEF FlowInv, UntouchedInv
  <2>5. t \notin Ended => audit[t] = {}
    BY DEF Ended, Settled
  <2>6. InHand(t) => t <= Popped /\ t \notin Ended
    <3>1. CASE t = held
      BY <1>1, <2>1, <3>1 DEF FlowInv, ShapeInv, UntouchedInv, Untouched
    <3>2. CASE \E i \in 1..Len(taskCh) : taskCh[i] = t
      BY <1>1, <3>2 DEF FlowInv, ShapeInv, UntouchedInv, Untouched
    <3>3. CASE Taken(t)
      <4>1. t \notin Ended
        BY <1>1, <2>1, <3>3 DEF Taken, FlowInv, PoolInv
      <4>2. ~(t > Popped)
        BY <2>4, <3>3 DEF Untouched
      <4>3. QED
        BY <1>2, <2>1, <4>1, <4>2
    <3>4. QED
      BY <3>1, <3>2, <3>3 DEF InHand
  <2>7. t \in SeqSet(queue) => t <= pushed
    <3>1. ASSUME NEW i \in DOMAIN queue, queue[i] = t PROVE t <= pushed
      <4>1. i \in 1..Len(queue) /\ Len(queue) \in Nat /\ i \in Nat
        BY <1>1, Numbers DEF TypeOK
      <4>2. t = Popped + i
        BY <1>1, <3>1, <4>1 DEF FlowInv, ShapeInv
      <4>3. QED
        BY <1>2, <4>1, <4>2 DEF Popped
    <3>2. QED
      BY <3>1 DEF SeqSet
  <2>8. t > Popped => audit[t] = {} /\ ~InHand(t)
    BY <1>2, <2>1, <2>4, <2>5, <2>6 DEF Untouched
  <2>9. CASE t > pushed
    BY <1>2, <2>1, <2>3, <2>7, <2>8, <2>9 DEF StageOf
  <2>10. CASE t <= pushed /\ t > Popped
    BY <1>2, <2>1, <2>2, <2>3, <2>8, <2>10 DEF StageOf
  <2>11. CASE t <= Popped
    <3>1. t \notin SeqSet(queue) /\ ~(t > pushed) /\ ~(t > Popped)
      BY <1>2, <2>1, <2>2, <2>11
    <3>2. CASE InHand(t)
      BY <2>3, <2>5, <2>6, <3>1, <3>2 DEF StageOf
    <3>3. CASE ~InHand(t)
      BY <2>3, <3>1, <3>3 DEF StageOf
    <3>4. QED
      BY <2>5, <2>6, <3>1, <3>2, <3>3
  <2>12. QED
    BY <1>2, <2>1, <2>9, <2>10, <2>11
<1>4. QED
  BY <1>2, <1>3 DEF StageFacts

---------------------------------------------------------------------------
(* Steps of the hand-over. *)
LEMMA AdvanceTo ==
    ASSUME NEW ts \in SUBSET Payloads, NEW s,
           \A t \in Payloads : StageOf(t)' = IF t \in ts THEN s ELSE StageOf(t)
    PROVE  HO!Advance(ts, s)
BY DEF HO!Advance, HO!Payloads, Payloads

LEMMA AtStage ==
    ASSUME NEW s
    PROVE  HO!At(s) = {t \in Payloads : StageOf(t) = s}
BY DEF HO!At, HO!Payloads, Payloads

(* Nothing that the stages depend on changes. *)
LEMMA SameStages ==
    ASSUME StageFacts, StageFacts', UNCHANGED <<pushed, queue, audit>>,
           \A t \in Payloads : InHand(t)' <=> InHand(t)
    PROVE  UNCHANGED [t \in Payloads |-> StageOf(t)]
<1>1. Popped' = Popped
  BY DEF Popped
<1>2. \A t \in Payloads : StageOf(t)' = StageOf(t)
  BY <1>1, PayloadsAreNumbers DEF StageFacts
<1>3. QED
  BY <1>2

(* A payload in the process ends, with a row or without. *)
LEMMA OneEnds ==
    ASSUME StageFacts, StageFacts', NEW t \in Payloads, InHand(t),
           UNCHANGED <<pushed, queue>>,
           \A u \in Payloads : InHand(u)' <=> InHand(u) /\ u # t,
           \A u \in Payloads : u # t => audit'[u] = audit[u]
    PROVE  HO!Next
<1>1. Popped' = Popped
  BY DEF Popped
<1>2. t \in HO!At("held") /\ {t} \in SUBSET HO!At("held")
  BY AtStage DEF StageFacts
<1>3. \A u \in Payloads : StageOf(u)' =
         IF u \in {t} THEN IF audit'[t] # {} THEN "audited" ELSE "lost" ELSE StageOf(u)
  BY <1>1, PayloadsAreNumbers DEF StageFacts
<1>4. CASE audit'[t] # {}
  BY <1>2, <1>3, <1>4, AdvanceTo DEF HO!Next, HO!Audit
<1>5. CASE audit'[t] = {}
  BY <1>2, <1>3, <1>5, AdvanceTo DEF HO!Next, HO!Lose
<1>6. QED
  BY <1>4, <1>5

LEMMA ProduceSends ==
    ASSUME TypeOK, StageFacts, StageFacts', Produce
    PROVE  HO!Next
<1> DEFINE n == pushed + 1
<1>1. /\ n \in Payloads /\ pushed' = n
      /\ UNCHANGED <<held, taskCh, wtask, audit>>
  BY WorkerAssumption
  DEF Produce, TypeOK, Payloads, dispatcherVars, poolVars, auditVars
<1>2. Popped' = Popped
  <2>1. queue' = Append(queue, n) /\ queue \in Seq(Payloads)
    BY DEF Produce, TypeOK
  <2>2. Len(queue') = Len(queue) + 1 /\ Len(queue) \in Nat /\ pushed \in Nat
    BY <2>1 DEF StageFacts
  <2>3. QED
    BY <1>1, <2>2 DEF Popped
<1>3. \A t \in Payloads : InHand(t)' <=> InHand(t)
  BY <1>1 DEF InHand, Taken
<1>4. \A t \in Payloads : StageOf(t)' = IF t \in {n} THEN "queued" ELSE StageOf(t)
  BY <1>1, <1>2, <1>3, PayloadsAreNumbers DEF StageFacts
<1>5. HO!Oldest(n, "unsent")
  <2>1. \A t \in Payloads : StageOf(t) = "unsent" <=> t > pushed
    BY PayloadsAreNumbers DEF StageFacts
  <2>2. QED
    <3>1. HO!At("unsent") = {t \in Payloads : t > pushed}
      BY <2>1, AtStage
    <3>2. \A t \in Payloads : t \in Nat /\ pushed \in Nat
      BY PayloadsAreNumbers DEF StageFacts
    <3>3. QED
      BY <1>1, <3>1, <3>2 DEF HO!Oldest
<1>6. n \in HO!Payloads
  BY <1>1 DEF HO!Payloads, Payloads
<1>7. QED
  BY <1>1, <1>4, <1>5, <1>6, AdvanceTo DEF HO!Next, HO!Send

(* The oldest payload of the list leaves it. *)
LEMMA HeadIsOldest ==
    ASSUME TypeOK, FlowInv, StageFacts, queue # <<>>, queue' = Tail(queue), pushed' = pushed
    PROVE  /\ Head(queue) \in Payloads
           /\ Head(queue) = Popped + 1
           /\ Popped' = Popped + 1
           /\ HO!Oldest(Head(queue), "queued")
<1>1. /\ Head(queue) \in Payloads /\ Head(queue) = Popped + 1 /\ Popped' = Popped + 1
      /\ Len(queue') <= pushed'
  BY PoppedOne
<1>2. Head(queue) <= pushed
  <2>1. Len(queue) \in Nat /\ Len(queue) > 0
    BY HeadTail, Numbers DEF TypeOK
  <2>2. QED
    BY <1>1, <2>1 DEF Popped, StageFacts
<1>3. \A t \in Payloads : StageOf(t) = "queued" => t > Popped
  BY PayloadsAreNumbers DEF StageFacts
<1>4. StageOf(Head(queue)) = "queued"
  BY <1>1, <1>2 DEF StageFacts
<1>5. /\ Head(queue) \in HO!At("queued")
      /\ \A t \in HO!At("queued") : t \in Payloads /\ t > Popped
  BY <1>1, <1>3, <1>4, AtStage
<1>6. \A t \in Payloads : t \in Nat /\ Popped \in Nat
  BY PayloadsAreNumbers DEF StageFacts
<1>7. HO!Oldest(Head(queue), "queued")
  BY <1>1, <1>5, <1>6 DEF HO!Oldest
<1>8. QED
  BY <1>1, <1>7

LEMMA PopTakes ==
    ASSUME WorkerInv, TypeOK', StageFacts, StageFacts', PopPayload
    PROVE  HO!Next
<1> DEFINE h == Head(queue)
<1>1. /\ queue # <<>> /\ queue' = Tail(queue) /\ pushed' = pushed
      /\ held' = h /\ held = NoTask
      /\ UNCHANGED <<taskCh, wtask, audit>>
  BY DEF PopPayload, poolVars, auditVars, WorkerInv, TypeOK
<1>2. /\ h \in Payloads /\ h = Popped + 1 /\ Popped' = Popped + 1
      /\ HO!Oldest(h, "queued")
  BY <1>1, HeadIsOldest DEF WorkerInv
<1> HIDE DEF h
<1>3. \A t \in Payloads : InHand(t)' <=> InHand(t) \/ t = h
  BY <1>1, PayloadsAreNumbers DEF InHand, Taken
<1>4. \A t \in Payloads : StageOf(t)' = IF t \in {h} THEN "held" ELSE StageOf(t)
  BY <1>1, <1>2, <1>3, PayloadsAreNumbers DEF StageFacts
<1>5. HO!At("held") = InProcess
  <2>1. \A t \in Payloads : StageOf(t) = "held" <=> InHand(t)
    BY PayloadsAreNumbers DEF StageFacts
  <2>2. InProcess \subseteq Payloads
    BY InProcessType DEF WorkerInv
  <2>3. QED
    BY <2>1, <2>2, AtStage, InHandIsInProcess DEF WorkerInv
<1>6. Cardinality(InProcess) < Capacity
  <2>1. InProcess' = InProcess \cup {h} /\ h \notin InProcess
    <3>1. InProcess' = (({h} \cup SeqSet(taskCh) \cup {wtask[w] : w \in Workers}) \ {NoTask})
      BY <1>1 DEF InProcess, SeqSet
    <3>2. InProcess' = InProcess \cup {h}
      BY <1>1, <1>2, <3>1, PayloadsAreNumbers DEF InProcess
    <3>3. ~InHand(h)
      BY <1>2 DEF StageFacts
    <3>4. QED
      BY <1>2, <3>2, <3>3, InHandIsInProcess DEF WorkerInv
  <2>2. IsFiniteSet(InProcess) /\ Cardinality(InProcess) \in Nat
    BY InProcessType, PayloadSetsFinite DEF WorkerInv
  <2>3. Cardinality(InProcess') = Cardinality(InProcess) + 1
    BY <2>1, <2>2, FS_AddElement
  <2>4. TypeOK' => (Cardinality(InProcess) <= Capacity)'
    BY InProcessBound, PTL
  <2>5. Capacity' = Capacity /\ Capacity \in Nat
    BY CapacityType DEF Capacity
  <2>6. QED
    BY <2>2, <2>3, <2>4, <2>5
<1>7. h \in HO!Payloads
  BY <1>2 DEF HO!Payloads, Payloads
<1>8. HO!Advance({h}, "held")
  BY <1>2, <1>4, AdvanceTo
<1>9. Cardinality(HO!At("held")) < BufferSize + Cardinality(Workers) + 1
  BY <1>5, <1>6 DEF Capacity
<1>10. QED
  BY <1>2, <1>7, <1>8, <1>9 DEF HO!Next, HO!Take, HO!Cardinality, Cardinality

LEMMA PopErrorMisses ==
    ASSUME WorkerInv, StageFacts, StageFacts', PopError
    PROVE  HO!Next \/ UNCHANGED [t \in Payloads |-> StageOf(t)]
<1>1. UNCHANGED <<pushed, held, taskCh, wtask, audit>>
  BY DEF PopError, poolVars, auditVars
<1>2. \A t \in Payloads : InHand(t)' <=> InHand(t)
  BY <1>1 DEF InHand, Taken
<1>3. CASE UNCHANGED queue
  BY <1>1, <1>2, <1>3, SameStages
<1>4. CASE queue # <<>> /\ queue' = Tail(queue)
  <2> DEFINE h == Head(queue)
  <2>1. /\ h \in Payloads /\ h = Popped + 1 /\ Popped' = Popped + 1
        /\ HO!Oldest(h, "queued")
    BY <1>1, <1>4, HeadIsOldest DEF WorkerInv
  <2> HIDE DEF h
  <2>2. \A t \in Payloads : StageOf(t)' = IF t \in {h} THEN "lost" ELSE StageOf(t)
    BY <1>1, <1>2, <2>1, PayloadsAreNumbers DEF StageFacts
  <2>3. h \in HO!Payloads
    BY <2>1 DEF HO!Payloads, Payloads
  <2>4. QED
    BY <2>1, <2>2, <2>3, AdvanceTo DEF HO!Next, HO!Miss
<1>5. QED
  BY <1>3, <1>4 DEF PopError

(* Handing a payload on inside the process. *)
LEMMA SendKeeps ==
    ASSUME TypeOK, SendPayload, NEW t \in Payloads
    PROVE  InHand(t)' <=> InHand(t)
<1>1. /\ held \in Payloads /\ held' = NoTask /\ wtask' = wtask
      /\ taskCh' = Append(taskCh, held) /\ taskCh \in Seq(Payloads)
  BY DEF SendPayload, TypeOK, poolVars
<1>2. /\ Len(taskCh) \in Nat
      /\ Len(taskCh') = Len(taskCh) + 1
      /\ \A i \in 1..Len(taskCh) : taskCh'[i] = taskCh[i]
      /\ taskCh'[Len(taskCh) + 1] = held
  BY <1>1
<1>3. (\E i \in 1..Len(taskCh') : taskCh'[i] = t)
        <=> t = held \/ \E i \in 1..Len(taskCh) : taskCh[i] = t
  BY <1>2
<1>4. QED
  BY <1>1, <1>3, PayloadsAreNumbers DEF InHand, Taken

LEMMA ReceiveKeeps ==
    ASSUME TypeOK, NEW w \in Workers, ReceivePayload(w), NEW t \in Payloads
    PROVE  InHand(t)' <=> InHand(t)
<1>1. /\ taskCh # <<>> /\ taskCh \in Seq(Payloads) /\ taskCh' = Tail(taskCh)
      /\ wtask' = [wtask EXCEPT ![w] = Head(taskCh)]
      /\ wtask[w] = NoTask /\ held' = held
  BY DEF ReceivePayload, TypeOK, dispatcherVars
<1>2. /\ Len(taskCh) \in Nat /\ Len(taskCh) > 0
      /\ Head(taskCh) = taskCh[1]
      /\ Len(taskCh') = Len(taskCh) - 1
      /\ \A i \in 1..Len(taskCh') : taskCh'[i] = taskCh[i + 1]
  BY <1>1, HeadTail, Numbers
<1>3. (\E i \in 1..Len(taskCh) : taskCh[i] = t)
        <=> t = Head(taskCh) \/ \E i \in 1..Len(taskCh') : taskCh'[i] = t
  <2>1. ASSUME NEW i \in 1..Len(taskCh), taskCh[i] = t, t # Head(taskCh)
        PROVE  \E j \in 1..Len(taskCh') : taskCh'[j] = t
    <3>1. i - 1 \in 1..Len(taskCh') /\ taskCh'[i - 1] = taskCh[i]
      BY <1>2, <2>1
    <3>2. QED
      BY <2>1, <3>1
  <2>2. ASSUME NEW j \in 1..Len(taskCh'), taskCh'[j] = t
        PROVE  \E i \in 1..Len(taskCh) : taskCh[i] = t
    <3>1. j + 1 \in 1..Len(taskCh) /\ taskCh[j + 1] = taskCh'[j]
      BY <1>2
    <3>2. QED
      BY <2>2, <3>1
  <2>3. 1 \in 1..Len(taskCh)
    BY <1>2
  <2>4. QED
    BY <1>2, <2>1, <2>2, <2>3
<1>4. Taken(t)' <=> Taken(t) \/ t = Head(taskCh)
  BY <1>1, PayloadsAreNumbers DEF Taken, TypeOK
<1>5. QED
  BY <1>1, <1>3, <1>4 DEF InHand

LEMMA DropLoses ==
    ASSUME WorkerInv, StageFacts, StageFacts', DropPayload
    PROVE  HO!Next
<1>1. /\ held \in Payloads /\ held # NoTask /\ held' = NoTask
      /\ UNCHANGED <<pushed, queue, taskCh, wtask, audit>>
  BY Numbers DEF DropPayload, WorkerInv, TypeOK, poolVars, auditVars
<1>2. ~Taken(held) /\ \A i \in 1..Len(taskCh) : taskCh[i] < held
  BY <1>1 DEF WorkerInv, FlowInv, ShapeInv, UntouchedInv, Untouched
<1>3. \A i \in 1..Len(taskCh) : taskCh[i] # held
  BY <1>1, <1>2, Numbers DEF WorkerInv
<1>4. \A t \in Payloads : InHand(t)' <=> InHand(t) /\ t # held
  BY <1>1, <1>2, <1>3, PayloadsAreNumbers DEF InHand, Taken
<1>5. PICK t \in Payloads : t = held
  BY <1>1
<1>6. InHand(t)
  BY <1>5 DEF InHand
<1>7. QED
  BY <1>1, <1>4, <1>5, <1>6, OneEnds

LEMMA LogAuditEnds ==
    ASSUME WorkerInv, StageFacts, StageFacts', NEW w \in Workers, LogAudit(w)
    PROVE  HO!Next
<1>1. PICK t \in Payloads : t = wtask[w]
  BY DEF LogAudit, WorkerInv, TypeOK
<1>2. /\ t # NoTask /\ wpc[w] = "audit"
      /\ wtask' = [wtask EXCEPT ![w] = NoTask]
      /\ \A u \in Payloads : u # t => audit'[u] = audit[u]
      /\ UNCHANGED <<pushed, queue, held, taskCh>>
  <2>1. audit' \in {audit, [audit EXCEPT ![t] = @ \cup {verdict[w]}]}
    BY <1>1 DEF LogAudit
  <2>2. QED
    BY <1>1, <2>1, Numbers DEF LogAudit, WorkerInv, TypeOK, dispatcherVars
<1>3. \A v \in Workers : v # w => wtask[v] # t
  BY <1>1, <1>2 DEF WorkerInv, FlowInv, PoolInv
<1>4. \A u \in Payloads : Taken(u)' <=> Taken(u) /\ u # t
  BY <1>1, <1>2, <1>3, PayloadsAreNumbers DEF Taken, WorkerInv, TypeOK
<1>5. Taken(t)
  BY <1>1 DEF Taken
<1>6. t # held /\ \A i \in 1..Len(taskCh) : taskCh[i] # t
  BY <1>5, <1>2 DEF WorkerInv, FlowInv, UntouchedInv, Untouched
<1>7. \A u \in Payloads : InHand(u)' <=> InHand(u) /\ u # t
  BY <1>2, <1>4, <1>6 DEF InHand
<1>8. InHand(t)
  BY <1>5 DEF InHand
<1>9. QED
  BY <1>2, <1>7, <1>8, OneEnds

LEMMA RestartLoses ==
    ASSUME WorkerInv, StageFacts, StageFacts', Restart
    PROVE  HO!Next
<1> DEFINE ts == {t \in Payloads : InHand(t)}
<1>1. /\ held' = NoTask /\ taskCh' = <<>> /\ wtask' = [w \in Workers |-> NoTask]
      /\ UNCHANGED <<pushed, queue, audit>>
  BY DEF Restart, NewProcess, auditVars
<1>2. \A t \in Payloads : ~InHand(t)'
  BY <1>1, PayloadsAreNumbers DEF InHand, Taken
<1>3. Popped' = Popped
  BY <1>1 DEF Popped
<1>4. \A t \in Payloads : StageOf(t)' = IF t \in ts THEN "lost" ELSE StageOf(t)
  BY <1>1, <1>2, <1>3, PayloadsAreNumbers DEF StageFacts
<1>5. ts \subseteq HO!At("held")
  BY AtStage DEF StageFacts
<1>6. QED
  BY <1>4, <1>5, AdvanceTo DEF HO!Next, HO!Lose

---------------------------------------------------------------------------
LEMMA StepIsHandOver ==
    ASSUME WorkerInv, WorkerInv', StageFacts, StageFacts', [Next]_vars
    PROVE  HO!Next \/ UNCHANGED [t \in Payloads |-> StageOf(t)]
<1> USE DEF dispatcherVars, poolVars, auditVars, fateVars
<1>1. CASE Produce
  BY <1>1, ProduceSends DEF WorkerInv
<1>2. CASE Dispatch
  <2>1. CASE PopPayload
    BY <2>1, PopTakes DEF WorkerInv
  <2>2. CASE PopError
    BY <2>2, PopErrorMisses
  <2>3. CASE SendPayload
    BY <2>3, SendKeeps, SameStages DEF SendPayload, WorkerInv
  <2>4. CASE DropPayload
    BY <2>4, DropLoses
  <2>5. CASE CheckContext \/ PopNothing \/ CloseChannel \/ Return
    <3>1. UNCHANGED <<pushed, queue, held, taskCh, wtask, audit>>
      BY <2>5 DEF CheckContext, PopNothing, CloseChannel, Return
    <3>2. QED
      BY <3>1, SameStages DEF InHand, Taken
  <2>6. QED
    BY <1>2, <2>1, <2>2, <2>3, <2>4, <2>5 DEF Dispatch
<1>3. ASSUME NEW w \in Workers, ReceivePayload(w)
      PROVE  UNCHANGED [t \in Payloads |-> StageOf(t)]
  BY <1>3, ReceiveKeeps, SameStages DEF ReceivePayload, WorkerInv
<1>4. ASSUME NEW w \in Workers, LogAudit(w) PROVE HO!Next
  BY <1>4, LogAuditEnds
<1>5. CASE Restart
  BY <1>5, RestartLoses
<1>6. CASE \/ \E w \in Workers : \/ processPayload(w) \/ WorkerExit(w) \/ TakeResult(w)
                                 \/ TakeTimeout(w) \/ Deadline(w)
           \/ \E t \in Payloads : HandlerReturn(t)
           \/ Cancel \/ Terminated \/ UNCHANGED vars
  <2>1. UNCHANGED <<pushed, queue, held, taskCh, wtask, audit>>
    BY <1>6 DEF processPayload, WorkerExit, TakeResult, TakeTimeout, Conclude, Deadline, HandlerReturn,
                Cancel, Terminated, vars
  <2>2. QED
    BY <2>1, SameStages DEF InHand, Taken
<1>7. QED
  BY <1>1, <1>2, <1>3, <1>4, <1>5, <1>6 DEF Next, Work

(* The worker service implements the hand-over: whatever its goroutines,    *)
(* timeouts, shutdowns and crashes do, each payload is taken once, oldest   *)
(* first, and audited or lost once (worker.go:137-280).                     *)
THEOREM WorkerImplementsHandOver == Spec => ImplementsHandOver
<1>1. Init => HO!Init
  <2> SUFFICES ASSUME Init PROVE HO!Init
    OBVIOUS
  <2>1. \A t \in Payloads : StageOf(t) = "unsent"
    <3>1. pushed = 0 /\ queue = <<>> /\ taskCh = <<>> /\ held = NoTask
          /\ wtask = [w \in Workers |-> NoTask] /\ \A t \in Payloads : audit[t] = {}
      BY DEF Init
    <3>2. SeqSet(queue) = {} /\ InProcess = {}
      BY <3>1 DEF SeqSet, InProcess
    <3>3. \A t \in Payloads : t > pushed
      BY <3>1, PayloadsAreNumbers
    <3>4. QED
      BY <3>1, <3>2, <3>3 DEF StageOf
  <2>2. QED
    BY <2>1 DEF HO!Init, HO!Payloads, Payloads
<1>2. WorkerInv /\ WorkerInv' /\ [Next]_vars
        => [HO!Next]_([t \in Payloads |-> StageOf(t)])
  <2>1. WorkerInv => StageFacts
    BY StageFactsHold
  <2>2. WorkerInv' => StageFacts'
    BY StageFactsHold, PTL
  <2>3. QED
    BY <2>1, <2>2, StepIsHandOver
<1>3. QED
  BY <1>1, <1>2, WorkerInvariant, PTL DEF Spec, ImplementsHandOver, HO!Spec

---------------------------------------------------------------------------
(* How far a payload has come. *)
Rank(s) ==
    CASE s = "unsent" -> 0
      [] s = "queued" -> 1
      [] s = "held" -> 2
      [] s \in {"audited", "lost"} -> 3

(* A step moves each payload forward or not at all. *)
ForwardOnly ==
    \A t \in Payloads :
        \/ StageOf(t)' = StageOf(t)
        \/ Rank(StageOf(t)) < Rank(StageOf(t)')

LEMMA HandOverGoesForward ==
    ASSUME HO!Next
    PROVE  ForwardOnly
<1>1. HO!Payloads = Payloads
  BY DEF HO!Payloads, Payloads
<1>2. ASSUME NEW ts \in SUBSET Payloads, NEW s, NEW s2,
             HO!Advance(ts, s2), \A t \in ts : StageOf(t) = s, Rank(s) < Rank(s2)
      PROVE  ForwardOnly
  <2>1. \A t \in Payloads : StageOf(t)' = IF t \in ts THEN s2 ELSE StageOf(t)
    BY <1>1, <1>2 DEF HO!Advance
  <2>2. QED
    BY <1>2, <2>1 DEF ForwardOnly
<1>3. /\ Rank("unsent") < Rank("queued")
      /\ Rank("queued") < Rank("held")
      /\ Rank("queued") < Rank("lost")
      /\ Rank("held") < Rank("audited")
      /\ Rank("held") < Rank("lost")
  BY DEF Rank
<1>4. CASE HO!Send
  BY <1>1, <1>2, <1>3, <1>4, AtStage DEF HO!Send, HO!Oldest
<1>5. CASE HO!Take
  BY <1>1, <1>2, <1>3, <1>5, AtStage DEF HO!Take, HO!Oldest
<1>6. CASE HO!Miss
  BY <1>1, <1>2, <1>3, <1>6, AtStage DEF HO!Miss, HO!Oldest
<1>7. CASE HO!Audit
  BY <1>1, <1>2, <1>3, <1>7, AtStage DEF HO!Audit
<1>8. CASE HO!Lose
  BY <1>1, <1>2, <1>3, <1>8, AtStage DEF HO!Lose
<1>9. QED
  BY <1>4, <1>5, <1>6, <1>7, <1>8 DEF HO!Next

(* At most once: a payload that left the list never gets back to it, one    *)
(* that was audited or lost stays so, through failed INSERTs, timeouts,     *)
(* shutdowns, crashes and restarts (worker.go:137-280, main.go:18-41).      *)
THEOREM HandedOverOnce == Spec => [][ForwardOnly]_vars
<1>1. ASSUME WorkerInv, WorkerInv', [Next]_vars PROVE ForwardOnly
  <2>1. StageFacts /\ StageFacts'
    <3>1. StageFacts
      BY <1>1, StageFactsHold
    <3>2. WorkerInv' => StageFacts'
      BY StageFactsHold, PTL
    <3>3. QED
      BY <1>1, <3>1, <3>2
  <2>2. CASE HO!Next
    BY <2>2, HandOverGoesForward
  <2>3. CASE UNCHANGED [t \in Payloads |-> StageOf(t)]
    <3>1. \A t \in Payloads : StageOf(t)' = StageOf(t)
      BY <2>3
    <3>2. QED
      BY <3>1 DEF ForwardOnly
  <2>4. QED
    BY <1>1, <2>1, <2>2, <2>3, StepIsHandOver
<1>2. QED
  BY <1>1, WorkerInvariant, PTL DEF Spec
=============================================================================
