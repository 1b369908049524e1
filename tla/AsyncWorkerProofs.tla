--------------------------- MODULE AsyncWorkerProofs ---------------------------
(***************************************************************************)
(* Theorems about the phase 3 worker service, for every pool, buffer and   *)
(* number of payloads.                                                     *)
(***************************************************************************)
EXTENDS AsyncWorker, FiniteSetTheorems, TLAPS

LEMMA PayloadsAreNumbers == Payloads \subseteq Nat \ {0} /\ NoTask \notin Payloads
BY WorkerAssumption DEF Payloads, NoTask

(* Head and Tail of the list and of the channel. *)
LEMMA HeadTail ==
    ASSUME NEW S, NEW s \in Seq(S), s # <<>>
    PROVE  /\ Head(s) \in S
           /\ Head(s) = s[1]
           /\ Tail(s) \in Seq(S)
           /\ Len(s) > 0
           /\ Len(Tail(s)) = Len(s) - 1
           /\ \A i \in 1..Len(Tail(s)) : Tail(s)[i] = s[i + 1]
OBVIOUS

LEMMA AppendLast ==
    ASSUME NEW S, NEW s \in Seq(S), NEW e \in S
    PROVE  /\ Append(s, e) \in Seq(S)
           /\ Len(Append(s, e)) = Len(s) + 1
           /\ \A i \in 1..Len(s) : Append(s, e)[i] = s[i]
           /\ Append(s, e)[Len(s) + 1] = e
OBVIOUS

LEMMA SeqSetType ==
    ASSUME NEW S, NEW s \in Seq(S)
    PROVE  SeqSet(s) \subseteq S
BY DEF SeqSet

---------------------------------------------------------------------------
(* Type correctness.  It is inductive as it stands: that a pool goroutine   *)
(* holds a payload exactly while it watches or audits one, and has a        *)
(* verdict exactly while it audits, is part of it.                         *)
LEMMA InitType == Init => TypeOK
<1> SUFFICES ASSUME Init PROVE TypeOK
  OBVIOUS
<1>1. /\ pushed \in 0..MaxPush
      /\ restarts \in 0..MaxRestarts
      /\ queue \in Seq(Payloads)
      /\ taskCh \in Seq(Payloads)
      /\ Len(taskCh) <= BufferSize
  BY WorkerAssumption DEF Init
<1>2. /\ handler \in [Payloads -> {"none", "running", "ok", "err", "dead"}]
      /\ audit \in [Payloads -> SUBSET Outcome]
      /\ expired \subseteq Payloads
      /\ critical \subseteq Payloads
      /\ dropped \subseteq Payloads
      /\ missed \subseteq Payloads
      /\ lost \subseteq Payloads
  BY DEF Init
<1>3. /\ wpc \in [Workers -> {"recv", "decode", "select", "audit", "exited"}]
      /\ wtask \in [Workers -> Payloads \cup {NoTask}]
      /\ \A w \in Workers : wtask[w] # NoTask <=> wpc[w] \in {"decode", "select", "audit"}
      /\ verdict \in [Workers -> Outcome \cup {"none"}]
      /\ \A w \in Workers : verdict[w] # "none" <=> wpc[w] = "audit"
  BY DEF Init
<1>4. QED
  BY <1>1, <1>2, <1>3 DEF Init, TypeOK

LEMMA DispatchType == TypeOK /\ Dispatch => TypeOK'
<1> SUFFICES ASSUME TypeOK, Dispatch PROVE TypeOK'
  OBVIOUS
<1> USE PayloadsAreNumbers DEF dispatcherVars, poolVars, auditVars, fateVars
<1>1. CASE CheckContext
  BY <1>1 DEF CheckContext, TypeOK
<1>2. CASE PopPayload
  BY <1>2, HeadTail DEF PopPayload, TypeOK
<1>3. CASE PopNothing
  BY <1>3 DEF PopNothing, TypeOK
<1>4. CASE PopError
  <2>1. dpc' \in {"pop", "close", "check"} /\ UNCHANGED held
    BY <1>4 DEF PopError
  <2>2. queue' \in Seq(Payloads) /\ missed' \subseteq Payloads
    <3>1. CASE UNCHANGED <<queue, missed>>
      BY <3>1 DEF TypeOK
    <3>2. CASE queue # <<>> /\ queue' = Tail(queue) /\ missed' = missed \cup {Head(queue)}
      <4>1. Head(queue) \in Payloads /\ Tail(queue) \in Seq(Payloads)
        BY <3>2, HeadTail DEF TypeOK
      <4>2. QED
        BY <3>2, <4>1 DEF TypeOK
    <3>3. QED
      BY <1>4, <3>1, <3>2 DEF PopError
  <2>3. held = NoTask
    BY <1>4 DEF PopError, TypeOK
  <2>4. QED
    BY <1>4, <2>1, <2>2, <2>3 DEF PopError, TypeOK
<1>5. CASE SendPayload
  BY <1>5, AppendLast, WorkerAssumption DEF SendPayload, TypeOK
<1>6. CASE DropPayload
  BY <1>6 DEF DropPayload, TypeOK
<1>7. CASE CloseChannel
  BY <1>7 DEF CloseChannel, TypeOK
<1>8. CASE Return
  BY <1>8 DEF Return, TypeOK
<1>9. QED
  BY <1>1, <1>2, <1>3, <1>4, <1>5, <1>6, <1>7, <1>8 DEF Dispatch

LEMMA PoolType ==
    ASSUME TypeOK, NEW w \in Workers, Work(w) \/ Deadline(w)
    PROVE  TypeOK'
<1> USE PayloadsAreNumbers DEF dispatcherVars, poolVars, auditVars, fateVars
<1>1. CASE ReceivePayload(w)
  <2>1. /\ Head(taskCh) \in Payloads
        /\ taskCh' \in Seq(Payloads)
        /\ Len(taskCh') <= BufferSize
    BY <1>1, HeadTail, WorkerAssumption DEF ReceivePayload, TypeOK
  <2>2. /\ wtask' = [wtask EXCEPT ![w] = Head(taskCh)]
        /\ wpc' = [wpc EXCEPT ![w] = "decode"]
        /\ wpc[w] = "recv"
        /\ UNCHANGED <<pushed, queue, ctxDone, dpc, held, verdict, handler, expired, audit,
                       critical, dropped, missed, lost, restarts>>
    BY <1>1 DEF ReceivePayload
  <2>3. QED
    BY <2>1, <2>2 DEF TypeOK
<1>2. CASE processPayload(w)
  BY <1>2 DEF processPayload, TypeOK, Outcome
<1>3. CASE WorkerExit(w)
  BY <1>3 DEF WorkerExit, TypeOK
<1>4. CASE TakeResult(w)
  BY <1>4 DEF TakeResult, Conclude, TypeOK, Outcome
<1>5. CASE TakeTimeout(w)
  BY <1>5 DEF TakeTimeout, Conclude, TypeOK, Outcome
<1>6. CASE LogAudit(w)
  <2>1. wtask[w] \in Payloads /\ verdict[w] \in Outcome
    BY <1>6 DEF LogAudit, TypeOK
  <2>2. audit' \in [Payloads -> SUBSET Outcome] /\ critical' \subseteq Payloads
    <3>1. audit' \in {audit, [audit EXCEPT ![wtask[w]] = @ \cup {verdict[w]}]}
      BY <1>6 DEF LogAudit
    <3>2. critical' = critical \/ critical' = critical \cup {wtask[w]}
      BY <1>6 DEF LogAudit
    <3>3. critical' \subseteq Payloads
      BY <2>1, <3>2 DEF TypeOK
    <3>4. [audit EXCEPT ![wtask[w]] = @ \cup {verdict[w]}] \in [Payloads -> SUBSET Outcome]
      BY <2>1 DEF TypeOK
    <3>5. QED
      BY <3>1, <3>3, <3>4 DEF TypeOK
  <2>3. /\ wpc' = [wpc EXCEPT ![w] = "recv"]
        /\ wtask' = [wtask EXCEPT ![w] = NoTask]
        /\ verdict' = [verdict EXCEPT ![w] = "none"]
        /\ UNCHANGED <<pushed, queue, ctxDone, dpc, held, taskCh, handler, expired,
                       dropped, missed, lost, restarts>>
    BY <1>6 DEF LogAudit
  <2>4. QED
    BY <2>2, <2>3 DEF TypeOK
<1>7. CASE Deadline(w)
  BY <1>7 DEF Deadline, TypeOK
<1>8. QED
  BY <1>1, <1>2, <1>3, <1>4, <1>5, <1>6, <1>7 DEF Work

LEMMA HandlerType ==
    ASSUME TypeOK, NEW t \in Payloads, HandlerReturn(t)
    PROVE  TypeOK'
<1>1. \A result \in HandlerResult(t) : result \in {"ok", "err"}
  BY DEF HandlerResult
<1>2. QED
  BY <1>1 DEF HandlerReturn, TypeOK, dispatcherVars, auditVars, fateVars

LEMMA InProcessType == TypeOK => InProcess \subseteq Payloads
BY SeqSetType DEF TypeOK, InProcess

LEMMA NextType == TypeOK /\ [Next]_vars => TypeOK'
<1> SUFFICES ASSUME TypeOK, [Next]_vars PROVE TypeOK'
  OBVIOUS
<1> USE PayloadsAreNumbers DEF dispatcherVars, poolVars, auditVars, fateVars
<1>1. CASE Produce
  <2>1. pushed' \in Payloads
    BY <1>1, WorkerAssumption DEF Produce, TypeOK, Payloads
  <2>2. pushed' \in 0..MaxPush
    BY <1>1, WorkerAssumption DEF Produce, TypeOK
  <2>3. queue' \in Seq(Payloads)
    BY <1>1, <2>1, AppendLast DEF Produce, TypeOK
  <2>4. QED
    BY <1>1, <2>2, <2>3 DEF Produce, TypeOK
<1>2. CASE Cancel
  BY <1>2 DEF Cancel, TypeOK
<1>3. CASE Dispatch
  BY <1>3, DispatchType
<1>4. CASE \E w \in Workers : Work(w) \/ Deadline(w)
  BY <1>4, PoolType
<1>5. CASE \E t \in Payloads : HandlerReturn(t)
  BY <1>5, HandlerType
<1>6. CASE Restart
  <2>1. lost' \subseteq Payloads
    BY <1>6, InProcessType DEF Restart, TypeOK
  <2>2. restarts' \in 0..MaxRestarts
    BY <1>6, WorkerAssumption DEF Restart, TypeOK
  <2>3. handler' \in [Payloads -> {"none", "running", "ok", "err", "dead"}]
    BY <1>6 DEF Restart, TypeOK
  <2>4. /\ ctxDone' = FALSE /\ dpc' = "check" /\ held' = NoTask
        /\ taskCh' = <<>>
        /\ UNCHANGED <<pushed, queue, expired, audit, critical, dropped, missed>>
    BY <1>6 DEF Restart, NewProcess
  <2>5. /\ wpc' \in [Workers -> {"recv", "decode", "select", "audit", "exited"}]
        /\ wtask' \in [Workers -> Payloads \cup {NoTask}]
        /\ \A w \in Workers : wtask'[w] # NoTask <=> wpc'[w] \in {"decode", "select", "audit"}
        /\ verdict' \in [Workers -> Outcome \cup {"none"}]
        /\ \A w \in Workers : verdict'[w] # "none" <=> wpc'[w] = "audit"
    BY <1>6 DEF Restart, NewProcess
  <2>6. taskCh' \in Seq(Payloads) /\ Len(taskCh') <= BufferSize
    BY <2>4, WorkerAssumption
  <2>7. QED
    BY <2>1, <2>2, <2>3, <2>4, <2>5, <2>6 DEF TypeOK
<1>7. CASE UNCHANGED vars
  BY <1>7 DEF vars, TypeOK
<1>8. QED
  BY <1>1, <1>2, <1>3, <1>4, <1>5, <1>6, <1>7 DEF Next, Terminated

(* Every state of the service is of the declared types; in particular the   *)
(* channel never holds more than its buffer (worker.go:45-48).             *)
THEOREM WorkerTypeCorrect == Spec => []TypeOK
BY InitType, NextType, PTL DEF Spec

---------------------------------------------------------------------------
LEMMA PayloadSeq ==
    ASSUME NEW s \in Seq(Payloads)
    PROVE  /\ Len(s) \in Nat
           /\ \A i \in 1..Len(s) : s[i] \in Payloads /\ s[i] \in Nat
<1>1. Len(s) \in Nat /\ \A i \in 1..Len(s) : s[i] \in Payloads
  OBVIOUS
<1>2. QED
  BY <1>1, PayloadsAreNumbers

LEMMA Numbers ==
    ASSUME TypeOK
    PROVE  /\ pushed \in Nat
           /\ Len(queue) \in Nat
           /\ Len(taskCh) \in Nat
           /\ \A i \in 1..Len(taskCh) : taskCh[i] \in Payloads /\ taskCh[i] \in Nat
           /\ \A t \in Payloads : t \in Nat /\ t # NoTask
<1>1. pushed \in Nat
  BY WorkerAssumption DEF TypeOK
<1>2. queue \in Seq(Payloads) /\ taskCh \in Seq(Payloads)
  BY DEF TypeOK
<1>3. QED
  BY <1>1, <1>2, PayloadSeq, PayloadsAreNumbers

(* The inductive invariant behind the safety theorems.                      *)
Popped == pushed - Len(queue)
Taken(t) == \E w \in Workers : wtask[w] = t
Ended == Settled \cup dropped \cup missed \cup lost
Begun(t) == handler[t] # "none" \/ t \in Settled \/ Taken(t)
Untouched(t) == handler[t] = "none" /\ t \notin Ended /\ ~Taken(t)

(* The list holds the latest pushes; the dispatcher and the channel hold    *)
(* older payloads, in order.                                               *)
ShapeInv ==
    /\ Len(queue) <= pushed
    /\ \A i \in 1..Len(queue) : queue[i] = Popped + i
    /\ held # NoTask => held <= Popped
    /\ \A i \in 1..Len(taskCh) : taskCh[i] <= Popped
    /\ \A i, j \in 1..Len(taskCh) : i < j => taskCh[i] < taskCh[j]
    /\ held # NoTask => \A i \in 1..Len(taskCh) : taskCh[i] < held

(* Nothing has happened to a payload before a pool goroutine receives it.   *)
UntouchedInv ==
    /\ \A t \in Payloads : t > Popped => Untouched(t)
    /\ held # NoTask => Untouched(held)
    /\ \A i \in 1..Len(taskCh) : Untouched(taskCh[i])

(* What the pool has begun is older than what waits for it. *)
OrderInv ==
    \A t \in Payloads : Begun(t) =>
        /\ held # NoTask => t < held
        /\ \A i \in 1..Len(taskCh) : t < taskCh[i]

(* A pool goroutine has its payload for itself, and its verdict is what the *)
(* handler or the deadline gave.                                           *)
PoolInv ==
    /\ \A w \in Workers : wtask[w] # NoTask => wtask[w] \notin Ended
    /\ \A v, w \in Workers : v # w /\ wtask[v] # NoTask => wtask[v] # wtask[w]
    /\ \A w \in Workers : wpc[w] = "decode" => handler[wtask[w]] = "none"
    /\ \A w \in Workers : wpc[w] = "select" => handler[wtask[w]] \in {"running", "ok", "err"}
    /\ \A w \in Workers :
          /\ verdict[w] = "SUCCESS" => handler[wtask[w]] = "ok"
          /\ verdict[w] = "FAILED" =>
                handler[wtask[w]] = IF wtask[w] \in BadPayloads THEN "none" ELSE "err"
          /\ verdict[w] = "TIMEOUT" => wtask[w] \in expired
    /\ \A t \in BadPayloads : handler[t] = "none"

(* A payload ends once. *)
FateInv ==
    /\ Settled \cap dropped = {} /\ Settled \cap missed = {} /\ Settled \cap lost = {}
    /\ dropped \cap missed = {} /\ dropped \cap lost = {} /\ missed \cap lost = {}

(* A payload that left the list is somewhere. *)
PlaceInv ==
    \A t \in Payloads : t <= Popped =>
        \/ t = held
        \/ \E i \in 1..Len(taskCh) : taskCh[i] = t
        \/ Taken(t)
        \/ t \in Ended

(* The pool leaves a channel that is closed and drained, and Start returns  *)
(* once the pool has left.                                                 *)
CloseInv ==
    /\ \A w \in Workers : wpc[w] = "exited" => Closed /\ taskCh = <<>>
    /\ dpc = "returned" => \A w \in Workers : wpc[w] = "exited"

FlowInv ==
    /\ ShapeInv
    /\ UntouchedInv
    /\ OrderInv
    /\ PoolInv
    /\ FateInv
    /\ PlaceInv
    /\ VerdictTruthful
    /\ AbandonedOnlyOnTimeout

WorkerInv == TypeOK /\ FlowInv /\ CloseInv

(* The variables of which a step that moves no payload changes none. *)
flowVars == <<pushed, queue, held, taskCh, wtask, verdict, handler, audit, critical,
              dropped, missed, lost>>

LEMMA InitFlow == Init => FlowInv /\ CloseInv
<1> SUFFICES ASSUME Init PROVE FlowInv /\ CloseInv
  OBVIOUS
<1>1. /\ Popped = 0 /\ Len(queue) = 0 /\ Len(taskCh) = 0
      /\ Ended = {} /\ Settled = {}
      /\ \A t \in Payloads : t > 0 /\ ~Taken(t)
  <2>1. Settled = {}
    BY DEF Init, Settled
  <2>2. Len(queue) = 0 /\ Len(taskCh) = 0 /\ pushed = 0
    BY DEF Init
  <2>3. Popped = 0
    BY <2>2 DEF Popped
  <2>4. \A t \in Payloads : t > 0 /\ t # NoTask
    BY PayloadsAreNumbers
  <2>5. QED
    BY <2>1, <2>2, <2>3, <2>4 DEF Init, Ended, Taken
<1>2. ShapeInv /\ UntouchedInv /\ OrderInv
  BY <1>1 DEF Init, ShapeInv, UntouchedInv, Untouched, OrderInv, Begun
<1>3. PoolInv /\ FateInv /\ PlaceInv
  BY <1>1, WorkerAssumption DEF Init, PoolInv, FateInv, PlaceInv, Payloads
<1>4. VerdictTruthful /\ AbandonedOnlyOnTimeout
  BY DEF Init, VerdictTruthful, AbandonedOnlyOnTimeout
<1>5. CloseInv
  BY DEF Init, CloseInv
<1>6. QED
  BY <1>2, <1>3, <1>4, <1>5 DEF FlowInv

LEMMA QuietFlow ==
    ASSUME FlowInv, UNCHANGED flowVars, expired \subseteq expired',
           \A w \in Workers : wpc'[w] = "select" <=> wpc[w] = "select",
           \A w \in Workers : wpc'[w] = "decode" => wpc[w] = "decode"
    PROVE  FlowInv'
<1> USE DEF flowVars
<1>1. Settled' = Settled /\ Ended' = Ended /\ Popped' = Popped
  BY DEF Settled, Ended, Popped
<1>2. \A t : Taken(t)' <=> Taken(t)
  BY DEF Taken
<1>3. ShapeInv' /\ FateInv' /\ PlaceInv'
  BY <1>1, <1>2 DEF FlowInv, ShapeInv, FateInv, PlaceInv
<1>4. UntouchedInv' /\ OrderInv'
  BY <1>1, <1>2 DEF FlowInv, UntouchedInv, Untouched, OrderInv, Begun
<1>5. PoolInv'
  <2>1. \A w \in Workers : wpc'[w] = "select" => handler'[wtask'[w]] \in {"running", "ok", "err"}
    BY DEF FlowInv, PoolInv
  <2>2. \A w \in Workers : verdict'[w] = "TIMEOUT" => wtask'[w] \in expired'
    BY DEF FlowInv, PoolInv
  <2>3. \A w \in Workers : wpc'[w] = "decode" => handler'[wtask'[w]] = "none"
    BY DEF FlowInv, PoolInv
  <2>4. QED
    BY <1>1, <2>1, <2>2, <2>3 DEF FlowInv, PoolInv
<1>6. VerdictTruthful' /\ AbandonedOnlyOnTimeout'
  BY DEF FlowInv, VerdictTruthful, AbandonedOnlyOnTimeout
<1>7. QED
  BY <1>3, <1>4, <1>5, <1>6 DEF FlowInv

LEMMA ProduceFlow == TypeOK /\ FlowInv /\ Produce => FlowInv'
<1> SUFFICES ASSUME TypeOK, FlowInv, Produce PROVE FlowInv'
  OBVIOUS
<1>1. /\ pushed' = pushed + 1
      /\ queue' = Append(queue, pushed')
      /\ UNCHANGED <<held, taskCh, wpc, wtask, verdict, handler, expired, audit, critical,
                     dropped, missed, lost>>
  BY DEF Produce, dispatcherVars, poolVars, auditVars, fateVars
<1>2. /\ Len(queue') = Len(queue) + 1
      /\ \A i \in 1..Len(queue) : queue'[i] = queue[i]
      /\ queue'[Len(queue) + 1] = pushed + 1
      /\ Len(queue) \in Nat /\ pushed \in Nat
  <2>1. pushed + 1 \in Payloads
    BY Numbers, WorkerAssumption DEF Produce, Payloads
  <2>2. queue \in Seq(Payloads)
    BY DEF TypeOK
  <2>3. QED
    BY <1>1, <2>1, <2>2, AppendLast, Numbers
<1>3. Settled' = Settled /\ Ended' = Ended /\ Popped' = Popped
  BY <1>1, <1>2 DEF Settled, Ended, Popped
<1>4. \A t : Taken(t)' <=> Taken(t)
  BY <1>1 DEF Taken
<1>5. ShapeInv'
  <2>1. ASSUME NEW i \in 1..Len(queue') PROVE queue'[i] = Popped' + i
    <3>1. CASE i \in 1..Len(queue)
      BY <1>2, <1>3, <3>1 DEF FlowInv, ShapeInv
    <3>2. CASE i = Len(queue) + 1
      BY <1>2, <1>3, <3>2 DEF Popped
    <3>3. QED
      BY <1>2, <3>1, <3>2
  <2>2. QED
    BY <1>1, <1>2, <1>3, <2>1 DEF FlowInv, ShapeInv
<1>6. UntouchedInv' /\ OrderInv'
  BY <1>1, <1>3, <1>4 DEF FlowInv, UntouchedInv, Untouched, OrderInv, Begun
<1>7. PoolInv' /\ FateInv' /\ PlaceInv'
  BY <1>1, <1>3, <1>4 DEF FlowInv, PoolInv, FateInv, PlaceInv
<1>8. VerdictTruthful' /\ AbandonedOnlyOnTimeout'
  BY <1>1 DEF FlowInv, VerdictTruthful, AbandonedOnlyOnTimeout
<1>9. QED
  BY <1>5, <1>6, <1>7, <1>8 DEF FlowInv

LEMMA BusyWorker ==
    ASSUME TypeOK, NEW w \in Workers, wpc[w] \in {"decode", "select"} \/ verdict[w] # "none"
    PROVE  wtask[w] \in Payloads /\ wtask[w] # NoTask
BY DEF TypeOK

LEMMA PoppedNumber == TypeOK /\ FlowInv => Popped \in Nat
BY Numbers DEF FlowInv, ShapeInv, Popped

(* What removing the oldest payload of the list means for the invariant. *)
LEMMA PoppedOne ==
    ASSUME TypeOK, FlowInv, queue # <<>>, queue' = Tail(queue), pushed' = pushed
    PROVE  /\ Head(queue) = Popped + 1
           /\ Popped' = Popped + 1
           /\ Popped \in Nat
           /\ Head(queue) \in Payloads
           /\ Len(queue') <= pushed'
           /\ \A i \in 1..Len(queue') : queue'[i] = Popped' + i
<1>1. /\ Head(queue) \in Payloads
      /\ Head(queue) = queue[1]
      /\ Len(queue) > 0
      /\ Len(queue) \in Nat
      /\ Len(queue') = Len(queue) - 1
      /\ \A i \in 1..Len(queue') : queue'[i] = queue[i + 1]
  BY HeadTail DEF TypeOK
<1>2. pushed \in Nat /\ Len(queue) <= pushed
  BY WorkerAssumption DEF TypeOK, FlowInv, ShapeInv
<1>3. Popped \in Nat /\ Popped' = Popped + 1
  BY <1>1, <1>2 DEF Popped
<1>4. \A i \in 1..Len(queue) : queue[i] = Popped + i
  BY DEF FlowInv, ShapeInv
<1>5. QED
  BY <1>1, <1>2, <1>3, <1>4

LEMMA PopPayloadFlow == TypeOK /\ FlowInv /\ PopPayload => FlowInv'
<1> SUFFICES ASSUME TypeOK, FlowInv, PopPayload PROVE FlowInv'
  OBVIOUS
<1>1. /\ queue # <<>>
      /\ queue' = Tail(queue)
      /\ held' = Head(queue)
      /\ dpc = "pop"
      /\ UNCHANGED <<pushed, taskCh, wpc, wtask, verdict, handler, expired, audit, critical,
                     dropped, missed, lost>>
  BY DEF PopPayload, poolVars, auditVars, fateVars
<1>2. /\ held' = Popped + 1
      /\ Popped' = Popped + 1
      /\ Popped \in Nat
      /\ held' \in Payloads
      /\ held = NoTask
      /\ Len(queue') <= pushed'
      /\ \A i \in 1..Len(queue') : queue'[i] = Popped' + i
  BY <1>1, PoppedOne DEF TypeOK
<1>3. Settled' = Settled /\ Ended' = Ended
  BY <1>1 DEF Settled, Ended
<1>4. \A t : Taken(t)' <=> Taken(t)
  BY <1>1 DEF Taken
<1>5. \A i \in 1..Len(taskCh) : taskCh[i] \in Nat /\ taskCh[i] <= Popped
  BY Numbers DEF FlowInv, ShapeInv
<1>6. ShapeInv'
  BY <1>1, <1>2, <1>5 DEF FlowInv, ShapeInv
<1>7. \A t \in Payloads : t > Popped => Untouched(t) /\ t \in Nat
  BY PayloadsAreNumbers DEF FlowInv, UntouchedInv
<1>8. \A t \in Payloads : Untouched(t)' <=> Untouched(t)
  BY <1>1, <1>3, <1>4 DEF Untouched
<1>9. \A t \in Payloads : t \in Nat
  BY PayloadsAreNumbers
<1>10. UntouchedInv'
  <2>1. \A t \in Payloads : t > Popped' => Untouched(t)'
    BY <1>2, <1>7, <1>8
  <2>2. Untouched(held)'
    BY <1>2, <1>7, <1>8 DEF Untouched
  <2>3. \A i \in 1..Len(taskCh') : Untouched(taskCh[i])'
    BY <1>1, <1>8 DEF FlowInv, UntouchedInv, TypeOK
  <2>4. QED
    BY <1>1, <2>1, <2>2, <2>3 DEF UntouchedInv, Untouched
<1>11. OrderInv'
  <2>1. \A t \in Payloads : Begun(t)' => Begun(t)
    BY <1>1, <1>3, <1>4 DEF Begun
  <2>2. \A t \in Payloads : Begun(t) => t <= Popped
    BY <1>7, <1>9, <1>2 DEF Begun, Untouched, Ended
  <2>3. QED
    BY <1>1, <1>2, <1>9, <2>1, <2>2 DEF FlowInv, OrderInv
<1>12. PoolInv' /\ FateInv'
  BY <1>1, <1>3 DEF FlowInv, PoolInv, FateInv
<1>13. PlaceInv'
  BY <1>1, <1>2, <1>3, <1>4, <1>9, PayloadsAreNumbers DEF FlowInv, PlaceInv
<1>14. VerdictTruthful' /\ AbandonedOnlyOnTimeout'
  BY <1>1 DEF FlowInv, VerdictTruthful, AbandonedOnlyOnTimeout
<1>15. QED
  BY <1>6, <1>10, <1>11, <1>12, <1>13, <1>14 DEF FlowInv

LEMMA PopErrorFlow == TypeOK /\ FlowInv /\ PopError => FlowInv'
<1> SUFFICES ASSUME TypeOK, FlowInv, PopError PROVE FlowInv'
  OBVIOUS
<1>1. UNCHANGED <<pushed, held, taskCh, wpc, wtask, verdict, handler, expired, audit,
                  critical, dropped, lost>>
  BY DEF PopError, poolVars, auditVars
<1>2. CASE UNCHANGED <<queue, missed>>
  BY <1>1, <1>2, QuietFlow DEF flowVars
<1>3. CASE /\ queue # <<>>
           /\ queue' = Tail(queue)
           /\ missed' = missed \cup {Head(queue)}
  <2> DEFINE t == Head(queue)
  <2>1. /\ t = Popped + 1
        /\ Popped' = Popped + 1
        /\ Popped \in Nat
        /\ t \in Payloads
        /\ Len(queue') <= pushed'
        /\ \A i \in 1..Len(queue') : queue'[i] = Popped' + i
    BY <1>1, <1>3, PoppedOne
  <2> HIDE DEF t
  <2>2. Settled' = Settled /\ Ended' = Ended \cup {t}
    BY <1>1, <1>3 DEF Settled, Ended, t
  <2>3. \A u : Taken(u)' <=> Taken(u)
    BY <1>1 DEF Taken
  <2>4. Untouched(t)
    BY <2>1, Numbers DEF FlowInv, UntouchedInv
  <2>5. /\ held # NoTask => held # t /\ held <= Popped'
        /\ \A i \in 1..Len(taskCh) : taskCh[i] # t /\ taskCh[i] <= Popped'
    BY <2>1, Numbers DEF TypeOK, FlowInv, ShapeInv
  <2>6. ShapeInv'
    BY <1>1, <2>1, <2>5 DEF FlowInv, ShapeInv
  <2>7. UntouchedInv'
    <3>1. \A u \in Payloads : u # t /\ Untouched(u) => Untouched(u)'
      BY <1>1, <2>2, <2>3 DEF Untouched
    <3>2. \A u \in Payloads : u > Popped' => Untouched(u)'
      BY <2>1, <3>1, Numbers DEF FlowInv, UntouchedInv
    <3>3. held' # NoTask => Untouched(held)'
      BY <1>1, <2>5, <3>1 DEF FlowInv, UntouchedInv, TypeOK, Untouched
    <3>4. \A i \in 1..Len(taskCh') : Untouched(taskCh[i])'
      BY <1>1, <2>5, <3>1, Numbers DEF FlowInv, UntouchedInv
    <3>5. QED
      BY <3>2, <3>3, <3>4 DEF UntouchedInv
  <2>8. OrderInv'
    BY <1>1, <2>2, <2>3 DEF FlowInv, OrderInv, Begun
  <2>9. PoolInv'
    <3>1. \A w \in Workers : wtask[w] # t
      BY <2>4 DEF Untouched, Taken
    <3>2. QED
      BY <1>1, <2>2, <3>1 DEF FlowInv, PoolInv
  <2>10. FateInv'
    BY <1>1, <1>3, <2>2, <2>4 DEF FlowInv, FateInv, Untouched, Ended, t
  <2>11. PlaceInv'
    BY <1>1, <2>1, <2>2, <2>3, Numbers DEF FlowInv, PlaceInv
  <2>12. VerdictTruthful' /\ AbandonedOnlyOnTimeout'
    BY <1>1 DEF FlowInv, VerdictTruthful, AbandonedOnlyOnTimeout
  <2>13. QED
    BY <2>6, <2>7, <2>8, <2>9, <2>10, <2>11, <2>12 DEF FlowInv
<1>4. QED
  BY <1>2, <1>3 DEF PopError

LEMMA SendPayloadFlow == TypeOK /\ FlowInv /\ SendPayload => FlowInv'
<1> SUFFICES ASSUME TypeOK, FlowInv, SendPayload PROVE FlowInv'
  OBVIOUS
<1>1. /\ taskCh' = Append(taskCh, held)
      /\ held' = NoTask
      /\ held \in Payloads
      /\ UNCHANGED <<pushed, queue, wpc, wtask, verdict, handler, expired, audit, critical,
                     dropped, missed, lost>>
  BY DEF SendPayload, TypeOK, poolVars, auditVars, fateVars
<1>2. /\ Len(taskCh') = Len(taskCh) + 1
      /\ \A i \in 1..Len(taskCh) : taskCh'[i] = taskCh[i]
      /\ taskCh'[Len(taskCh) + 1] = held
      /\ Len(taskCh) \in Nat
      /\ \A i \in 1..Len(taskCh') : i \in 1..Len(taskCh) \/ i = Len(taskCh) + 1
  <2>1. taskCh \in Seq(Payloads)
    BY DEF TypeOK
  <2>2. QED
    BY <1>1, <2>1, AppendLast, Numbers
<1>3. held # NoTask /\ held \in Nat
  BY <1>1, Numbers
<1>4. Settled' = Settled /\ Ended' = Ended /\ Popped' = Popped
  BY <1>1 DEF Settled, Ended, Popped
<1>5. \A t : Taken(t)' <=> Taken(t)
  BY <1>1 DEF Taken
<1>6. ShapeInv'
  <2>1. \A i \in 1..Len(taskCh') : taskCh'[i] <= Popped'
    BY <1>2, <1>3, <1>4 DEF FlowInv, ShapeInv
  <2>2. \A i, j \in 1..Len(taskCh') : i < j => taskCh'[i] < taskCh'[j]
    BY <1>2, <1>3 DEF FlowInv, ShapeInv
  <2>3. QED
    BY <1>1, <1>4, <2>1, <2>2 DEF FlowInv, ShapeInv
<1>7. UntouchedInv'
  <2>1. \A t : Untouched(t)' <=> Untouched(t)
    BY <1>1, <1>4, <1>5 DEF Untouched
  <2>2. \A i \in 1..Len(taskCh') : Untouched(taskCh'[i])
    BY <1>2, <1>3 DEF FlowInv, UntouchedInv
  <2>3. QED
    BY <1>1, <1>4, <2>1, <2>2 DEF FlowInv, UntouchedInv, Untouched
<1>8. OrderInv'
  <2>1. \A t : Begun(t)' <=> Begun(t)
    BY <1>1, <1>4, <1>5 DEF Begun
  <2>2. QED
    BY <1>1, <1>2, <1>3, <2>1 DEF FlowInv, OrderInv
<1>9. PoolInv' /\ FateInv'
  BY <1>1, <1>4 DEF FlowInv, PoolInv, FateInv
<1>10. PlaceInv'
  BY <1>1, <1>2, <1>4, <1>5 DEF FlowInv, PlaceInv
<1>11. VerdictTruthful' /\ AbandonedOnlyOnTimeout'
  BY <1>1 DEF FlowInv, VerdictTruthful, AbandonedOnlyOnTimeout
<1>12. QED
  BY <1>6, <1>7, <1>8, <1>9, <1>10, <1>11 DEF FlowInv

LEMMA DropPayloadFlow == TypeOK /\ FlowInv /\ DropPayload => FlowInv'
<1> SUFFICES ASSUME TypeOK, FlowInv, DropPayload PROVE FlowInv'
  OBVIOUS
<1>1. /\ dropped' = dropped \cup {held}
      /\ held' = NoTask
      /\ held \in Payloads /\ held # NoTask
      /\ UNCHANGED <<pushed, queue, taskCh, wpc, wtask, verdict, handler, expired, audit,
                     critical, missed, lost>>
  BY DEF DropPayload, TypeOK, poolVars, auditVars
<1>2. Settled' = Settled /\ Ended' = Ended \cup {held} /\ Popped' = Popped
  BY <1>1 DEF Settled, Ended, Popped
<1>3. \A t : Taken(t)' <=> Taken(t)
  BY <1>1 DEF Taken
<1>4. Untouched(held) /\ held <= Popped /\ \A i \in 1..Len(taskCh) : taskCh[i] # held
  BY <1>1, Numbers DEF FlowInv, UntouchedInv, ShapeInv
<1>5. ShapeInv'
  BY <1>1, <1>2 DEF FlowInv, ShapeInv
<1>6. UntouchedInv'
  <2>1. \A t : t # held /\ Untouched(t) => Untouched(t)'
    BY <1>1, <1>2, <1>3 DEF Untouched
  <2>2. Popped \in Nat
    BY PoppedNumber
  <2>3. \A t \in Payloads : t > Popped' => Untouched(t)'
    BY <1>1, <1>2, <1>4, <2>1, <2>2, Numbers DEF FlowInv, UntouchedInv
  <2>4. \A i \in 1..Len(taskCh') : Untouched(taskCh[i])'
    BY <1>1, <1>4, <2>1 DEF FlowInv, UntouchedInv
  <2>5. QED
    BY <1>1, <2>3, <2>4 DEF UntouchedInv
<1>7. OrderInv'
  BY <1>1, <1>2, <1>3 DEF FlowInv, OrderInv, Begun
<1>8. PoolInv'
  <2>1. \A w \in Workers : wtask[w] # held
    BY <1>4 DEF Untouched, Taken
  <2>2. QED
    BY <1>1, <1>2, <2>1 DEF FlowInv, PoolInv
<1>9. FateInv'
  BY <1>1, <1>2, <1>4 DEF FlowInv, FateInv, Untouched, Ended
<1>10. PlaceInv'
  BY <1>1, <1>2, <1>3 DEF FlowInv, PlaceInv
<1>11. VerdictTruthful' /\ AbandonedOnlyOnTimeout'
  BY <1>1 DEF FlowInv, VerdictTruthful, AbandonedOnlyOnTimeout
<1>12. QED
  BY <1>5, <1>6, <1>7, <1>8, <1>9, <1>10, <1>11 DEF FlowInv

LEMMA ReceivePayloadFlow ==
    ASSUME TypeOK, FlowInv, NEW w \in Workers, ReceivePayload(w)
    PROVE  FlowInv'
<1> DEFINE t == Head(taskCh)
<1>1. /\ taskCh' = Tail(taskCh)
      /\ wtask' = [wtask EXCEPT ![w] = t]
      /\ wpc' = [wpc EXCEPT ![w] = "decode"]
      /\ taskCh # <<>>
      /\ wpc[w] = "recv"
      /\ UNCHANGED <<pushed, queue, held, verdict, handler, expired, audit, critical,
                     dropped, missed, lost>>
  BY DEF ReceivePayload, dispatcherVars, auditVars, fateVars
<1>2. /\ t \in Payloads
      /\ t = taskCh[1]
      /\ 1 \in 1..Len(taskCh)
      /\ Len(taskCh) \in Nat
      /\ Len(taskCh') = Len(taskCh) - 1
      /\ \A i \in 1..Len(taskCh') : taskCh'[i] = taskCh[i + 1] /\ i + 1 \in 1..Len(taskCh)
      /\ \A i \in 1..Len(taskCh) : i = 1 \/ i - 1 \in 1..Len(taskCh')
      /\ \A i \in 1..Len(taskCh) : taskCh[i] \in Nat
  <2>1. taskCh \in Seq(Payloads)
    BY DEF TypeOK
  <2>2. t = taskCh[1] /\ t \in Payloads /\ Len(taskCh) > 0
        /\ Len(taskCh') = Len(taskCh) - 1
        /\ \A i \in 1..Len(taskCh') : taskCh'[i] = taskCh[i + 1]
    BY <1>1, <2>1, HeadTail
  <2>3. Len(taskCh) \in Nat /\ \A i \in 1..Len(taskCh) : taskCh[i] \in Nat
    BY Numbers
  <2>4. QED
    BY <2>2, <2>3
<1> HIDE DEF t
<1>3. /\ t # NoTask /\ t \in Nat /\ t <= Popped
      /\ \A i \in 1..Len(taskCh') : t < taskCh'[i]
      /\ held # NoTask => t < held
  BY <1>1, <1>2, Numbers DEF FlowInv, ShapeInv
<1>4. Settled' = Settled /\ Ended' = Ended /\ Popped' = Popped
  BY <1>1 DEF Settled, Ended, Popped
<1>5. wtask[w] = NoTask /\ verdict[w] = "none"
  BY <1>1 DEF TypeOK
<1>6. \A u \in Payloads : Taken(u)' <=> Taken(u) \/ u = t
  <2>1. w \in DOMAIN wtask /\ DOMAIN wtask = Workers
    BY DEF TypeOK
  <2>2. ASSUME NEW u \in Payloads PROVE u # wtask[w]
    BY <1>5, Numbers
  <2>3. QED
    BY <1>1, <2>1, <2>2 DEF Taken
<1>7. Untouched(t)
  BY <1>2 DEF FlowInv, UntouchedInv
<1>8. handler' = handler /\ verdict' = verdict
  BY <1>1
<1>9. \A u \in Payloads : u # t /\ Untouched(u) => Untouched(u)'
  BY <1>4, <1>6, <1>8 DEF Untouched
<1>10. \A i \in 1..Len(taskCh') : taskCh'[i] \in Payloads /\ taskCh'[i] \in Nat
  BY <1>2, Numbers
<1>11. ShapeInv'
  <2>1. \A i \in 1..Len(taskCh') : taskCh'[i] <= Popped'
    BY <1>2, <1>4 DEF FlowInv, ShapeInv
  <2>2. \A i, j \in 1..Len(taskCh') : i < j => taskCh'[i] < taskCh'[j]
    BY <1>2 DEF FlowInv, ShapeInv
  <2>3. held' # NoTask => \A i \in 1..Len(taskCh') : taskCh'[i] < held'
    BY <1>1, <1>2 DEF FlowInv, ShapeInv
  <2>4. QED
    BY <1>1, <1>4, <2>1, <2>2, <2>3 DEF FlowInv, ShapeInv
<1>12. UntouchedInv'
  <2>1. \A u \in Payloads : u > Popped' => Untouched(u)'
    BY <1>3, <1>4, <1>9, PoppedNumber, Numbers DEF FlowInv, UntouchedInv
  <2>2. held' # NoTask => Untouched(held)'
    <3>1. held # NoTask => held # t /\ held \in Payloads /\ Untouched(held)
      BY <1>3, Numbers DEF FlowInv, UntouchedInv, TypeOK
    <3>2. QED
      BY <1>1, <1>9, <3>1 DEF Untouched
  <2>3. ASSUME NEW i \in 1..Len(taskCh') PROVE Untouched(taskCh[i])'
    <3>1. taskCh'[i] # t /\ taskCh'[i] \in Payloads
      BY <1>3, <1>10
    <3>2. Untouched(taskCh'[i])
      BY <1>2 DEF FlowInv, UntouchedInv
    <3>3. QED
      BY <1>9, <3>1, <3>2 DEF Untouched
  <2>4. QED
    BY <2>1, <2>2, <2>3 DEF UntouchedInv
<1>13. OrderInv'
  <2>1. \A u \in Payloads : Begun(u)' => u = t \/ Begun(u)
    BY <1>4, <1>6, <1>8 DEF Begun
  <2>2. ASSUME NEW u \in Payloads, Begun(u)
        PROVE  /\ held # NoTask => u < held
               /\ \A i \in 1..Len(taskCh') : u < taskCh'[i]
    BY <1>2, <2>2 DEF FlowInv, OrderInv
  <2>3. QED
    BY <1>1, <1>3, <2>1, <2>2 DEF OrderInv
<1>14. /\ wtask'[w] = t /\ wpc'[w] = "decode"
       /\ \A v \in Workers : v # w => wtask'[v] = wtask[v] /\ wpc'[v] = wpc[v]
  BY <1>1 DEF TypeOK
<1>15. \A v \in Workers : wtask[v] # t
  BY <1>7 DEF Untouched, Taken
<1>16. PoolInv'
  <2>1. \A v \in Workers : wtask'[v] # NoTask => wtask'[v] \notin Ended'
    BY <1>4, <1>7, <1>14 DEF FlowInv, PoolInv, Untouched
  <2>2. \A u, v \in Workers : u # v /\ wtask'[u] # NoTask => wtask'[u] # wtask'[v]
    BY <1>14, <1>15 DEF FlowInv, PoolInv
  <2>3. \A v \in Workers : wpc'[v] = "decode" => handler'[wtask'[v]] = "none"
    BY <1>7, <1>8, <1>14 DEF FlowInv, PoolInv, Untouched
  <2>4. \A v \in Workers : wpc'[v] = "select" => handler'[wtask'[v]] \in {"running", "ok", "err"}
    BY <1>8, <1>14 DEF FlowInv, PoolInv
  <2>5. \A v \in Workers :
          /\ verdict'[v] = "SUCCESS" => handler'[wtask'[v]] = "ok"
          /\ verdict'[v] = "FAILED" =>
                handler'[wtask'[v]] = IF wtask'[v] \in BadPayloads THEN "none" ELSE "err"
          /\ verdict'[v] = "TIMEOUT" => wtask'[v] \in expired'
    BY <1>1, <1>5, <1>8, <1>14 DEF FlowInv, PoolInv
  <2>6. QED
    BY <1>8, <2>1, <2>2, <2>3, <2>4, <2>5 DEF FlowInv, PoolInv
<1>17. FateInv'
  BY <1>1, <1>4 DEF FlowInv, FateInv
<1>18. PlaceInv'
  <2>1. ASSUME NEW u \in Payloads, NEW i \in 1..Len(taskCh), taskCh[i] = u
        PROVE  Taken(u)' \/ \E j \in 1..Len(taskCh') : taskCh'[j] = u
    <3>1. CASE i = 1
      BY <1>2, <1>6, <2>1, <3>1
    <3>2. CASE i - 1 \in 1..Len(taskCh')
      <4>1. taskCh'[i - 1] = taskCh[(i - 1) + 1] /\ (i - 1) + 1 = i
        BY <1>2, <3>2
      <4>2. QED
        BY <2>1, <3>2, <4>1
    <3>3. QED
      BY <1>2, <3>1, <3>2
  <2>2. ASSUME NEW u \in Payloads, u <= Popped
        PROVE  \/ u = held'
               \/ \E i \in 1..Len(taskCh') : taskCh'[i] = u
               \/ Taken(u)'
               \/ u \in Ended'
    BY <1>1, <1>4, <1>6, <2>1, <2>2 DEF FlowInv, PlaceInv
  <2>3. QED
    BY <1>4, <2>2 DEF PlaceInv, Taken
<1>19. VerdictTruthful'
  BY <1>1 DEF FlowInv, VerdictTruthful
<1>20. AbandonedOnlyOnTimeout'
  BY <1>1, <1>14 DEF FlowInv, AbandonedOnlyOnTimeout
<1>21. QED
  BY <1>11, <1>12, <1>13, <1>16, <1>17, <1>18, <1>19, <1>20 DEF FlowInv

LEMMA ProcessPayloadFlow ==
    ASSUME TypeOK, FlowInv, NEW w \in Workers, processPayload(w)
    PROVE  FlowInv'
<1> DEFINE t == wtask[w]
<1>1. /\ wpc[w] = "decode"
      /\ \/ /\ t \in BadPayloads
            /\ wpc' = [wpc EXCEPT ![w] = "audit"]
            /\ verdict' = [verdict EXCEPT ![w] = "FAILED"]
            /\ UNCHANGED handler
         \/ /\ t \notin BadPayloads
            /\ wpc' = [wpc EXCEPT ![w] = "select"]
            /\ handler' = [handler EXCEPT ![t] = "running"]
            /\ UNCHANGED verdict
      /\ UNCHANGED <<pushed, queue, held, taskCh, wtask, expired, audit, critical, dropped,
                     missed, lost>>
  BY DEF processPayload, dispatcherVars, auditVars, fateVars
<1>2. /\ t \in Payloads /\ t # NoTask /\ t \notin Ended
      /\ handler[t] = "none" /\ verdict[w] = "none"
      /\ Taken(t)
      /\ \A v \in Workers : v # w => wtask[v] # t
  BY <1>1 DEF FlowInv, PoolInv, TypeOK, Taken
<1> HIDE DEF t
<1>3. Settled' = Settled /\ Ended' = Ended /\ Popped' = Popped
  BY <1>1 DEF Settled, Ended, Popped
<1>4. \A u : Taken(u)' <=> Taken(u)
  BY <1>1 DEF Taken
<1>5. \A u \in Payloads : u # t => handler'[u] = handler[u]
  BY <1>1 DEF TypeOK
<1>6. \A u \in Payloads : Untouched(u) => Untouched(u)'
  BY <1>2, <1>3, <1>4, <1>5 DEF Untouched
<1>7. \A u \in Payloads : Begun(u)' => Begun(u)
  BY <1>2, <1>3, <1>4, <1>5 DEF Begun
<1>8. ShapeInv' /\ FateInv' /\ PlaceInv'
  BY <1>1, <1>3, <1>4 DEF FlowInv, ShapeInv, FateInv, PlaceInv
<1>9. UntouchedInv'
  <2>1. held' # NoTask => Untouched(held)'
    <3>1. held # NoTask => held \in Payloads /\ Untouched(held)
      BY DEF FlowInv, UntouchedInv, TypeOK
    <3>2. QED
      BY <1>1, <1>6, <3>1 DEF Untouched
  <2>2. \A i \in 1..Len(taskCh) : taskCh[i] \in Payloads /\ Untouched(taskCh[i])
    BY Numbers DEF FlowInv, UntouchedInv
  <2>3. \A i \in 1..Len(taskCh') : Untouched(taskCh[i])'
    BY <1>1, <1>6, <2>2 DEF Untouched
  <2>4. QED
    BY <1>1, <1>3, <1>6, <2>1, <2>3 DEF FlowInv, UntouchedInv
<1>10. OrderInv'
  BY <1>1, <1>7 DEF FlowInv, OrderInv
<1>11. \A v \in Workers : v # w => verdict'[v] = verdict[v] /\ wpc'[v] = wpc[v]
  BY <1>1 DEF TypeOK
<1>12. \A v \in Workers : v # w /\ (wpc[v] \in {"decode", "select"} \/ verdict[v] # "none") =>
          handler'[wtask[v]] = handler[wtask[v]]
  BY <1>2, <1>5, BusyWorker
<1>13. /\ wpc'[w] \in {"select", "audit"}
       /\ wpc'[w] = "select" => handler'[t] = "running"
       /\ verdict'[w] \in {"none", "FAILED"}
       /\ verdict'[w] = "FAILED" => t \in BadPayloads /\ handler'[t] = "none"
  BY <1>1, <1>2 DEF TypeOK
<1>14. PoolInv'
  <2>1. \A v \in Workers : wpc'[v] = "decode" => handler'[wtask'[v]] = "none"
    BY <1>1, <1>11, <1>12, <1>13 DEF FlowInv, PoolInv
  <2>2. \A v \in Workers : wpc'[v] = "select" => handler'[wtask'[v]] \in {"running", "ok", "err"}
    BY <1>1, <1>11, <1>12, <1>13 DEF FlowInv, PoolInv, t
  <2>3. ASSUME NEW v \in Workers
        PROVE  /\ verdict'[v] = "SUCCESS" => handler'[wtask'[v]] = "ok"
               /\ verdict'[v] = "FAILED" =>
                     handler'[wtask'[v]] = IF wtask'[v] \in BadPayloads THEN "none" ELSE "err"
               /\ verdict'[v] = "TIMEOUT" => wtask'[v] \in expired'
    <3>1. CASE v = w
      BY <1>1, <1>13, <3>1 DEF t
    <3>2. CASE v # w
      BY <1>1, <1>11, <1>12, <3>2 DEF FlowInv, PoolInv
    <3>3. QED
      BY <3>1, <3>2
  <2>4. \A u \in BadPayloads : handler'[u] = "none"
    BY <1>1, <1>5, <1>2, WorkerAssumption DEF FlowInv, PoolInv, Payloads
  <2>5. QED
    BY <1>1, <1>3, <2>1, <2>2, <2>3, <2>4 DEF FlowInv, PoolInv
<1>15. VerdictTruthful'
  <2>1. audit[t] = {}
    BY <1>2 DEF Ended, Settled
  <2>2. ASSUME NEW u \in Payloads
        PROVE  /\ "SUCCESS" \in audit'[u] => handler'[u] = "ok"
               /\ "FAILED" \in audit'[u] =>
                     handler'[u] = IF u \in BadPayloads THEN "none" ELSE "err"
               /\ "TIMEOUT" \in audit'[u] => u \in expired'
               /\ \A e, f \in audit'[u] : e = f
    BY <1>1, <1>5, <2>1 DEF FlowInv, VerdictTruthful
  <2>3. QED
    BY <2>2 DEF VerdictTruthful
<1>16. AbandonedOnlyOnTimeout'
  <2>1. ASSUME NEW u \in Payloads, handler'[u] = "running"
        PROVE  u \in expired' \/ \E v \in Workers : wtask'[v] = u /\ wpc'[v] = "select"
    <3>1. CASE u = t
      BY <1>1, <1>2, <2>1, <3>1 DEF t, TypeOK
    <3>2. CASE u # t
      BY <1>1, <1>5, <1>11, <2>1, <3>2 DEF FlowInv, AbandonedOnlyOnTimeout, t
    <3>3. QED
      BY <3>1, <3>2
  <2>2. QED
    BY <2>1 DEF AbandonedOnlyOnTimeout
<1>17. QED
  BY <1>8, <1>9, <1>10, <1>14, <1>15, <1>16 DEF FlowInv

LEMMA HandlerReturnFlow ==
    ASSUME TypeOK, FlowInv, NEW t \in Payloads, HandlerReturn(t)
    PROVE  FlowInv'
<1>1. /\ handler[t] = "running"
      /\ \E result \in {"ok", "err"} : handler' = [handler EXCEPT ![t] = result]
      /\ UNCHANGED <<pushed, queue, held, taskCh, wpc, wtask, verdict, expired, audit,
                     critical, dropped, missed, lost>>
  BY DEF HandlerReturn, HandlerResult, dispatcherVars, auditVars, fateVars
<1>2. /\ handler'[t] \in {"ok", "err"}
      /\ \A u \in Payloads : u # t => handler'[u] = handler[u]
  BY <1>1 DEF TypeOK
<1>3. Settled' = Settled /\ Ended' = Ended /\ Popped' = Popped
  BY <1>1 DEF Settled, Ended, Popped
<1>4. \A u : Taken(u)' <=> Taken(u)
  BY <1>1 DEF Taken
<1>5. \A u \in Payloads : Untouched(u) => Untouched(u)'
  BY <1>1, <1>2, <1>3, <1>4 DEF Untouched
<1>6. \A u \in Payloads : Begun(u)' => Begun(u)
  BY <1>1, <1>2, <1>3, <1>4 DEF Begun
<1>7. ShapeInv' /\ FateInv' /\ PlaceInv'
  BY <1>1, <1>3, <1>4 DEF FlowInv, ShapeInv, FateInv, PlaceInv
<1>8. UntouchedInv'
  <2>1. held' # NoTask => Untouched(held)'
    <3>1. held # NoTask => held \in Payloads /\ Untouched(held)
      BY DEF FlowInv, UntouchedInv, TypeOK
    <3>2. QED
      BY <1>1, <1>5, <3>1 DEF Untouched
  <2>2. \A i \in 1..Len(taskCh) : taskCh[i] \in Payloads /\ Untouched(taskCh[i])
    BY Numbers DEF FlowInv, UntouchedInv
  <2>3. \A i \in 1..Len(taskCh') : Untouched(taskCh[i])'
    BY <1>1, <1>5, <2>2 DEF Untouched
  <2>4. QED
    BY <1>1, <1>3, <1>5, <2>1, <2>3 DEF FlowInv, UntouchedInv
<1>9. OrderInv'
  BY <1>1, <1>6 DEF FlowInv, OrderInv
<1>10. PoolInv'
  <2>1. ASSUME NEW w \in Workers, wpc[w] \in {"decode", "select"} \/ verdict[w] # "none"
        PROVE  handler'[wtask[w]] = handler[wtask[w]] \/ wtask[w] = t
    BY <1>2, <2>1, BusyWorker
  <2>2. \A w \in Workers : wpc'[w] = "select" => handler'[wtask'[w]] \in {"running", "ok", "err"}
    BY <1>1, <1>2, <2>1 DEF FlowInv, PoolInv
  <2>3. \A w \in Workers :
          /\ verdict'[w] = "SUCCESS" => handler'[wtask'[w]] = "ok"
          /\ verdict'[w] = "FAILED" =>
                handler'[wtask'[w]] = IF wtask'[w] \in BadPayloads THEN "none" ELSE "err"
          /\ verdict'[w] = "TIMEOUT" => wtask'[w] \in expired'
    BY <1>1, <2>1 DEF FlowInv, PoolInv
  <2>4. \A u \in BadPayloads : handler'[u] = "none"
    BY <1>1, <1>2, WorkerAssumption DEF FlowInv, PoolInv, Payloads
  <2>5. \A w \in Workers : wpc'[w] = "decode" => handler'[wtask'[w]] = "none"
    BY <1>1, <2>1 DEF FlowInv, PoolInv
  <2>6. QED
    BY <1>1, <1>3, <2>2, <2>3, <2>4, <2>5 DEF FlowInv, PoolInv
<1>11. VerdictTruthful'
  BY <1>1, <1>2 DEF FlowInv, VerdictTruthful
<1>12. AbandonedOnlyOnTimeout'
  BY <1>1, <1>2 DEF FlowInv, AbandonedOnlyOnTimeout
<1>13. QED
  BY <1>7, <1>8, <1>9, <1>10, <1>11, <1>12 DEF FlowInv

(* The pool goroutine leaves the select, with the handler's result or past  *)
(* the deadline.                                                           *)
LEMMA ConcludeFlow ==
    ASSUME TypeOK, FlowInv, NEW w \in Workers, NEW outcome \in Outcome,
           wpc[w] = "select", Conclude(w, outcome),
           outcome = "SUCCESS" => handler[wtask[w]] = "ok",
           outcome = "FAILED" => handler[wtask[w]] = "err",
           outcome = "TIMEOUT" => wtask[w] \in expired
    PROVE  FlowInv'
<1>1. /\ wpc' = [wpc EXCEPT ![w] = "audit"]
      /\ verdict' = [verdict EXCEPT ![w] = outcome]
      /\ UNCHANGED <<pushed, queue, held, taskCh, wtask, handler, expired, audit, critical,
                     dropped, missed, lost>>
  BY DEF Conclude, dispatcherVars, auditVars, fateVars
<1>2. Settled' = Settled /\ Ended' = Ended /\ Popped' = Popped
  BY <1>1 DEF Settled, Ended, Popped
<1>3. \A t : Taken(t)' <=> Taken(t)
  BY <1>1 DEF Taken
<1>4. ShapeInv' /\ UntouchedInv' /\ OrderInv' /\ FateInv' /\ PlaceInv' /\ VerdictTruthful'
  <2>1. ShapeInv' /\ FateInv' /\ PlaceInv' /\ VerdictTruthful'
    BY <1>1, <1>2, <1>3 DEF FlowInv, ShapeInv, FateInv, PlaceInv, VerdictTruthful
  <2>2. UntouchedInv' /\ OrderInv'
    BY <1>1, <1>2, <1>3 DEF FlowInv, UntouchedInv, Untouched, OrderInv, Begun
  <2>3. QED
    BY <2>1, <2>2
<1>5. /\ verdict'[w] = outcome /\ wpc'[w] = "audit"
      /\ \A v \in Workers : v # w => verdict'[v] = verdict[v] /\ wpc'[v] = wpc[v]
  BY <1>1 DEF TypeOK
<1>6. PoolInv'
  <2>1. wtask[w] \notin BadPayloads
    BY DEF FlowInv, PoolInv
  <2>2. \A v \in Workers : wpc'[v] = "select" => handler'[wtask'[v]] \in {"running", "ok", "err"}
    BY <1>1, <1>5 DEF FlowInv, PoolInv
  <2>3. \A v \in Workers :
          /\ verdict'[v] = "SUCCESS" => handler'[wtask'[v]] = "ok"
          /\ verdict'[v] = "FAILED" =>
                handler'[wtask'[v]] = IF wtask'[v] \in BadPayloads THEN "none" ELSE "err"
          /\ verdict'[v] = "TIMEOUT" => wtask'[v] \in expired'
    BY <1>1, <1>5, <2>1 DEF FlowInv, PoolInv
  <2>4. \A v \in Workers : wpc'[v] = "decode" => handler'[wtask'[v]] = "none"
    BY <1>1, <1>5 DEF FlowInv, PoolInv
  <2>5. QED
    BY <1>1, <1>2, <2>2, <2>3, <2>4 DEF FlowInv, PoolInv
<1>7. AbandonedOnlyOnTimeout'
  <2>1. ASSUME NEW t \in Payloads, handler[t] = "running"
        PROVE  t \in expired \/ \E v \in Workers : wtask[v] = t /\ wpc'[v] = "select"
    <3>1. CASE t = wtask[w]
      BY <2>1, <3>1 DEF Outcome
    <3>2. CASE t # wtask[w]
      BY <1>5, <2>1, <3>2 DEF FlowInv, AbandonedOnlyOnTimeout
    <3>3. QED
      BY <3>1, <3>2
  <2>2. QED
    BY <1>1, <2>1 DEF AbandonedOnlyOnTimeout
<1>8. QED
  BY <1>4, <1>6, <1>7 DEF FlowInv

LEMMA LogAuditFlow ==
    ASSUME TypeOK, FlowInv, NEW w \in Workers, LogAudit(w)
    PROVE  FlowInv'
<1> DEFINE t == wtask[w]
           o == verdict[w]
<1>1. /\ wpc[w] = "audit"
      /\ \/ audit' = [audit EXCEPT ![t] = @ \cup {o}] /\ UNCHANGED critical
         \/ audit' = [audit EXCEPT ![t] = @ \cup {o}] /\ critical' = critical \cup {t}
         \/ audit' = audit /\ critical' = critical \cup {t}
      /\ wpc' = [wpc EXCEPT ![w] = "recv"]
      /\ wtask' = [wtask EXCEPT ![w] = NoTask]
      /\ verdict' = [verdict EXCEPT ![w] = "none"]
      /\ UNCHANGED <<pushed, queue, held, taskCh, handler, expired, dropped, missed, lost>>
  BY DEF LogAudit, dispatcherVars, fateVars
<1>2. /\ t \in Payloads /\ t # NoTask /\ o \in Outcome
      /\ t \notin Ended
      /\ o = "SUCCESS" => handler[t] = "ok"
      /\ o = "FAILED" => handler[t] = IF t \in BadPayloads THEN "none" ELSE "err"
      /\ o = "TIMEOUT" => t \in expired
      /\ \A v \in Workers : v # w => wtask[v] # t
  <2>1. t \in Payloads /\ t # NoTask /\ o \in Outcome
    BY <1>1 DEF TypeOK
  <2>2. QED
    BY <2>1 DEF FlowInv, PoolInv
<1>3. /\ wtask'[w] = NoTask /\ wpc'[w] = "recv" /\ verdict'[w] = "none"
      /\ \A v \in Workers : v # w => /\ wtask'[v] = wtask[v]
                                     /\ wpc'[v] = wpc[v]
                                     /\ verdict'[v] = verdict[v]
  BY <1>1 DEF TypeOK
<1>4. Taken(t)
  BY DEF Taken
<1>5. \A u \in Payloads : Taken(u)' <=> Taken(u) /\ u # t
  BY <1>2, <1>3, Numbers DEF Taken
<1> HIDE DEF t, o
<1>6. audit[t] = {} /\ t \notin critical
  BY <1>2 DEF Ended, Settled
<1>7. /\ audit'[t] = {o} \/ (audit'[t] = {} /\ t \in critical')
      /\ \A u \in Payloads : u # t => /\ audit'[u] = audit[u]
                                      /\ u \in critical' <=> u \in critical
  BY <1>1, <1>2, <1>6 DEF TypeOK
<1>8. Settled' = Settled \cup {t} /\ Ended' = Ended \cup {t} /\ Popped' = Popped
  <2>1. Settled' = Settled \cup {t}
    BY <1>2, <1>7 DEF Settled
  <2>2. QED
    BY <1>1, <2>1 DEF Ended, Popped
<1>9. \A u \in Payloads : u # t /\ Untouched(u) => Untouched(u)'
  BY <1>1, <1>5, <1>8 DEF Untouched
<1>10. ~Untouched(t)
  BY <1>4 DEF Untouched
<1>11. ShapeInv'
  BY <1>1, <1>8 DEF FlowInv, ShapeInv
<1>12. UntouchedInv'
  <2>1. \A u \in Payloads : u > Popped' => Untouched(u)'
    BY <1>8, <1>9, <1>10 DEF FlowInv, UntouchedInv
  <2>2. held' # NoTask => Untouched(held)'
    <3>1. held # NoTask => held \in Payloads /\ Untouched(held) /\ held # t
      BY <1>10 DEF FlowInv, UntouchedInv, TypeOK
    <3>2. QED
      BY <1>1, <1>9, <3>1 DEF Untouched
  <2>3. \A i \in 1..Len(taskCh') : Untouched(taskCh[i])'
    <3>1. \A i \in 1..Len(taskCh) :
             taskCh[i] \in Payloads /\ Untouched(taskCh[i]) /\ taskCh[i] # t
      BY <1>10, Numbers DEF FlowInv, UntouchedInv
    <3>2. QED
      BY <1>1, <1>9, <3>1 DEF Untouched
  <2>4. QED
    BY <2>1, <2>2, <2>3 DEF UntouchedInv
<1>13. OrderInv'
  <2>1. \A u \in Payloads : Begun(u)' => Begun(u)
    BY <1>1, <1>4, <1>5, <1>8 DEF Begun
  <2>2. QED
    BY <1>1, <2>1 DEF FlowInv, OrderInv
<1>14. PoolInv'
  <2>1. \A v \in Workers : wtask'[v] # NoTask => wtask'[v] \notin Ended'
    BY <1>2, <1>3, <1>8 DEF FlowInv, PoolInv, t
  <2>2. \A u, v \in Workers : u # v /\ wtask'[u] # NoTask => wtask'[u] # wtask'[v]
    BY <1>3 DEF FlowInv, PoolInv
  <2>3. \A v \in Workers : wpc'[v] = "select" => handler'[wtask'[v]] \in {"running", "ok", "err"}
    BY <1>1, <1>3 DEF FlowInv, PoolInv
  <2>4. \A v \in Workers :
          /\ verdict'[v] = "SUCCESS" => handler'[wtask'[v]] = "ok"
          /\ verdict'[v] = "FAILED" =>
                handler'[wtask'[v]] = IF wtask'[v] \in BadPayloads THEN "none" ELSE "err"
          /\ verdict'[v] = "TIMEOUT" => wtask'[v] \in expired'
    BY <1>1, <1>3 DEF FlowInv, PoolInv
  <2>5. \A v \in Workers : wpc'[v] = "decode" => handler'[wtask'[v]] = "none"
    BY <1>1, <1>3 DEF FlowInv, PoolInv
  <2>6. QED
    BY <1>1, <2>1, <2>2, <2>3, <2>4, <2>5 DEF FlowInv, PoolInv
<1>15. FateInv'
  BY <1>1, <1>2, <1>8 DEF FlowInv, FateInv, Ended
<1>16. PlaceInv'
  BY <1>1, <1>5, <1>8 DEF FlowInv, PlaceInv
<1>17. VerdictTruthful'
  <2>1. ASSUME NEW u \in Payloads
        PROVE  /\ "SUCCESS" \in audit'[u] => handler'[u] = "ok"
               /\ "FAILED" \in audit'[u] =>
                     handler'[u] = IF u \in BadPayloads THEN "none" ELSE "err"
               /\ "TIMEOUT" \in audit'[u] => u \in expired'
               /\ \A e, f \in audit'[u] : e = f
    <3>1. CASE u = t
      BY <1>1, <1>2, <1>7, <3>1
    <3>2. CASE u # t
      BY <1>1, <1>7, <3>2 DEF FlowInv, VerdictTruthful
    <3>3. QED
      BY <3>1, <3>2
  <2>2. QED
    BY <2>1 DEF VerdictTruthful
<1>18. AbandonedOnlyOnTimeout'
  BY <1>1, <1>3 DEF FlowInv, AbandonedOnlyOnTimeout
<1>19. QED
  BY <1>11, <1>12, <1>13, <1>14, <1>15, <1>16, <1>17, <1>18 DEF FlowInv

LEMMA RestartFlow == TypeOK /\ FlowInv /\ Restart => FlowInv'
<1> SUFFICES ASSUME TypeOK, FlowInv, Restart PROVE FlowInv'
  OBVIOUS
<1>1. /\ lost' = lost \cup InProcess
      /\ handler' = [t \in Payloads |-> IF handler[t] = "running" THEN "dead" ELSE handler[t]]
      /\ held' = NoTask /\ taskCh' = <<>> /\ Len(taskCh') = 0
      /\ wpc' = [w \in Workers |-> "recv"]
      /\ wtask' = [w \in Workers |-> NoTask]
      /\ verdict' = [w \in Workers |-> "none"]
      /\ UNCHANGED <<pushed, queue, expired, audit, critical, dropped, missed>>
  BY DEF Restart, NewProcess, auditVars
<1>2. Settled' = Settled /\ Ended' = Ended \cup InProcess /\ Popped' = Popped
  BY <1>1 DEF Settled, Ended, Popped
<1>3. \A t \in Payloads : ~Taken(t)'
  BY <1>1, Numbers DEF Taken
<1>4. \A t \in Payloads : t \in InProcess <=>
          \/ t = held
          \/ \E i \in 1..Len(taskCh) : taskCh[i] = t
          \/ Taken(t)
  <2>1. DOMAIN taskCh = 1..Len(taskCh)
    BY DEF TypeOK
  <2>2. \A t : t \in SeqSet(taskCh) <=> \E i \in 1..Len(taskCh) : taskCh[i] = t
    BY <2>1 DEF SeqSet
  <2>3. QED
    BY <2>2, Numbers DEF InProcess, Taken
<1>5. InProcess \cap Ended = {} /\ InProcess \subseteq Payloads
  <2>1. InProcess \subseteq Payloads
    BY InProcessType
  <2>2. ASSUME NEW t \in Payloads, t \in InProcess PROVE t \notin Ended
    BY <1>4, <2>2, Numbers DEF FlowInv, UntouchedInv, Untouched, PoolInv, Taken
  <2>3. QED
    BY <2>1, <2>2
<1>6. ShapeInv'
  BY <1>1, <1>2 DEF FlowInv, ShapeInv
<1>7. UntouchedInv'
  <2>1. ASSUME NEW t \in Payloads, t > Popped PROVE t \notin InProcess /\ Untouched(t)
    <3>1. t # held
      BY <2>1, PoppedNumber, Numbers DEF FlowInv, ShapeInv
    <3>2. \A i \in 1..Len(taskCh) : taskCh[i] # t
      BY <2>1, PoppedNumber, Numbers DEF FlowInv, ShapeInv
    <3>3. Untouched(t)
      BY <2>1 DEF FlowInv, UntouchedInv
    <3>4. QED
      BY <1>4, <3>1, <3>2, <3>3 DEF Untouched
  <2>2. \A t \in Payloads : t > Popped' => Untouched(t)'
    BY <1>1, <1>2, <1>3, <2>1 DEF Untouched
  <2>3. QED
    BY <1>1, <2>2 DEF UntouchedInv
<1>8. OrderInv'
  BY <1>1 DEF OrderInv
<1>9. PoolInv'
  <2>1. \A t \in BadPayloads : handler'[t] = "none"
    BY <1>1, WorkerAssumption DEF FlowInv, PoolInv, Payloads
  <2>2. QED
    BY <1>1, <2>1 DEF PoolInv
<1>10. FateInv'
  BY <1>1, <1>2, <1>5 DEF FlowInv, FateInv, Ended
<1>11. PlaceInv'
  BY <1>2, <1>4 DEF FlowInv, PlaceInv
<1>12. VerdictTruthful'
  BY <1>1 DEF FlowInv, VerdictTruthful, TypeOK
<1>13. AbandonedOnlyOnTimeout'
  BY <1>1 DEF AbandonedOnlyOnTimeout
<1>14. QED
  BY <1>6, <1>7, <1>8, <1>9, <1>10, <1>11, <1>12, <1>13 DEF FlowInv

LEMMA NextFlow == TypeOK /\ FlowInv /\ [Next]_vars => FlowInv'
<1> SUFFICES ASSUME TypeOK, FlowInv, [Next]_vars PROVE FlowInv'
  OBVIOUS
<1> USE DEF flowVars, dispatcherVars, poolVars, auditVars, fateVars
<1>1. CASE Produce
  BY <1>1, ProduceFlow
<1>2. CASE Cancel
  BY <1>2, QuietFlow DEF Cancel
<1>3. CASE CheckContext
  BY <1>3, QuietFlow DEF CheckContext
<1>4. CASE PopPayload
  BY <1>4, PopPayloadFlow
<1>5. CASE PopNothing
  BY <1>5, QuietFlow DEF PopNothing
<1>6. CASE PopError
  BY <1>6, PopErrorFlow
<1>7. CASE SendPayload
  BY <1>7, SendPayloadFlow
<1>8. CASE DropPayload
  BY <1>8, DropPayloadFlow
<1>9. CASE CloseChannel
  BY <1>9, QuietFlow DEF CloseChannel
<1>10. CASE Return
  BY <1>10, QuietFlow DEF Return
<1>11. ASSUME NEW w \in Workers, ReceivePayload(w) PROVE FlowInv'
  BY <1>11, ReceivePayloadFlow
<1>12. ASSUME NEW w \in Workers, WorkerExit(w) PROVE FlowInv'
  <2>1. wpc[w] = "recv" /\ wpc' = [wpc EXCEPT ![w] = "exited"]
    BY <1>12 DEF WorkerExit
  <2>2. \A v \in Workers : wpc'[v] = "select" <=> wpc[v] = "select"
    BY <2>1 DEF TypeOK
  <2>3. \A v \in Workers : wpc'[v] = "decode" => wpc[v] = "decode"
    BY <2>1 DEF TypeOK
  <2>4. QED
    BY <1>12, <2>2, <2>3, QuietFlow DEF WorkerExit
<1>13. ASSUME NEW w \in Workers, TakeResult(w) PROVE FlowInv'
  <2>1. CASE handler[wtask[w]] = "ok" /\ Conclude(w, "SUCCESS")
    BY <1>13, <2>1, ConcludeFlow DEF TakeResult, Outcome
  <2>2. CASE handler[wtask[w]] = "err" /\ Conclude(w, "FAILED")
    BY <1>13, <2>2, ConcludeFlow DEF TakeResult, Outcome
  <2>3. QED
    BY <1>13, <2>1, <2>2 DEF TakeResult
<1>14. ASSUME NEW w \in Workers, TakeTimeout(w) PROVE FlowInv'
  BY <1>14, ConcludeFlow DEF TakeTimeout, Outcome
<1>15. ASSUME NEW w \in Workers, LogAudit(w) PROVE FlowInv'
  BY <1>15, LogAuditFlow
<1>16. ASSUME NEW w \in Workers, Deadline(w) PROVE FlowInv'
  BY <1>16, QuietFlow DEF Deadline
<1>17. ASSUME NEW t \in Payloads, HandlerReturn(t) PROVE FlowInv'
  BY <1>17, HandlerReturnFlow
<1>18. CASE Restart
  BY <1>18, RestartFlow
<1>19. CASE UNCHANGED vars
  BY <1>19, QuietFlow DEF vars
<1>20. ASSUME NEW w \in Workers, processPayload(w) PROVE FlowInv'
  BY <1>20, ProcessPayloadFlow
<1>21. QED
  BY <1>1, <1>2, <1>3, <1>4, <1>5, <1>6, <1>7, <1>8, <1>9, <1>10, <1>11, <1>12, <1>13,
     <1>14, <1>15, <1>16, <1>17, <1>18, <1>19, <1>20 DEF Next, Dispatch, Work, Terminated

LEMMA NextClose == TypeOK /\ CloseInv /\ [Next]_vars => CloseInv'
<1> SUFFICES ASSUME TypeOK, CloseInv, [Next]_vars PROVE CloseInv'
  OBVIOUS
<1> USE DEF CloseInv, Closed, dispatcherVars, poolVars, auditVars, fateVars
<1>1. CASE Produce \/ Cancel \/ Terminated \/ UNCHANGED vars
  BY <1>1 DEF Produce, Cancel, Terminated, vars
<1>2. CASE CheckContext \/ PopPayload \/ PopNothing \/ PopError
  BY <1>2 DEF CheckContext, PopPayload, PopNothing, PopError
<1>3. CASE SendPayload \/ DropPayload \/ CloseChannel \/ Return
  BY <1>3 DEF SendPayload, DropPayload, CloseChannel, Return
<1>4. ASSUME NEW w \in Workers, ReceivePayload(w) PROVE CloseInv'
  <2>1. /\ taskCh # <<>> /\ wpc[w] = "recv" /\ dpc' = dpc
        /\ wpc' = [wpc EXCEPT ![w] = "decode"]
    BY <1>4 DEF ReceivePayload
  <2>2. QED
    BY <2>1 DEF TypeOK
<1>5. ASSUME NEW w \in Workers, WorkerExit(w) PROVE CloseInv'
  BY <1>5 DEF WorkerExit, TypeOK
<1>6. ASSUME NEW w \in Workers, TakeResult(w) \/ TakeTimeout(w) PROVE CloseInv'
  BY <1>6 DEF TakeResult, TakeTimeout, Conclude, TypeOK
<1>7. ASSUME NEW w \in Workers, LogAudit(w) PROVE CloseInv'
  <2>1. /\ wpc[w] = "audit" /\ UNCHANGED <<dpc, taskCh>>
        /\ wpc' = [wpc EXCEPT ![w] = "recv"]
    BY <1>7 DEF LogAudit
  <2>2. QED
    BY <2>1 DEF TypeOK
<1>8. ASSUME NEW w \in Workers, Deadline(w) PROVE CloseInv'
  BY <1>8 DEF Deadline
<1>9. ASSUME NEW t \in Payloads, HandlerReturn(t) PROVE CloseInv'
  BY <1>9 DEF HandlerReturn
<1>10. CASE Restart
  BY <1>10 DEF Restart, NewProcess
<1>11. ASSUME NEW w \in Workers, processPayload(w) PROVE CloseInv'
  BY <1>11 DEF processPayload, TypeOK
<1>12. QED
  BY <1>1, <1>2, <1>3, <1>4, <1>5, <1>6, <1>7, <1>8, <1>9, <1>10, <1>11 DEF Next, Dispatch, Work

(* The inductive invariant holds in every state. *)
THEOREM WorkerInvariant == Spec => []WorkerInv
<1>1. Init => WorkerInv
  BY InitType, InitFlow DEF WorkerInv
<1>2. WorkerInv /\ [Next]_vars => WorkerInv'
  BY NextType, NextFlow, NextClose DEF WorkerInv
<1>3. QED
  BY <1>1, <1>2, PTL DEF Spec

(* For every pool, buffer and workload the audit row tells what happened to *)
(* the handler: SUCCESS, FAILED and TIMEOUT are never confused, and no      *)
(* payload gets two different rows (worker.go:247-259).                    *)
THEOREM AuditIsTruthful == Spec => []VerdictTruthful
<1>1. WorkerInv => VerdictTruthful
  BY DEF WorkerInv, FlowInv
<1>2. QED
  BY <1>1, WorkerInvariant, PTL

(* A handler that still runs is watched by a pool goroutine or is past its  *)
(* deadline (worker.go:229-231).                                           *)
THEOREM HandlersAreWatched == Spec => []AbandonedOnlyOnTimeout
<1>1. WorkerInv => AbandonedOnlyOnTimeout
  BY DEF WorkerInv, FlowInv
<1>2. QED
  BY <1>1, WorkerInvariant, PTL

---------------------------------------------------------------------------
(* Where the list and the channel are in the order of the pushes. *)
LEMMA QueueElements ==
    ASSUME WorkerInv, NEW t \in Payloads
    PROVE  /\ t \in SeqSet(queue) => t > Popped
           /\ t > Popped /\ t <= pushed => t \in SeqSet(queue)
           /\ t \in SeqSet(taskCh) <=> \E i \in 1..Len(taskCh) : taskCh[i] = t
<1> USE DEF WorkerInv
<1>1. /\ DOMAIN queue = 1..Len(queue)
      /\ DOMAIN taskCh = 1..Len(taskCh)
      /\ Len(queue) \in Nat /\ pushed \in Nat /\ t \in Nat
      /\ Popped \in Nat
      /\ Popped + Len(queue) = pushed
      /\ \A i \in 1..Len(queue) : queue[i] = Popped + i
  <2>1. DOMAIN queue = 1..Len(queue) /\ DOMAIN taskCh = 1..Len(taskCh)
    BY DEF TypeOK
  <2>2. Popped + Len(queue) = pushed
    BY Numbers, PoppedNumber DEF Popped
  <2>3. QED
    BY <2>1, <2>2, Numbers, PoppedNumber DEF FlowInv, ShapeInv
<1>2. t \in SeqSet(queue) => t > Popped
  BY <1>1 DEF SeqSet
<1>3. ASSUME t > Popped, t <= pushed PROVE t \in SeqSet(queue)
  <2>1. t - Popped \in 1..Len(queue)
    BY <1>1, <1>3
  <2>2. queue[t - Popped] = t
    BY <1>1, <1>3, <2>1
  <2>3. QED
    BY <1>1, <2>1, <2>2 DEF SeqSet
<1>4. t \in SeqSet(taskCh) <=> \E i \in 1..Len(taskCh) : taskCh[i] = t
  BY <1>1 DEF SeqSet
<1>5. QED
  BY <1>2, <1>3, <1>4

LEMMA ConservationHolds == WorkerInv => Conservation
<1> SUFFICES ASSUME WorkerInv PROVE Conservation
  OBVIOUS
<1>1. TypeOK /\ FlowInv
  BY DEF WorkerInv
<1> DEFINE W1 == SeqSet(queue)
           W2 == {held} \ {NoTask}
           W3 == SeqSet(taskCh)
           W4 == Working
<1>2. W1 \subseteq Payloads /\ W2 \subseteq Payloads /\ W3 \subseteq Payloads
      /\ W4 \subseteq Payloads /\ Ended \subseteq Payloads
  BY <1>1, SeqSetType DEF TypeOK, Working, Ended, Settled
<1>3. \A t \in Payloads : t \in W4 <=> Taken(t)
  BY Numbers, <1>1 DEF Working, Taken
<1>4. \A t \in Payloads :
         /\ t \in W1 => t > Popped /\ Untouched(t)
         /\ t \in W2 => t <= Popped /\ t = held /\ held # NoTask /\ Untouched(t)
         /\ t \in W3 => t <= Popped /\ Untouched(t)
                        /\ \E i \in 1..Len(taskCh) : taskCh[i] = t
         /\ t \in W4 => t \notin Ended
  <2>1. \A t \in Payloads : t \in W1 => t > Popped /\ Untouched(t)
    BY <1>1, QueueElements DEF FlowInv, UntouchedInv
  <2>2. \A t \in Payloads : t \in W2 => t <= Popped /\ t = held /\ held # NoTask /\ Untouched(t)
    BY <1>1 DEF FlowInv, UntouchedInv, ShapeInv
  <2>3. \A t \in Payloads : t \in W3 => t <= Popped /\ Untouched(t)
                        /\ \E i \in 1..Len(taskCh) : taskCh[i] = t
    BY <1>1, QueueElements DEF FlowInv, UntouchedInv, ShapeInv
  <2>4. \A t \in Payloads : t \in W4 => t \notin Ended
    BY <1>1 DEF FlowInv, PoolInv, Working
  <2>5. QED
    BY <2>1, <2>2, <2>3, <2>4
<1>5. \A t \in 1..pushed : t \in W1 \cup W2 \cup W3 \cup W4 \cup Ended
  <2> TAKE t \in 1..pushed
  <2>1. t \in Payloads /\ t \in Nat
    BY <1>1, WorkerAssumption DEF TypeOK, Payloads
  <2>2. CASE t > Popped
    BY <2>1, <2>2, <1>1, QueueElements, Numbers
  <2>3. CASE t <= Popped
    <3>1. t = held \/ (\E i \in 1..Len(taskCh) : taskCh[i] = t) \/ Taken(t) \/ t \in Ended
      BY <1>1, <2>1, <2>3 DEF FlowInv, PlaceInv
    <3>2. t # NoTask
      BY <2>1, PayloadsAreNumbers
    <3>3. QED
      BY <1>3, <2>1, <3>1, <3>2, QueueElements
  <2>4. QED
    BY <1>1, <2>1, <2>2, <2>3, PoppedNumber
<1>6. /\ W1 \cap W2 = {} /\ W1 \cap W3 = {} /\ W1 \cap W4 = {} /\ W1 \cap Ended = {}
      /\ W2 \cap W3 = {} /\ W2 \cap W4 = {} /\ W2 \cap Ended = {}
      /\ W3 \cap W4 = {} /\ W3 \cap Ended = {}
      /\ W4 \cap Ended = {}
  <2>1. Popped \in Nat /\ \A t \in Payloads : t \in Nat
    BY <1>1, PoppedNumber, Numbers
  <2>2. W1 \cap W2 = {} /\ W1 \cap W3 = {}
    BY <1>2, <1>4, <2>1
  <2>3. W1 \cap W4 = {} /\ W2 \cap W4 = {} /\ W3 \cap W4 = {}
    BY <1>2, <1>3, <1>4 DEF Untouched
  <2>4. W1 \cap Ended = {} /\ W2 \cap Ended = {} /\ W3 \cap Ended = {} /\ W4 \cap Ended = {}
    BY <1>2, <1>4 DEF Untouched
  <2>5. W2 \cap W3 = {}
    <3>1. ASSUME NEW t \in W2, t \in W3 PROVE FALSE
      <4>1. t \in Payloads /\ t = held /\ held # NoTask
        BY <1>2, <1>4, <3>1
      <4>2. PICK i \in 1..Len(taskCh) : taskCh[i] = t
        BY <1>4, <3>1, <4>1
      <4>3. taskCh[i] < held
        BY <1>1, <4>1 DEF FlowInv, ShapeInv
      <4>4. QED
        BY <2>1, <4>1, <4>2, <4>3
    <3>2. QED
      BY <3>1
  <2>6. QED
    BY <2>2, <2>3, <2>4, <2>5
<1>7. FateInv
  BY <1>1 DEF FlowInv
<1> HIDE DEF W1, W2, W3, W4
<1>8. Whereabouts = <<W1, W2, W3, W4, Settled, dropped, missed, lost>>
  BY DEF Whereabouts, W1, W2, W3, W4
<1>9. /\ DOMAIN Whereabouts = 1..8
      /\ Whereabouts[1] = W1 /\ Whereabouts[2] = W2 /\ Whereabouts[3] = W3
      /\ Whereabouts[4] = W4 /\ Whereabouts[5] = Settled /\ Whereabouts[6] = dropped
      /\ Whereabouts[7] = missed /\ Whereabouts[8] = lost
  BY <1>8
<1>10. \A t \in 1..pushed : \E i \in DOMAIN Whereabouts : t \in Whereabouts[i]
  BY <1>5, <1>9 DEF Ended
<1>11. \A i, j \in DOMAIN Whereabouts : i < j => Whereabouts[i] \cap Whereabouts[j] = {}
  <2> SUFFICES ASSUME NEW i \in 1..8, NEW j \in 1..8, i < j
               PROVE  Whereabouts[i] \cap Whereabouts[j] = {}
    BY <1>9
  <2>1. CASE i = 1
    BY <1>6, <1>9, <2>1 DEF Ended
  <2>2. CASE i = 2
    BY <1>6, <1>9, <2>2 DEF Ended
  <2>3. CASE i = 3
    BY <1>6, <1>9, <2>3 DEF Ended
  <2>4. CASE i = 4
    BY <1>6, <1>9, <2>4 DEF Ended
  <2>5. CASE i > 4
    BY <1>7, <1>9, <2>5 DEF FateInv
  <2>6. QED
    BY <2>1, <2>2, <2>3, <2>4, <2>5
<1>12. \A i, j \in DOMAIN Whereabouts : i # j => Whereabouts[i] \cap Whereabouts[j] = {}
  <2> SUFFICES ASSUME NEW i \in 1..8, NEW j \in 1..8, i # j
               PROVE  Whereabouts[i] \cap Whereabouts[j] = {}
    BY <1>9
  <2>1. i < j \/ j < i
    OBVIOUS
  <2>2. QED
    BY <1>9, <1>11, <2>1
<1>13. \A v, w \in Workers : v # w /\ wtask[v] # NoTask => wtask[v] # wtask[w]
  BY <1>1 DEF FlowInv, PoolInv
<1>14. QED
  BY <1>10, <1>12, <1>13 DEF Conservation

(* For every pool, buffer and workload no payload is lost track of and none *)
(* is in two places (worker.go:165-225).                                   *)
THEOREM PayloadsAreConserved == Spec => []Conservation
BY ConservationHolds, WorkerInvariant, PTL

LEMMA ConcatElements ==
    ASSUME NEW S, NEW s \in Seq(S), NEW r \in Seq(S)
    PROVE  /\ s \o r \in Seq(S)
           /\ Len(s \o r) = Len(s) + Len(r)
           /\ DOMAIN (s \o r) = 1..(Len(s) + Len(r))
           /\ \A i \in 1..(Len(s) + Len(r)) :
                 (s \o r)[i] = IF i <= Len(s) THEN s[i] ELSE r[i - Len(s)]
OBVIOUS

(* What the list, the dispatcher and the channel hold, in one sequence.     *)
LEMMA BacklogElements ==
    ASSUME TypeOK
    PROVE  \A i \in DOMAIN Backlog :
              \/ i \in 1..Len(taskCh) /\ Backlog[i] = taskCh[i]
              \/ i = Len(taskCh) + 1 /\ held # NoTask /\ Backlog[i] = held
              \/ \E k \in 1..Len(queue) :
                    /\ Backlog[i] = queue[k]
                    /\ i = Len(taskCh) + (IF held = NoTask THEN 0 ELSE 1) + k
<1> DEFINE H == IF held = NoTask THEN <<>> ELSE <<held>>
           P == taskCh \o H
           h == IF held = NoTask THEN 0 ELSE 1
<1>1. taskCh \in Seq(Payloads) /\ queue \in Seq(Payloads)
  BY DEF TypeOK
<1>2. /\ H \in Seq(Payloads) /\ Len(H) = h
      /\ held # NoTask => H[1] = held
  <2>1. CASE held = NoTask
    BY <2>1
  <2>2. CASE held # NoTask
    <3>1. held \in Payloads
      BY <2>2 DEF TypeOK
    <3>2. QED
      BY <2>2, <3>1
  <2>3. QED
    BY <2>1, <2>2
<1>3. Len(taskCh) \in Nat /\ Len(queue) \in Nat /\ h \in {0, 1}
  BY <1>1
<1>4. Backlog = P \o queue
  BY DEF Backlog
<1> HIDE DEF H
<1>5. /\ P \in Seq(Payloads)
      /\ Len(P) = Len(taskCh) + h
      /\ \A i \in 1..(Len(taskCh) + h) :
            P[i] = IF i <= Len(taskCh) THEN taskCh[i] ELSE H[i - Len(taskCh)]
  BY <1>1, <1>2, ConcatElements
<1> HIDE DEF P, h
<1>6. /\ DOMAIN Backlog = 1..(Len(taskCh) + h + Len(queue))
      /\ \A i \in 1..(Len(taskCh) + h + Len(queue)) :
            Backlog[i] = IF i <= Len(taskCh) + h THEN P[i] ELSE queue[i - (Len(taskCh) + h)]
  <2>1. /\ DOMAIN (P \o queue) = 1..(Len(P) + Len(queue))
        /\ \A i \in 1..(Len(P) + Len(queue)) :
              (P \o queue)[i] = IF i <= Len(P) THEN P[i] ELSE queue[i - Len(P)]
    BY <1>1, <1>5, ConcatElements
  <2>2. QED
    BY <1>4, <1>5, <2>1
<1>7. ASSUME NEW i \in DOMAIN Backlog, ~(i <= Len(taskCh) + h)
      PROVE  \E k \in 1..Len(queue) : Backlog[i] = queue[k] /\ i = Len(taskCh) + h + k
  <2> DEFINE k == i - (Len(taskCh) + h)
  <2>1. k \in 1..Len(queue) /\ i = Len(taskCh) + h + k
    BY <1>3, <1>6, <1>7
  <2>2. Backlog[i] = queue[k]
    BY <1>6, <1>7
  <2>3. QED
    BY <2>1, <2>2
<1>8. ASSUME NEW i \in DOMAIN Backlog, i <= Len(taskCh)
      PROVE  i \in 1..Len(taskCh) /\ Backlog[i] = taskCh[i]
  BY <1>3, <1>5, <1>6, <1>8
<1>9. ASSUME NEW i \in DOMAIN Backlog, i <= Len(taskCh) + h, ~(i <= Len(taskCh))
      PROVE  i = Len(taskCh) + 1 /\ held # NoTask /\ Backlog[i] = held
  <2>1. h = 1 /\ i = Len(taskCh) + 1 /\ held # NoTask
    BY <1>3, <1>6, <1>9 DEF h
  <2>2. Backlog[i] = H[i - Len(taskCh)] /\ i - Len(taskCh) = 1
    BY <1>3, <1>5, <1>6, <1>9, <2>1
  <2>3. QED
    BY <1>2, <2>1, <2>2
<1>10. QED
  BY <1>7, <1>8, <1>9 DEF h

LEMMA OrderHolds == WorkerInv => ReceivedInOrder
<1> SUFFICES ASSUME WorkerInv PROVE ReceivedInOrder
  OBVIOUS
<1>1. TypeOK /\ FlowInv
  BY DEF WorkerInv
<1>2. /\ Popped \in Nat /\ Len(taskCh) \in Nat /\ Len(queue) \in Nat
      /\ held # NoTask => held \in Nat
      /\ \A i \in 1..Len(taskCh) : taskCh[i] \in Nat
  BY <1>1, PoppedNumber, Numbers DEF TypeOK
<1>3. /\ \A i \in 1..Len(queue) : queue[i] = Popped + i
      /\ held # NoTask => held <= Popped
      /\ \A i \in 1..Len(taskCh) : taskCh[i] <= Popped
      /\ \A i, j \in 1..Len(taskCh) : i < j => taskCh[i] < taskCh[j]
      /\ held # NoTask => \A i \in 1..Len(taskCh) : taskCh[i] < held
  BY <1>1 DEF FlowInv, ShapeInv
<1>4. \A i, j \in DOMAIN Backlog : i < j => Backlog[i] < Backlog[j]
  BY <1>1, <1>2, <1>3, BacklogElements
<1>5. \A t \in Received : t \in Payloads /\ t \in Nat /\ Begun(t)
  BY <1>1, Numbers DEF Received, Working, Settled, Begun, Taken, TypeOK
<1>6. \A t \in Payloads : Begun(t) => t <= Popped
  BY <1>1, <1>2, Numbers DEF FlowInv, UntouchedInv, Untouched, Begun, Ended
<1>7. ASSUME NEW t \in Received, NEW i \in DOMAIN Backlog PROVE t < Backlog[i]
  BY <1>1, <1>2, <1>3, <1>5, <1>6, BacklogElements DEF FlowInv, OrderInv
<1>8. QED
  BY <1>4, <1>7 DEF ReceivedInOrder

(* For every pool, buffer and workload the pool receives payloads in the    *)
(* order of their pushes (worker.go:197).                                  *)
THEOREM PayloadsReceivedInOrder == Spec => []ReceivedInOrder
BY OrderHolds, WorkerInvariant, PTL

---------------------------------------------------------------------------
(* Each shutdown discards at most one payload: the dispatcher discards and  *)
(* at once leaves its loop, which only a restart begins again.             *)
Shutdowns == restarts + (IF dpc \in {"close", "wait", "returned"} THEN 1 ELSE 0)
DropInv == Cardinality(dropped) <= Shutdowns

LEMMA PayloadSetsFinite ==
    ASSUME NEW S \in SUBSET Payloads
    PROVE  IsFiniteSet(S) /\ Cardinality(S) \in Nat
<1>1. IsFiniteSet(Payloads)
  BY FS_Interval, WorkerAssumption DEF Payloads
<1>2. QED
  BY <1>1, FS_Subset, FS_CardinalityType

LEMMA NextDrop == WorkerInv /\ DropInv /\ [Next]_vars => DropInv'
<1> SUFFICES ASSUME WorkerInv, DropInv, [Next]_vars PROVE DropInv'
  OBVIOUS
<1> USE DEF dispatcherVars, poolVars, auditVars, fateVars
<1>1. TypeOK /\ restarts \in Nat /\ Cardinality(dropped) \in Nat
  BY PayloadSetsFinite, WorkerAssumption DEF WorkerInv, TypeOK
<1>2. CASE DropPayload
  <2>1. /\ Cardinality(dropped') <= Cardinality(dropped) + 1
        /\ Cardinality(dropped') \in Nat
    <3>1. IsFiniteSet(dropped)
      BY <1>1, PayloadSetsFinite DEF TypeOK
    <3>2. dropped' = dropped \cup {held}
      BY <1>2 DEF DropPayload
    <3>3. QED
      BY <1>1, <3>1, <3>2, FS_AddElement
  <2>2. dpc = "send" /\ dpc' = "close" /\ restarts' = restarts
    BY <1>2 DEF DropPayload
  <2>3. QED
    BY <1>1, <2>1, <2>2 DEF DropInv, Shutdowns
<1>3. CASE Restart
  <2>1. dropped' = dropped /\ restarts' = restarts + 1 /\ dpc' = "check"
    BY <1>3 DEF Restart, NewProcess
  <2>2. QED
    BY <1>1, <2>1 DEF DropInv, Shutdowns
<1>4. CASE CheckContext \/ PopPayload \/ PopNothing \/ PopError \/ SendPayload
           \/ CloseChannel \/ Return
  <2>1. /\ dropped' = dropped /\ restarts' = restarts
        /\ dpc' \in {"close", "wait", "returned"} \/ dpc \notin {"close", "wait", "returned"}
    BY <1>4 DEF CheckContext, PopPayload, PopNothing, PopError, SendPayload,
                CloseChannel, Return
  <2>2. QED
    BY <1>1, <2>1 DEF DropInv, Shutdowns
<1>5. CASE UNCHANGED <<dropped, restarts, dpc>>
  BY <1>5 DEF DropInv, Shutdowns
<1>6. ASSUME NEW w \in Workers, Work(w) \/ Deadline(w)
      PROVE  UNCHANGED <<dropped, restarts, dpc>>
  BY <1>6 DEF Work, ReceivePayload, processPayload, WorkerExit, TakeResult,
              TakeTimeout, Conclude, LogAudit, Deadline
<1>7. ASSUME NEW t \in Payloads, HandlerReturn(t) PROVE UNCHANGED <<dropped, restarts, dpc>>
  BY <1>7 DEF HandlerReturn
<1>8. Produce \/ Cancel \/ Terminated \/ UNCHANGED vars => UNCHANGED <<dropped, restarts, dpc>>
  BY DEF Produce, Cancel, Terminated, vars
<1>9. QED
  BY <1>2, <1>3, <1>4, <1>5, <1>6, <1>7, <1>8 DEF Next, Dispatch

LEMMA DrainedHolds == WorkerInv /\ DropInv => DrainedOnReturn
<1> SUFFICES ASSUME WorkerInv, DropInv PROVE DrainedOnReturn
  OBVIOUS
<1>1. TypeOK /\ FlowInv /\ CloseInv
  BY DEF WorkerInv
<1>2. ASSUME dpc = "returned", NEW t \in (1..pushed) \ SeqSet(queue)
      PROVE  t \in Settled \cup dropped \cup missed \cup lost
  <2>1. t \in Payloads /\ t \in Nat /\ t # NoTask
    BY <1>1, WorkerAssumption DEF TypeOK, Payloads, NoTask
  <2>2. t <= Popped
    BY <1>1, <2>1, QueueElements, PoppedNumber
  <2>3. held = NoTask
    BY <1>1, <1>2 DEF TypeOK
  <2>4. ~Taken(t)
    BY <1>1, <1>2, <2>1 DEF CloseInv, Taken, TypeOK
  <2>5. taskCh = <<>>
    BY <1>1, <1>2, WorkerAssumption DEF CloseInv
  <2>6. QED
    BY <1>1, <2>1, <2>2, <2>3, <2>4, <2>5 DEF FlowInv, PlaceInv, Ended
<1>3. QED
  BY <1>2 DEF DrainedOnReturn, DropInv, Shutdowns

(* For every pool, buffer and workload, when Start returns all that left    *)
(* the list is accounted for, and no shutdown discards more than one        *)
(* payload (worker.go:137-140).                                            *)
THEOREM ReturnIsDrained == Spec => []DrainedOnReturn
<1>1. Init => DropInv
  BY FS_EmptySet DEF Init, DropInv, Shutdowns
<1>2. WorkerInv /\ DropInv /\ [Next]_vars => DropInv'
  BY NextDrop
<1>3. Spec => []DropInv
  BY <1>1, <1>2, WorkerInvariant, PTL DEF Spec
<1>4. QED
  BY <1>3, WorkerInvariant, DrainedHolds, PTL

---------------------------------------------------------------------------
(* The process holds no more than its channel, its pool and its dispatcher. *)
LEMMA ImageBound ==
    ASSUME NEW S, IsFiniteSet(S), NEW f, S \subseteq DOMAIN f
    PROVE  /\ IsFiniteSet({f[x] : x \in S})
           /\ Cardinality({f[x] : x \in S}) \in Nat
           /\ Cardinality({f[x] : x \in S}) <= Cardinality(S)
<1> DEFINE T == {f[x] : x \in S}
           g == [x \in S |-> f[x]]
<1>1. g \in Surjection(S, T)
  BY DEF Surjection
<1>2. QED
  BY <1>1, FS_Surjection, FS_CardinalityType

LEMMA UnionBound ==
    ASSUME NEW S, IsFiniteSet(S), NEW T, IsFiniteSet(T)
    PROVE  /\ IsFiniteSet(S \cup T)
           /\ Cardinality(S \cup T) \in Nat
           /\ Cardinality(S \cup T) <= Cardinality(S) + Cardinality(T)
<1>1. IsFiniteSet(S \cap T)
  BY FS_Subset
<1>2. /\ Cardinality(S) \in Nat /\ Cardinality(T) \in Nat
      /\ Cardinality(S \cap T) \in Nat
  BY <1>1, FS_CardinalityType
<1>3. /\ IsFiniteSet(S \cup T)
      /\ Cardinality(S \cup T) = Cardinality(S) + Cardinality(T) - Cardinality(S \cap T)
  BY FS_Union
<1>4. Cardinality(S \cup T) \in Nat
  BY <1>3, FS_CardinalityType
<1>5. QED
  BY <1>2, <1>3, <1>4

Capacity == BufferSize + Cardinality(Workers) + 1

LEMMA CapacityType == Capacity \in Nat
BY WorkerAssumption, FS_CardinalityType DEF Capacity

LEMMA InProcessBound == TypeOK => Cardinality(InProcess) <= Capacity
<1> SUFFICES ASSUME TypeOK PROVE Cardinality(InProcess) <= Capacity
  OBVIOUS
<1> DEFINE C == {taskCh[i] : i \in 1..Len(taskCh)}
           W == {wtask[w] : w \in Workers}
<1>1. /\ IsFiniteSet(C) /\ Cardinality(C) \in Nat
      /\ Cardinality(C) <= BufferSize
  <2>1. Len(taskCh) \in Nat /\ DOMAIN taskCh = 1..Len(taskCh) /\ Len(taskCh) <= BufferSize
    BY DEF TypeOK
  <2>2. IsFiniteSet(1..Len(taskCh)) /\ Cardinality(1..Len(taskCh)) = Len(taskCh)
    <3>1. /\ IsFiniteSet(1..Len(taskCh))
          /\ Cardinality(1..Len(taskCh)) =
                IF 1 > Len(taskCh) THEN 0 ELSE Len(taskCh) - 1 + 1
      BY <2>1, FS_Interval
    <3>2. QED
      BY <2>1, <3>1
  <2>3. QED
    BY <2>1, <2>2, ImageBound, WorkerAssumption
<1>2. /\ IsFiniteSet(W) /\ Cardinality(W) \in Nat
      /\ Cardinality(W) <= Cardinality(Workers)
  BY ImageBound, WorkerAssumption DEF TypeOK
<1>3. InProcess = ({held} \cup C \cup W) \ {NoTask}
  <2>1. SeqSet(taskCh) = C
    BY DEF SeqSet, TypeOK
  <2>2. QED
    BY <2>1 DEF InProcess
<1> HIDE DEF C, W
<1>4. IsFiniteSet({held}) /\ Cardinality({held}) = 1
  BY FS_Singleton
<1>5. /\ IsFiniteSet({held} \cup C) /\ Cardinality({held} \cup C) \in Nat
      /\ Cardinality({held} \cup C) <= 1 + BufferSize
  <2>1. /\ IsFiniteSet({held} \cup C) /\ Cardinality({held} \cup C) \in Nat
        /\ Cardinality({held} \cup C) <= Cardinality({held}) + Cardinality(C)
    BY <1>1, <1>4, UnionBound
  <2>2. QED
    BY <1>1, <1>4, <2>1, WorkerAssumption
<1>6. /\ IsFiniteSet({held} \cup C \cup W) /\ Cardinality({held} \cup C \cup W) \in Nat
      /\ Cardinality({held} \cup C \cup W) <= 1 + BufferSize + Cardinality(Workers)
  <2>1. Cardinality({held} \cup C \cup W) <= Cardinality({held} \cup C) + Cardinality(W)
    BY <1>2, <1>5, UnionBound
  <2>2. IsFiniteSet({held} \cup C \cup W) /\ Cardinality({held} \cup C \cup W) \in Nat
    BY <1>2, <1>5, UnionBound
  <2>3. Cardinality(Workers) \in Nat /\ BufferSize \in Nat
    BY WorkerAssumption, FS_CardinalityType
  <2>4. QED
    BY <1>2, <1>5, <2>1, <2>2, <2>3
<1>7. Cardinality(InProcess) <= Cardinality({held} \cup C \cup W)
  BY <1>3, <1>6, FS_Subset
<1>8. Cardinality(InProcess) \in Nat
  BY InProcessType, PayloadSetsFinite
<1>9. QED
  BY <1>6, <1>7, <1>8, WorkerAssumption, FS_CardinalityType DEF Capacity

LEMMA NextLoss == TypeOK /\ BoundedLoss /\ [Next]_vars => BoundedLoss'
<1> SUFFICES ASSUME TypeOK, BoundedLoss, [Next]_vars PROVE BoundedLoss'
  OBVIOUS
<1> USE DEF dispatcherVars, poolVars, auditVars, fateVars
<1>1. BoundedLoss <=> Cardinality(lost) <= restarts * Capacity
  BY DEF BoundedLoss, Capacity
<1>2. BoundedLoss' <=> Cardinality(lost') <= restarts' * Capacity
  BY DEF BoundedLoss, Capacity
<1>3. CASE Restart
  <2>1. lost' = lost \cup InProcess /\ restarts' = restarts + 1 /\ restarts \in Nat
    BY <1>3, WorkerAssumption DEF Restart, TypeOK
  <2>2. /\ IsFiniteSet(lost) /\ Cardinality(lost) \in Nat
        /\ IsFiniteSet(InProcess) /\ Cardinality(InProcess) \in Nat
    BY InProcessType, PayloadSetsFinite DEF TypeOK
  <2>3. /\ Cardinality(lost') \in Nat
        /\ Cardinality(lost') <= Cardinality(lost) + Cardinality(InProcess)
    BY <2>1, <2>2, UnionBound
  <2>4. (restarts + 1) * Capacity = restarts * Capacity + Capacity /\ restarts * Capacity \in Nat
    BY <2>1, CapacityType
  <2>5. QED
    BY <1>1, <1>2, <2>1, <2>2, <2>3, <2>4, InProcessBound, CapacityType
<1>4. CASE UNCHANGED <<lost, restarts>>
  BY <1>1, <1>2, <1>4
<1>5. ASSUME NEW w \in Workers, Work(w) \/ Deadline(w) PROVE UNCHANGED <<lost, restarts>>
  BY <1>5 DEF Work, ReceivePayload, processPayload, WorkerExit, TakeResult,
              TakeTimeout, Conclude, LogAudit, Deadline
<1>6. ASSUME NEW t \in Payloads, HandlerReturn(t) PROVE UNCHANGED <<lost, restarts>>
  BY <1>6 DEF HandlerReturn
<1>7. Produce \/ Cancel \/ Terminated \/ UNCHANGED vars => UNCHANGED <<lost, restarts>>
  BY DEF Produce, Cancel, Terminated, vars
<1>8. Dispatch => UNCHANGED <<lost, restarts>>
  BY DEF Dispatch, CheckContext, PopPayload, PopNothing, PopError, SendPayload, DropPayload,
         CloseChannel, Return
<1>9. QED
  BY <1>3, <1>4, <1>5, <1>6, <1>7, <1>8 DEF Next

(* For every pool, buffer and workload, a crash costs no more payloads than *)
(* the channel, the pool and the dispatcher hold (worker.go:45-48).        *)
THEOREM LossIsBounded == Spec => []BoundedLoss
<1>1. Init => BoundedLoss
  <2> SUFFICES ASSUME Init PROVE BoundedLoss
    OBVIOUS
  <2>1. Cardinality(lost) = 0 /\ restarts = 0
    BY FS_EmptySet DEF Init
  <2>2. 0 * Capacity = 0
    BY CapacityType
  <2>3. QED
    BY <2>1, <2>2 DEF BoundedLoss, Capacity
<1>2. QED
  BY <1>1, NextLoss, WorkerTypeCorrect, PTL DEF Spec

---------------------------------------------------------------------------
(* realTaskHandler returns an error only past its deadline. *)
ErrInv == \A t \in Payloads : handler[t] = "err" => t \in expired

LEMMA NextErr == ASSUME ~AnyHandler PROVE TypeOK /\ ErrInv /\ [Next]_vars => ErrInv'
<1> SUFFICES ASSUME TypeOK, ErrInv, [Next]_vars PROVE ErrInv'
  OBVIOUS
<1> USE DEF dispatcherVars, poolVars, auditVars, fateVars
<1>1. CASE UNCHANGED handler /\ expired \subseteq expired'
  BY <1>1 DEF ErrInv
<1>2. ASSUME NEW t \in Payloads, HandlerReturn(t) PROVE ErrInv'
  BY <1>2 DEF HandlerReturn, HandlerResult, ErrInv, TypeOK
<1>3. ASSUME NEW w \in Workers, processPayload(w) PROVE ErrInv'
  <2>1. /\ UNCHANGED expired
        /\ UNCHANGED handler \/ handler' = [handler EXCEPT ![wtask[w]] = "running"]
    BY <1>3 DEF processPayload
  <2>2. QED
    BY <2>1 DEF ErrInv, TypeOK
<1>4. CASE Restart
  BY <1>4 DEF Restart, NewProcess, ErrInv
<1>5. ASSUME NEW w \in Workers,
             \/ ReceivePayload(w) \/ WorkerExit(w) \/ TakeResult(w) \/ TakeTimeout(w)
             \/ LogAudit(w) \/ Deadline(w)
      PROVE  UNCHANGED handler /\ expired \subseteq expired'
  BY <1>5 DEF ReceivePayload, WorkerExit, TakeResult, TakeTimeout, Conclude, LogAudit, Deadline
<1>6. Produce \/ Cancel \/ Terminated \/ UNCHANGED vars => UNCHANGED <<handler, expired>>
  BY DEF Produce, Cancel, Terminated, vars
<1>7. Dispatch => UNCHANGED <<handler, expired>>
  BY DEF Dispatch, CheckContext, PopPayload, PopNothing, PopError, SendPayload, DropPayload,
         CloseChannel, Return
<1>8. QED
  BY <1>1, <1>2, <1>3, <1>4, <1>5, <1>6, <1>7 DEF Next, Work

LEMMA OnlyDeadlineHolds == TypeOK /\ ErrInv /\ VerdictTruthful => OnlyDeadlineFails
<1> SUFFICES ASSUME TypeOK, ErrInv, VerdictTruthful, NEW t \in Payloads \ BadPayloads,
                    t \notin expired
             PROVE  audit[t] \subseteq {"SUCCESS"}
  BY DEF OnlyDeadlineFails
<1>1. "FAILED" \notin audit[t] /\ "TIMEOUT" \notin audit[t]
  BY DEF VerdictTruthful, ErrInv
<1>2. QED
  BY <1>1 DEF TypeOK, Outcome

(* With the handler of main.go, for every pool, buffer and workload: a      *)
(* well-formed payload fails only for its deadline (main.go:53-61).        *)
THEOREM OnlyDeadlinesFail == ASSUME ~AnyHandler PROVE Spec => []OnlyDeadlineFails
<1>1. Init => ErrInv
  BY DEF Init, ErrInv
<1>2. TypeOK /\ ErrInv /\ [Next]_vars => ErrInv'
  BY NextErr
<1>3. Spec => []ErrInv
  BY <1>1, <1>2, WorkerTypeCorrect, PTL DEF Spec
<1>4. QED
  BY <1>3, WorkerTypeCorrect, AuditIsTruthful, OnlyDeadlineHolds, PTL
=============================================================================
