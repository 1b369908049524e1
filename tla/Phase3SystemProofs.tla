--------------------------- MODULE Phase3SystemProofs ---------------------------
(***************************************************************************)
(* Theorems about phase 3 as a whole, for any number of requests, retries, *)
(* late LPUSHes and payloads in the worker's memory: requests sent one     *)
(* after the other reach the worker in that order, and of every fan-out    *)
(* the worker takes a beginning.                                           *)
(***************************************************************************)
EXTENDS Phase3System, AsyncEngineProofs

(* What a step of the engine may do to the list: push a job of a request    *)
(* that is in its fan-out, or that had a fault or died in it.              *)
LEMMA NextPushes ==
    ASSUME EngineInv, [Next]_vars
    PROVE  /\ \/ queue' = queue
              \/ /\ \A q \in Requests : pc[q] = "idle" <=> pc'[q] = "idle"
                 /\ \E job \in Job :
                       /\ queue' = Append(queue, job)
                       /\ pc[job.by] # "idle"
                       /\ job.by \in redisFault \/ reply[job.by] = "none"
           /\ redisFault \subseteq redisFault'
           /\ \A q \in Requests : /\ reply[q] # "none" => reply'[q] # "none"
                                  /\ pc'[q] = "idle" => pc[q] = "idle"
<1> USE DEF EngineInv, TypeOK
<1>1. ASSUME NEW r \in Requests, Statement(r)
      PROVE  /\ UNCHANGED <<queue, redisFault, reply>>
             /\ \A q \in Requests : pc'[q] = "idle" => pc[q] = "idle"
  BY <1>1 DEF Statement, createUser, updateUser, deactivateUser, createBooking,
              updateBooking, cancelBooking, Rejected, Committed
<1>2. ASSUME NEW r \in Requests, enqueueTask(r)
      PROVE  /\ queue' = Append(queue, CurrentJob(r))
             /\ CurrentJob(r) \in Job /\ CurrentJob(r).by = r
             /\ pc[r] # "idle" /\ reply[r] = "none"
             /\ UNCHANGED <<redisFault, reply>>
             /\ \A q \in Requests : pc[q] = "idle" <=> pc'[q] = "idle"
  <2>1. CurrentJob(r) \in Job /\ CurrentJob(r).by = r
    BY <1>2, CurrentJobDue DEF enqueueTask, Due
  <2>2. QED
    BY <1>2, <2>1 DEF enqueueTask, EndFanOut, HandlerInv
<1>3. ASSUME NEW r \in Requests, enqueueFault(r) \/ enqueueCancelled(r) \/ Reply(r) \/ Disconnect(r)
      PROVE  /\ queue' = queue
             /\ redisFault \subseteq redisFault'
             /\ \A q \in Requests : /\ reply[q] # "none" => reply'[q] # "none"
                                    /\ pc'[q] = "idle" => pc[q] = "idle"
  BY <1>3 DEF enqueueFault, enqueueCancelled, Reply, Disconnect, GiveUp, EndFanOut
<1>4. ASSUME ApplyLate
      PROVE  /\ \E job \in Job : /\ queue' = Append(queue, job)
                                 /\ pc[job.by] # "idle"
                                 /\ job.by \in redisFault \/ reply[job.by] = "none"
             /\ UNCHANGED <<redisFault, reply, pc>>
  <2>1. PICK c \in late : queue' = Append(queue, c.job) /\ UNCHANGED <<redisFault, reply, pc>>
    BY <1>4 DEF ApplyLate
  <2>2. /\ c.job \in Job
        /\ c.job.by \in Requests
        /\ event[c.job.by] # NoEvent
        /\ c.job.by \notin redisFault => pc[c.job.by] = "dead"
    BY <2>1 DEF LateInv, Due, ForCommit, Job
  <2>3. QED
    BY <2>1, <2>2 DEF HandlerInv
<1>5. ASSUME Crash
      PROVE  /\ UNCHANGED <<queue, redisFault, reply>>
             /\ \A q \in Requests : pc'[q] = "idle" => pc[q] = "idle"
  BY <1>5 DEF Crash
<1>6. ASSUME UNCHANGED vars
      PROVE  UNCHANGED <<queue, redisFault, reply, pc>>
  BY <1>6 DEF vars, handlerVars
<1>7. QED
  BY <1>1, <1>2, <1>3, <1>4, <1>5, <1>6 DEF Next, Continue, Terminated

---------------------------------------------------------------------------
(* The list is first in, first out. *)
FirstInFirstOut ==
    \A i, j \in W!Payloads :
        i < j /\ stage[i] = "queued" => stage[j] \in {"queued", "unsent"}

(* A request sent after an answer pushes after the answered one's jobs. *)
Sessions ==
    \A q \in Requests :
        /\ pc[q] = "idle" => before[q] = {}
        /\ \A r \in before[q] :
              /\ reply[r] # "none"
              /\ r \notin redisFault => \A i \in Pushed(r), j \in Pushed(q) : i < j

SystemInv ==
    /\ EngineInv
    /\ SystemTypeOK
    /\ FirstInFirstOut
    /\ Sessions

(* The job just pushed is the next payload. *)
LEMMA SendIsNext ==
    ASSUME SystemTypeOK, queue \in Seq(Job), W!Send
    PROVE  /\ Len(queue) + 1 \in W!Payloads
           /\ stage' = [u \in W!Payloads |-> IF u = Len(queue) + 1 THEN "queued" ELSE stage[u]]
<1>1. PICK t \in W!Payloads : W!Oldest(t, "unsent") /\ W!Advance({t}, "queued")
  BY DEF W!Send
<1>2. t \in Nat /\ Len(queue) \in Nat /\ t > Len(queue) /\ MaxPush \in Nat
  BY <1>1, SystemAssumption DEF W!Oldest, W!At, SystemTypeOK, W!Payloads
<1>3. Len(queue) + 1 \in W!Payloads
  BY <1>1, <1>2 DEF W!Payloads
<1>4. t = Len(queue) + 1
  BY <1>1, <1>2, <1>3 DEF W!Oldest, W!At, SystemTypeOK
<1>5. QED
  BY <1>1, <1>3, <1>4 DEF W!Advance

LEMMA SystemInit_Inv == SystemInit => SystemInv
<1> SUFFICES ASSUME SystemInit PROVE SystemInv
  OBVIOUS
<1>1. EngineInv
  BY InitEngineInv DEF SystemInit
<1>2. queue = <<>> /\ stage = [t \in W!Payloads |-> "unsent"] /\ before = [r \in Requests |-> {}]
  BY DEF SystemInit, Init, W!Init
<1>3. SystemTypeOK /\ FirstInFirstOut
  BY <1>2, SystemAssumption DEF SystemTypeOK, FirstInFirstOut, W!Payloads, W!Stages
<1>4. Sessions
  BY <1>2 DEF Sessions
<1>5. QED
  BY <1>1, <1>3, <1>4 DEF SystemInv

LEMMA EngineStepInv == ASSUME SystemInv, EngineStep PROVE SystemInv'
<1>1. EngineInv' /\ queue \in Seq(Job)
  BY NextEngineInv DEF SystemInv, EngineStep, EngineInv, TypeOK
<1>2. /\ redisFault \subseteq redisFault'
      /\ \A q \in Requests : /\ reply[q] # "none" => reply'[q] # "none"
                             /\ pc'[q] = "idle" => pc[q] = "idle"
  BY NextPushes DEF SystemInv, EngineStep
<1>3. /\ before' \in [Requests -> SUBSET Requests]
      /\ \A q \in Requests :
            before'[q] = IF pc[q] = "idle" /\ pc'[q] # "idle" THEN Answered ELSE before[q]
  BY DEF SystemInv, SystemTypeOK, EngineStep, BeforeNext, Answered
<1>4. \A q \in Requests : pc[q] = "idle" => Pushed(q) = {}
  BY NoEventNoJob DEF SystemInv, EngineInv, HandlerInv
<1>5. \A q \in Requests : \A r \in before'[q] : reply'[r] # "none"
  BY <1>2, <1>3 DEF SystemInv, Sessions, Answered, SystemTypeOK
<1>6. \A q \in Requests : pc'[q] = "idle" => before'[q] = {}
  BY <1>2, <1>3 DEF SystemInv, Sessions
<1>7. CASE queue' = queue
  <2>1. UNCHANGED stage
    BY <1>7 DEF EngineStep
  <2>2. SystemTypeOK' /\ FirstInFirstOut'
    BY <1>3, <1>7, <2>1 DEF SystemInv, SystemTypeOK, FirstInFirstOut
  <2>3. ASSUME NEW q \in Requests, NEW r \in before'[q], r \notin redisFault'
        PROVE  \A i \in Pushed(r), j \in Pushed(q) : i < j
    BY <1>2, <1>3, <1>4, <2>3 DEF SystemInv, Sessions
  <2>4. \A q : Pushed(q)' = Pushed(q)
    BY <1>7 DEF Pushed
  <2>5. Sessions'
    BY <1>5, <1>6, <2>3, <2>4 DEF Sessions
  <2>6. QED
    BY <1>1, <2>2, <2>5 DEF SystemInv
<1>8. CASE queue' # queue
  <2>1. PICK job \in Job : /\ queue' = Append(queue, job)
                           /\ pc[job.by] # "idle"
                           /\ job.by \in redisFault \/ reply[job.by] = "none"
    BY <1>8, NextPushes DEF SystemInv, EngineStep
  <2>2. \A q \in Requests : pc[q] = "idle" <=> pc'[q] = "idle"
    BY <1>8, NextPushes DEF SystemInv, EngineStep
  <2>3. /\ Len(queue) + 1 \in W!Payloads
        /\ stage' = [u \in W!Payloads |-> IF u = Len(queue) + 1 THEN "queued" ELSE stage[u]]
    BY <1>1, <1>8, SendIsNext DEF SystemInv, EngineStep
  <2>4. /\ Len(queue) \in Nat
        /\ Len(queue') = Len(queue) + 1
        /\ DOMAIN queue' = DOMAIN queue \cup {Len(queue) + 1}
        /\ DOMAIN queue = 1..Len(queue)
        /\ \A i \in DOMAIN queue : queue'[i] = queue[i]
        /\ queue'[Len(queue) + 1] = job
    BY <1>1, <2>1
  <2>5. SystemTypeOK'
    BY <1>3, <2>3, <2>4, SystemAssumption DEF SystemInv, SystemTypeOK, W!Payloads, W!Stages
  <2>6. FirstInFirstOut'
    BY <2>3, <2>4 DEF SystemInv, SystemTypeOK, FirstInFirstOut, W!Payloads
  <2>7. \A q \in Requests : /\ q # job.by => Pushed(q)' = Pushed(q)
                            /\ Pushed(q)' \subseteq Pushed(q) \cup {Len(queue) + 1}
                            /\ \A i \in Pushed(q) : i \in Nat /\ i <= Len(queue)
    BY <2>4 DEF Pushed
  <2>8. ASSUME NEW q \in Requests, NEW r \in before'[q], r \notin redisFault'
        PROVE  \A i \in Pushed(r)', j \in Pushed(q)' : i < j
    <3>1. before'[q] = before[q] /\ r \in Requests /\ r \notin redisFault
      BY <1>2, <1>3, <2>2, <2>8 DEF SystemInv, SystemTypeOK
    <3>2. reply[r] # "none" /\ \A i \in Pushed(r), j \in Pushed(q) : i < j
      BY <2>8, <3>1 DEF SystemInv, Sessions
    <3>3. r # job.by
      BY <2>1, <3>1, <3>2
    <3>4. QED
      BY <2>4, <2>7, <3>1, <3>2, <3>3
  <2>9. Sessions'
    BY <1>5, <1>6, <2>8 DEF Sessions
  <2>10. QED
    BY <1>1, <2>5, <2>6, <2>9 DEF SystemInv
<1>9. QED
  BY <1>7, <1>8

(* A step of the worker service moves payloads it holds, or the oldest one. *)
Moves ==
    \E ts \in SUBSET W!Payloads, s \in {"held", "lost", "audited"} :
        /\ W!Advance(ts, s)
        /\ \A t \in ts : stage[t] = "held" \/ W!Oldest(t, "queued")

LEMMA WorkerStepInv == ASSUME SystemInv, WorkerStep PROVE SystemInv'
<1>1. UNCHANGED <<vars, before>>
  BY DEF WorkerStep
<1>2. EngineInv'
  BY <1>1, NextEngineInv DEF SystemInv
<1>3. UNCHANGED <<pc, queue, reply, redisFault>>
  BY <1>1 DEF vars, handlerVars
<1>4. Sessions'
  BY <1>1, <1>3 DEF SystemInv, Sessions, Pushed
<1>5. Moves
  <2>1. ASSUME NEW t \in W!Payloads, W!Oldest(t, "queued"), NEW s \in {"held", "lost"},
               W!Advance({t}, s)
        PROVE  Moves
    <3>1. {t} \in SUBSET W!Payloads
      OBVIOUS
    <3>2. QED
      BY <2>1, <3>1 DEF Moves
  <2>2. ASSUME NEW ts \in SUBSET W!At("held"), NEW s \in {"lost", "audited"}, W!Advance(ts, s)
        PROVE  Moves
    <3>1. ts \in SUBSET W!Payloads /\ \A t \in ts : stage[t] = "held"
      BY DEF W!At
    <3>2. QED
      BY <2>2, <3>1 DEF Moves
  <2>3. CASE W!Take
    BY <2>1, <2>3 DEF W!Take
  <2>4. CASE W!Miss
    BY <2>1, <2>4 DEF W!Miss
  <2>5. CASE W!Audit
    BY <2>2, <2>5 DEF W!Audit
  <2>6. CASE W!Lose
    BY <2>2, <2>6 DEF W!Lose
  <2>7. QED
    BY <2>3, <2>4, <2>5, <2>6 DEF WorkerStep
<1>6. PICK ts \in SUBSET W!Payloads, s \in {"held", "lost", "audited"} :
        /\ stage' = [u \in W!Payloads |-> IF u \in ts THEN s ELSE stage[u]]
        /\ \A t \in ts : \/ stage[t] = "held"
                         \/ /\ stage[t] = "queued"
                            /\ \A u \in W!Payloads : stage[u] = "queued" => t <= u
  BY <1>5 DEF Moves, W!Advance, W!Oldest, W!At
<1>7. SystemTypeOK'
  BY <1>1, <1>3, <1>6 DEF SystemInv, SystemTypeOK, W!Stages
<1>8. FirstInFirstOut'
  <2>1. \A t \in W!Payloads : t \in Nat
    BY DEF W!Payloads
  <2>2. QED
    BY <1>6, <2>1 DEF SystemInv, FirstInFirstOut
<1>9. QED
  BY <1>2, <1>4, <1>7, <1>8 DEF SystemInv

(* The invariant that ties the engine, the hand-over and the order of the   *)
(* requests together.                                                      *)
THEOREM SystemInvariant == SystemSpec => []SystemInv
<1>1. ASSUME SystemInv, [SystemNext]_systemVars PROVE SystemInv'
  <2>1. CASE UNCHANGED systemVars
    <3>1. EngineInv'
      BY <1>1, <2>1, NextEngineInv DEF SystemInv, systemVars
    <3>2. UNCHANGED <<pc, queue, reply, redisFault, stage, before>>
      BY <2>1 DEF systemVars, vars, handlerVars
    <3>3. QED
      BY <1>1, <3>1, <3>2 DEF SystemInv, SystemTypeOK, FirstInFirstOut, Sessions, Pushed
  <2>2. QED
    BY <1>1, <2>1, EngineStepInv, WorkerStepInv DEF SystemNext
<1>2. QED
  BY <1>1, SystemInit_Inv, PTL DEF SystemSpec

(* The payloads the worker can meet are the jobs on the engine's list.      *)
THEOREM SystemTypeCorrect == SystemSpec => []SystemTypeOK
BY SystemInvariant, PTL DEF SystemInv

(* Behind the engine and in front of the worker the tables are still those  *)
(* of StoreSpec: no step of the worker service touches them                *)
(* (handler.go:120-309, worker.go:137-280).                                *)
THEOREM SystemImplementsStore == SystemSpec => StoreSpec
<1>1. SystemInit => StoreInit
  BY DEF SystemInit, Init
<1>2. [SystemNext]_systemVars => [StoreNext]_store
  <2>1. ASSUME EngineStep PROVE [StoreNext]_store
    BY <2>1, NextRefinesStore DEF EngineStep
  <2>2. ASSUME WorkerStep \/ UNCHANGED systemVars PROVE UNCHANGED store
    BY <2>2 DEF WorkerStep, systemVars, vars, store
  <2>3. QED
    BY <2>1, <2>2 DEF SystemNext
<1>3. QED
  BY <1>1, <1>2, PTL DEF SystemSpec, StoreSpec

(* So phase 3 keeps all that the database promises: no double booking and   *)
(* no orphan, a truthful availability query, final cancellations and ids    *)
(* that keep their meaning (README.md:108, schema.sql:23-37).               *)
THEOREM SystemKeepsPromises ==
    SystemSpec => /\ []NoDoubleBooking
                  /\ []NoOrphanBooking
                  /\ []OfferedIffBookable
                  /\ CancelledIsFinal
                  /\ BookingIdNeverReused
BY SystemImplementsStore, NeverDoubleBooked, NeverOrphaned, OffersAreBookable,
   CancellationIsFinal, BookingIdIsStable, PTL

(* The jobs of a client that waits for its answers reach the worker in its  *)
(* order (handler.go:231-237, worker.go:176).                              *)
THEOREM AnsweredRequestsComeFirst == SystemSpec => []SequentialRequestsInOrder
<1>1. ASSUME SystemInv PROVE SequentialRequestsInOrder
  <2>1. ASSUME NEW q \in Requests, NEW r \in before[q] \ redisFault,
               NEW i \in Pushed(r), NEW j \in Pushed(q)
        PROVE  i < j /\ (j \in Taken => i \in Taken)
    <3>1. i < j
      BY <1>1, <2>1 DEF SystemInv, Sessions
    <3>2. /\ i \in W!Payloads /\ i <= Len(queue)
          /\ j \in W!Payloads /\ j <= Len(queue)
      BY <1>1, SystemAssumption
      DEF SystemInv, SystemTypeOK, EngineInv, TypeOK, Pushed, W!Payloads
    <3>3. stage[i] # "unsent" /\ stage[j] # "unsent"
      BY <1>1, <3>2 DEF SystemInv, SystemTypeOK, EngineInv, TypeOK, W!Payloads
    <3>4. stage[j] # "queued" => stage[i] # "queued"
      BY <1>1, <3>1, <3>2, <3>3 DEF SystemInv, FirstInFirstOut
    <3>5. QED
      BY <3>1, <3>3, <3>4 DEF Taken, Pushed
  <2>2. QED
    BY <2>1 DEF SequentialRequestsInOrder
<1>2. QED
  BY <1>1, SystemInvariant, PTL

(* A set of tasks that contains with each task all earlier ones is a        *)
(* beginning of the fan-out.                                                *)
LEMMA Beginning ==
    ASSUME NEW S \in SUBSET (1..3), \A t \in S : 1..(t - 1) \subseteq S
    PROVE  \E t \in 0..3 : S = 1..t
<1>1. /\ 1..0 = {} /\ 1..1 = {1} /\ 1..2 = {1, 2} /\ 1..3 = {1, 2, 3}
      /\ 2 - 1 = 1 /\ 3 - 1 = 2
  OBVIOUS
<1>2. /\ 2 \in S => 1 \in S
      /\ 3 \in S => 1 \in S /\ 2 \in S
  <2>1. 2 \in S => 1..(2 - 1) \subseteq S
    OBVIOUS
  <2>2. 3 \in S => 1..(3 - 1) \subseteq S
    OBVIOUS
  <2>3. QED
    BY <1>1, <2>1, <2>2
<1>3. S = {} \/ S = {1} \/ S = {1, 2} \/ S = {1, 2, 3}
  BY <1>1, <1>2
<1>4. S = 1..0 \/ S = 1..1 \/ S = 1..2 \/ S = 1..3
  BY <1>1, <1>3
<1>5. 0 \in 0..3 /\ 1 \in 0..3 /\ 2 \in 0..3 /\ 3 \in 0..3
  OBVIOUS
<1>6. QED
  BY <1>4, <1>5, Zenon

(* What the worker takes of a request is a beginning of its fan-out, and in *)
(* its order unless an LPUSH had failed: the order of the pushes survives   *)
(* the hand-over (handler.go:110-114, worker.go:176).                       *)
THEOREM FanOutsTakenInOrder == SystemSpec => []FanOutTakenInOrder
<1>1. ASSUME SystemInv PROVE FanOutTakenInOrder
  <2> SUFFICES ASSUME NEW r \in Requests
               PROVE  LET taken == Pushed(r) \cap Taken
                      IN  /\ \E t \in 0..Len(TaskTypes) : {TaskIndex(queue[i]) : i \in taken} = 1..t
                          /\ r \notin redisFault =>
                                \A i, j \in taken : i < j => TaskIndex(queue[i]) < TaskIndex(queue[j])
    BY DEF FanOutTakenInOrder
  <2> DEFINE taken == Pushed(r) \cap Taken
             tasks == {TaskIndex(queue[i]) : i \in taken}
  <2>1. queue \in Seq(Job) /\ DOMAIN queue = 1..Len(queue) /\ Len(queue) \in Nat
    BY <1>1 DEF SystemInv, EngineInv, TypeOK
  <2>2. ASSUME NEW i \in taken
        PROVE  /\ i \in DOMAIN queue /\ queue[i] \in Job /\ queue[i].by = r
               /\ TaskIndex(queue[i]) \in 1..3
               /\ InOrderAt(queue, redisFault, i)
    <3>1. i \in DOMAIN queue /\ queue[i].by = r
      BY DEF Pushed
    <3>2. queue[i] \in Job
      BY <2>1, <3>1
    <3>3. TaskIndex(queue[i]) \in 1..3
      BY <3>2, TaskIndexOf, ThreeTasks
    <3>4. InOrderAt(queue, redisFault, i)
      BY <1>1, <2>1, <3>1, InOrderByJob DEF SystemInv, EngineInv, FanOutInOrder, Pushed, By
    <3>5. QED
      BY <3>1, <3>2, <3>3, <3>4
  <2>3. ASSUME NEW j \in taken, NEW i \in Pushed(r), i < j
        PROVE  i \in taken
    <3>1. /\ i \in W!Payloads /\ i <= Len(queue)
          /\ j \in W!Payloads /\ j <= Len(queue)
      BY <1>1, <2>1, SystemAssumption DEF SystemInv, SystemTypeOK, Pushed, W!Payloads
    <3>2. stage[i] # "unsent"
      BY <1>1, <2>1, <3>1 DEF SystemInv, SystemTypeOK, W!Payloads
    <3>3. stage[i] # "queued"
      BY <1>1, <2>3, <3>1 DEF SystemInv, FirstInFirstOut, Taken
    <3>4. QED
      BY <3>2, <3>3 DEF Taken, Pushed
  <2>4. ASSUME NEW t \in tasks PROVE 1..(t - 1) \subseteq tasks
    <3>1. PICK j \in taken : t = TaskIndex(queue[j])
      BY <2>4
    <3>2. ASSUME NEW u \in 1..(t - 1) PROVE u \in tasks
      <4>1. PICK i \in By(queue, r) : i < j /\ TaskIndex(queue[i]) = u
        BY <2>2, <3>1, <3>2 DEF InOrderAt
      <4>2. i \in Pushed(r)
        BY <4>1 DEF By, Pushed
      <4>3. QED
        BY <2>3, <4>1, <4>2
    <3>3. QED
      BY <3>2
  <2>5. tasks \in SUBSET (1..3)
    BY <2>2
  <2>6. \E t \in 0..3 : tasks = 1..t
    <3> HIDE DEF tasks
    <3>1. QED
      BY <2>4, <2>5, Beginning
  <2>7. ASSUME r \notin redisFault, NEW i \in taken, NEW j \in taken, i < j
        PROVE  TaskIndex(queue[i]) < TaskIndex(queue[j])
    <3>1. i \in By(queue, r)
      BY <2>2 DEF By
    <3>2. QED
      BY <2>2, <2>7, <3>1 DEF InOrderAt
  <2>8. QED
    BY <2>6, <2>7, ThreeTasks
<1>2. QED
  BY <1>1, SystemInvariant, PTL
=============================================================================
