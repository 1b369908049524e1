--------------------------- MODULE AsyncEngineProofs ---------------------------
(***************************************************************************)
(* Theorems about the phase 3 business engine, for every number of         *)
(* requests and retries: its handlers implement the database specification *)
(* they share, so the promises of the database hold while they interleave; *)
(* and jobs and answers agree with what was committed.                     *)
(***************************************************************************)
EXTENDS AsyncEngine, BookingStoreProofs, FiniteSetTheorems

(* Every step of a handler is one statement on the database, or leaves the *)
(* database alone.                                                         *)
LEMMA NextRefinesStore == [Next]_vars => [StoreNext]_store
<1> SUFFICES ASSUME [Next]_vars PROVE [StoreNext]_store
  OBVIOUS
<1>1. ASSUME NEW r \in Requests, Statement(r) PROVE [StoreNext]_store
  <2>1. CASE \E email \in Emails : createUser(r, email)
    BY <2>1 DEF createUser, StoreNext
  <2>2. CASE \E id \in 1..MaxUsers, email \in Emails : updateUser(r, id, email)
    BY <2>2 DEF updateUser, StoreNext
  <2>3. CASE \E id \in UserIds : deactivateUser(r, id)
    BY <2>3 DEF deactivateUser, StoreNext
  <2>4. CASE \E user \in 1..MaxUsers, room \in RoomIds, start, end \in Bound :
                createBooking(r, user, room, start, end)
    BY <2>4 DEF createBooking, StoreNext
  <2>5. CASE \E id \in 1..MaxBookings, room \in RoomIds, start, end \in Bound :
                updateBooking(r, id, room, start, end)
    BY <2>5 DEF updateBooking, StoreNext
  <2>6. CASE \E id \in BookingIds : cancelBooking(r, id)
    BY <2>6 DEF cancelBooking, StoreNext
  <2>7. CASE Rejected(r)
    BY <2>7 DEF Rejected
  <2>8. QED
    BY <1>1, <2>1, <2>2, <2>3, <2>4, <2>5, <2>6, <2>7 DEF Statement
<1>2. ASSUME NEW r \in Requests, Continue(r) PROVE [StoreNext]_store
  BY <1>2 DEF Continue, enqueueTask, enqueueFault, enqueueCancelled, Reply
<1>3. ASSUME NEW r \in Requests, Disconnect(r) PROVE [StoreNext]_store
  BY <1>3 DEF Disconnect
<1>4. ASSUME UNCHANGED vars PROVE [StoreNext]_store
  BY <1>4 DEF vars
<1>5. ASSUME Crash PROVE [StoreNext]_store
  BY <1>5 DEF Crash
<1>6. ASSUME ApplyLate PROVE [StoreNext]_store
  BY <1>6 DEF ApplyLate
<1>7. QED
  BY <1>1, <1>2, <1>3, <1>4, <1>5, <1>6 DEF Next, Terminated

(* The engine implements the database: however its handlers interleave,     *)
(* meet each other's rows, lose Redis or die, what they do to the tables   *)
(* is a behaviour of StoreSpec (handler.go:120-309).                        *)
THEOREM EngineImplementsStore == Spec => StoreSpec
<1>1. Init => StoreInit
  BY DEF Init
<1>2. QED
  BY <1>1, NextRefinesStore, PTL DEF Spec, StoreSpec

(* No interleaving of handlers double-books a room (README.md:108). *)
THEOREM EngineNeverDoubleBooks == Spec => []NoDoubleBooking
BY EngineImplementsStore, NeverDoubleBooked, PTL

---------------------------------------------------------------------------
(* The inductive invariant behind the theorems on jobs and answers.         *)

(* A handler only reaches the fan-out with an event of a committed          *)
(* statement, and from then on the event does not change.                  *)
HandlerInv ==
    \A r \in Requests :
        /\ pc[r] = "idle" => event[r] = NoEvent
        /\ pc[r] = "enqueue" => event[r] # NoEvent
        /\ pc[r] # "enqueue" => task[r] = 1
        /\ event[r] # NoEvent => r \in applied
        /\ reply[r] = "success" => event[r] # NoEvent
        /\ reply[r] = "error" => event[r] = NoEvent
        /\ reply[r] # "none" => pc[r] = "done"

(* Every task of request r before task t is on the list. *)
Reached(r, t) == \A u \in 1..(t - 1) : Copies(r, u) # {}

(* No task of request r from task t on is on the list. *)
NotBeyond(r, t) == \A i \in Pushed(r) : TaskIndex(queue[i]) < t

(* A job on the list is of a committed request, and carries its event.      *)
ForCommit(job) ==
    /\ job.by \in applied
    /\ event[job.by] # NoEvent
    /\ job.event = event[job.by]

JobsForCommits == \A i \in DOMAIN queue : ForCommit(queue[i])

(* A job that is pushed next stands for a commit, finds the earlier tasks   *)
(* on the list, and no other unless an LPUSH of its request has failed.     *)
Due(job) ==
    /\ job \in Job
    /\ ForCommit(job)
    /\ Reached(job.by, TaskIndex(job))
    /\ job.by \notin redisFault => NotBeyond(job.by, TaskIndex(job))

(* A handler that pushes a task is due to; a late LPUSH is due, and without *)
(* a fault it is the one the end of the process left behind.               *)
LateInv ==
    \A c \in late :
        /\ Due(c.job)
        /\ c.job.by \notin redisFault => /\ pc[c.job.by] = "dead"
                                         /\ \A d \in late : d.job.by = c.job.by => d = c

FanOutInv ==
    \A r \in Requests : pc[r] = "enqueue" =>
        /\ Reached(r, task[r])
        /\ r \notin redisFault => NotBeyond(r, task[r])

EngineInv ==
    /\ StoreInv
    /\ TypeOK
    /\ HandlerInv
    /\ FanOutInv
    /\ LateInv
    /\ JobsForCommits
    /\ FanOutInOrder
    /\ NoSilentLoss

(* The tasks of the fan-out have different types. *)
LEMMA TaskIndexOf ==
    ASSUME NEW job \in Job
    PROVE  /\ TaskIndex(job) \in 1..Len(TaskTypes)
           /\ TaskTypes[TaskIndex(job)] = job.type
           /\ \A t \in 1..Len(TaskTypes) : TaskTypes[t] = job.type => t = TaskIndex(job)
<1>1. job.type \in {"email", "sms", "audit_log"}
  BY DEF Job
<1>2. \E t \in DOMAIN TaskTypes : TaskTypes[t] = job.type
  BY <1>1 DEF TaskTypes
<1>3. TaskIndex(job) \in DOMAIN TaskTypes /\ TaskTypes[TaskIndex(job)] = job.type
  BY <1>2 DEF TaskIndex
<1>4. \A t, u \in 1..Len(TaskTypes) : TaskTypes[t] = TaskTypes[u] => t = u
  BY DEF TaskTypes
<1>5. DOMAIN TaskTypes = 1..Len(TaskTypes)
  BY DEF TaskTypes
<1>6. QED
  BY <1>3, <1>4, <1>5

(* The jobs of request r on a list, and what FanOutInOrder says of one job. *)
By(q, r) == {i \in DOMAIN q : q[i].by = r}

InOrderAt(q, faulty, j) ==
    /\ \A u \in 1..(TaskIndex(q[j]) - 1) :
          \E i \in By(q, q[j].by) : i < j /\ TaskIndex(q[i]) = u
    /\ q[j].by \notin faulty =>
          \A i \in By(q, q[j].by) : i < j => TaskIndex(q[i]) < TaskIndex(q[j])

LEMMA InOrderByJob ==
    ASSUME NEW q \in Seq(Job), NEW faulty, NEW j \in DOMAIN q
    PROVE  LET t == TaskIndex(q[j])
               earlier == {TaskIndex(q[i]) : i \in {k \in By(q, q[j].by) : k < j}}
           IN  (/\ 1..(t - 1) \subseteq earlier
                /\ q[j].by \notin faulty => earlier = 1..(t - 1))
               <=> InOrderAt(q, faulty, j)
<1> DEFINE t == TaskIndex(q[j])
           earlier == {TaskIndex(q[i]) : i \in {k \in By(q, q[j].by) : k < j}}
<1>1. \A i \in DOMAIN q : TaskIndex(q[i]) \in 1..Len(TaskTypes) /\ TaskIndex(q[i]) \in Nat \ {0}
  BY TaskIndexOf DEF TaskTypes
<1>2. 1..(t - 1) \subseteq earlier
        <=> \A u \in 1..(t - 1) : \E i \in By(q, q[j].by) : i < j /\ TaskIndex(q[i]) = u
  OBVIOUS
<1>3. earlier \subseteq 1..(t - 1)
        <=> \A i \in By(q, q[j].by) : i < j => TaskIndex(q[i]) < t
  <2>1. \A i \in By(q, q[j].by) : TaskIndex(q[i]) \in 1..(t - 1) <=> TaskIndex(q[i]) < t
    BY <1>1 DEF By
  <2>2. QED
    BY <2>1
<1>4. QED
  BY <1>2, <1>3 DEF InOrderAt

(* Redis pushes a job that is due. *)
LEMMA PushDue ==
    ASSUME EngineInv, NEW job, Due(job), queue' = Append(queue, job),
           UNCHANGED <<event, applied, redisFault>>
    PROVE  /\ queue' \in Seq(Job)
           /\ JobsForCommits'
           /\ FanOutInOrder'
           /\ \A r \in Requests : \A t \in DOMAIN TaskTypes : Copies(r, t) \subseteq Copies(r, t)'
           /\ Copies(job.by, TaskIndex(job))' # {}
           /\ \A r \in Requests : r # job.by => Pushed(r)' = Pushed(r)
           /\ Pushed(job.by)' = Pushed(job.by) \cup {Len(queue) + 1}
           /\ \A i \in DOMAIN queue : queue'[i] = queue[i]
           /\ queue'[Len(queue) + 1] = job
<1>1. job \in Job /\ queue \in Seq(Job)
  BY DEF EngineInv, TypeOK, Due
<1>2. /\ queue' \in Seq(Job)
      /\ DOMAIN queue' = DOMAIN queue \cup {Len(queue) + 1}
      /\ Len(queue) \in Nat
      /\ DOMAIN queue = 1..Len(queue)
      /\ \A i \in DOMAIN queue : queue'[i] = queue[i]
      /\ queue'[Len(queue) + 1] = job
  BY <1>1
<1>3. JobsForCommits'
  BY <1>2 DEF EngineInv, JobsForCommits, ForCommit, Due
<1>4. /\ \A r : r # job.by => Pushed(r)' = Pushed(r)
      /\ Pushed(job.by)' = Pushed(job.by) \cup {Len(queue) + 1}
      /\ \A r : Pushed(r) \subseteq DOMAIN queue
  BY <1>2 DEF Pushed
<1>5. \A r : \A t : Copies(r, t) \subseteq Copies(r, t)'
  BY <1>2, <1>4 DEF Copies
<1>6. Copies(job.by, TaskIndex(job))' # {}
  BY <1>1, <1>2, <1>4, TaskIndexOf DEF Copies
<1>7. FanOutInOrder'
  <2>1. ASSUME NEW j \in DOMAIN queue'
        PROVE  InOrderAt(queue', redisFault', j)
    <3>1. CASE j \in DOMAIN queue
      <4>1. InOrderAt(queue, redisFault, j)
        BY <1>1, <3>1, InOrderByJob DEF EngineInv, FanOutInOrder, Pushed, By
      <4>2. /\ queue'[j] = queue[j]
            /\ \A i \in DOMAIN queue' : i < j => i \in DOMAIN queue /\ queue'[i] = queue[i]
        BY <1>2, <3>1
      <4>3. DOMAIN queue \subseteq DOMAIN queue'
        BY <1>2
      <4>4. \A r, i : i < j => (i \in By(queue, r) <=> i \in By(queue', r))
        BY <4>2, <4>3 DEF By
      <4>5. \A i \in By(queue, queue[j].by) : i < j => queue'[i] = queue[i]
        BY <4>2, <4>3 DEF By
      <4>6. QED
        BY <4>1, <4>2, <4>4, <4>5 DEF InOrderAt
    <3>2. CASE j = Len(queue) + 1
      <4>1. queue'[j] = job
        BY <1>2, <3>2
      <4>2. ASSUME NEW u \in 1..(TaskIndex(job) - 1)
            PROVE  \E i \in By(queue', job.by) : i < j /\ TaskIndex(queue'[i]) = u
        <5>1. u \in 1..Len(TaskTypes)
          BY <1>1, TaskIndexOf DEF TaskTypes
        <5>2. PICK i \in Pushed(job.by) : queue[i].type = TaskTypes[u]
          BY DEF Due, Reached, Copies
        <5>3. queue[i] \in Job /\ queue'[i] = queue[i] /\ i < j
          BY <1>1, <1>2, <1>4, <3>2
        <5>4. TaskIndex(queue[i]) = u
          BY <5>1, <5>2, <5>3, TaskIndexOf
        <5>5. i \in By(queue', job.by)
          BY <1>2, <5>3 DEF By, Pushed
        <5>6. QED
          BY <5>3, <5>4, <5>5
      <4>3. ASSUME job.by \notin redisFault', NEW i \in By(queue', job.by), i < j
            PROVE  TaskIndex(queue'[i]) < TaskIndex(job)
        <5>1. i \in Pushed(job.by) /\ queue'[i] = queue[i]
          BY <1>2, <3>2, <4>3 DEF By, Pushed
        <5>2. QED
          BY <4>3, <5>1 DEF Due, NotBeyond
      <4>4. QED
        BY <4>1, <4>2, <4>3 DEF InOrderAt
    <3>3. QED
      BY <1>2, <3>1, <3>2
  <2>2. QED
    BY <1>2, <2>1, InOrderByJob DEF FanOutInOrder, Pushed, By
<1>8. QED
  BY <1>2, <1>3, <1>4, <1>5, <1>6, <1>7

(* Redis pushes nothing: what was due stays due. *)
LEMMA PushNothing ==
    ASSUME EngineInv, queue' = queue, applied \subseteq applied',
           redisFault \subseteq redisFault',
           \A r \in applied : event[r] # NoEvent => event'[r] = event[r]
    PROVE  /\ queue' \in Seq(Job)
           /\ JobsForCommits'
           /\ FanOutInOrder'
           /\ \A r \in Requests : Pushed(r)' = Pushed(r)
           /\ \A r \in Requests : \A t \in DOMAIN TaskTypes : Copies(r, t)' = Copies(r, t)
           /\ \A job : Due(job) => Due(job)'
           /\ \A r, t : Reached(r, t)' = Reached(r, t) /\ NotBeyond(r, t)' = NotBeyond(r, t)
<1>1. /\ \A r : Pushed(r)' = Pushed(r)
      /\ \A r : \A t : Copies(r, t)' = Copies(r, t)
      /\ \A r, t : Reached(r, t)' = Reached(r, t) /\ NotBeyond(r, t)' = NotBeyond(r, t)
  BY DEF Pushed, Copies, Reached, NotBeyond
<1>2. \A job : ForCommit(job) => ForCommit(job)'
  BY DEF ForCommit
<1>3. JobsForCommits'
  BY <1>2 DEF EngineInv, JobsForCommits
<1>4. FanOutInOrder'
  BY <1>1 DEF EngineInv, FanOutInOrder
<1>5. \A job : Due(job) => Due(job)'
  BY <1>1, <1>2 DEF Due
<1>6. QED
  BY <1>1, <1>3, <1>4, <1>5 DEF EngineInv, TypeOK

(* FanOutInv of the next state, task by task. *)
LEMMA FanOutInvFrom ==
    ASSUME \A q \in Requests : \A t :
              pc'[q] = "enqueue" /\ task'[q] = t =>
                 Reached(q, t)' /\ (q \notin redisFault' => NotBeyond(q, t)')
    PROVE  FanOutInv'
BY DEF FanOutInv, Reached, NotBeyond

(* A request without an event has no job, on the list or under way. *)
LEMMA NoEventNoJob ==
    ASSUME EngineInv, NEW r \in Requests, event[r] = NoEvent
    PROVE  Pushed(r) = {} /\ \A c \in late : c.job.by # r
BY DEF EngineInv, JobsForCommits, ForCommit, Pushed, LateInv, Due

(* The job a handler in its fan-out pushes is due, and numbered by task. *)
LEMMA CurrentJobDue ==
    ASSUME EngineInv, NEW r \in Requests, pc[r] = "enqueue"
    PROVE  /\ Due(CurrentJob(r))
           /\ CurrentJob(r).by = r
           /\ TaskIndex(CurrentJob(r)) = task[r]
<1>1. task[r] \in 1..Len(TaskTypes) /\ event[r] \in Event /\ event[r] # NoEvent /\ r \in applied
  BY DEF EngineInv, TypeOK, HandlerInv
<1>2. CurrentJob(r) \in Job
  BY <1>1 DEF CurrentJob, Job, TaskTypes
<1>3. /\ CurrentJob(r).by = r
      /\ CurrentJob(r).event = event[r]
      /\ CurrentJob(r).type = TaskTypes[task[r]]
  BY DEF CurrentJob
<1>4. TaskIndex(CurrentJob(r)) = task[r]
  BY <1>1, <1>2, <1>3, TaskIndexOf
<1>5. QED
  BY <1>1, <1>2, <1>3, <1>4 DEF Due, ForCommit, EngineInv, FanOutInv

(* The commands that may still be applied after a fault are due. *)
LEMMA UnansweredLate ==
    ASSUME EngineInv, NEW rs \in SUBSET {r \in Requests : pc[r] = "enqueue"}, Unanswered(rs)
    PROVE  /\ late' \subseteq Command
           /\ \A c \in late' \ late : /\ Due(c.job)
                                      /\ c.job.by \in rs
                                      /\ c = [job |-> CurrentJob(c.job.by),
                                              attempt |-> attempt[c.job.by]]
<1>1. PICK sent \in SUBSET rs :
        late' = late \cup {[job |-> CurrentJob(r), attempt |-> attempt[r]] : r \in sent}
  BY DEF Unanswered
<1>2. ASSUME NEW r \in sent
      PROVE  /\ r \in Requests
             /\ Due(CurrentJob(r))
             /\ CurrentJob(r).by = r
             /\ CurrentJob(r) \in Job
             /\ attempt[r] \in 0..MaxRetries
  BY CurrentJobDue DEF EngineInv, TypeOK, Due
<1>3. QED
  BY <1>1, <1>2 DEF Command, EngineInv, TypeOK

---------------------------------------------------------------------------
LEMMA CommittedInv ==
    ASSUME EngineInv, StoreInv', NEW r \in Requests, NEW e \in {"user", "booking"},
           NEW id \in Int, NEW d \in Details, Committed(r, e, id, d)
    PROVE  EngineInv'
<1> DEFINE new == [entity |-> e, id |-> id, details |-> d]
<1>1. new \in Event /\ new # NoEvent
  BY EngineAssumption DEF Event
<1> HIDE DEF new
<1>2. /\ pc[r] = "idle"
      /\ applied' = applied \cup {r}
      /\ found' \in {found, found \cup {r}}
      /\ UNCHANGED <<task, attempt, queue, late, gone, warned, reply, redisFault>>
      /\ \/ pc' = [pc EXCEPT ![r] = "enqueue"] /\ event' = [event EXCEPT ![r] = new]
         \/ pc' = [pc EXCEPT ![r] = "reply"] /\ event' = event
  BY DEF Committed, new
<1>3. event[r] = NoEvent /\ task[r] = 1 /\ reply[r] = "none"
  BY <1>2 DEF EngineInv, HandlerInv, TypeOK
<1>4. TypeOK'
  BY <1>1, <1>2 DEF EngineInv, TypeOK
<1>5. \A q \in Requests \ {r} : pc'[q] = pc[q] /\ event'[q] = event[q]
  BY <1>2 DEF EngineInv, TypeOK
<1>6. HandlerInv'
  <2>1. \/ pc'[r] = "enqueue" /\ event'[r] # NoEvent
        \/ pc'[r] = "reply" /\ event'[r] = NoEvent
    BY <1>1, <1>2, <1>3 DEF EngineInv, TypeOK
  <2>2. QED
    BY <1>2, <1>3, <1>5, <2>1 DEF EngineInv, HandlerInv
<1>7. \A q \in Requests : event[q] # NoEvent => event'[q] = event[q]
  BY <1>3, <1>5
<1>8. /\ JobsForCommits'
      /\ FanOutInOrder'
      /\ \A q \in Requests : Pushed(q)' = Pushed(q)
      /\ \A q \in Requests : \A t \in DOMAIN TaskTypes : Copies(q, t)' = Copies(q, t)
      /\ \A job : Due(job) => Due(job)'
      /\ \A q, t : Reached(q, t)' = Reached(q, t) /\ NotBeyond(q, t)' = NotBeyond(q, t)
  BY <1>2, <1>7, PushNothing DEF EngineInv, TypeOK
<1>9. Pushed(r) = {} /\ \A c \in late : c.job.by # r
  BY <1>3, NoEventNoJob
<1>10. LateInv'
  <2>1. \A c \in late : c.job.by \in Requests
    BY DEF EngineInv, TypeOK, Command, Job
  <2>2. QED
    BY <1>2, <1>5, <1>8, <1>9, <2>1 DEF EngineInv, LateInv
<1>11. FanOutInv'
  <2>1. ASSUME NEW q \in Requests, NEW t, pc'[q] = "enqueue", task'[q] = t
        PROVE  Reached(q, t)' /\ (q \notin redisFault' => NotBeyond(q, t)')
    <3>1. CASE q = r
      BY <1>2, <1>3, <1>8, <1>9, <2>1, <3>1 DEF Reached, NotBeyond
    <3>2. CASE q # r
      BY <1>2, <1>5, <1>8, <2>1, <3>2 DEF EngineInv, FanOutInv
    <3>3. QED
      BY <3>1, <3>2
  <2>2. QED
    BY <2>1, FanOutInvFrom
<1>12. NoSilentLoss'
  <2>1. pc'[r] = "reply" => event'[r] = NoEvent
    BY <1>2, <1>3 DEF EngineInv, TypeOK
  <2>2. pc'[r] # "done"
    BY <1>2 DEF EngineInv, TypeOK
  <2>3. QED
    BY <1>2, <1>5, <1>8, <2>1, <2>2 DEF EngineInv, NoSilentLoss
<1>13. QED
  BY <1>4, <1>6, <1>8, <1>10, <1>11, <1>12 DEF EngineInv

LEMMA NoLossWithoutPush ==
    ASSUME NoSilentLoss, UNCHANGED <<event, queue>>,
           \A r \in Requests : pc'[r] \in {"reply", "done"} /\ r \notin warned' =>
                                  pc[r] \in {"reply", "done"} /\ r \notin warned
    PROVE  NoSilentLoss'
<1>1. \A r, t : Copies(r, t)' = Copies(r, t)
  BY DEF Copies, Pushed
<1>2. QED
  BY <1>1 DEF NoSilentLoss

LEMMA FirstTask == 1 \in 1..Len(TaskTypes)
BY DEF TaskTypes

(* A step that pushes nothing and starts no fan-out. *)
LEMMA NoPushInv ==
    ASSUME EngineInv, UNCHANGED <<store, event, queue, applied>>,
           redisFault \subseteq redisFault',
           TypeOK', HandlerInv', NoSilentLoss',
           \A q \in Requests : pc'[q] = "enqueue" => pc[q] = "enqueue" /\ task'[q] = task[q],
           \A c \in late' :
              /\ c \in late \/ Due(c.job)
              /\ c.job.by \notin redisFault' =>
                    /\ pc'[c.job.by] = "dead"
                    /\ \A d \in late' : d.job.by = c.job.by => d = c
    PROVE  EngineInv'
<1>1. /\ JobsForCommits'
      /\ FanOutInOrder'
      /\ \A job : Due(job) => Due(job)'
      /\ \A q, t : Reached(q, t)' = Reached(q, t) /\ NotBeyond(q, t)' = NotBeyond(q, t)
  BY PushNothing
<1>2. StoreInv'
  BY StutterStoreInv DEF EngineInv
<1>3. FanOutInv'
  <2>1. ASSUME NEW q \in Requests, NEW t, pc'[q] = "enqueue", task'[q] = t
        PROVE  Reached(q, t)' /\ (q \notin redisFault' => NotBeyond(q, t)')
    BY <1>1, <2>1 DEF EngineInv, FanOutInv
  <2>2. QED
    BY <2>1, FanOutInvFrom
<1>4. LateInv'
  <2>1. ASSUME NEW c \in late' PROVE Due(c.job)'
    BY <1>1, <2>1 DEF EngineInv, LateInv
  <2>2. QED
    BY <2>1 DEF LateInv
<1>5. QED
  BY <1>1, <1>2, <1>3, <1>4 DEF EngineInv

LEMMA RejectedInv ==
    ASSUME EngineInv, NEW r \in Requests, Rejected(r)
    PROVE  EngineInv'
<1>1. /\ pc[r] = "idle"
      /\ pc' = [pc EXCEPT ![r] = "reply"]
      /\ UNCHANGED <<event, task, attempt, queue, late, gone, warned, reply, applied, found, redisFault>>
      /\ UNCHANGED store
  BY DEF Rejected
<1>2. event[r] = NoEvent /\ task[r] = 1
  BY <1>1 DEF EngineInv, HandlerInv
<1>3. TypeOK'
  BY <1>1 DEF EngineInv, TypeOK
<1>4. HandlerInv'
  BY <1>1, <1>2 DEF EngineInv, HandlerInv, TypeOK
<1>5. NoSilentLoss'
  BY <1>1, <1>2 DEF EngineInv, NoSilentLoss, TypeOK, Copies, Pushed
<1>6. QED
  BY <1>1, <1>3, <1>4, <1>5, NoPushInv DEF EngineInv, LateInv, TypeOK

LEMMA StatementInv ==
    ASSUME EngineInv, StoreInv', NEW r \in Requests, Statement(r)
    PROVE  EngineInv'
<1>1. UserIds \subseteq Int /\ 1..MaxUsers \subseteq Int
  BY StoreAssumption DEF UserIds
<1>2. BookingIds \subseteq Int /\ 1..MaxBookings \subseteq Int
  BY StoreAssumption DEF BookingIds
<1>3. CASE \E email \in Emails : createUser(r, email)
  <2>1. userSeq' \in Int
    BY StoreAssumption DEF StoreInv, StoreTypeOK
  <2>2. QED
    BY <1>3, <2>1, CommittedInv DEF createUser, Details
<1>4. CASE \E id \in 1..MaxUsers, email \in Emails : updateUser(r, id, email)
  BY <1>1, <1>4, CommittedInv DEF updateUser, Details
<1>5. CASE \E id \in UserIds : deactivateUser(r, id)
  BY <1>1, <1>5, CommittedInv DEF deactivateUser, Details
<1>6. CASE \E user \in 1..MaxUsers, room \in RoomIds, start, end \in Bound :
              createBooking(r, user, room, start, end)
  <2>1. bookingSeq' \in Int
    BY StoreAssumption DEF StoreInv, StoreTypeOK
  <2>2. QED
    BY <1>6, <2>1, CommittedInv DEF createBooking, Details
<1>7. CASE \E id \in 1..MaxBookings, room \in RoomIds, start, end \in Bound :
              updateBooking(r, id, room, start, end)
  BY <1>2, <1>7, CommittedInv DEF updateBooking, Details
<1>8. CASE \E id \in BookingIds : cancelBooking(r, id)
  BY <1>2, <1>8, CommittedInv DEF cancelBooking, Details
<1>9. CASE Rejected(r)
  BY <1>9, RejectedInv
<1>10. QED
  BY <1>3, <1>4, <1>5, <1>6, <1>7, <1>8, <1>9 DEF Statement

(* The end of a fan-out without a push, with a warning. *)
LEMMA FaultInv ==
    ASSUME EngineInv, NEW r \in Requests, enqueueFault(r)
    PROVE  EngineInv'
<1>1. /\ pc[r] = "enqueue"
      /\ Unanswered({r})
      /\ redisFault' = redisFault \cup {r}
      /\ UNCHANGED <<event, queue, gone, reply, applied, found>>
      /\ UNCHANGED store
      /\ \/ /\ attempt[r] < MaxRetries
            /\ attempt' = [attempt EXCEPT ![r] = @ + 1]
            /\ UNCHANGED <<pc, task, warned>>
         \/ /\ pc' = [pc EXCEPT ![r] = "reply"]
            /\ task' = [task EXCEPT ![r] = 1]
            /\ attempt' = [attempt EXCEPT ![r] = 0]
            /\ warned' = warned \cup {r}
  BY DEF enqueueFault, GiveUp, EndFanOut
<1>2. /\ late' \subseteq Command
      /\ \A c \in late' \ late : Due(c.job) /\ c.job.by = r
  <2>1. {r} \in SUBSET {q \in Requests : pc[q] = "enqueue"}
    BY <1>1
  <2>2. QED
    BY <1>1, <2>1, UnansweredLate
<1>3. TypeOK'
  <2>1. attempt' \in [Requests -> 0..MaxRetries]
    <3>1. attempt[r] \in 0..MaxRetries /\ 0 \in 0..MaxRetries
      BY EngineAssumption DEF EngineInv, TypeOK
    <3>2. attempt[r] < MaxRetries => attempt[r] + 1 \in 0..MaxRetries
      BY <3>1, EngineAssumption
    <3>3. QED
      BY <1>1, <3>1, <3>2 DEF EngineInv, TypeOK
  <2>2. task' \in [Requests -> 1..Len(TaskTypes)]
    BY <1>1, FirstTask DEF EngineInv, TypeOK
  <2>3. QED
    BY <1>1, <1>2, <2>1, <2>2 DEF EngineInv, TypeOK
<1>4. HandlerInv'
  BY <1>1 DEF EngineInv, HandlerInv, TypeOK
<1>5. NoSilentLoss'
  <2>1. \A q \in Requests : pc'[q] \in {"reply", "done"} /\ q \notin warned' =>
                               pc[q] \in {"reply", "done"} /\ q \notin warned
    BY <1>1 DEF EngineInv, TypeOK
  <2>2. QED
    BY <1>1, <2>1, NoLossWithoutPush DEF EngineInv
<1>6. \A c \in late' : c.job.by \notin redisFault' =>
         /\ pc'[c.job.by] = "dead"
         /\ \A d \in late' : d.job.by = c.job.by => d = c
  <2>1. ASSUME NEW c \in late', c.job.by \notin redisFault'
        PROVE  /\ pc'[c.job.by] = "dead"
               /\ \A d \in late' : d.job.by = c.job.by => d = c
    <3>1. c \in late /\ c.job.by # r /\ c.job.by \in Requests
      BY <1>1, <1>2, <2>1 DEF Command, Job
    <3>2. pc'[c.job.by] = pc[c.job.by]
      BY <1>1, <3>1 DEF EngineInv, TypeOK
    <3>3. QED
      BY <1>1, <1>2, <2>1, <3>1, <3>2 DEF EngineInv, LateInv
  <2>2. QED
    BY <2>1
<1>7. \A q \in Requests : pc'[q] = "enqueue" => pc[q] = "enqueue" /\ task'[q] = task[q]
  BY <1>1 DEF EngineInv, TypeOK
<1>8. QED
  BY <1>1, <1>2, <1>3, <1>4, <1>5, <1>6, <1>7, NoPushInv

LEMMA QuietInv ==
    ASSUME EngineInv, NEW r \in Requests,
           enqueueCancelled(r) \/ Reply(r) \/ Disconnect(r)
    PROVE  EngineInv'
<1>1. UNCHANGED <<store, event, queue, late, applied, redisFault>>
  BY DEF enqueueCancelled, Reply, Disconnect
<1>2. TypeOK'
  <2>1. CASE enqueueCancelled(r)
    <3>1. task' = [task EXCEPT ![r] = 1] /\ attempt' = [attempt EXCEPT ![r] = 0]
      BY <2>1 DEF enqueueCancelled, GiveUp, EndFanOut
    <3>2. task' \in [Requests -> 1..Len(TaskTypes)] /\ attempt' \in [Requests -> 0..MaxRetries]
      BY <3>1, FirstTask, EngineAssumption DEF EngineInv, TypeOK
    <3>3. QED
      BY <2>1, <3>2 DEF enqueueCancelled, GiveUp, EndFanOut, EngineInv, TypeOK
  <2>2. CASE Reply(r)
    BY <2>2 DEF Reply, EngineInv, TypeOK
  <2>3. CASE Disconnect(r)
    BY <2>3 DEF Disconnect, EngineInv, TypeOK
  <2>4. QED
    BY <2>1, <2>2, <2>3
<1>3. HandlerInv'
  BY DEF enqueueCancelled, Reply, Disconnect, GiveUp, EndFanOut, EngineInv, TypeOK, HandlerInv
<1>4. NoSilentLoss'
  <2>1. \A q \in Requests : pc'[q] \in {"reply", "done"} /\ q \notin warned' =>
                               pc[q] \in {"reply", "done"} /\ q \notin warned
    BY DEF enqueueCancelled, Reply, Disconnect, GiveUp, EndFanOut, EngineInv, TypeOK
  <2>2. QED
    BY <1>1, <2>1, NoLossWithoutPush DEF EngineInv
<1>5. \A q \in Requests :
         /\ pc'[q] = "enqueue" => pc[q] = "enqueue" /\ task'[q] = task[q]
         /\ pc[q] = "dead" => pc'[q] = "dead"
  BY DEF enqueueCancelled, Reply, Disconnect, GiveUp, EndFanOut, EngineInv, TypeOK
<1>6. \A c \in late : c.job.by \in Requests
  BY DEF EngineInv, TypeOK, Command, Job
<1>7. QED
  BY <1>1, <1>2, <1>3, <1>4, <1>5, <1>6, NoPushInv DEF EngineInv, LateInv

(* The acknowledged LPUSH. *)
LEMMA TaskInv ==
    ASSUME EngineInv, NEW r \in Requests, enqueueTask(r)
    PROVE  EngineInv'
<1> PICK job : job = CurrentJob(r)
  OBVIOUS
<1>1. /\ pc[r] = "enqueue"
      /\ queue' = Append(queue, job)
      /\ UNCHANGED <<store, event, late, gone, warned, reply, applied, found, redisFault>>
      /\ \/ /\ task[r] = Len(TaskTypes)
            /\ pc' = [pc EXCEPT ![r] = "reply"]
            /\ task' = [task EXCEPT ![r] = 1]
            /\ attempt' = [attempt EXCEPT ![r] = 0]
         \/ /\ task[r] < Len(TaskTypes)
            /\ task' = [task EXCEPT ![r] = @ + 1]
            /\ attempt' = [attempt EXCEPT ![r] = 0]
            /\ pc' = pc
  BY DEF enqueueTask, EndFanOut
<1>2. Due(job) /\ job.by = r /\ TaskIndex(job) = task[r]
  BY <1>1, CurrentJobDue
<1>3. /\ queue' \in Seq(Job)
      /\ JobsForCommits'
      /\ FanOutInOrder'
      /\ \A q \in Requests : \A t \in DOMAIN TaskTypes : Copies(q, t) \subseteq Copies(q, t)'
      /\ \A t : t = task[r] => Copies(r, t)' # {}
      /\ \A q \in Requests : q # r => Pushed(q)' = Pushed(q)
      /\ Pushed(r)' = Pushed(r) \cup {Len(queue) + 1}
      /\ \A i \in DOMAIN queue : queue'[i] = queue[i]
      /\ queue'[Len(queue) + 1] = job
  BY <1>1, <1>2, PushDue
<1>4. /\ Len(TaskTypes) = 3
      /\ DOMAIN TaskTypes = 1..3
      /\ task[r] \in 1..3
  BY DEF TaskTypes, EngineInv, TypeOK
<1>5. TypeOK'
  <2>1. task' \in [Requests -> 1..Len(TaskTypes)]
    <3>1. task[r] < Len(TaskTypes) => task[r] + 1 \in 1..Len(TaskTypes)
      BY <1>4
    <3>2. QED
      BY <1>1, <3>1, FirstTask DEF EngineInv, TypeOK
  <2>2. attempt' \in [Requests -> 0..MaxRetries]
    <3>1. 0 \in 0..MaxRetries
      BY EngineAssumption
    <3>2. QED
      BY <1>1, <3>1 DEF EngineInv, TypeOK
  <2>3. QED
    BY <1>1, <1>3, <2>1, <2>2 DEF EngineInv, TypeOK
<1>6. HandlerInv'
  BY <1>1 DEF EngineInv, HandlerInv, TypeOK
<1>7. ASSUME NEW q \in Requests, NEW t \in Int, t <= 4, Reached(q, t) PROVE Reached(q, t)'
  BY <1>3, <1>4, <1>7 DEF Reached
<1>8. ASSUME NEW t \in Int, t = task[r] + 1
      PROVE  Reached(r, t)' /\ (r \notin redisFault => NotBeyond(r, t)')
  <2>1. \A u \in 1..(t - 1) : u \in 1..(task[r] - 1) \/ u = task[r]
    BY <1>4, <1>8
  <2>2. Reached(r, task[r])
    BY <1>1 DEF EngineInv, FanOutInv
  <2>3. Reached(r, t)'
    BY <1>3, <1>4, <2>1, <2>2 DEF Reached
  <2>4. ASSUME r \notin redisFault PROVE NotBeyond(r, t)'
    <3>1. \A i \in Pushed(r) : TaskIndex(queue[i]) < task[r] /\ i \in DOMAIN queue
      BY <1>1, <2>4 DEF EngineInv, FanOutInv, NotBeyond, Pushed
    <3>2. \A i \in Pushed(r) : TaskIndex(queue[i]) \in Int
      BY TaskIndexOf DEF Pushed, EngineInv, TypeOK
    <3>3. \A i \in Pushed(r)' : TaskIndex(queue'[i]) < t
      BY <1>2, <1>3, <1>4, <1>8, <3>1, <3>2
    <3>4. QED
      BY <3>3 DEF NotBeyond
  <2>5. QED
    BY <2>3, <2>4
<1>9. FanOutInv'
  <2>1. ASSUME NEW q \in Requests, NEW t, pc'[q] = "enqueue", task'[q] = t
        PROVE  Reached(q, t)' /\ (q \notin redisFault' => NotBeyond(q, t)')
    <3>1. CASE q = r
      <4>1. t = task[r] + 1 /\ t \in Int
        BY <1>1, <1>4, <2>1, <3>1 DEF EngineInv, TypeOK
      <4>2. QED
        BY <1>1, <1>8, <3>1, <4>1
    <3>2. CASE q # r
      <4>1. pc[q] = "enqueue" /\ task[q] = t /\ t \in 1..3
        BY <1>1, <1>4, <2>1, <3>2 DEF EngineInv, TypeOK
      <4>2. Reached(q, t) /\ (q \notin redisFault => NotBeyond(q, t))
        BY <4>1 DEF EngineInv, FanOutInv
      <4>3. NotBeyond(q, t) => NotBeyond(q, t)'
        BY <1>3, <3>2 DEF NotBeyond, Pushed
      <4>4. QED
        BY <1>1, <1>7, <4>1, <4>2, <4>3
    <3>3. QED
      BY <3>1, <3>2
  <2>2. QED
    BY <2>1, FanOutInvFrom
<1>10. LateInv'
  <2>1. ASSUME NEW c \in late
        PROVE  /\ Due(c.job)'
               /\ c.job.by \notin redisFault' =>
                    /\ pc'[c.job.by] = "dead"
                    /\ \A d \in late' : d.job.by = c.job.by => d = c
    <3>1. /\ Due(c.job)
          /\ c.job.by \notin redisFault =>
                /\ pc[c.job.by] = "dead"
                /\ \A d \in late : d.job.by = c.job.by => d = c
          /\ c.job.by \in Requests
      BY DEF EngineInv, LateInv, TypeOK, Command, Job
    <3>2. TaskIndex(c.job) \in Int /\ TaskIndex(c.job) <= 4
      BY <1>4, <3>1, TaskIndexOf DEF Due
    <3>3. c.job.by \notin redisFault => c.job.by # r /\ pc'[c.job.by] = "dead"
      BY <1>1, <3>1 DEF EngineInv, TypeOK
    <3>4. c.job.by \notin redisFault => NotBeyond(c.job.by, TaskIndex(c.job))'
      BY <1>3, <3>1, <3>3 DEF NotBeyond, Due, Pushed
    <3>5. Reached(c.job.by, TaskIndex(c.job))'
      BY <1>7, <3>1, <3>2 DEF Due
    <3>6. ForCommit(c.job)'
      BY <1>1, <3>1 DEF Due, ForCommit
    <3>7. QED
      BY <1>1, <3>1, <3>3, <3>4, <3>5, <3>6 DEF Due
  <2>2. QED
    BY <1>1, <2>1 DEF LateInv
<1>11. NoSilentLoss'
  <2>1. ASSUME NEW q \in Requests, pc'[q] \in {"reply", "done"}, event'[q] # NoEvent,
               q \notin warned', NEW t \in DOMAIN TaskTypes
        PROVE  Copies(q, t)' # {}
    <3>1. CASE q = r
      <4>1. task[r] = 3
        BY <1>1, <1>4, <2>1, <3>1 DEF EngineInv, TypeOK
      <4>2. Reached(r, 4)'
        BY <1>8, <4>1
      <4>3. QED
        BY <1>4, <3>1, <4>2 DEF Reached
    <3>2. CASE q # r
      BY <1>1, <1>3, <2>1, <3>2 DEF EngineInv, NoSilentLoss, TypeOK
    <3>3. QED
      BY <3>1, <3>2
  <2>2. QED
    BY <2>1 DEF NoSilentLoss
<1>12. QED
  BY <1>1, <1>3, <1>5, <1>6, <1>9, <1>10, <1>11, StutterStoreInv DEF EngineInv

LEMMA ApplyLateInv ==
    ASSUME EngineInv, ApplyLate
    PROVE  EngineInv'
<1>1. PICK command \in late :
        /\ late' = late \ {command}
        /\ queue' = Append(queue, command.job)
        /\ UNCHANGED <<pc, event, task, attempt, gone, warned, reply, applied, found, redisFault>>
        /\ UNCHANGED store
  BY DEF ApplyLate
<1>2. PICK job : job = command.job
  OBVIOUS
<1>3. /\ Due(job)
      /\ job.by \notin redisFault => /\ pc[job.by] = "dead"
                                     /\ \A d \in late' : d.job.by # job.by
  BY <1>1, <1>2 DEF EngineInv, LateInv
<1>4. /\ queue' \in Seq(Job)
      /\ JobsForCommits'
      /\ FanOutInOrder'
      /\ \A q \in Requests : \A t \in DOMAIN TaskTypes : Copies(q, t) \subseteq Copies(q, t)'
      /\ \A q \in Requests : q # job.by => Pushed(q)' = Pushed(q)
      /\ \A i \in DOMAIN queue : queue'[i] = queue[i]
  BY <1>1, <1>2, <1>3, PushDue
<1>5. DOMAIN TaskTypes = 1..3 /\ Len(TaskTypes) = 3
  BY DEF TaskTypes
<1>6. TypeOK'
  BY <1>1, <1>4 DEF EngineInv, TypeOK
<1>7. HandlerInv'
  BY <1>1 DEF EngineInv, HandlerInv
<1>8. ASSUME NEW q \in Requests, NEW t \in 1..3, Reached(q, t) PROVE Reached(q, t)'
  BY <1>4, <1>5, <1>8 DEF Reached
<1>9. ASSUME NEW q \in Requests, NEW t, q # job.by, NotBeyond(q, t) PROVE NotBeyond(q, t)'
  BY <1>4, <1>9 DEF NotBeyond, Pushed
<1>10. FanOutInv'
  <2>1. ASSUME NEW q \in Requests, NEW t, pc'[q] = "enqueue", task'[q] = t
        PROVE  Reached(q, t)' /\ (q \notin redisFault' => NotBeyond(q, t)')
    <3>1. /\ t \in 1..3
          /\ Reached(q, t)
          /\ q \notin redisFault => NotBeyond(q, t)
          /\ q \notin redisFault => q # job.by
      BY <1>1, <1>3, <1>5, <2>1 DEF EngineInv, TypeOK, FanOutInv
    <3>2. QED
      BY <1>1, <1>8, <1>9, <3>1
  <2>2. QED
    BY <2>1, FanOutInvFrom
<1>11. LateInv'
  <2>1. ASSUME NEW c \in late' PROVE Due(c.job)'
    <3>1. /\ c \in late
          /\ Due(c.job)
          /\ c.job.by \in Requests
          /\ c.job.by \notin redisFault => c.job.by # job.by
      BY <1>1, <1>3, <2>1 DEF EngineInv, LateInv, TypeOK, Command, Job
    <3>2. TaskIndex(c.job) \in 1..3
      BY <1>5, <3>1, TaskIndexOf DEF Due
    <3>3. ForCommit(c.job)'
      BY <1>1, <3>1 DEF Due, ForCommit
    <3>4. Reached(c.job.by, TaskIndex(c.job))'
      BY <1>8, <3>1, <3>2 DEF Due
    <3>5. c.job.by \notin redisFault => NotBeyond(c.job.by, TaskIndex(c.job))'
      BY <1>9, <3>1 DEF Due
    <3>6. QED
      BY <1>1, <3>1, <3>3, <3>4, <3>5 DEF Due
  <2>2. QED
    BY <1>1, <2>1 DEF EngineInv, LateInv
<1>12. NoSilentLoss'
  BY <1>1, <1>4 DEF EngineInv, NoSilentLoss
<1>13. QED
  BY <1>1, <1>4, <1>6, <1>7, <1>10, <1>11, <1>12, StutterStoreInv DEF EngineInv

LEMMA CrashInv ==
    ASSUME EngineInv, Crash
    PROVE  EngineInv'
<1>1. /\ pc' = [r \in Requests |-> IF pc[r] \in {"enqueue", "reply"} THEN "dead" ELSE pc[r]]
      /\ task' = [r \in Requests |-> 1]
      /\ attempt' = [r \in Requests |-> 0]
      /\ Unanswered({r \in Requests : pc[r] = "enqueue"})
      /\ UNCHANGED <<store, event, queue, gone, warned, reply, applied, found, redisFault>>
  BY DEF Crash
<1>2. /\ late' \subseteq Command
      /\ \A c \in late' \ late :
            /\ Due(c.job)
            /\ c.job.by \in Requests
            /\ pc[c.job.by] = "enqueue"
            /\ c = [job |-> CurrentJob(c.job.by), attempt |-> attempt[c.job.by]]
  BY <1>1, UnansweredLate
<1>3. TypeOK'
  <2>1. task' \in [Requests -> 1..Len(TaskTypes)] /\ attempt' \in [Requests -> 0..MaxRetries]
    BY <1>1, FirstTask, EngineAssumption
  <2>2. QED
    BY <1>1, <1>2, <2>1 DEF EngineInv, TypeOK
<1>4. HandlerInv'
  BY <1>1 DEF EngineInv, HandlerInv, TypeOK
<1>5. NoSilentLoss'
  <2>1. \A q \in Requests : pc'[q] \in {"reply", "done"} => pc[q] \in {"reply", "done"}
    BY <1>1
  <2>2. QED
    BY <1>1, <2>1, NoLossWithoutPush DEF EngineInv
<1>6. \A q \in Requests : pc'[q] # "enqueue"
  BY <1>1
<1>7. ASSUME NEW c \in late', c.job.by \notin redisFault'
      PROVE  /\ pc'[c.job.by] = "dead"
             /\ \A d \in late' : d.job.by = c.job.by => d = c
  <2>1. c.job.by \in Requests
    BY <1>2 DEF Command, Job
  <2>2. CASE pc[c.job.by] = "enqueue"
    <3>1. \A d \in late' : d.job.by = c.job.by => d \notin late
      BY <1>1, <1>7, <2>2 DEF EngineInv, LateInv
    <3>2. QED
      BY <1>1, <1>2, <2>1, <2>2, <3>1
  <2>3. CASE pc[c.job.by] # "enqueue"
    <3>1. \A d \in late' : d.job.by = c.job.by => d \in late
      BY <1>2, <2>3
    <3>2. QED
      BY <1>1, <1>7, <2>1, <3>1 DEF EngineInv, LateInv
  <2>4. QED
    BY <2>2, <2>3
<1>8. QED
  BY <1>1, <1>2, <1>3, <1>4, <1>5, <1>6, <1>7, NoPushInv

LEMMA NextEngineInv == EngineInv /\ [Next]_vars => EngineInv'
<1> SUFFICES ASSUME EngineInv, [Next]_vars PROVE EngineInv'
  OBVIOUS
<1>1. StoreInv'
  BY NextRefinesStore, NextStoreInv DEF EngineInv
<1>2. CASE \E r \in Requests : Statement(r)
  BY <1>1, <1>2, StatementInv
<1>3. CASE \E r \in Requests : Continue(r)
  BY <1>3, TaskInv, FaultInv, QuietInv DEF Continue
<1>4. CASE \E r \in Requests : Disconnect(r)
  BY <1>4, QuietInv
<1>5. CASE ApplyLate
  BY <1>5, ApplyLateInv
<1>6. CASE Crash
  BY <1>6, CrashInv
<1>7. CASE UNCHANGED vars
  <2>1. UNCHANGED <<store, event, queue, late, applied, redisFault, pc, task, warned>>
    BY <1>7 DEF vars, handlerVars
  <2>2. TypeOK' /\ HandlerInv'
    BY <1>7 DEF vars, handlerVars, EngineInv, TypeOK, HandlerInv
  <2>3. NoSilentLoss'
    BY <2>1, NoLossWithoutPush DEF EngineInv
  <2>4. QED
    BY <2>1, <2>2, <2>3, NoPushInv DEF EngineInv, LateInv
<1>8. QED
  BY <1>2, <1>3, <1>4, <1>5, <1>6, <1>7 DEF Next, Terminated

LEMMA InitEngineInv == Init => EngineInv
<1> SUFFICES ASSUME Init PROVE EngineInv
  OBVIOUS
<1>1. TypeOK
  BY FirstTask, EngineAssumption DEF Init, TypeOK
<1>2. QED
  BY <1>1, InitStoreInv
     DEF Init, EngineInv, HandlerInv, FanOutInv, LateInv, JobsForCommits,
         FanOutInOrder, NoSilentLoss

THEOREM EngineInvariant == Spec => []EngineInv
BY InitEngineInv, NextEngineInv, PTL DEF Spec

(* Type correctness of the handlers. *)
THEOREM EngineTypeCorrect == Spec => []TypeOK
BY EngineInvariant, PTL DEF EngineInv

(* Whatever fails, is late or dies, the fan-out of a request is on the list *)
(* as a prefix in its order (handler.go:110-114).                           *)
THEOREM FanOutsAreOrdered == Spec => []FanOutInOrder
BY EngineInvariant, PTL DEF EngineInv

(* A handler past its fan-out has pushed all three jobs or logged a warning *)
(* (handler.go:231-237).                                                   *)
THEOREM LossIsWarned == Spec => []NoSilentLoss
BY EngineInvariant, PTL DEF EngineInv

(* Redis never decides the answer (handler.go:134-138, README.md:138). *)
THEOREM AnswersFollowDatabase == Spec => []ReplyFollowsDatabase
<1>1. EngineInv => ReplyFollowsDatabase
  BY DEF EngineInv, HandlerInv, ReplyFollowsDatabase
<1>2. QED
  BY <1>1, EngineInvariant, PTL

---------------------------------------------------------------------------
(* Jobs tell the truth: the inductive invariant says it of the events the   *)
(* handlers hold, and JobsForCommits carries it over to the list.          *)
TruthInv ==
    \A r \in Requests :
        /\ pc[r] = "idle" => r \notin found
        /\ event[r] # NoEvent => IF r \in found THEN StillTrue(event[r])
                                               ELSE event[r].details \in NeedsNoRow

(* The events of the others stay true whatever the statement of one does.   *)
LEMMA CommittedTruth ==
    ASSUME EngineInv, TruthInv, [StoreNext]_store,
           NEW r \in Requests, NEW e \in {"user", "booking"},
           NEW id \in Int, NEW d \in Details, Committed(r, e, id, d),
           MetRow(e, id) \/ d \in NeedsNoRow,
           d = "user_deactivated" => e = "user" /\ id \notin Ids(users'),
           d = "booking_cancelled" =>
              e = "booking" /\ \A b \in bookings' : b.id = id => ~Active(b)
    PROVE  TruthInv'
<1> DEFINE new == [entity |-> e, id |-> id, details |-> d]
<1>1. new \in Event /\ new.entity = e /\ new.id = id /\ new.details = d
  BY DEF Event
<1> HIDE DEF new
<1>2. /\ pc[r] = "idle"
      /\ found' = IF MetRow(e, id) THEN found \cup {r} ELSE found
      /\ pc' \in {[pc EXCEPT ![r] = "enqueue"], [pc EXCEPT ![r] = "reply"]}
      /\ event' = [event EXCEPT ![r] = new] \/ event' = event
  BY DEF Committed, new
<1>3. event[r] = NoEvent /\ r \notin found
  BY <1>2 DEF EngineInv, HandlerInv, TruthInv
<1>4. event \in [Requests -> Event \cup {NoEvent}] /\ DOMAIN pc = Requests
  BY DEF EngineInv, TypeOK
<1>5. ASSUME MetRow(e, id) PROVE StillTrue(new)'
  BY <1>1, <1>5, TruthFromStatement DEF EngineInv
<1>6. ASSUME NEW q \in Requests
      PROVE  /\ pc'[q] = "idle" => q \notin found'
             /\ event'[q] # NoEvent =>
                   IF q \in found' THEN StillTrue(event[q])' ELSE event'[q].details \in NeedsNoRow
  <2>1. CASE q = r
    <3>1. pc'[r] # "idle"
      BY <1>2, <1>4
    <3>2. event'[r] = new \/ event'[r] = NoEvent
      BY <1>2, <1>3, <1>4
    <3>3. r \in found' <=> MetRow(e, id)
      BY <1>2, <1>3
    <3>4. event'[r] = new => (MetRow(e, id) => StillTrue(event[r])')
      BY <1>5 DEF StillTrue
    <3>5. QED
      BY <1>1, <2>1, <3>1, <3>2, <3>3, <3>4
  <2>2. CASE q # r
    <3>1. pc'[q] = pc[q] /\ event'[q] = event[q] /\ (q \in found' <=> q \in found)
      BY <1>2, <1>4, <2>2
    <3>2. PICK f : f = event[q]
      OBVIOUS
    <3>3. f # NoEvent /\ StillTrue(f) => StillTrue(f)'
      BY <1>4, <3>2, TruthIsStable DEF EngineInv
    <3>4. StillTrue(f)' = StillTrue(event[q])' /\ StillTrue(f) = StillTrue(event[q])
      BY <3>1, <3>2 DEF StillTrue
    <3>5. QED
      BY <3>1, <3>2, <3>3, <3>4 DEF TruthInv
  <2>3. QED
    BY <2>1, <2>2
<1>7. QED
  BY <1>6 DEF TruthInv

(* A step that leaves the database and the events alone. *)
LEMMA QuietTruth ==
    ASSUME TruthInv, UNCHANGED <<store, event, found>>,
           \A q \in Requests : pc'[q] = "idle" => pc[q] = "idle"
    PROVE  TruthInv'
<1>1. \A q : StillTrue(event[q])' = StillTrue(event[q])
  BY DEF StillTrue, store
<1>2. QED
  BY <1>1 DEF TruthInv

LEMMA StatementTruth ==
    ASSUME EngineInv, TruthInv, [StoreNext]_store, NEW r \in Requests, Statement(r)
    PROVE  TruthInv'
<1>1. UserIds \subseteq Int /\ 1..MaxUsers \subseteq Int
  BY StoreAssumption DEF UserIds
<1>2. BookingIds \subseteq Int /\ 1..MaxBookings \subseteq Int
  BY StoreAssumption DEF BookingIds
<1>3. StoreInv' /\ StoreInv
  BY NextStoreInv DEF EngineInv
<1>4. CASE \E email \in Emails : createUser(r, email)
  <2>1. PICK email \in Emails : createUser(r, email)
    BY <1>4
  <2>2. PICK id : id = userSeq'
    OBVIOUS
  <2>3. id \in Int /\ Committed(r, "user", id, "user_registered")
    BY <1>3, <2>1, <2>2, StoreAssumption DEF createUser, StoreInv, StoreTypeOK
  <2>4. MetRow("user", id)
    <3>1. [id |-> id, email |-> email] \in users'
      BY <2>1, <2>2 DEF createUser, InsertUser
    <3>2. [id |-> id, email |-> email].id = id
      OBVIOUS
    <3>3. QED
      BY <3>1, <3>2 DEF MetRow, Ids
  <2>5. QED
    BY <2>3, <2>4, CommittedTruth DEF Details
<1>5. CASE \E id \in 1..MaxUsers, email \in Emails : updateUser(r, id, email)
  <2>1. PICK id \in 1..MaxUsers, email \in Emails : updateUser(r, id, email)
    BY <1>5
  <2>2. MetRow("user", id)
    BY <2>1 DEF updateUser, UpdateUser, MetRow, Ids
  <2>3. QED
    BY <1>1, <2>1, <2>2, CommittedTruth DEF updateUser, Details
<1>6. CASE \E id \in UserIds : deactivateUser(r, id)
  <2>1. PICK id \in UserIds : deactivateUser(r, id)
    BY <1>6
  <2>2. id \notin Ids(users')
    BY <2>1 DEF deactivateUser, DeleteUser, Ids
  <2>3. QED
    BY <1>1, <2>1, <2>2, CommittedTruth DEF deactivateUser, Details, NeedsNoRow
<1>7. CASE \E user \in 1..MaxUsers, room \in RoomIds, start, end \in Bound :
              createBooking(r, user, room, start, end)
  <2>1. PICK user \in 1..MaxUsers, room \in RoomIds, start \in Bound, end \in Bound :
              createBooking(r, user, room, start, end)
    BY <1>7
  <2>2. PICK id : id = bookingSeq'
    OBVIOUS
  <2>3. id \in Int /\ Committed(r, "booking", id, "booking_created")
    BY <1>3, <2>1, <2>2, StoreAssumption DEF createBooking, StoreInv, StoreTypeOK
  <2>4. NewBooking(user, room, start, end).id = id
    BY <2>1, <2>2 DEF createBooking, InsertBooking, NewBooking
  <2>5. NewBooking(user, room, start, end) \in bookings'
    BY <2>1 DEF createBooking, InsertBooking
  <2>6. MetRow("booking", id)
    BY <2>4, <2>5 DEF MetRow, Ids
  <2>7. QED
    BY <2>3, <2>6, CommittedTruth DEF Details
<1>8. CASE \E id \in 1..MaxBookings, room \in RoomIds, start, end \in Bound :
              updateBooking(r, id, room, start, end)
  <2>1. PICK id \in 1..MaxBookings, room \in RoomIds, start \in Bound, end \in Bound :
              updateBooking(r, id, room, start, end)
    BY <1>8
  <2>2. MetRow("booking", id)
    BY <2>1 DEF updateBooking, UpdateBooking, MetRow, Ids
  <2>3. QED
    BY <1>2, <2>1, <2>2, CommittedTruth DEF updateBooking, Details
<1>9. CASE \E id \in BookingIds : cancelBooking(r, id)
  <2>1. PICK id \in BookingIds : cancelBooking(r, id)
    BY <1>9
  <2>2. \A b \in bookings' : b.id = id => ~Active(b)
    BY <1>3, <2>1, CancelledRows DEF cancelBooking
  <2>3. QED
    BY <1>2, <2>1, <2>2, CommittedTruth DEF cancelBooking, Details, NeedsNoRow
<1>10. CASE Rejected(r)
  <2>1. UNCHANGED <<store, event, found>>
    BY <1>10 DEF Rejected
  <2>2. \A q \in Requests : pc'[q] = "idle" => pc[q] = "idle"
    BY <1>10 DEF Rejected, EngineInv, TypeOK
  <2>3. QED
    BY <2>1, <2>2, QuietTruth
<1>11. QED
  BY <1>4, <1>5, <1>6, <1>7, <1>8, <1>9, <1>10 DEF Statement

LEMMA NextTruth == EngineInv /\ TruthInv /\ [Next]_vars => TruthInv'
<1> SUFFICES ASSUME EngineInv, TruthInv, [Next]_vars PROVE TruthInv'
  OBVIOUS
<1>1. ASSUME NEW r \in Requests, Statement(r) PROVE TruthInv'
  BY <1>1, NextRefinesStore, StatementTruth
<1>2. ASSUME NEW r \in Requests, Continue(r) \/ Disconnect(r) PROVE TruthInv'
  <2>1. UNCHANGED <<store, event, found>>
    BY <1>2 DEF Continue, Disconnect, enqueueTask, enqueueFault, enqueueCancelled, Reply
  <2>2. \A q \in Requests : pc'[q] = "idle" => pc[q] = "idle"
    BY <1>2 DEF Continue, Disconnect, enqueueTask, enqueueFault, enqueueCancelled, Reply,
                GiveUp, EndFanOut, EngineInv, TypeOK
  <2>3. QED
    BY <2>1, <2>2, QuietTruth
<1>3. CASE ApplyLate \/ Crash \/ UNCHANGED vars
  <2>1. UNCHANGED <<store, event, found>>
    BY <1>3 DEF ApplyLate, Crash, vars, handlerVars
  <2>2. \A q \in Requests : pc'[q] = "idle" => pc[q] = "idle"
    BY <1>3 DEF ApplyLate, Crash, vars, handlerVars
  <2>3. QED
    BY <2>1, <2>2, QuietTruth
<1>4. QED
  BY <1>1, <1>2, <1>3 DEF Next, Terminated

(* What a job tells is true and stays true, for any number of concurrent    *)
(* requests, failed and late LPUSHes, retries and crashes: ids are never    *)
(* handed out again and cancelled bookings never come back                  *)
(* (handler.go:187-198, 225-237).                                          *)
THEOREM JobsAreTrue == Spec => []JobsStayTrue
<1>1. Init => TruthInv
  BY DEF Init, TruthInv
<1>2. EngineInv /\ TruthInv => JobsStayTrue
  <2> SUFFICES ASSUME EngineInv, TruthInv, NEW i \in DOMAIN queue
               PROVE  /\ queue[i].by \in applied
                      /\ IF queue[i].by \in found
                         THEN StillTrue(queue[i].event)
                         ELSE queue[i].event.details \in NeedsNoRow
    BY DEF JobsStayTrue
  <2>1. ForCommit(queue[i]) /\ queue[i].by \in Requests
    <3>1. queue \in Seq(Job)
      BY DEF EngineInv, TypeOK
    <3>2. queue[i] \in Job
      BY <3>1
    <3>3. QED
      BY <3>2 DEF EngineInv, JobsForCommits, Job
  <2>2. QED
    BY <2>1 DEF TruthInv, ForCommit
<1>3. Spec => [](EngineInv /\ TruthInv)
  BY <1>1, InitEngineInv, NextEngineInv, NextTruth, PTL DEF Spec
<1>4. QED
  BY <1>2, <1>3, PTL
---------------------------------------------------------------------------
(* Duplicates: the inductive invariant counts attempts.                     *)

(* The LPUSHes of a task that Redis may still apply. *)
LateOf(r, t) == {c \in late : c.job.by = r /\ c.job.type = TaskTypes[t]}

(* The attempts at a task that have reached Redis or still may, and how     *)
(* many its handler has made so far.                                       *)
Attempts(r, t) == Cardinality(Copies(r, t)) + Cardinality(LateOf(r, t))
Made(r, t) ==
    IF pc[r] # "enqueue" \/ t < task[r] THEN MaxRetries + 1
    ELSE IF t = task[r] THEN attempt[r] ELSE 0

AttemptsInv ==
    \A r \in Requests : \A t \in DOMAIN TaskTypes :
        /\ IsFiniteSet(LateOf(r, t))
        /\ Attempts(r, t) <= Made(r, t)

LEMMA ThreeTasks == DOMAIN TaskTypes = 1..3 /\ Len(TaskTypes) = 3
BY DEF TaskTypes

LEMMA AtMostOneMore ==
    ASSUME NEW S, IsFiniteSet(S), NEW x, NEW T \in SUBSET (S \cup {x})
    PROVE  /\ IsFiniteSet(T)
           /\ Cardinality(S) \in Nat
           /\ Cardinality(T) \in Nat
           /\ Cardinality(T) <= Cardinality(S) + 1
           /\ T \subseteq S => Cardinality(T) <= Cardinality(S)
<1>1. /\ IsFiniteSet(S \cup {x})
      /\ Cardinality(S \cup {x}) <= Cardinality(S) + 1
      /\ Cardinality(S) \in Nat
  BY FS_AddElement, FS_CardinalityType
<1>2. IsFiniteSet(T) /\ Cardinality(T) <= Cardinality(S \cup {x})
  BY <1>1, FS_Subset
<1>3. Cardinality(T) \in Nat /\ Cardinality(S \cup {x}) \in Nat
  BY <1>1, <1>2, FS_CardinalityType
<1>4. T \subseteq S => Cardinality(T) <= Cardinality(S)
  BY FS_Subset
<1>5. QED
  BY <1>1, <1>2, <1>3, <1>4

LEMMA CopiesFinite ==
    ASSUME queue \in Seq(Job), NEW r, NEW t
    PROVE  IsFiniteSet(Copies(r, t))
<1>1. Len(queue) \in Nat /\ DOMAIN queue = 1..Len(queue)
  OBVIOUS
<1>2. IsFiniteSet(1..Len(queue))
  BY <1>1, FS_Interval
<1>3. Copies(r, t) \in SUBSET (1..Len(queue))
  BY <1>1 DEF Copies, Pushed
<1>4. QED
  BY <1>2, <1>3, FS_Subset

LEMMA MadeBound ==
    ASSUME TypeOK, NEW r \in Requests, NEW t \in DOMAIN TaskTypes
    PROVE  Made(r, t) \in 0..(MaxRetries + 1)
<1>1. attempt[r] \in 0..MaxRetries
  BY DEF TypeOK
<1>2. QED
  BY <1>1, EngineAssumption DEF Made

LEMMA MadeBoundNext ==
    ASSUME TypeOK', NEW r \in Requests, NEW t \in DOMAIN TaskTypes
    PROVE  Made(r, t)' \in 0..(MaxRetries + 1)
<1>1. attempt'[r] \in 0..MaxRetries
  BY DEF TypeOK
<1>2. QED
  BY <1>1, EngineAssumption DEF Made

(* Nothing of this task is pushed or sent, and its handler is as far. *)
LEMMA NoAttempt ==
    ASSUME EngineInv, AttemptsInv, NEW r \in Requests, NEW t \in DOMAIN TaskTypes,
           Copies(r, t)' \subseteq Copies(r, t), LateOf(r, t)' \subseteq LateOf(r, t),
           Made(r, t) <= Made(r, t)', Made(r, t)' \in Int
    PROVE  IsFiniteSet(LateOf(r, t)') /\ Attempts(r, t)' <= Made(r, t)'
<1>1. IsFiniteSet(Copies(r, t)) /\ IsFiniteSet(LateOf(r, t))
  BY CopiesFinite DEF EngineInv, TypeOK, AttemptsInv
<1>2. /\ Cardinality(Copies(r, t)') <= Cardinality(Copies(r, t))
      /\ Cardinality(Copies(r, t)) \in Nat /\ Cardinality(Copies(r, t)') \in Nat
  BY <1>1, AtMostOneMore
<1>3. /\ Cardinality(LateOf(r, t)') <= Cardinality(LateOf(r, t))
      /\ Cardinality(LateOf(r, t)) \in Nat /\ Cardinality(LateOf(r, t)') \in Nat
      /\ IsFiniteSet(LateOf(r, t)')
  BY <1>1, AtMostOneMore
<1>4. Made(r, t) \in Int
  BY MadeBound DEF EngineInv
<1>5. Attempts(r, t) <= Made(r, t)
  BY DEF AttemptsInv
<1>6. QED
  BY <1>2, <1>3, <1>4, <1>5 DEF Attempts

(* One more LPUSH of this task is on the list, or on its way. *)
LEMMA OneAttempt ==
    ASSUME EngineInv, AttemptsInv, NEW r \in Requests, NEW t \in DOMAIN TaskTypes, NEW x,
           \/ Copies(r, t)' \subseteq Copies(r, t) \cup {x} /\ LateOf(r, t)' \subseteq LateOf(r, t)
           \/ Copies(r, t)' \subseteq Copies(r, t) /\ LateOf(r, t)' \subseteq LateOf(r, t) \cup {x},
           Made(r, t) + 1 <= Made(r, t)', Made(r, t)' \in Int
    PROVE  IsFiniteSet(LateOf(r, t)') /\ Attempts(r, t)' <= Made(r, t)'
<1>1. IsFiniteSet(Copies(r, t)) /\ IsFiniteSet(LateOf(r, t))
  BY CopiesFinite DEF EngineInv, TypeOK, AttemptsInv
<1>2. /\ Cardinality(Copies(r, t)') <= Cardinality(Copies(r, t)) + 1
      /\ Copies(r, t)' \subseteq Copies(r, t) =>
            Cardinality(Copies(r, t)') <= Cardinality(Copies(r, t))
      /\ Cardinality(Copies(r, t)) \in Nat /\ Cardinality(Copies(r, t)') \in Nat
  <2>1. Copies(r, t)' \in SUBSET (Copies(r, t) \cup {x})
    OBVIOUS
  <2>2. QED
    BY <1>1, <2>1, AtMostOneMore
<1>3. /\ Cardinality(LateOf(r, t)') <= Cardinality(LateOf(r, t)) + 1
      /\ LateOf(r, t)' \subseteq LateOf(r, t) =>
            Cardinality(LateOf(r, t)') <= Cardinality(LateOf(r, t))
      /\ Cardinality(LateOf(r, t)) \in Nat /\ Cardinality(LateOf(r, t)') \in Nat
      /\ IsFiniteSet(LateOf(r, t)')
  <2>1. LateOf(r, t)' \in SUBSET (LateOf(r, t) \cup {x})
    OBVIOUS
  <2>2. QED
    BY <1>1, <2>1, AtMostOneMore
<1>4. Made(r, t) \in Int
  BY MadeBound DEF EngineInv
<1>5. Attempts(r, t) <= Made(r, t)
  BY DEF AttemptsInv
<1>6. QED
  BY <1>2, <1>3, <1>4, <1>5 DEF Attempts

(* The LPUSH that Redis acknowledges. *)
LEMMA TaskAttempts ==
    ASSUME EngineInv, EngineInv', AttemptsInv, NEW r \in Requests, enqueueTask(r)
    PROVE  AttemptsInv'
<1> PICK job : job = CurrentJob(r)
  OBVIOUS
<1>1. /\ pc[r] = "enqueue"
      /\ queue' = Append(queue, job)
      /\ UNCHANGED late
      /\ \/ /\ task[r] = Len(TaskTypes)
            /\ pc' = [pc EXCEPT ![r] = "reply"]
            /\ task' = [task EXCEPT ![r] = 1]
            /\ attempt' = [attempt EXCEPT ![r] = 0]
         \/ /\ task[r] < Len(TaskTypes)
            /\ task' = [task EXCEPT ![r] = @ + 1]
            /\ attempt' = [attempt EXCEPT ![r] = 0]
            /\ pc' = pc
      /\ UNCHANGED <<event, applied, redisFault>>
  BY DEF enqueueTask, EndFanOut
<1>2. /\ Due(job) /\ job \in Job
      /\ job.by = r
      /\ job.type = TaskTypes[task[r]]
  BY <1>1, CurrentJobDue DEF Due, CurrentJob
<1>3. /\ \A q \in Requests : q # r => Pushed(q)' = Pushed(q)
      /\ Pushed(r)' = Pushed(r) \cup {Len(queue) + 1}
      /\ \A i \in DOMAIN queue : queue'[i] = queue[i]
      /\ queue'[Len(queue) + 1] = job
  BY <1>1, <1>2, PushDue
<1>4. /\ \A q \in Requests, t \in DOMAIN TaskTypes :
            q # r \/ t # task[r] => Copies(q, t)' \subseteq Copies(q, t)
      /\ \A t \in DOMAIN TaskTypes : Copies(r, t)' \subseteq Copies(r, t) \cup {Len(queue) + 1}
      /\ \A q, t : LateOf(q, t)' = LateOf(q, t)
  <2>1. \A t \in DOMAIN TaskTypes : t # task[r] => TaskTypes[t] # job.type
    <3>1. task[r] \in 1..3
      BY ThreeTasks DEF EngineInv, TypeOK
    <3>2. \A t, u \in 1..3 : t # u => TaskTypes[t] # TaskTypes[u]
      BY DEF TaskTypes
    <3>3. QED
      BY <1>2, <3>1, <3>2, ThreeTasks
  <2>2. \A q : Pushed(q) \subseteq DOMAIN queue
    BY DEF Pushed
  <2>3. QED
    BY <1>1, <1>3, <2>1, <2>2 DEF Copies, LateOf
<1>5. /\ task[r] \in 1..3 /\ attempt[r] \in 0..MaxRetries
      /\ task[r] = 3 => pc'[r] # "enqueue"
      /\ task[r] # 3 => pc'[r] = "enqueue" /\ task'[r] = task[r] + 1 /\ attempt'[r] = 0
  BY <1>1, ThreeTasks DEF EngineInv, TypeOK
<1>6. ASSUME NEW q \in Requests, NEW t \in DOMAIN TaskTypes
      PROVE  /\ Made(q, t)' \in Int
             /\ Made(q, t) <= Made(q, t)'
             /\ q = r /\ t = task[r] => Made(q, t) + 1 <= Made(q, t)'
  <2>1. Made(q, t) \in 0..(MaxRetries + 1) /\ Made(q, t)' \in 0..(MaxRetries + 1)
    BY MadeBound, MadeBoundNext DEF EngineInv
  <2>2. CASE q # r
    <3>1. pc'[q] = pc[q] /\ task'[q] = task[q] /\ attempt'[q] = attempt[q]
      BY <1>1, <2>2 DEF EngineInv, TypeOK
    <3>2. QED
      BY <2>1, <2>2, <3>1, EngineAssumption DEF Made
  <2>3. CASE q = r
    BY <1>1, <1>5, <2>1, <2>3, ThreeTasks, EngineAssumption DEF Made
  <2>4. QED
    BY <2>2, <2>3
<1>7. ASSUME NEW q \in Requests, NEW t \in DOMAIN TaskTypes
      PROVE  IsFiniteSet(LateOf(q, t)') /\ Attempts(q, t)' <= Made(q, t)'
  <2>1. CASE q = r /\ t = task[r]
    <3>1. Copies(r, t)' \subseteq Copies(r, t) \cup {Len(queue) + 1}
      BY <1>4
    <3>2. LateOf(r, t)' \subseteq LateOf(r, t)
      BY <1>4
    <3>3. QED
      BY <1>6, <2>1, <3>1, <3>2, OneAttempt
  <2>2. CASE ~(q = r /\ t = task[r])
    BY <1>4, <1>6, <2>2, NoAttempt
  <2>3. QED
    BY <2>1, <2>2
<1>8. QED
  BY <1>7 DEF AttemptsInv

(* An LPUSH that nobody waits for any more may be under way for good. *)
LEMMA UnansweredAttempts ==
    ASSUME EngineInv, AttemptsInv, NEW rs \in SUBSET {r \in Requests : pc[r] = "enqueue"},
           Unanswered(rs), queue' = queue,
           TypeOK',
           \A q \in Requests, t \in DOMAIN TaskTypes :
              /\ Made(q, t) <= Made(q, t)'
              /\ q \in rs /\ t = task[q] => Made(q, t) + 1 <= Made(q, t)'
    PROVE  AttemptsInv'
<1> DEFINE command(r) == [job |-> CurrentJob(r), attempt |-> attempt[r]]
<1>1. PICK sent \in SUBSET rs : late' = late \cup {command(r) : r \in sent}
  BY DEF Unanswered
<1>2. \A r \in rs : command(r).job.by = r /\ command(r).job.type = TaskTypes[task[r]]
  BY DEF CurrentJob
<1>3. ASSUME NEW q \in Requests, NEW t \in DOMAIN TaskTypes
      PROVE  IsFiniteSet(LateOf(q, t)') /\ Attempts(q, t)' <= Made(q, t)'
  <2>1. Copies(q, t)' \subseteq Copies(q, t)
    BY DEF Copies, Pushed
  <2>2. Made(q, t)' \in Int
    BY MadeBoundNext
  <2>3. \A r \in rs : TaskTypes[task[r]] = TaskTypes[t] => task[r] = t
    BY DEF TaskTypes, EngineInv, TypeOK
  <2>4. CASE q \in rs /\ t = task[q]
    <3>1. LateOf(q, t)' \subseteq LateOf(q, t) \cup {command(q)}
      BY <1>1, <1>2 DEF LateOf
    <3>2. QED
      BY <2>1, <2>2, <2>4, <3>1, OneAttempt
  <2>5. CASE ~(q \in rs /\ t = task[q])
    <3>1. LateOf(q, t)' \subseteq LateOf(q, t)
      BY <1>1, <1>2, <2>3, <2>5 DEF LateOf
    <3>2. QED
      BY <2>1, <2>2, <3>1, NoAttempt
  <2>6. QED
    BY <2>4, <2>5
<1>4. QED
  BY <1>3 DEF AttemptsInv

LEMMA FaultAttempts ==
    ASSUME EngineInv, EngineInv', AttemptsInv, NEW r \in Requests, enqueueFault(r)
    PROVE  AttemptsInv'
<1>1. /\ pc[r] = "enqueue"
      /\ Unanswered({r})
      /\ queue' = queue
      /\ \/ /\ attempt[r] < MaxRetries
            /\ attempt' = [attempt EXCEPT ![r] = @ + 1]
            /\ UNCHANGED <<pc, task>>
         \/ /\ pc' = [pc EXCEPT ![r] = "reply"]
            /\ task' = [task EXCEPT ![r] = 1]
            /\ attempt' = [attempt EXCEPT ![r] = 0]
  BY DEF enqueueFault, GiveUp, EndFanOut
<1>2. {r} \in SUBSET {q \in Requests : pc[q] = "enqueue"}
  BY <1>1
<1>3. task[r] \in 1..3 /\ attempt[r] \in 0..MaxRetries
  BY ThreeTasks DEF EngineInv, TypeOK
<1>4. ASSUME NEW q \in Requests, NEW t \in DOMAIN TaskTypes
      PROVE  /\ Made(q, t) <= Made(q, t)'
             /\ q \in {r} /\ t = task[q] => Made(q, t) + 1 <= Made(q, t)'
  <2>1. Made(q, t) \in 0..(MaxRetries + 1)
    BY MadeBound DEF EngineInv
  <2>2. CASE q # r
    <3>1. pc'[q] = pc[q] /\ task'[q] = task[q] /\ attempt'[q] = attempt[q]
      BY <1>1, <2>2 DEF EngineInv, TypeOK
    <3>2. QED
      BY <2>1, <2>2, <3>1, EngineAssumption DEF Made
  <2>3. CASE q = r
    <3>1. \/ pc'[r] = "enqueue" /\ task'[r] = task[r] /\ attempt'[r] = attempt[r] + 1
          \/ pc'[r] = "reply"
      BY <1>1 DEF EngineInv, TypeOK
    <3>2. QED
      BY <1>1, <1>3, <2>1, <2>3, <3>1, ThreeTasks, EngineAssumption DEF Made
  <2>4. QED
    BY <2>2, <2>3
<1>5. QED
  BY <1>1, <1>2, <1>4, UnansweredAttempts DEF EngineInv

(* Redis applies a late LPUSH: it moves from the commands to the list. *)
LEMMA ApplyLateAttempts ==
    ASSUME EngineInv, EngineInv', AttemptsInv, ApplyLate
    PROVE  AttemptsInv'
<1>1. PICK command \in late :
        /\ late' = late \ {command}
        /\ queue' = Append(queue, command.job)
        /\ UNCHANGED <<pc, event, task, attempt, applied, redisFault>>
  BY DEF ApplyLate
<1>2. PICK job : job = command.job
  OBVIOUS
<1>3. Due(job)
  BY <1>1, <1>2 DEF EngineInv, LateInv
<1>4. /\ \A q \in Requests : q # job.by => Pushed(q)' = Pushed(q)
      /\ Pushed(job.by)' = Pushed(job.by) \cup {Len(queue) + 1}
      /\ \A i \in DOMAIN queue : queue'[i] = queue[i]
      /\ queue'[Len(queue) + 1] = job
  BY <1>1, <1>2, <1>3, PushDue
<1>5. \A q : Pushed(q) \subseteq DOMAIN queue
  BY DEF Pushed
<1>6. ASSUME NEW q \in Requests, NEW t \in DOMAIN TaskTypes
      PROVE  IsFiniteSet(LateOf(q, t)') /\ Attempts(q, t)' <= Made(q, t)'
  <2>1. Made(q, t)' = Made(q, t) /\ Made(q, t) \in 0..(MaxRetries + 1)
    BY <1>1, MadeBound DEF Made, EngineInv
  <2>2. CASE command \notin LateOf(q, t)
    <3>1. Copies(q, t)' \subseteq Copies(q, t)
      BY <1>1, <1>2, <1>4, <1>5, <2>2 DEF Copies, LateOf
    <3>2. LateOf(q, t)' \subseteq LateOf(q, t)
      BY <1>1 DEF LateOf
    <3>3. QED
      BY <2>1, <3>1, <3>2, NoAttempt
  <2>3. CASE command \in LateOf(q, t)
    <3>1. Copies(q, t)' \subseteq Copies(q, t) \cup {Len(queue) + 1}
      BY <1>1, <1>2, <1>4, <1>5, <2>3 DEF Copies, LateOf
    <3>2. LateOf(q, t)' = LateOf(q, t) \ {command}
      BY <1>1 DEF LateOf
    <3>3. IsFiniteSet(LateOf(q, t)) /\ IsFiniteSet(Copies(q, t))
      BY CopiesFinite DEF AttemptsInv, EngineInv, TypeOK
    <3>4. /\ IsFiniteSet(LateOf(q, t)')
          /\ Cardinality(LateOf(q, t)') = Cardinality(LateOf(q, t)) - 1
          /\ Cardinality(LateOf(q, t)) \in Nat
      BY <2>3, <3>2, <3>3, FS_RemoveElement, FS_CardinalityType
    <3>5. /\ Cardinality(Copies(q, t)') <= Cardinality(Copies(q, t)) + 1
          /\ Cardinality(Copies(q, t)) \in Nat
          /\ Cardinality(Copies(q, t)') \in Nat
      <4>1. Copies(q, t)' \in SUBSET (Copies(q, t) \cup {Len(queue) + 1})
        BY <3>1
      <4>2. QED
        BY <3>3, <4>1, AtMostOneMore
    <3>6. Attempts(q, t) <= Made(q, t)
      BY DEF AttemptsInv
    <3>7. QED
      BY <2>1, <3>4, <3>5, <3>6 DEF Attempts
  <2>4. QED
    BY <2>2, <2>3
<1>7. QED
  BY <1>6 DEF AttemptsInv

LEMMA CrashAttempts ==
    ASSUME EngineInv, EngineInv', AttemptsInv, Crash
    PROVE  AttemptsInv'
<1>1. /\ Unanswered({r \in Requests : pc[r] = "enqueue"})
      /\ queue' = queue
      /\ \A r \in Requests : pc'[r] # "enqueue"
  BY DEF Crash
<1>2. ASSUME NEW q \in Requests, NEW t \in DOMAIN TaskTypes
      PROVE  /\ Made(q, t) <= Made(q, t)'
             /\ q \in {r \in Requests : pc[r] = "enqueue"} /\ t = task[q] =>
                   Made(q, t) + 1 <= Made(q, t)'
  <2>1. Made(q, t) \in 0..(MaxRetries + 1) /\ attempt[q] \in 0..MaxRetries
    BY MadeBound DEF EngineInv, TypeOK
  <2>2. Made(q, t)' = MaxRetries + 1
    BY <1>1 DEF Made
  <2>3. pc[q] = "enqueue" /\ t = task[q] => Made(q, t) = attempt[q]
    BY <2>1, ThreeTasks DEF Made, EngineInv, TypeOK
  <2>4. QED
    BY <2>1, <2>2, <2>3, EngineAssumption
<1>3. QED
  BY <1>1, <1>2, UnansweredAttempts DEF EngineInv

(* A statement: its request has pushed nothing and starts at no attempt. *)
LEMMA StatementAttempts ==
    ASSUME EngineInv, EngineInv', AttemptsInv, NEW r \in Requests, pc[r] = "idle",
           UNCHANGED <<task, attempt, queue, late>>,
           pc' \in {[pc EXCEPT ![r] = "enqueue"], [pc EXCEPT ![r] = "reply"]}
    PROVE  AttemptsInv'
<1>1. ASSUME NEW q \in Requests, NEW t \in DOMAIN TaskTypes
      PROVE  IsFiniteSet(LateOf(q, t)') /\ Attempts(q, t)' <= Made(q, t)'
  <2>1. Made(q, t) \in 0..(MaxRetries + 1) /\ Made(q, t)' \in 0..(MaxRetries + 1)
    BY MadeBound, MadeBoundNext DEF EngineInv
  <2>2. Copies(q, t)' = Copies(q, t) /\ LateOf(q, t)' = LateOf(q, t)
    BY DEF Copies, Pushed, LateOf
  <2>3. CASE q # r
    <3>1. Made(q, t)' = Made(q, t)
      BY <2>3 DEF Made, EngineInv, TypeOK
    <3>2. QED
      BY <2>1, <2>2, <3>1, NoAttempt
  <2>4. CASE q = r
    <3>1. event[r] = NoEvent
      BY DEF EngineInv, HandlerInv
    <3>2. Copies(q, t)' = {} /\ LateOf(q, t)' = {}
      BY <2>2, <2>4, <3>1, NoEventNoJob DEF Copies, LateOf
    <3>3. QED
      BY <2>1, <3>2, FS_EmptySet DEF Attempts
  <2>5. QED
    BY <2>3, <2>4
<1>2. QED
  BY <1>1 DEF AttemptsInv

LEMMA QuietAttempts ==
    ASSUME EngineInv, EngineInv', AttemptsInv, UNCHANGED <<queue, late>>,
           \A q \in Requests :
              \/ pc'[q] # "enqueue"
              \/ pc'[q] = pc[q] /\ task'[q] = task[q] /\ attempt'[q] = attempt[q]
    PROVE  AttemptsInv'
<1>1. ASSUME NEW q \in Requests, NEW t \in DOMAIN TaskTypes
      PROVE  IsFiniteSet(LateOf(q, t)') /\ Attempts(q, t)' <= Made(q, t)'
  <2>1. Made(q, t) \in 0..(MaxRetries + 1) /\ Made(q, t)' \in 0..(MaxRetries + 1)
    BY MadeBound, MadeBoundNext DEF EngineInv
  <2>2. Copies(q, t)' = Copies(q, t) /\ LateOf(q, t)' = LateOf(q, t)
    BY DEF Copies, Pushed, LateOf
  <2>3. Made(q, t) <= Made(q, t)'
    BY <2>1, EngineAssumption DEF Made
  <2>4. QED
    BY <2>1, <2>2, <2>3, NoAttempt
<1>2. QED
  BY <1>1 DEF AttemptsInv

LEMMA NextAttempts == EngineInv /\ AttemptsInv /\ [Next]_vars => AttemptsInv'
<1> SUFFICES ASSUME EngineInv, AttemptsInv, [Next]_vars PROVE AttemptsInv'
  OBVIOUS
<1>1. EngineInv'
  BY NextEngineInv
<1>2. ASSUME NEW r \in Requests, Statement(r) PROVE AttemptsInv'
  <2>1. /\ pc[r] = "idle"
        /\ UNCHANGED <<task, attempt, queue, late>>
        /\ pc' \in {[pc EXCEPT ![r] = "enqueue"], [pc EXCEPT ![r] = "reply"]}
    BY <1>2 DEF Statement, createUser, updateUser, deactivateUser, createBooking,
                updateBooking, cancelBooking, Rejected, Committed
  <2>2. QED
    BY <1>1, <2>1, StatementAttempts
<1>3. ASSUME NEW r \in Requests, enqueueCancelled(r) \/ Reply(r) \/ Disconnect(r)
      PROVE  AttemptsInv'
  <2>1. /\ UNCHANGED <<queue, late>>
        /\ \A q \in Requests :
              \/ pc'[q] # "enqueue"
              \/ pc'[q] = pc[q] /\ task'[q] = task[q] /\ attempt'[q] = attempt[q]
    BY <1>3 DEF enqueueCancelled, Reply, Disconnect, GiveUp, EndFanOut, EngineInv, TypeOK
  <2>2. QED
    BY <1>1, <2>1, QuietAttempts
<1>4. CASE \E r \in Requests : Continue(r)
  BY <1>1, <1>3, <1>4, TaskAttempts, FaultAttempts DEF Continue
<1>5. CASE ApplyLate
  BY <1>1, <1>5, ApplyLateAttempts
<1>6. CASE Crash
  BY <1>1, <1>6, CrashAttempts
<1>7. CASE UNCHANGED vars
  <2>1. UNCHANGED <<pc, task, attempt, queue, late>>
    BY <1>7 DEF vars, handlerVars
  <2>2. QED
    BY <1>1, <2>1, QuietAttempts
<1>8. QED
  BY <1>2, <1>3, <1>4, <1>5, <1>6, <1>7 DEF Next, Terminated

LEMMA InitAttempts == Init => AttemptsInv
<1> SUFFICES ASSUME Init, NEW r \in Requests, NEW t \in DOMAIN TaskTypes
             PROVE  IsFiniteSet(LateOf(r, t)) /\ Attempts(r, t) <= Made(r, t)
  BY DEF AttemptsInv
<1>1. Copies(r, t) = {} /\ LateOf(r, t) = {}
  BY DEF Init, Copies, Pushed, LateOf
<1>2. Made(r, t) \in 0..(MaxRetries + 1)
  BY InitEngineInv, MadeBound DEF EngineInv
<1>3. QED
  BY <1>1, <1>2, FS_EmptySet DEF Attempts

(* Without a failed LPUSH a task is on the list once, for the earlier jobs  *)
(* of its request are exactly the tasks before it.                         *)
LEMMA NoFaultNoDuplicate ==
    ASSUME EngineInv, NEW r \in Requests, r \notin redisFault, NEW t \in DOMAIN TaskTypes
    PROVE  Cardinality(Copies(r, t)) <= 1
<1>1. ASSUME NEW i \in Copies(r, t), NEW j \in Copies(r, t), i < j
      PROVE  FALSE
  <2>1. /\ j \in DOMAIN queue /\ queue[j] \in Job /\ queue[j].by = r
        /\ i \in DOMAIN queue /\ queue[i] \in Job /\ i \in Pushed(queue[j].by)
    BY DEF Copies, Pushed, EngineInv, TypeOK
  <2>2. TaskIndex(queue[i]) = t /\ TaskIndex(queue[j]) = t
    BY <2>1, TaskIndexOf, ThreeTasks DEF Copies
  <2>3. InOrderAt(queue, redisFault, j)
    BY <2>1, InOrderByJob DEF EngineInv, TypeOK, FanOutInOrder, Pushed, By
  <2>4. t < t
    BY <1>1, <2>1, <2>2, <2>3 DEF InOrderAt, By, Pushed
  <2>5. QED
    BY <2>4, ThreeTasks
<1>2. Copies(r, t) \subseteq Nat
  BY DEF Copies, Pushed, EngineInv, TypeOK
<1>3. \A i, j \in Copies(r, t) : i = j
  <2>1. \A i, j \in Nat : i = j \/ i < j \/ j < i
    OBVIOUS
  <2>2. QED
    BY <1>1, <1>2, <2>1
<1>4. CASE Copies(r, t) = {}
  BY <1>4, FS_EmptySet
<1>5. CASE Copies(r, t) # {}
  <2>1. PICK x : Copies(r, t) = {x}
    BY <1>3, <1>5
  <2>2. Cardinality({x}) = 1
    BY FS_Singleton
  <2>3. QED
    BY <2>1, <2>2
<1>6. QED
  BY <1>4, <1>5

(* However often the client library repeats an LPUSH, and whenever Redis    *)
(* applies what it gave up, a task is on the list at most once per attempt, *)
(* and once without a failed LPUSH (client.go:19-26).                       *)
THEOREM DuplicatesAreRetries == Spec => []DuplicatesOnlyFromRetries
<1>1. EngineInv /\ AttemptsInv => DuplicatesOnlyFromRetries
  <2> SUFFICES ASSUME EngineInv, AttemptsInv, NEW r \in Requests, NEW t \in DOMAIN TaskTypes
               PROVE  /\ Cardinality(Copies(r, t)) <= MaxRetries + 1
                      /\ r \notin redisFault => Cardinality(Copies(r, t)) <= 1
    BY DEF DuplicatesOnlyFromRetries
  <2>1. IsFiniteSet(Copies(r, t)) /\ IsFiniteSet(LateOf(r, t))
    BY CopiesFinite DEF EngineInv, TypeOK, AttemptsInv
  <2>2. Cardinality(Copies(r, t)) \in Nat /\ Cardinality(LateOf(r, t)) \in Nat
    BY <2>1, FS_CardinalityType
  <2>3. Made(r, t) \in 0..(MaxRetries + 1) /\ Attempts(r, t) <= Made(r, t)
    BY MadeBound DEF EngineInv, AttemptsInv
  <2>4. QED
    BY <2>2, <2>3, NoFaultNoDuplicate, EngineAssumption DEF Attempts
<1>2. Spec => [](EngineInv /\ AttemptsInv)
  BY InitEngineInv, NextEngineInv, InitAttempts, NextAttempts, PTL DEF Spec
<1>3. QED
  BY <1>1, <1>2, PTL
=============================================================================
