------------------------------- MODULE AsyncEngine -------------------------------
(***************************************************************************)
(* The phase 3 business engine: HTTP handlers that run one SQL statement,  *)
(* fan the business event out into three jobs LPUSHed onto the Redis list  *)
(* background_jobs, and answer.  Every request is a goroutine of its own;  *)
(* requests interleave at the calls to PostgreSQL and Redis.               *)
(*                                                                         *)
(* Decoding the request touches nothing shared and is merged into the      *)
(* statement step.  The list is kept as the producers build it: popping    *)
(* is the worker's business (module AsyncWorker).                          *)
(***************************************************************************)
EXTENDS BookingStore, Sequences, FiniteSets

CONSTANTS
    Requests,      \* the HTTP requests, each served once
    MaxRetries,    \* how often the Redis client repeats a failed LPUSH
    MaxLate,       \* bound on the LPUSHes that reach Redis late, at a time
    NoEvent        \* a request whose statement the handler did not see succeed

(* The fan-out of enqueueEventTasks, in the order of its slice. *)
TaskTypes == <<"email", "sms", "audit_log">>

ASSUME EngineAssumption ==
    /\ MaxRetries \in Nat
    /\ MaxLate \in Nat
    /\ NoEvent \notin Event

(* TaskPayload, and the request that pushed it. *)
Job == [type : {"email", "sms", "audit_log"}, event : Event, by : Requests]

(* An LPUSH under way: the job, and which of its attempts this is. *)
Command == [job : Job, attempt : 0..MaxRetries]

VARIABLES
    pc,            \* where each handler is
    event,         \* the business event a handler fans out
    task,          \* index of the task it is pushing
    attempt,       \* retries of the current LPUSH so far
    queue,         \* every job pushed on background_jobs, oldest first
    late,          \* LPUSHes nobody waits for that Redis may still apply
    gone,          \* requests whose client hung up: r.Context() is cancelled
    warned,        \* requests whose handler logged a failed enqueue
    reply,         \* the answers sent
    applied,       \* history: requests whose statement was committed
    found,         \* history: those of them whose statement met a row
    redisFault     \* history: requests that saw an LPUSH fail in Redis

handlerVars == <<pc, event, task, attempt, queue, late, gone, warned, reply, applied, found, redisFault>>
vars == <<store, handlerVars>>

Init ==
    /\ StoreInit
    /\ pc = [r \in Requests |-> "idle"]
    /\ event = [r \in Requests |-> NoEvent]
    /\ task = [r \in Requests |-> 1]
    /\ attempt = [r \in Requests |-> 0]
    /\ queue = <<>>
    /\ late = {}
    /\ gone = {}
    /\ warned = {}
    /\ reply = [r \in Requests |-> "none"]
    /\ applied = {}
    /\ found = {}
    /\ redisFault = {}

---------------------------------------------------------------------------
(* The statement was committed.  Either the handler sees its result, or the *)
(* connection or r.Context() broke first and it sees an error.             *)
Committed(r, entity, id, details) ==
    /\ pc[r] = "idle"
    /\ applied' = applied \cup {r}
    /\ found' = IF MetRow(entity, id) THEN found \cup {r} ELSE found
    /\ \/ /\ pc' = [pc EXCEPT ![r] = "enqueue"]
          /\ event' = [event EXCEPT ![r] =
                          [entity |-> entity, id |-> id, details |-> details]]
       \/ /\ pc' = [pc EXCEPT ![r] = "reply"]
          /\ UNCHANGED event
    /\ UNCHANGED <<task, attempt, queue, late, gone, warned, reply, redisFault>>

(* The request was not decodable, a constraint refused the statement, no    *)
(* row matched, or PostgreSQL could not be reached: http.Error and return.  *)
Rejected(r) ==
    /\ pc[r] = "idle"
    /\ pc' = [pc EXCEPT ![r] = "reply"]
    /\ UNCHANGED <<event, task, attempt, queue, late, gone, warned, reply, applied, found, redisFault>>
    /\ UNCHANGED store

createUser(r, email) ==
    /\ InsertUser(email)
    /\ Committed(r, "user", userSeq', "user_registered")

updateUser(r, id, email) ==
    /\ UpdateUser(id, email)
    /\ Committed(r, "user", id, "user_updated")

deactivateUser(r, id) ==
    /\ DeleteUser(id)
    /\ Committed(r, "user", id, "user_deactivated")

createBooking(r, user, room, start, end) ==
    /\ InsertBooking(user, room, start, end)
    /\ Committed(r, "booking", bookingSeq', "booking_created")

updateBooking(r, id, room, start, end) ==
    /\ UpdateBooking(id, room, start, end)
    /\ Committed(r, "booking", id, "booking_updated")

(* Seeded fault: cancelling deletes the row. *)
cancelBooking_Deletes(r, id) ==
    /\ bookings' = {b \in bookings : b.id # id}
    /\ UNCHANGED <<users, userSeq, bookingSeq>>
    /\ Committed(r, "booking", id, "booking_cancelled")

cancelBooking(r, id) ==
    /\ CancelBooking(id)
    /\ Committed(r, "booking", id, "booking_cancelled")

---------------------------------------------------------------------------
CurrentJob(r) == [type |-> TaskTypes[task[r]], event |-> event[r], by |-> r]

(* The LPUSHes these handlers are waiting for will have no answer.  Redis   *)
(* may have some of them in its hands and apply them all the same, now or   *)
(* once the handler has long gone on.                                      *)
Unanswered(rs) ==
    \E sent \in SUBSET rs :
        /\ late' = late \cup {[job |-> CurrentJob(r), attempt |-> attempt[r]] : r \in sent}
        /\ sent # {} => Cardinality(late') <= MaxLate

(* enqueueEventTasks returns; its loop counters are gone. *)
EndFanOut(r) ==
    /\ pc' = [pc EXCEPT ![r] = "reply"]
    /\ task' = [task EXCEPT ![r] = 1]
    /\ attempt' = [attempt EXCEPT ![r] = 0]

(* Seeded fault: the error of the fan-out is ignored. *)
GiveUp_Silently(r) ==
    /\ EndFanOut(r)
    /\ UNCHANGED warned

(* enqueueEventTasks stops at the first error; the handler logs a warning   *)
(* and answers as if nothing had happened.                                 *)
GiveUp(r) ==
    /\ EndFanOut(r)
    /\ warned' = warned \cup {r}

(* Seeded fault: the loop runs one task too far. *)
enqueueTask_OffByOne(r) ==
    /\ pc[r] = "enqueue"
    /\ r \notin gone
    /\ queue' = Append(queue, CurrentJob(r))
    /\ \/ /\ task[r] = Len(TaskTypes)
          /\ EndFanOut(r)
       \/ /\ task[r] <= Len(TaskTypes)
          /\ task' = [task EXCEPT ![r] = @ + 1]
          /\ attempt' = [attempt EXCEPT ![r] = 0]
          /\ UNCHANGED pc
    /\ UNCHANGED <<event, late, gone, warned, reply, applied, found, redisFault>>
    /\ UNCHANGED store

(* An LPUSH that Redis acknowledges. *)
enqueueTask(r) ==
    /\ pc[r] = "enqueue"
    /\ r \notin gone
    /\ queue' = Append(queue, CurrentJob(r))
    /\ \/ /\ task[r] = Len(TaskTypes)
          /\ EndFanOut(r)
       \/ /\ task[r] < Len(TaskTypes)
          /\ task' = [task EXCEPT ![r] = @ + 1]
          /\ attempt' = [attempt EXCEPT ![r] = 0]
          /\ UNCHANGED pc
    /\ UNCHANGED <<event, late, gone, warned, reply, applied, found, redisFault>>
    /\ UNCHANGED store

(* Seeded faults: the loop goes on after a failed task, and one retry more  *)
(* than configured.                                                        *)
enqueueFault_SkipsTask(r) ==
    /\ pc[r] = "enqueue"
    /\ r \notin gone
    /\ task[r] < Len(TaskTypes)
    /\ task' = [task EXCEPT ![r] = @ + 1]
    /\ Unanswered({r})
    /\ redisFault' = redisFault \cup {r}
    /\ UNCHANGED <<pc, event, attempt, queue, gone, warned, reply, applied, found>>
    /\ UNCHANGED store

enqueueFault_OneMore(r) ==
    /\ pc[r] = "enqueue"
    /\ r \notin gone
    /\ Unanswered({r})
    /\ redisFault' = redisFault \cup {r}
    /\ \/ /\ attempt[r] <= MaxRetries
          /\ attempt' = [attempt EXCEPT ![r] = @ + 1]
          /\ UNCHANGED <<pc, task, warned>>
       \/ GiveUp(r)
    /\ UNCHANGED <<event, queue, gone, reply, applied, found>>
    /\ UNCHANGED store

(* An LPUSH that ends in an error or a timeout.  The client library may     *)
(* repeat it, up to MaxRetries times.                                      *)
enqueueFault(r) ==
    /\ pc[r] = "enqueue"
    /\ r \notin gone
    /\ Unanswered({r})
    /\ redisFault' = redisFault \cup {r}
    /\ \/ /\ attempt[r] < MaxRetries
          /\ attempt' = [attempt EXCEPT ![r] = @ + 1]
          /\ UNCHANGED <<pc, task, warned>>
       \/ GiveUp(r)
    /\ UNCHANGED <<event, queue, gone, reply, applied, found>>
    /\ UNCHANGED store

(* Redis applies an LPUSH whose handler has given it up. *)
ApplyLate ==
    \E command \in late :
        /\ late' = late \ {command}
        /\ queue' = Append(queue, command.job)
        /\ UNCHANGED <<pc, event, task, attempt, gone, warned, reply, applied, found, redisFault>>
        /\ UNCHANGED store

(* Seeded fault: a cancelled context is tried again for ever. *)
enqueueCancelled_RetriesForEver(r) ==
    /\ pc[r] = "enqueue"
    /\ r \in gone
    /\ attempt' = [attempt EXCEPT ![r] = 1 - @]
    /\ UNCHANGED <<pc, event, task, queue, late, gone, warned, reply, applied, found, redisFault>>
    /\ UNCHANGED store

(* With a cancelled r.Context() the client library refuses to send LPUSH. *)
enqueueCancelled(r) ==
    /\ pc[r] = "enqueue"
    /\ r \in gone
    /\ GiveUp(r)
    /\ UNCHANGED <<event, queue, late, gone, reply, applied, found, redisFault>>
    /\ UNCHANGED store

(* Seeded faults: the handler answers and fans out in the background, and a *)
(* failed enqueue fails the request.                                       *)
Reply_BeforeFanOut(r) ==
    /\ \/ /\ pc[r] = "enqueue" /\ reply[r] = "none"
          /\ UNCHANGED pc
       \/ /\ pc[r] = "reply"
          /\ pc' = [pc EXCEPT ![r] = "done"]
    /\ reply' = [reply EXCEPT ![r] = IF event[r] # NoEvent THEN "success" ELSE "error"]
    /\ UNCHANGED <<event, task, attempt, queue, late, gone, warned, applied, found, redisFault>>
    /\ UNCHANGED store

Reply_FailsOnWarning(r) ==
    /\ pc[r] = "reply"
    /\ reply' = [reply EXCEPT ![r] =
                    IF event[r] # NoEvent /\ r \notin warned THEN "success" ELSE "error"]
    /\ pc' = [pc EXCEPT ![r] = "done"]
    /\ UNCHANGED <<event, task, attempt, queue, late, gone, warned, applied, found, redisFault>>
    /\ UNCHANGED store

(* The handler answers 2xx if the statement succeeded, else the error. *)
Reply(r) ==
    /\ pc[r] = "reply"
    /\ reply' = [reply EXCEPT ![r] = IF event[r] # NoEvent THEN "success" ELSE "error"]
    /\ pc' = [pc EXCEPT ![r] = "done"]
    /\ UNCHANGED <<event, task, attempt, queue, late, gone, warned, applied, found, redisFault>>
    /\ UNCHANGED store

(* The client closes its connection while the handler is still at work. *)
Disconnect(r) ==
    /\ pc[r] \in {"enqueue", "reply"}
    /\ r \notin gone
    /\ gone' = gone \cup {r}
    /\ UNCHANGED <<pc, event, task, attempt, queue, late, warned, reply, applied, found, redisFault>>
    /\ UNCHANGED store

(* The engine process ends: there is no handler for signals, so every       *)
(* request it is working on dies with it, unanswered.  Statements and jobs  *)
(* that were sent stay, an LPUSH under way may still be applied; a restarted *)
(* engine serves the requests to come.                                     *)
Crash ==
    /\ \E r \in Requests : pc[r] \in {"enqueue", "reply"}
    /\ pc' = [r \in Requests |-> IF pc[r] \in {"enqueue", "reply"} THEN "dead" ELSE pc[r]]
    /\ task' = [r \in Requests |-> 1]
    /\ attempt' = [r \in Requests |-> 0]
    /\ Unanswered({r \in Requests : pc[r] = "enqueue"})
    /\ UNCHANGED <<event, queue, gone, warned, reply, applied, found, redisFault>>
    /\ UNCHANGED store

Terminated ==
    /\ \A r \in Requests : pc[r] \in {"done", "dead"}
    /\ UNCHANGED vars

---------------------------------------------------------------------------
Statement(r) ==
    \/ \E email \in Emails : createUser(r, email)
    \/ \E id \in 1..MaxUsers, email \in Emails : updateUser(r, id, email)
    \/ \E id \in UserIds : deactivateUser(r, id)
    \/ \E user \in 1..MaxUsers, room \in RoomIds, start, end \in Bound :
          createBooking(r, user, room, start, end)
    \/ \E id \in 1..MaxBookings, room \in RoomIds, start, end \in Bound :
          updateBooking(r, id, room, start, end)
    \/ \E id \in BookingIds : cancelBooking(r, id)
    \/ Rejected(r)

Continue(r) ==
    \/ enqueueTask(r)
    \/ enqueueFault(r)
    \/ enqueueCancelled(r)
    \/ Reply(r)

Next ==
    \/ \E r \in Requests : Statement(r) \/ Continue(r) \/ Disconnect(r)
    \/ ApplyLate
    \/ Crash
    \/ Terminated

(* A handler goroutine that has started runs on: every call it makes ends   *)
(* within the client's timeouts, and clients and Redis may fail at will.    *)
Spec == Init /\ [][Next]_vars /\ \A r \in Requests : WF_vars(Continue(r))

---------------------------------------------------------------------------
TypeOK ==
    /\ pc \in [Requests -> {"idle", "enqueue", "reply", "done", "dead"}]
    /\ event \in [Requests -> Event \cup {NoEvent}]
    /\ task \in [Requests -> 1..Len(TaskTypes)]
    /\ attempt \in [Requests -> 0..MaxRetries]
    /\ queue \in Seq(Job)
    /\ late \subseteq Command
    /\ gone \subseteq Requests
    /\ warned \subseteq Requests
    /\ reply \in [Requests -> {"none", "success", "error"}]
    /\ applied \subseteq Requests
    /\ found \subseteq Requests
    /\ redisFault \subseteq Requests

Pushed(r) == {i \in DOMAIN queue : queue[i].by = r}
TaskIndex(job) == CHOOSE t \in DOMAIN TaskTypes : TaskTypes[t] = job.type
Copies(r, t) == {i \in Pushed(r) : queue[i].type = TaskTypes[t]}

(* What a job tells is true and stays true: its request was committed, and  *)
(* if the statement met a row, no later statement of anybody undoes what    *)
(* the job says of it; a deactivated user or a cancelled booking never      *)
(* comes back under its id, however late the worker reads of it.  Only      *)
(* deactivating and cancelling also queue jobs when they met no row         *)
(* (handler.go:187-198, 225-237).                                          *)
JobsStayTrue ==
    \A i \in DOMAIN queue :
        LET job == queue[i]
        IN  /\ job.by \in applied
            /\ IF job.by \in found THEN StillTrue(job.event)
                                   ELSE job.event.details \in NeedsNoRow

(* An aborted fan-out leaves a prefix: a task is on the list only if every  *)
(* earlier task of its event was pushed before it, even if Redis applies    *)
(* LPUSHes late; and a later task is never before it unless an LPUSH of the *)
(* request had failed (handler.go:110-114).                                 *)
FanOutInOrder ==
    \A j \in DOMAIN queue :
        LET t == TaskIndex(queue[j])
            earlier == {TaskIndex(queue[i]) : i \in {k \in Pushed(queue[j].by) : k < j}}
        IN  /\ 1..(t - 1) \subseteq earlier
            /\ queue[j].by \notin redisFault => earlier = 1..(t - 1)

(* Only a warning in the log or the end of the process explains a missing   *)
(* job: a handler that saw its statement succeed and is past its fan-out    *)
(* has pushed all jobs or logged a warning (handler.go:231-237).            *)
NoSilentLoss ==
    \A r \in Requests :
        pc[r] \in {"reply", "done"} /\ event[r] # NoEvent /\ r \notin warned =>
            \A t \in DOMAIN TaskTypes : Copies(r, t) # {}

(* Redis never decides the answer: success is sent only for a committed     *)
(* statement, and an error only if the handler did not see it succeed,      *)
(* whatever became of the jobs (handler.go:134-138, README.md:138).         *)
ReplyFollowsDatabase ==
    \A r \in Requests :
        /\ reply[r] = "success" => r \in applied
        /\ reply[r] = "error" => event[r] = NoEvent

(* A job is on the list more than once only through the client library's    *)
(* retries, and at most once per attempt (client.go:19-26).                 *)
DuplicatesOnlyFromRetries ==
    \A r \in Requests : \A t \in DOMAIN TaskTypes :
        /\ Cardinality(Copies(r, t)) <= MaxRetries + 1
        /\ r \notin redisFault => Cardinality(Copies(r, t)) <= 1

(* Every request that reached the database is answered unless the process   *)
(* ends, even if Redis fails every call or the client has left              *)
(* (README.md:138).                                                        *)
EveryRequestAnswered ==
    \A r \in Requests : pc[r] # "idle" ~> (reply[r] # "none" \/ pc[r] = "dead")

(* A failed enqueue is an infrastructure problem, "Redis unreachable"       *)
(* (handler.go:135).                                                       *)
LostJobsMeanRedisFailed ==
    \A r \in Requests : r \in warned => r \in redisFault
=============================================================================
