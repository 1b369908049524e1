------------------------------ MODULE AsyncWorker ------------------------------
(***************************************************************************)
(* The phase 3 worker service: one dispatcher goroutine pops payloads off  *)
(* the Redis list background_jobs and sends them into a bounded channel, a *)
(* fixed pool of worker goroutines decodes each payload, runs the handler  *)
(* in a goroutine of its own under a deadline, and writes one row per      *)
(* outcome to ClickHouse.  SIGINT or SIGTERM cancels the root context; the *)
(* process may also die and be started again at any point.                 *)
(*                                                                         *)
(* A payload is the number of its LPUSH, so payloads are told apart and    *)
(* ordered.  LPUSH and BRPOP work at opposite ends of the list: the list   *)
(* is a queue, oldest first.  What a payload says is left out except       *)
(* whether it decodes into a Task.                                         *)
(***************************************************************************)
EXTENDS Naturals, Sequences, FiniteSets

CONSTANTS
    Workers,        \* the pool goroutines (Config.PoolSize of them)
    BufferSize,     \* dispatchChannelBuffer
    BadPayloads,    \* payloads json.Unmarshal rejects
    AnyHandler,     \* TRUE: any Handler; FALSE: realTaskHandler of main.go
    MaxPush,        \* bound on the payloads pushed
    MaxRestarts     \* bound on the restarts of the process

ASSUME WorkerAssumption ==
    /\ IsFiniteSet(Workers) /\ Workers # {}
    /\ BufferSize \in Nat \ {0}
    /\ MaxPush \in Nat
    /\ MaxRestarts \in Nat
    /\ BadPayloads \subseteq 1..MaxPush
    /\ AnyHandler \in BOOLEAN

Payloads == 1..MaxPush
NoTask == 0
Outcome == {"SUCCESS", "FAILED", "TIMEOUT"}

VARIABLES
    pushed,         \* number of payloads pushed so far
    queue,          \* the Redis list, oldest first
    ctxDone,        \* the root context is cancelled
    dpc,            \* where Start and its dispatch loop are
    held,           \* payload the dispatcher popped and has not sent yet
    taskCh,         \* buffer of the channel between dispatcher and pool
    wpc,            \* where each pool goroutine is
    wtask,          \* payload each pool goroutine works on
    verdict,        \* outcome each pool goroutine is about to log
    handler,        \* the handler goroutine of each payload
    expired,        \* payloads whose task context passed its deadline
    audit,          \* the outcomes default.audit_logs shows for each payload
    critical,       \* payloads whose audit row was reported as not written
    dropped,        \* payloads the dispatcher popped and discarded
    missed,         \* payloads Redis popped for a reply that never arrived
    lost,           \* payloads in the process when it died
    restarts

dispatcherVars == <<dpc, held>>
poolVars == <<wpc, wtask, verdict, handler, expired>>
auditVars == <<audit, critical>>
fateVars == <<dropped, missed, lost, restarts>>
vars == <<pushed, queue, ctxDone, dispatcherVars, taskCh, poolVars, auditVars, fateVars>>

(* NewWorker and the start of Start: an empty channel, an idle pool. *)
NewProcess ==
    /\ ctxDone' = FALSE
    /\ dpc' = "check"
    /\ held' = NoTask
    /\ taskCh' = <<>>
    /\ wpc' = [w \in Workers |-> "recv"]
    /\ wtask' = [w \in Workers |-> NoTask]
    /\ verdict' = [w \in Workers |-> "none"]

Init ==
    /\ pushed = 0
    /\ queue = <<>>
    /\ ctxDone = FALSE
    /\ dpc = "check"
    /\ held = NoTask
    /\ taskCh = <<>>
    /\ wpc = [w \in Workers |-> "recv"]
    /\ wtask = [w \in Workers |-> NoTask]
    /\ verdict = [w \in Workers |-> "none"]
    /\ handler = [t \in Payloads |-> "none"]
    /\ expired = {}
    /\ audit = [t \in Payloads |-> {}]
    /\ critical = {}
    /\ dropped = {}
    /\ missed = {}
    /\ lost = {}
    /\ restarts = 0

---------------------------------------------------------------------------
(* The engine LPUSHes one more payload. *)
Produce ==
    /\ pushed < MaxPush
    /\ pushed' = pushed + 1
    /\ queue' = Append(queue, pushed')
    /\ UNCHANGED <<ctxDone, dispatcherVars, taskCh, poolVars, auditVars, fateVars>>

(* SIGINT or SIGTERM. *)
Cancel ==
    /\ ~ctxDone
    /\ ctxDone' = TRUE
    /\ UNCHANGED <<pushed, queue, dispatcherVars, taskCh, poolVars, auditVars, fateVars>>

---------------------------------------------------------------------------
(* runDispatchLoop, top of the loop: leave if the context is cancelled. *)
CheckContext ==
    /\ dpc = "check"
    /\ dpc' = IF ctxDone THEN "close" ELSE "pop"
    /\ UNCHANGED <<pushed, queue, ctxDone, held, taskCh, poolVars, auditVars, fateVars>>

(* Seeded faults: the payload is read but not removed, and the list is      *)
(* popped at the end it is pushed on.                                      *)
PopPayload_Peeks ==
    /\ dpc = "pop"
    /\ queue # <<>>
    /\ held' = Head(queue)
    /\ dpc' = "send"
    /\ UNCHANGED <<pushed, queue, ctxDone, taskCh, poolVars, auditVars, fateVars>>

PopPayload_Newest ==
    /\ dpc = "pop"
    /\ queue # <<>>
    /\ held' = queue[Len(queue)]
    /\ queue' = SubSeq(queue, 1, Len(queue) - 1)
    /\ dpc' = "send"
    /\ UNCHANGED <<pushed, ctxDone, taskCh, poolVars, auditVars, fateVars>>

(* BRPop answers with the oldest payload.  A BRPop already under way is not *)
(* interrupted by a cancelled context.                                     *)
PopPayload ==
    /\ dpc = "pop"
    /\ queue # <<>>
    /\ held' = Head(queue)
    /\ queue' = Tail(queue)
    /\ dpc' = "send"
    /\ UNCHANGED <<pushed, ctxDone, taskCh, poolVars, auditVars, fateVars>>

(* redis.Nil: nothing arrived within brPopBlockTimeout. *)
PopNothing ==
    /\ dpc = "pop"
    /\ queue = <<>>
    /\ dpc' = "check"
    /\ UNCHANGED <<pushed, queue, ctxDone, held, taskCh, poolVars, auditVars, fateVars>>

(* BRPop fails.  Redis may have popped a payload for a reply that was lost. *)
(* The client library tries again by itself, or the error reaches the loop, *)
(* which leaves if the context is cancelled and else backs off.            *)
PopError ==
    /\ dpc = "pop"
    /\ \/ UNCHANGED <<queue, missed>>
       \/ /\ queue # <<>>
          /\ queue' = Tail(queue)
          /\ missed' = missed \cup {Head(queue)}
    /\ dpc' \in {"pop", IF ctxDone THEN "close" ELSE "check"}
    /\ UNCHANGED <<pushed, ctxDone, held, taskCh, poolVars, auditVars,
                   dropped, lost, restarts>>

(* Seeded fault: the channel has no limit. *)
SendPayload_Unbounded ==
    /\ dpc = "send"
    /\ taskCh' = Append(taskCh, held)
    /\ held' = NoTask
    /\ dpc' = "check"
    /\ UNCHANGED <<pushed, queue, ctxDone, poolVars, auditVars, fateVars>>

(* The second select: the channel has room ... *)
SendPayload ==
    /\ dpc = "send"
    /\ Len(taskCh) < BufferSize
    /\ taskCh' = Append(taskCh, held)
    /\ held' = NoTask
    /\ dpc' = "check"
    /\ UNCHANGED <<pushed, queue, ctxDone, poolVars, auditVars, fateVars>>

(* ... or the context is cancelled.  With both ready, Go picks either. *)
DropPayload ==
    /\ dpc = "send"
    /\ ctxDone
    /\ dropped' = dropped \cup {held}
    /\ held' = NoTask
    /\ dpc' = "close"
    /\ UNCHANGED <<pushed, queue, ctxDone, taskCh, poolVars, auditVars,
                   missed, lost, restarts>>

(* Start closes the channel, *)
CloseChannel ==
    /\ dpc = "close"
    /\ dpc' = "wait"
    /\ UNCHANGED <<pushed, queue, ctxDone, held, taskCh, poolVars, auditVars, fateVars>>

(* Seeded fault: Start waits for the handler goroutines too. *)
Return_WaitsForHandlers ==
    /\ dpc = "wait"
    /\ \A w \in Workers : wpc[w] = "exited"
    /\ \A t \in Payloads : handler[t] # "running"
    /\ dpc' = "returned"
    /\ UNCHANGED <<pushed, queue, ctxDone, held, taskCh, poolVars, auditVars, fateVars>>

(* waits for the pool, and returns. *)
Return ==
    /\ dpc = "wait"
    /\ \A w \in Workers : wpc[w] = "exited"
    /\ dpc' = "returned"
    /\ UNCHANGED <<pushed, queue, ctxDone, held, taskCh, poolVars, auditVars, fateVars>>

Closed == dpc \in {"wait", "returned"}

---------------------------------------------------------------------------
(* A pool goroutine receives a payload from the channel, *)
ReceivePayload(w) ==
    /\ wpc[w] = "recv"
    /\ taskCh # <<>>
    /\ taskCh' = Tail(taskCh)
    /\ wtask' = [wtask EXCEPT ![w] = Head(taskCh)]
    /\ wpc' = [wpc EXCEPT ![w] = "decode"]
    /\ UNCHANGED <<pushed, queue, ctxDone, dispatcherVars, verdict, handler, expired,
                   auditVars, fateVars>>

(* and decodes it: a malformed one is FAILED, any other starts its handler  *)
(* goroutine under a deadline.  Goroutines that have received may do this   *)
(* in any order.                                                           *)
processPayload(w) ==
    LET t == wtask[w]
    IN  /\ wpc[w] = "decode"
        /\ \/ /\ t \in BadPayloads
              /\ wpc' = [wpc EXCEPT ![w] = "audit"]
              /\ verdict' = [verdict EXCEPT ![w] = "FAILED"]
              /\ UNCHANGED handler
           \/ /\ t \notin BadPayloads
              /\ wpc' = [wpc EXCEPT ![w] = "select"]
              /\ handler' = [handler EXCEPT ![t] = "running"]
              /\ UNCHANGED verdict
        /\ UNCHANGED <<pushed, queue, ctxDone, dispatcherVars, taskCh, wtask, expired,
                       auditVars, fateVars>>

(* Seeded fault: the pool leaves a closed channel undrained. *)
WorkerExit_Undrained(w) ==
    /\ wpc[w] = "recv"
    /\ Closed
    /\ wpc' = [wpc EXCEPT ![w] = "exited"]
    /\ UNCHANGED <<pushed, queue, ctxDone, dispatcherVars, taskCh, wtask, verdict,
                   handler, expired, auditVars, fateVars>>

(* The range loop ends once the channel is closed and drained. *)
WorkerExit(w) ==
    /\ wpc[w] = "recv"
    /\ taskCh = <<>>
    /\ Closed
    /\ wpc' = [wpc EXCEPT ![w] = "exited"]
    /\ UNCHANGED <<pushed, queue, ctxDone, dispatcherVars, taskCh, wtask, verdict,
                   handler, expired, auditVars, fateVars>>

(* What the handler of t may return now; a panic is recovered into an       *)
(* error.  realTaskHandler fails only if its context has already ended.    *)
HandlerResult(t) ==
    IF AnyHandler THEN {"ok", "err"}
    ELSE IF t \in expired THEN {"err"} ELSE {"ok"}

(* The handler goroutine ends, watched or abandoned; done is buffered. *)
HandlerReturn(t) ==
    /\ handler[t] = "running"
    /\ \E result \in HandlerResult(t) : handler' = [handler EXCEPT ![t] = result]
    /\ UNCHANGED <<pushed, queue, ctxDone, dispatcherVars, taskCh, wpc, wtask, verdict,
                   expired, auditVars, fateVars>>

(* taskTimeout passes. *)
Deadline(w) ==
    /\ wpc[w] = "select"
    /\ wtask[w] \notin expired
    /\ expired' = expired \cup {wtask[w]}
    /\ UNCHANGED <<pushed, queue, ctxDone, dispatcherVars, taskCh, wpc, wtask, verdict,
                   handler, auditVars, fateVars>>

Conclude(w, outcome) ==
    /\ wpc' = [wpc EXCEPT ![w] = "audit"]
    /\ verdict' = [verdict EXCEPT ![w] = outcome]
    /\ UNCHANGED <<pushed, queue, ctxDone, dispatcherVars, taskCh, wtask, handler,
                   expired, auditVars, fateVars>>

(* Seeded faults: the error of the handler is ignored, the task context is  *)
(* derived from the root context, the select waits for the handler, and a   *)
(* payload that timed out goes back on the list.                           *)
TakeResult_IgnoresError(w) ==
    /\ wpc[w] = "select"
    /\ handler[wtask[w]] \in {"ok", "err"}
    /\ Conclude(w, "SUCCESS")

TakeTimeout_RootContext(w) ==
    /\ wpc[w] = "select"
    /\ wtask[w] \in expired \/ ctxDone
    /\ Conclude(w, "TIMEOUT")

TakeTimeout_AwaitsHandler(w) ==
    /\ wpc[w] = "select"
    /\ wtask[w] \in expired
    /\ handler[wtask[w]] # "running"
    /\ Conclude(w, "TIMEOUT")

TakeTimeout_Requeues(w) ==
    /\ wpc[w] = "select"
    /\ wtask[w] \in expired
    /\ queue' = Append(queue, wtask[w])
    /\ wpc' = [wpc EXCEPT ![w] = "recv"]
    /\ wtask' = [wtask EXCEPT ![w] = NoTask]
    /\ UNCHANGED <<pushed, ctxDone, dispatcherVars, taskCh, verdict, handler, expired,
                   auditVars, fateVars>>

(* executeWithWatchdog: the result is there, or the deadline has passed.    *)
(* With both, Go picks either.                                             *)
TakeResult(w) ==
    /\ wpc[w] = "select"
    /\ \/ handler[wtask[w]] = "ok" /\ Conclude(w, "SUCCESS")
       \/ handler[wtask[w]] = "err" /\ Conclude(w, "FAILED")

TakeTimeout(w) ==
    /\ wpc[w] = "select"
    /\ wtask[w] \in expired
    /\ Conclude(w, "TIMEOUT")

(* logAudit: one INSERT.  It may fail, before or after ClickHouse stored    *)
(* the row; a failure is logged as CRITICAL.  A row the SQL driver stored   *)
(* twice, trying again over a new connection, is not told apart.           *)
LogAudit(w) ==
    LET t == wtask[w]
    IN  /\ wpc[w] = "audit"
        /\ \/ /\ audit' = [audit EXCEPT ![t] = @ \cup {verdict[w]}]
              /\ UNCHANGED critical
           \/ /\ audit' \in {audit, [audit EXCEPT ![t] = @ \cup {verdict[w]}]}
              /\ critical' = critical \cup {t}
        /\ wpc' = [wpc EXCEPT ![w] = "recv"]
        /\ wtask' = [wtask EXCEPT ![w] = NoTask]
        /\ verdict' = [verdict EXCEPT ![w] = "none"]
        /\ UNCHANGED <<pushed, queue, ctxDone, dispatcherVars, taskCh, handler, expired,
                       fateVars>>

---------------------------------------------------------------------------
SeqSet(s) == {s[i] : i \in DOMAIN s}

(* Payloads that are nowhere but in the memory of the process. *)
InProcess == ({held} \cup SeqSet(taskCh) \cup {wtask[w] : w \in Workers}) \ {NoTask}

(* The process dies, or has returned from main, and is started again. *)
Restart ==
    /\ restarts < MaxRestarts
    /\ restarts' = restarts + 1
    /\ lost' = lost \cup InProcess
    /\ handler' = [t \in Payloads |-> IF handler[t] = "running" THEN "dead" ELSE handler[t]]
    /\ NewProcess
    /\ UNCHANGED <<pushed, queue, expired, auditVars, dropped, missed>>

Terminated ==
    /\ dpc = "returned"
    /\ UNCHANGED vars

---------------------------------------------------------------------------
Dispatch ==
    \/ CheckContext
    \/ PopPayload
    \/ PopNothing
    \/ PopError
    \/ SendPayload
    \/ DropPayload
    \/ CloseChannel
    \/ Return

Work(w) ==
    \/ ReceivePayload(w)
    \/ processPayload(w)
    \/ WorkerExit(w)
    \/ TakeResult(w)
    \/ TakeTimeout(w)
    \/ LogAudit(w)

Next ==
    \/ Produce
    \/ Cancel
    \/ Dispatch
    \/ \E w \in Workers : Work(w) \/ Deadline(w)
    \/ \E t \in Payloads : HandlerReturn(t)
    \/ Restart
    \/ Terminated

(* The Go scheduler runs every goroutine that can run, a BRPop and an       *)
(* INSERT end within their timeouts, and deadlines fire.  Handlers may hang *)
(* for ever, Redis and ClickHouse may fail every call.                     *)
Spec ==
    /\ Init
    /\ [][Next]_vars
    /\ WF_vars(Dispatch)
    /\ \A w \in Workers : WF_vars(Work(w)) /\ WF_vars(Deadline(w))

---------------------------------------------------------------------------
TypeOK ==
    /\ pushed \in 0..MaxPush
    /\ queue \in Seq(Payloads)
    /\ ctxDone \in BOOLEAN
    /\ dpc \in {"check", "pop", "send", "close", "wait", "returned"}
    /\ held \in Payloads \cup {NoTask}
    /\ held # NoTask <=> dpc = "send"
    /\ taskCh \in Seq(Payloads)
    /\ Len(taskCh) <= BufferSize
    /\ wpc \in [Workers -> {"recv", "decode", "select", "audit", "exited"}]
    /\ wtask \in [Workers -> Payloads \cup {NoTask}]
    /\ \A w \in Workers : wtask[w] # NoTask <=> wpc[w] \in {"decode", "select", "audit"}
    /\ verdict \in [Workers -> Outcome \cup {"none"}]
    /\ \A w \in Workers : verdict[w] # "none" <=> wpc[w] = "audit"
    /\ handler \in [Payloads -> {"none", "running", "ok", "err", "dead"}]
    /\ expired \subseteq Payloads
    /\ audit \in [Payloads -> SUBSET Outcome]
    /\ critical \subseteq Payloads
    /\ dropped \subseteq Payloads
    /\ missed \subseteq Payloads
    /\ lost \subseteq Payloads
    /\ restarts \in 0..MaxRestarts

Settled == {t \in Payloads : audit[t] # {} \/ t \in critical}

Working == {wtask[w] : w \in Workers} \ {NoTask}

Whereabouts == <<SeqSet(queue), {held} \ {NoTask}, SeqSet(taskCh), Working,
                 Settled, dropped, missed, lost>>

(* No payload is lost track of and none is processed twice: each pushed     *)
(* payload is in exactly one place, from the Redis list to its audited end, *)
(* or is one of those accounted as dropped, missed or lost, and no two pool *)
(* goroutines work on the same payload (worker.go:165-225).                 *)
Conservation ==
    /\ \A t \in 1..pushed : \E i \in DOMAIN Whereabouts : t \in Whereabouts[i]
    /\ \A i, j \in DOMAIN Whereabouts : i # j => Whereabouts[i] \cap Whereabouts[j] = {}
    /\ \A v, w \in Workers : v # w /\ wtask[v] # NoTask => wtask[v] # wtask[w]

Backlog == taskCh \o (IF held = NoTask THEN <<>> ELSE <<held>>) \o queue
Received == {t \in Payloads : handler[t] # "none"} \cup Working \cup Settled

(* The pool receives payloads in the order they were pushed, whatever was   *)
(* dropped or lost in between: its goroutines may start and finish them out *)
(* of order, but nothing overtakes in the list, the dispatcher or the       *)
(* channel (worker.go:197).                                                *)
ReceivedInOrder ==
    /\ \A i, j \in DOMAIN Backlog : i < j => Backlog[i] < Backlog[j]
    /\ \A t \in Received, i \in DOMAIN Backlog : t < Backlog[i]

(* The audit row says what happened: SUCCESS only if the handler returned   *)
(* nil, FAILED only if it returned an error or was never run on a malformed *)
(* payload, TIMEOUT only past the deadline, and a late result never adds a  *)
(* second, different row (worker.go:247-259).                              *)
VerdictTruthful ==
    \A t \in Payloads :
        /\ "SUCCESS" \in audit[t] => handler[t] = "ok"
        /\ "FAILED" \in audit[t] => handler[t] = IF t \in BadPayloads THEN "none" ELSE "err"
        /\ "TIMEOUT" \in audit[t] => t \in expired
        /\ \A e, f \in audit[t] : e = f

(* A handler runs unwatched only once its deadline has passed: nothing but  *)
(* the watchdog ever abandons a handler (worker.go:229-231).               *)
AbandonedOnlyOnTimeout ==
    \A t \in Payloads : handler[t] = "running" =>
        t \in expired \/ \E w \in Workers : wtask[w] = t /\ wpc[w] = "select"

(* When Start returns, all that was popped is accounted for: audited, or    *)
(* reported as CRITICAL, except at most one payload per shutdown that the   *)
(* dispatcher discarded and what Redis or a crash took (worker.go:137-140). *)
DrainedOnReturn ==
    /\ dpc = "returned" =>
          \A t \in (1..pushed) \ SeqSet(queue) : t \in Settled \cup dropped \cup missed \cup lost
    /\ Cardinality(dropped) <= restarts + (IF dpc \in {"close", "wait", "returned"} THEN 1 ELSE 0)

(* Backpressure bounds what a crash can cost: the channel, one payload per  *)
(* pool goroutine and one in the dispatcher; the rest is safe in Redis      *)
(* (worker.go:45-48).                                                      *)
BoundedLoss == Cardinality(lost) <= restarts * (BufferSize + Cardinality(Workers) + 1)

(* realTaskHandler fails only for its context: a well-formed payload is     *)
(* audited FAILED or TIMEOUT only if its deadline passed (main.go:53-61).   *)
OnlyDeadlineFails ==
    \A t \in Payloads \ BadPayloads : audit[t] \subseteq {"SUCCESS"} \/ t \in expired

(* A stop signal ends in Start returning, even if every handler hangs and   *)
(* every audit INSERT fails (worker.go:137-140).                           *)
ShutdownCompletes == ctxDone ~> (dpc = "returned" \/ ~ctxDone)

(* Whatever the dispatcher has popped reaches an end: a verdict, the drop   *)
(* at shutdown or the crash of the process (worker.go:13-15).               *)
PoppedPayloadSettles ==
    \A t \in Payloads : t \in InProcess ~> t \in Settled \cup dropped \cup lost

(* Where a payload is, seen from outside the process. *)
StageOf(t) ==
    CASE t > pushed -> "unsent"
      [] t \in SeqSet(queue) -> "queued"
      [] t \in InProcess -> "held"
      [] audit[t] # {} -> "audited"
      [] OTHER -> "lost"

HO == INSTANCE HandOver WITH
        Capacity <- BufferSize + Cardinality(Workers) + 1,
        stage <- [t \in Payloads |-> StageOf(t)]

(* The worker service implements the hand-over: whatever its goroutines,    *)
(* timeouts, shutdowns and crashes do, each payload is taken once, oldest   *)
(* first, and audited or lost once (worker.go:137-280).                     *)
ImplementsHandOver == HO!Spec

(* Graceful shutdown drains the work in flight (README.md:145).             *)
GracefulShutdownDrains == dropped = {}
=============================================================================
