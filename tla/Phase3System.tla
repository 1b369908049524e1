------------------------------ MODULE Phase3System ------------------------------
(***************************************************************************)
(* Phase 3 as a whole: the business engine (AsyncEngine), and behind its   *)
(* Redis list the worker service, as the hand-over AsyncWorker implements  *)
(* (HandOver).  Payload i is the i-th job pushed.  What one side encodes   *)
(* and the other decodes is modelled by the fields that survive.           *)
(***************************************************************************)
EXTENDS AsyncEngine

CONSTANTS
    Capacity,      \* payloads the worker process can hold
    MaxPush        \* bound on the jobs pushed

ASSUME SystemAssumption == Capacity \in Nat /\ MaxPush \in Nat

VARIABLES
    stage,         \* how far each job has come
    before         \* history: requests answered when this one was sent

W == INSTANCE HandOver

systemVars == <<vars, stage, before>>

SystemInit ==
    /\ Init
    /\ W!Init
    /\ before = [r \in Requests |-> {}]

Answered == {r \in Requests : reply[r] # "none"}

BeforeNext == [q \in Requests |->
                  IF pc[q] = "idle" /\ pc'[q] # "idle" THEN Answered ELSE before[q]]

(* Seeded fault: engine and worker are configured with different lists. *)
EngineStep_OtherList ==
    /\ Next
    /\ UNCHANGED stage
    /\ before' = BeforeNext

(* A step of the engine.  A job it pushes is a payload for the worker.      *)
EngineStep ==
    /\ Next
    /\ IF queue' = queue THEN UNCHANGED stage ELSE W!Send
    /\ before' = BeforeNext

(* A step of the worker service. *)
WorkerStep ==
    /\ W!Take \/ W!Miss \/ W!Audit \/ W!Lose
    /\ UNCHANGED <<vars, before>>

SystemNext == EngineStep \/ WorkerStep

SystemSpec == SystemInit /\ [][SystemNext]_systemVars

---------------------------------------------------------------------------
(* TaskPayload has the keys type, entity, entity_id and details, Task the   *)
(* keys entity_type, entity_id, event and payload: entity_id alone is       *)
(* decoded, and as an unsigned integer.                                    *)
Absent == ""

Decodes(job) == job.event.id >= 0

Decoded(job) == [entityType |-> Absent, entityID |-> job.event.id]

(* The columns entity_type and entity_id of the row logAudit writes. *)
Row(job) ==
    IF Decodes(job) THEN Decoded(job) ELSE [entityType |-> "unknown", entityID |-> 0]

---------------------------------------------------------------------------
(* The payloads the worker can meet are the jobs on the engine's list.      *)
SystemTypeOK ==
    /\ stage \in [W!Payloads -> W!Stages]
    /\ Len(queue) <= MaxPush
    /\ \A i \in W!Payloads : stage[i] = "unsent" <=> i > Len(queue)
    /\ before \in [Requests -> SUBSET Requests]

(* What the worker service has taken off the list, whatever became of it. *)
Taken == {i \in DOMAIN queue : stage[i] \notin {"unsent", "queued"}}

(* Nobody is texted about a booking before its email was handed over: the   *)
(* tasks of a request the worker has taken are always the first ones of the *)
(* fan-out, also when it was aborted, repeated, or completed late by Redis; *)
(* and they come in that order and each once unless an LPUSH of the request *)
(* had failed (handler.go:110-114, worker.go:176).                          *)
FanOutTakenInOrder ==
    \A r \in Requests :
        LET taken == Pushed(r) \cap Taken
        IN  /\ \E t \in 0..Len(TaskTypes) : {TaskIndex(queue[i]) : i \in taken} = 1..t
            /\ r \notin redisFault =>
                  \A i, j \in taken : i < j => TaskIndex(queue[i]) < TaskIndex(queue[j])

(* The jobs of a client that waits for its answers reach the worker in its  *)
(* order: if request q was sent after the answer to r, and no LPUSH of r    *)
(* had failed, no job of q is taken before a job of r.  The order in which  *)
(* they are audited is open (handler.go:231-237, worker.go:176).            *)
SequentialRequestsInOrder ==
    \A q \in Requests : \A r \in before[q] \ redisFault :
        \A i \in Pushed(r), j \in Pushed(q) :
            /\ i < j
            /\ j \in Taken => i \in Taken

(* The audit row of a deactivation names the user it is about: the job is   *)
(* "the only remaining record that this user ever existed and was           *)
(* deactivated" (handler.go:193-195).                                      *)
DeactivationIsRecorded ==
    \A i \in W!At("audited") :
        LET job == queue[i]
        IN  job.type = "audit_log" /\ job.event.details = "user_deactivated" =>
                Row(job) = [entityType |-> job.event.entity, entityID |-> job.event.id]
=============================================================================
