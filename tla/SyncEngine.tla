------------------------------- MODULE SyncEngine -------------------------------
(***************************************************************************)
(* The phase 2 business engine: HTTP handlers that run one SQL statement,  *)
(* sleep for the e-mail and the SMS they stand for, write a row to table   *)
(* audit_logs of the same database, and only then answer.                  *)
(*                                                                         *)
(* Decoding the request touches nothing shared and is merged into the      *)
(* statement step; the two sleeps, which do not look at the context, are   *)
(* merged into the audit step.  A client that repeats a request is another *)
(* request with the same parameters.                                       *)
(***************************************************************************)
EXTENDS BookingStore

CONSTANTS
    Requests,      \* the HTTP requests, each served once
    NoEvent        \* a request whose statement the handler did not see succeed

ASSUME SyncAssumption == NoEvent \notin Event

(* A row of audit_logs, and the request that wrote it. *)
AuditRow == [event : Event, by : Requests]

VARIABLES
    pc,            \* where each handler is
    event,         \* what each handler has to audit
    auditTable,    \* whether table audit_logs exists: schema.sql lacks it
    audit,         \* its rows
    gone,          \* requests whose client hung up: r.Context() is cancelled
    failed,        \* requests whose handler saw writeAuditLog fail
    reply,         \* the answers sent
    applied,       \* history: requests whose statement was committed
    found          \* history: those of them whose statement met a row

handlerVars == <<pc, event, auditTable, audit, gone, failed, reply, applied, found>>
vars == <<store, handlerVars>>

Init ==
    /\ StoreInit
    /\ pc = [r \in Requests |-> "idle"]
    /\ event = [r \in Requests |-> NoEvent]
    /\ auditTable \in BOOLEAN
    /\ audit = {}
    /\ gone = {}
    /\ failed = {}
    /\ reply = [r \in Requests |-> "none"]
    /\ applied = {}
    /\ found = {}

---------------------------------------------------------------------------
(* The statement was committed.  Either the handler sees its result, or the *)
(* connection or r.Context() broke first and it sees an error.             *)
Committed(r, entity, id, details) ==
    /\ pc[r] = "idle"
    /\ applied' = applied \cup {r}
    /\ found' = IF MetRow(entity, id) THEN found \cup {r} ELSE found
    /\ \/ /\ pc' = [pc EXCEPT ![r] = "audit"]
          /\ event' = [event EXCEPT ![r] =
                          [entity |-> entity, id |-> id, details |-> details]]
       \/ /\ pc' = [pc EXCEPT ![r] = "reply"]
          /\ UNCHANGED event
    /\ UNCHANGED <<auditTable, audit, gone, failed, reply>>

(* Seeded fault: the return after http.Error is missing, and an audit row    *)
(* is written from nothing.                                                *)
Rejected_AuditsAnyway(r) ==
    /\ pc[r] = "idle"
    /\ pc' = [pc EXCEPT ![r] = "audit"]
    /\ UNCHANGED <<auditTable, event, audit, gone, failed, reply, applied, found>>
    /\ UNCHANGED store

(* The request was not decodable, a constraint refused the statement, no    *)
(* row matched, or PostgreSQL could not be reached: http.Error and return.  *)
Rejected(r) ==
    /\ pc[r] = "idle"
    /\ pc' = [pc EXCEPT ![r] = "reply"]
    /\ UNCHANGED <<auditTable, event, audit, gone, failed, reply, applied, found>>
    /\ UNCHANGED store

createUser(r, email) ==
    /\ InsertUser(email)
    /\ Committed(r, "user", userSeq', "user_registered")

updateUser(r, id, email) ==
    /\ UpdateUser(id, email)
    /\ Committed(r, "user", id, "user_updated")

deactivateUser(r, id) ==
    /\ DeleteUser(id)
    /\ Committed(r, "user", id, "user_deactivated")

createBooking(r, user, room, start, end) ==
    /\ InsertBooking(user, room, start, end)
    /\ Committed(r, "booking", bookingSeq', "booking_created")

updateBooking(r, id, room, start, end) ==
    /\ UpdateBooking(id, room, start, end)
    /\ Committed(r, "booking", id, "booking_updated")

(* Seeded fault: cancelling deletes the row. *)
cancelBooking_Deletes(r, id) ==
    /\ bookings' = {b \in bookings : b.id # id}
    /\ UNCHANGED <<users, userSeq, bookingSeq>>
    /\ Committed(r, "booking", id, "booking_cancelled")

cancelBooking(r, id) ==
    /\ CancelBooking(id)
    /\ Committed(r, "booking", id, "booking_cancelled")

---------------------------------------------------------------------------
WithRow(r) == audit \cup {[event |-> event[r], by |-> r]}

(* writeAuditLog succeeds. *)
writeAuditLog(r) ==
    /\ pc[r] = "audit"
    /\ auditTable
    /\ r \notin gone
    /\ audit' = WithRow(r)
    /\ pc' = [pc EXCEPT ![r] = "reply"]
    /\ UNCHANGED <<auditTable, event, gone, failed, reply, applied, found>>
    /\ UNCHANGED store

(* Seeded fault: only a refused INSERT is reported, not a cancelled one.    *)
auditFault_Unnoticed(r) ==
    /\ pc[r] = "audit"
    /\ UNCHANGED audit
    /\ failed' = IF r \in gone THEN failed ELSE failed \cup {r}
    /\ pc' = [pc EXCEPT ![r] = "reply"]
    /\ UNCHANGED <<auditTable, event, gone, reply, applied, found>>
    /\ UNCHANGED store

(* writeAuditLog returns an error: no such table, a cancelled context, or a *)
(* connection that broke before or after the row was stored.               *)
auditFault(r) ==
    /\ pc[r] = "audit"
    /\ audit' \in IF auditTable /\ r \notin gone THEN {audit, WithRow(r)} ELSE {audit}
    /\ failed' = failed \cup {r}
    /\ pc' = [pc EXCEPT ![r] = "reply"]
    /\ UNCHANGED <<auditTable, event, gone, reply, applied, found>>
    /\ UNCHANGED store

(* Seeded fault: a failed audit write does not fail the request. *)
Answer_IgnoresAudit(r) == IF event[r] = NoEvent THEN "error" ELSE "success"

Answer(r) ==
    CASE event[r] = NoEvent -> "error"
      [] event[r] # NoEvent /\ r \in failed -> "partial"
      [] event[r] # NoEvent /\ r \notin failed -> "success"

(* The handler answers: 2xx, the error of the statement, or 500 with "...   *)
(* but audit log failed", here "partial".                                  *)
Reply(r) ==
    /\ pc[r] = "reply"
    /\ reply' = [reply EXCEPT ![r] = Answer(r)]
    /\ pc' = [pc EXCEPT ![r] = "done"]
    /\ UNCHANGED <<auditTable, event, audit, gone, failed, applied, found>>
    /\ UNCHANGED store

(* The client closes its connection while the handler is still at work. *)
Disconnect(r) ==
    /\ pc[r] \in {"audit", "reply"}
    /\ r \notin gone
    /\ gone' = gone \cup {r}
    /\ UNCHANGED <<auditTable, pc, event, audit, failed, reply, applied, found>>
    /\ UNCHANGED store

(* The engine process ends: there is no handler for signals, so every       *)
(* request it is working on dies with it, unanswered.                      *)
Crash ==
    /\ \E r \in Requests : pc[r] \in {"audit", "reply"}
    /\ pc' = [r \in Requests |-> IF pc[r] \in {"audit", "reply"} THEN "dead" ELSE pc[r]]
    /\ UNCHANGED <<auditTable, event, audit, gone, failed, reply, applied, found>>
    /\ UNCHANGED store

Terminated ==
    /\ \A r \in Requests : pc[r] \in {"done", "dead"}
    /\ UNCHANGED vars

---------------------------------------------------------------------------
Statement(r) ==
    \/ \E email \in Emails : createUser(r, email)
    \/ \E id \in 1..MaxUsers, email \in Emails : updateUser(r, id, email)
    \/ \E id \in UserIds : deactivateUser(r, id)
    \/ \E user \in 1..MaxUsers, room \in RoomIds, start, end \in Bound :
          createBooking(r, user, room, start, end)
    \/ \E id \in 1..MaxBookings, room \in RoomIds, start, end \in Bound :
          updateBooking(r, id, room, start, end)
    \/ \E id \in BookingIds : cancelBooking(r, id)
    \/ Rejected(r)

Continue(r) ==
    \/ writeAuditLog(r)
    \/ auditFault(r)
    \/ Reply(r)

Next ==
    \/ \E r \in Requests : Statement(r) \/ Continue(r) \/ Disconnect(r)
    \/ Crash
    \/ Terminated

Spec == Init /\ [][Next]_vars

---------------------------------------------------------------------------
TypeOK ==
    /\ pc \in [Requests -> {"idle", "audit", "reply", "done", "dead"}]
    /\ event \in [Requests -> Event \cup {NoEvent}]
    /\ auditTable \in BOOLEAN
    /\ audit \subseteq AuditRow
    /\ gone \subseteq Requests
    /\ failed \subseteq Requests
    /\ reply \in [Requests -> {"none", "success", "partial", "error"}]
    /\ applied \subseteq Requests
    /\ found \subseteq Requests

Audited(r) == \E row \in audit : row.by = r

(* What audit_logs says is true and stays true: the row's request was       *)
(* committed, and if the statement met a row, no later statement undoes     *)
(* what the log says of it; what is logged as deactivated or cancelled      *)
(* never comes back under its id.  Only deactivating and cancelling are     *)
(* also logged when they met no row (phase 2 handler.go:157-174, 285-298).  *)
AuditStaysTrue ==
    \A row \in audit :
        /\ row.by \in applied
        /\ IF row.by \in found THEN StillTrue(row.event)
                               ELSE row.event.details \in NeedsNoRow

(* What a client may conclude from each answer, whatever failed on the way  *)
(* and whoever hung up: success means committed and audited, "... but audit *)
(* log failed" means committed, and only an error leaves the outcome open,  *)
(* with nothing audited (handler.go:99-107).                               *)
AnswerTellsTheTruth ==
    \A r \in Requests :
        /\ reply[r] = "success" => r \in applied /\ Audited(r)
        /\ reply[r] = "partial" => r \in applied
        /\ reply[r] = "error" => ~Audited(r)

(* Without the table every mutating request fails, although every statement *)
(* may have been committed: the success rate of phase 2 is exactly zero     *)
(* (README.md:200-223).                                                    *)
NothingSucceedsWithoutTable ==
    ~auditTable => \A r \in Requests : reply[r] # "success"
=============================================================================
