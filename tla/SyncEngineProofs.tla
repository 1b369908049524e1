---------------------------- MODULE SyncEngineProofs ----------------------------
(***************************************************************************)
(* Theorems about the phase 2 business engine, for every number of         *)
(* requests: its handlers implement the database specification, and its    *)
(* audit rows and answers agree with what was committed.                   *)
(***************************************************************************)
EXTENDS SyncEngine, BookingStoreProofs

(* Every step of a handler is one statement on the tables of schema.sql, or *)
(* leaves them alone.                                                      *)
LEMMA NextRefinesStore == [Next]_vars => [StoreNext]_store
<1> SUFFICES ASSUME [Next]_vars PROVE [StoreNext]_store
  OBVIOUS
<1>1. ASSUME NEW r \in Requests, Statement(r) PROVE [StoreNext]_store
  <2>1. CASE \E email \in Emails : createUser(r, email)
    BY <2>1 DEF createUser, StoreNext
  <2>2. CASE \E id \in 1..MaxUsers, email \in Emails : updateUser(r, id, email)
    BY <2>2 DEF updateUser, StoreNext
  <2>3. CASE \E id \in UserIds : deactivateUser(r, id)
    BY <2>3 DEF deactivateUser, StoreNext
  <2>4. CASE \E user \in 1..MaxUsers, room \in RoomIds, start, end \in Bound :
                createBooking(r, user, room, start, end)
    BY <2>4 DEF createBooking, StoreNext
  <2>5. CASE \E id \in 1..MaxBookings, room \in RoomIds, start, end \in Bound :
                updateBooking(r, id, room, start, end)
    BY <2>5 DEF updateBooking, StoreNext
  <2>6. CASE \E id \in BookingIds : cancelBooking(r, id)
    BY <2>6 DEF cancelBooking, StoreNext
  <2>7. CASE Rejected(r)
    BY <2>7 DEF Rejected
  <2>8. QED
    BY <1>1, <2>1, <2>2, <2>3, <2>4, <2>5, <2>6, <2>7 DEF Statement
<1>2. ASSUME NEW r \in Requests, Continue(r) PROVE [StoreNext]_store
  BY <1>2 DEF Continue, writeAuditLog, auditFault, Reply
<1>3. ASSUME NEW r \in Requests, Disconnect(r) PROVE [StoreNext]_store
  BY <1>3 DEF Disconnect
<1>4. Crash \/ Terminated \/ UNCHANGED vars => [StoreNext]_store
  BY DEF Crash, Terminated, vars
<1>5. QED
  BY <1>1, <1>2, <1>3, <1>4 DEF Next

(* The engine implements the database: whatever its handlers, their sleeps  *)
(* and their audit writes interleave to, the tables of schema.sql behave    *)
(* as StoreSpec says (handler.go:79-304).                                   *)
THEOREM SyncImplementsStore == Spec => StoreSpec
<1>1. Init => StoreInit
  BY DEF Init
<1>2. QED
  BY <1>1, NextRefinesStore, PTL DEF Spec, StoreSpec

(* No interleaving of handlers double-books a room (README.md:108). *)
THEOREM SyncNeverDoubleBooks == Spec => []NoDoubleBooking
BY SyncImplementsStore, NeverDoubleBooked, PTL

---------------------------------------------------------------------------
(* A row of audit_logs is of a committed request, and carries its event. *)
AuditForCommits ==
    \A row \in audit :
        row.by \in applied /\ event[row.by] # NoEvent /\ row.event = event[row.by]

(* A handler reaches the audit write only with the event of a committed     *)
(* statement, and has written its row when it leaves without a failure.     *)
SyncInv ==
    /\ TypeOK
    /\ AuditForCommits
    /\ \A r \in Requests :
          /\ pc[r] = "idle" => event[r] = NoEvent /\ r \notin failed
          /\ pc[r] = "audit" => event[r] # NoEvent
          /\ event[r] # NoEvent => r \in applied
          /\ pc[r] \in {"reply", "done"} /\ event[r] # NoEvent /\ r \notin failed => Audited(r)
          /\ ~auditTable => ~Audited(r)
          /\ reply[r] # "none" => pc[r] = "done"
          /\ reply[r] = "success" => event[r] # NoEvent /\ r \notin failed
          /\ reply[r] = "partial" => event[r] # NoEvent
          /\ reply[r] = "error" => event[r] = NoEvent

LEMMA AuditRowsByEvent ==
    ASSUME SyncInv, NEW r \in Requests, event[r] = NoEvent
    PROVE  ~Audited(r)
BY DEF SyncInv, AuditForCommits, Audited

LEMMA CommittedInv ==
    ASSUME SyncInv, NEW r \in Requests, NEW e \in {"user", "booking"},
           NEW id \in Int, NEW d \in Details, Committed(r, e, id, d)
    PROVE  SyncInv'
<1> DEFINE new == [entity |-> e, id |-> id, details |-> d]
<1>1. new \in Event /\ new # NoEvent
  BY SyncAssumption DEF Event
<1> HIDE DEF new
<1>2. /\ pc[r] = "idle"
      /\ applied' = applied \cup {r}
      /\ found' \in {found, found \cup {r}}
      /\ UNCHANGED <<auditTable, audit, gone, failed, reply>>
      /\ \/ pc' = [pc EXCEPT ![r] = "audit"] /\ event' = [event EXCEPT ![r] = new]
         \/ pc' = [pc EXCEPT ![r] = "reply"] /\ event' = event
  BY DEF Committed, new
<1>3. event[r] = NoEvent /\ reply[r] = "none" /\ ~Audited(r) /\ r \notin failed
  BY <1>2, AuditRowsByEvent DEF SyncInv, TypeOK
<1>4. \A q : Audited(q)' <=> Audited(q)
  BY <1>2 DEF Audited
<1>5. TypeOK'
  BY <1>1, <1>2 DEF SyncInv, TypeOK
<1>6. \A q \in Requests : q # r => pc'[q] = pc[q] /\ event'[q] = event[q]
  BY <1>2 DEF SyncInv, TypeOK
<1>7. AuditForCommits'
  <2>1. ASSUME NEW row \in audit
        PROVE  /\ row.by \in applied /\ row.by \in Requests /\ row.by # r
               /\ event[row.by] # NoEvent /\ row.event = event[row.by]
    BY <1>3 DEF SyncInv, AuditForCommits, Audited, TypeOK, AuditRow
  <2>2. QED
    BY <1>2, <1>6, <2>1 DEF AuditForCommits
<1>8. /\ pc'[r] \in {"audit", "reply"}
      /\ pc'[r] = "audit" => event'[r] = new
      /\ pc'[r] = "reply" => event'[r] = NoEvent
      /\ r \in applied'
  BY <1>2, <1>3 DEF SyncInv, TypeOK
<1>9. QED
  BY <1>1, <1>2, <1>3, <1>4, <1>5, <1>6, <1>7, <1>8 DEF SyncInv

LEMMA StatementInv ==
    ASSUME SyncInv, StoreInv, NEW r \in Requests, Statement(r)
    PROVE  SyncInv'
<1>1. UserIds \subseteq Int /\ 1..MaxUsers \subseteq Int
  BY StoreAssumption DEF UserIds
<1>2. BookingIds \subseteq Int /\ 1..MaxBookings \subseteq Int
  BY StoreAssumption DEF BookingIds
<1>3. CASE \E email \in Emails : createUser(r, email)
  <2>1. userSeq' \in Int
    BY <1>3, StoreAssumption DEF createUser, InsertUser, StoreInv, StoreTypeOK
  <2>2. QED
    BY <1>3, <2>1, CommittedInv DEF createUser, Details
<1>4. CASE \E id \in 1..MaxUsers, email \in Emails : updateUser(r, id, email)
  BY <1>1, <1>4, CommittedInv DEF updateUser, Details
<1>5. CASE \E id \in UserIds : deactivateUser(r, id)
  BY <1>1, <1>5, CommittedInv DEF deactivateUser, Details
<1>6. CASE \E user \in 1..MaxUsers, room \in RoomIds, start, end \in Bound :
              createBooking(r, user, room, start, end)
  <2>1. PICK user \in 1..MaxUsers, room \in RoomIds, start \in Bound, end \in Bound :
              createBooking(r, user, room, start, end)
    BY <1>6
  <2>2. bookingSeq' \in Int
    BY <2>1, StoreAssumption DEF createBooking, InsertBooking, StoreInv, StoreTypeOK
  <2>3. QED
    BY <2>1, <2>2, CommittedInv DEF createBooking, Details
<1>7. CASE \E id \in 1..MaxBookings, room \in RoomIds, start, end \in Bound :
              updateBooking(r, id, room, start, end)
  BY <1>2, <1>7, CommittedInv DEF updateBooking, Details
<1>8. CASE \E id \in BookingIds : cancelBooking(r, id)
  BY <1>2, <1>8, CommittedInv DEF cancelBooking, Details
<1>9. CASE Rejected(r)
  BY <1>9 DEF Rejected, SyncInv, TypeOK, AuditForCommits, Audited
<1>10. QED
  BY <1>3, <1>4, <1>5, <1>6, <1>7, <1>8, <1>9 DEF Statement

(* The end of the audit write: with its row and unmarked, or marked failed. *)
LEMMA AuditStepInv ==
    ASSUME SyncInv, NEW r \in Requests, writeAuditLog(r) \/ auditFault(r)
    PROVE  SyncInv'
<1>1. /\ pc[r] = "audit"
      /\ pc' = [pc EXCEPT ![r] = "reply"]
      /\ UNCHANGED <<auditTable, event, gone, reply, applied, found>>
      /\ \/ audit' = WithRow(r) /\ failed' = failed
         \/ audit' = WithRow(r) /\ failed' = failed \cup {r}
         \/ audit' = audit /\ failed' = failed \cup {r}
      /\ audit' # audit => auditTable
  BY DEF writeAuditLog, auditFault
<1>2. event[r] # NoEvent /\ event[r] \in Event /\ r \in applied
  BY <1>1 DEF SyncInv, TypeOK
<1>3. \A row \in audit' : row \in audit \/ (row.by = r /\ row.event = event[r] /\ row \in AuditRow)
  BY <1>1, <1>2 DEF WithRow, AuditRow
<1>4. TypeOK'
  BY <1>1, <1>3 DEF SyncInv, TypeOK
<1>5. AuditForCommits'
  BY <1>1, <1>2, <1>3 DEF SyncInv, AuditForCommits
<1>6. /\ \A q \in Requests : q # r => (Audited(q)' <=> Audited(q))
      /\ \A q \in Requests : Audited(q) => Audited(q)'
      /\ Audited(r)' \/ r \in failed'
      /\ ~auditTable => ~Audited(r)'
  <2>1. WithRow(r) = audit \cup {[event |-> event[r], by |-> r]}
    BY DEF WithRow
  <2>2. \A q \in Requests : q # r => (Audited(q)' <=> Audited(q))
    BY <1>1, <2>1 DEF Audited
  <2>3. \A q \in Requests : Audited(q) => Audited(q)'
    BY <1>1, <2>1 DEF Audited
  <2>4. Audited(r)' \/ r \in failed'
    <3> DEFINE new == [event |-> event[r], by |-> r]
    <3>1. new.by = r /\ new \in WithRow(r)
      BY <2>1
    <3>2. QED
      BY <1>1, <3>1 DEF Audited
  <2>5. ~auditTable => ~Audited(r)'
    BY <1>1 DEF SyncInv, Audited
  <2>6. QED
    BY <2>2, <2>3, <2>4, <2>5
<1>7. /\ pc'[r] = "reply"
      /\ \A q \in Requests : q # r => pc'[q] = pc[q] /\ (q \in failed' <=> q \in failed)
      /\ reply[r] = "none"
  BY <1>1 DEF SyncInv, TypeOK
<1>8. QED
  BY <1>1, <1>2, <1>4, <1>5, <1>6, <1>7 DEF SyncInv

LEMMA ReplyInv ==
    ASSUME SyncInv, NEW r \in Requests, Reply(r)
    PROVE  SyncInv'
<1>1. /\ pc[r] = "reply"
      /\ pc' = [pc EXCEPT ![r] = "done"]
      /\ reply' = [reply EXCEPT ![r] = Answer(r)]
      /\ UNCHANGED <<auditTable, event, audit, gone, failed, applied, found>>
  BY DEF Reply
<1>2. /\ Answer(r) \in {"error", "partial", "success"}
      /\ Answer(r) = "success" => event[r] # NoEvent /\ r \notin failed
      /\ Answer(r) = "partial" => event[r] # NoEvent
      /\ Answer(r) = "error" => event[r] = NoEvent
  BY DEF Answer
<1>3. TypeOK'
  BY <1>1, <1>2 DEF SyncInv, TypeOK
<1>4. AuditForCommits'
  BY <1>1 DEF SyncInv, AuditForCommits
<1>5. \A q : Audited(q)' <=> Audited(q)
  BY <1>1 DEF Audited
<1>6. QED
  BY <1>1, <1>2, <1>3, <1>4, <1>5 DEF SyncInv, TypeOK

LEMMA NextSyncInv == SyncInv /\ StoreInv /\ [Next]_vars => SyncInv'
<1> SUFFICES ASSUME SyncInv, StoreInv, [Next]_vars PROVE SyncInv'
  OBVIOUS
<1>1. CASE \E r \in Requests : Statement(r)
  BY <1>1, StatementInv
<1>2. CASE \E r \in Requests : Continue(r)
  BY <1>2, AuditStepInv, ReplyInv DEF Continue
<1>3. CASE \E r \in Requests : Disconnect(r)
  BY <1>3 DEF Disconnect, SyncInv, TypeOK, AuditForCommits, Audited
<1>4. CASE Crash
  <2>1. /\ pc' = [r \in Requests |-> IF pc[r] \in {"audit", "reply"} THEN "dead" ELSE pc[r]]
        /\ UNCHANGED <<auditTable, event, audit, gone, failed, reply, applied, found>>
    BY <1>4 DEF Crash
  <2>2. \A q : Audited(q)' <=> Audited(q)
    BY <2>1 DEF Audited
  <2>3. TypeOK' /\ AuditForCommits'
    BY <2>1 DEF SyncInv, TypeOK, AuditForCommits
  <2>4. QED
    BY <2>1, <2>2, <2>3 DEF SyncInv
<1>5. CASE UNCHANGED vars
  BY <1>5 DEF vars, handlerVars, SyncInv, TypeOK, AuditForCommits, Audited
<1>6. QED
  BY <1>1, <1>2, <1>3, <1>4, <1>5 DEF Next, Terminated

(* The inductive invariant holds in every state. *)
THEOREM SyncInvariant == Spec => []SyncInv
<1>1. Init => SyncInv
  BY DEF Init, SyncInv, TypeOK, AuditForCommits, Audited
<1>2. StoreSpec => []StoreInv
  BY StoreInvariant
<1>3. QED
  BY <1>1, <1>2, SyncImplementsStore, NextSyncInv, PTL DEF Spec

(* The states of the engine are well-typed (handler.go:67-304). *)
THEOREM SyncTypeCorrect == Spec => []TypeOK
BY SyncInvariant, PTL DEF SyncInv

(* For any number of requests each answer means what it says              *)
(* (handler.go:99-107).                                                    *)
THEOREM AnswersAreTruthful == Spec => []AnswerTellsTheTruth
<1>1. SyncInv => AnswerTellsTheTruth
  BY AuditRowsByEvent DEF SyncInv, AnswerTellsTheTruth
<1>2. QED
  BY <1>1, SyncInvariant, PTL

(* Without table audit_logs phase 2 never answers 2xx (README.md:200-223). *)
THEOREM NoSuccessWithoutTable == Spec => []NothingSucceedsWithoutTable
<1>1. SyncInv => NothingSucceedsWithoutTable
  BY DEF SyncInv, NothingSucceedsWithoutTable
<1>2. QED
  BY <1>1, SyncInvariant, PTL

---------------------------------------------------------------------------
(* The audit log tells the truth: the inductive invariant says it of the    *)
(* events the handlers hold, and AuditForCommits carries it to the rows.    *)
TruthInv ==
    \A r \in Requests :
        /\ pc[r] = "idle" => r \notin found
        /\ event[r] # NoEvent => IF r \in found THEN StillTrue(event[r])
                                               ELSE event[r].details \in NeedsNoRow

(* The events of the others stay true whatever the statement of one does.   *)
LEMMA CommittedTruth ==
    ASSUME SyncInv, StoreInv, TruthInv, [StoreNext]_store,
           NEW r \in Requests, NEW e \in {"user", "booking"},
           NEW id \in Int, NEW d \in Details, Committed(r, e, id, d),
           MetRow(e, id) \/ d \in NeedsNoRow,
           d = "user_deactivated" => e = "user" /\ id \notin Ids(users'),
           d = "booking_cancelled" =>
              e = "booking" /\ \A b \in bookings' : b.id = id => ~Active(b)
    PROVE  TruthInv'
<1> DEFINE new == [entity |-> e, id |-> id, details |-> d]
<1>1. new \in Event /\ new.entity = e /\ new.id = id /\ new.details = d
  BY DEF Event
<1> HIDE DEF new
<1>2. /\ pc[r] = "idle"
      /\ found' = IF MetRow(e, id) THEN found \cup {r} ELSE found
      /\ pc' \in {[pc EXCEPT ![r] = "audit"], [pc EXCEPT ![r] = "reply"]}
      /\ event' = [event EXCEPT ![r] = new] \/ event' = event
  BY DEF Committed, new
<1>3. event[r] = NoEvent /\ r \notin found
  BY <1>2 DEF SyncInv, TruthInv
<1>4. event \in [Requests -> Event \cup {NoEvent}] /\ DOMAIN pc = Requests
  BY DEF SyncInv, TypeOK
<1>5. ASSUME MetRow(e, id) PROVE StillTrue(new)'
  BY <1>1, <1>5, TruthFromStatement
<1>6. ASSUME NEW q \in Requests
      PROVE  /\ pc'[q] = "idle" => q \notin found'
             /\ event'[q] # NoEvent =>
                   IF q \in found' THEN StillTrue(event[q])' ELSE event'[q].details \in NeedsNoRow
  <2>1. CASE q = r
    <3>1. pc'[r] # "idle"
      BY <1>2, <1>4
    <3>2. event'[r] = new \/ event'[r] = NoEvent
      BY <1>2, <1>3, <1>4
    <3>3. r \in found' <=> MetRow(e, id)
      BY <1>2, <1>3
    <3>4. event'[r] = new => (MetRow(e, id) => StillTrue(event[r])')
      BY <1>5 DEF StillTrue
    <3>5. QED
      BY <1>1, <2>1, <3>1, <3>2, <3>3, <3>4
  <2>2. CASE q # r
    <3>1. pc'[q] = pc[q] /\ event'[q] = event[q] /\ (q \in found' <=> q \in found)
      BY <1>2, <1>4, <2>2
    <3>2. PICK f : f = event[q]
      OBVIOUS
    <3>3. f # NoEvent /\ StillTrue(f) => StillTrue(f)'
      BY <1>4, <3>2, TruthIsStable
    <3>4. StillTrue(f)' = StillTrue(event[q])' /\ StillTrue(f) = StillTrue(event[q])
      BY <3>1, <3>2 DEF StillTrue
    <3>5. QED
      BY <3>1, <3>2, <3>3, <3>4 DEF TruthInv
  <2>3. QED
    BY <2>1, <2>2
<1>7. QED
  BY <1>6 DEF TruthInv

(* A step that leaves the database and the events alone. *)
LEMMA QuietTruth ==
    ASSUME TruthInv, UNCHANGED <<store, event, found>>,
           \A q \in Requests : pc'[q] = "idle" => pc[q] = "idle"
    PROVE  TruthInv'
<1>1. \A q : StillTrue(event[q])' = StillTrue(event[q])
  BY DEF StillTrue, store
<1>2. QED
  BY <1>1 DEF TruthInv

LEMMA StatementTruth ==
    ASSUME SyncInv, StoreInv, TruthInv, [StoreNext]_store, NEW r \in Requests, Statement(r)
    PROVE  TruthInv'
<1>1. UserIds \subseteq Int /\ 1..MaxUsers \subseteq Int
  BY StoreAssumption DEF UserIds
<1>2. BookingIds \subseteq Int /\ 1..MaxBookings \subseteq Int
  BY StoreAssumption DEF BookingIds
<1>3. StoreInv' /\ StoreInv
  BY NextStoreInv
<1>4. CASE \E email \in Emails : createUser(r, email)
  <2>1. PICK email \in Emails : createUser(r, email)
    BY <1>4
  <2>2. PICK id : id = userSeq'
    OBVIOUS
  <2>3. id \in Int /\ Committed(r, "user", id, "user_registered")
    BY <1>3, <2>1, <2>2, StoreAssumption DEF createUser, StoreInv, StoreTypeOK
  <2>4. MetRow("user", id)
    <3>1. [id |-> id, email |-> email] \in users'
      BY <2>1, <2>2 DEF createUser, InsertUser
    <3>2. [id |-> id, email |-> email].id = id
      OBVIOUS
    <3>3. QED
      BY <3>1, <3>2 DEF MetRow, Ids
  <2>5. QED
    BY <2>3, <2>4, CommittedTruth DEF Details
<1>5. CASE \E id \in 1..MaxUsers, email \in Emails : updateUser(r, id, email)
  <2>1. PICK id \in 1..MaxUsers, email \in Emails : updateUser(r, id, email)
    BY <1>5
  <2>2. MetRow("user", id)
    BY <2>1 DEF updateUser, UpdateUser, MetRow, Ids
  <2>3. QED
    BY <1>1, <2>1, <2>2, CommittedTruth DEF updateUser, Details
<1>6. CASE \E id \in UserIds : deactivateUser(r, id)
  <2>1. PICK id \in UserIds : deactivateUser(r, id)
    BY <1>6
  <2>2. id \notin Ids(users')
    BY <2>1 DEF deactivateUser, DeleteUser, Ids
  <2>3. QED
    BY <1>1, <2>1, <2>2, CommittedTruth DEF deactivateUser, Details, NeedsNoRow
<1>7. CASE \E user \in 1..MaxUsers, room \in RoomIds, start, end \in Bound :
              createBooking(r, user, room, start, end)
  <2>1. PICK user \in 1..MaxUsers, room \in RoomIds, start \in Bound, end \in Bound :
              createBooking(r, user, room, start, end)
    BY <1>7
  <2>2. PICK id : id = bookingSeq'
    OBVIOUS
  <2>3. id \in Int /\ Committed(r, "booking", id, "booking_created")
    BY <1>3, <2>1, <2>2, StoreAssumption DEF createBooking, StoreInv, StoreTypeOK
  <2>4. NewBooking(user, room, start, end).id = id
    BY <2>1, <2>2 DEF createBooking, InsertBooking, NewBooking
  <2>5. NewBooking(user, room, start, end) \in bookings'
    BY <2>1 DEF createBooking, InsertBooking
  <2>6. MetRow("booking", id)
    BY <2>4, <2>5 DEF MetRow, Ids
  <2>7. QED
    BY <2>3, <2>6, CommittedTruth DEF Details
<1>8. CASE \E id \in 1..MaxBookings, room \in RoomIds, start, end \in Bound :
              updateBooking(r, id, room, start, end)
  <2>1. PICK id \in 1..MaxBookings, room \in RoomIds, start \in Bound, end \in Bound :
              updateBooking(r, id, room, start, end)
    BY <1>8
  <2>2. MetRow("booking", id)
    BY <2>1 DEF updateBooking, UpdateBooking, MetRow, Ids
  <2>3. QED
    BY <1>2, <2>1, <2>2, CommittedTruth DEF updateBooking, Details
<1>9. CASE \E id \in BookingIds : cancelBooking(r, id)
  <2>1. PICK id \in BookingIds : cancelBooking(r, id)
    BY <1>9
  <2>2. \A b \in bookings' : b.id = id => ~Active(b)
    BY <1>3, <2>1, CancelledRows DEF cancelBooking
  <2>3. QED
    BY <1>2, <2>1, <2>2, CommittedTruth DEF cancelBooking, Details, NeedsNoRow
<1>10. CASE Rejected(r)
  <2>1. UNCHANGED <<store, event, found>>
    BY <1>10 DEF Rejected
  <2>2. \A q \in Requests : pc'[q] = "idle" => pc[q] = "idle"
    BY <1>10 DEF Rejected, SyncInv, TypeOK
  <2>3. QED
    BY <2>1, <2>2, QuietTruth
<1>11. QED
  BY <1>4, <1>5, <1>6, <1>7, <1>8, <1>9, <1>10 DEF Statement

LEMMA NextTruth == SyncInv /\ StoreInv /\ TruthInv /\ [Next]_vars => TruthInv'
<1> SUFFICES ASSUME SyncInv, StoreInv, TruthInv, [Next]_vars PROVE TruthInv'
  OBVIOUS
<1>1. ASSUME NEW r \in Requests, Statement(r) PROVE TruthInv'
  BY <1>1, NextRefinesStore, StatementTruth
<1>2. ASSUME NEW r \in Requests, Continue(r) \/ Disconnect(r) PROVE TruthInv'
  <2>1. UNCHANGED <<store, event, found>>
    BY <1>2 DEF Continue, Disconnect, writeAuditLog, auditFault, Reply
  <2>2. \A q \in Requests : pc'[q] = "idle" => pc[q] = "idle"
    BY <1>2 DEF Continue, Disconnect, writeAuditLog, auditFault, Reply, SyncInv, TypeOK
  <2>3. QED
    BY <2>1, <2>2, QuietTruth
<1>3. CASE Crash \/ UNCHANGED vars
  <2>1. UNCHANGED <<store, event, found>>
    BY <1>3 DEF Crash, vars, handlerVars
  <2>2. \A q \in Requests : pc'[q] = "idle" => pc[q] = "idle"
    BY <1>3 DEF Crash, vars, handlerVars
  <2>3. QED
    BY <2>1, <2>2, QuietTruth
<1>4. QED
  BY <1>1, <1>2, <1>3 DEF Next, Terminated

(* What audit_logs tells is true and stays true, for any number of requests *)
(* and whatever fails: ids are never handed out again and cancelled         *)
(* bookings never come back (phase 2 handler.go:157-174, 285-298).          *)
THEOREM AuditIsTrue == Spec => []AuditStaysTrue
<1>1. Init => TruthInv
  BY DEF Init, TruthInv
<1>2. SyncInv /\ TruthInv => AuditStaysTrue
  <2> SUFFICES ASSUME SyncInv, TruthInv, NEW row \in audit
               PROVE  /\ row.by \in applied
                      /\ IF row.by \in found
                         THEN StillTrue(row.event)
                         ELSE row.event.details \in NeedsNoRow
    BY DEF AuditStaysTrue
  <2>1. /\ row.by \in applied /\ row.by \in Requests
        /\ event[row.by] # NoEvent /\ row.event = event[row.by]
    BY DEF SyncInv, AuditForCommits, TypeOK, AuditRow
  <2>2. QED
    BY <2>1 DEF TruthInv
<1>3. StoreSpec => []StoreInv
  BY StoreInvariant
<1>4. Spec => [](SyncInv /\ StoreInv)
  BY <1>3, SyncInvariant, SyncImplementsStore, PTL
<1>5. Spec => []TruthInv
  BY <1>1, <1>4, NextTruth, PTL DEF Spec
<1>6. QED
  BY <1>2, <1>4, <1>5, PTL
=============================================================================
