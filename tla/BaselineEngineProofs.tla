-------------------------- MODULE BaselineEngineProofs --------------------------
(***************************************************************************)
(* Theorems about the phase 1 business engine, for every number of         *)
(* requests: its handlers implement the database specification, an id a     *)
(* client was told stays the client's, and a listing is one view.          *)
(***************************************************************************)
EXTENDS BaselineEngine, BookingStoreProofs

(* Every step of a handler is one statement on the tables, or leaves them   *)
(* alone.                                                                  *)
LEMMA StatementRefinesStore ==
    ASSUME NEW r \in Requests, Statement(r)
    PROVE  [StoreNext]_store
<1>1. CASE \E email \in Emails : createUser(r, email)
  BY <1>1 DEF createUser, StoreNext
<1>2. CASE \E id \in 1..MaxUsers, email \in Emails : updateUser(r, id, email)
  BY <1>2 DEF updateUser, StoreNext
<1>3. CASE \E id \in UserIds : deactivateUser(r, id)
  BY <1>3 DEF deactivateUser, StoreNext
<1>4. CASE \E user \in 1..MaxUsers, room \in RoomIds, start, end \in Bound :
              createBooking(r, user, room, start, end)
  BY <1>4 DEF createBooking, StoreNext
<1>5. CASE \E id \in 1..MaxBookings, room \in RoomIds, start, end \in Bound :
              updateBooking(r, id, room, start, end)
  BY <1>5 DEF updateBooking, StoreNext
<1>6. CASE \E id \in BookingIds : cancelBooking(r, id)
  BY <1>6 DEF cancelBooking, StoreNext
<1>7. CASE (\E start, end \in Bound : checkAvailability(r, start, end)) \/ Rejected(r)
  BY <1>7 DEF checkAvailability, Rejected
<1>8. QED
  BY <1>1, <1>2, <1>3, <1>4, <1>5, <1>6, <1>7 DEF Statement

LEMMA NextRefinesStore == [Next]_vars => [StoreNext]_store
<1>1. ASSUME NEW r \in Requests, NextRow(r) \/ EndRows(r) \/ Reply(r) PROVE UNCHANGED store
  BY <1>1 DEF NextRow, EndRows, Reply
<1>2. Crash \/ UNCHANGED vars => UNCHANGED store
  BY DEF Crash, vars
<1>3. QED
  BY <1>1, <1>2, StatementRefinesStore DEF Next

(* The engine implements the database: whatever its handlers interleave to, *)
(* the tables behave as StoreSpec says (handlers.go:50-199).               *)
THEOREM BaselineImplementsStore == Spec => StoreSpec
<1>1. Init => StoreInit
  BY DEF Init
<1>2. QED
  BY <1>1, NextRefinesStore, PTL DEF Spec, StoreSpec

(* No interleaving of handlers double-books a room (README.md:108). *)
THEOREM BaselineNeverDoubleBooks == Spec => []NoDoubleBooking
BY BaselineImplementsStore, NeverDoubleBooked, PTL

---------------------------------------------------------------------------
(* What a listing has read and has still to read was offered at a moment it *)
(* could have seen.                                                        *)
ListingInv ==
    \A r \in Requests :
        /\ pc[r] = "listing" =>
              /\ answer[r].kind = "rooms"
              /\ answer[r].rooms \cup stream[r] \in views[r]
        /\ pc[r] \in {"reply", "done"} /\ answer[r].kind = "rooms" =>
              \E view \in views[r] : IF r \in cut THEN answer[r].rooms \subseteq view
                                                  ELSE answer[r].rooms = view

(* A confirmed id was handed out by the sequence, to one request, and the   *)
(* row under it is that of the user who booked.                            *)
ConfirmedInv ==
    \A r \in Requests : answer[r].kind = "created" =>
        /\ pc[r] # "idle"
        /\ answer[r].id <= bookingSeq
        /\ \A q \in Requests \ {r} : answer[q].kind = "created" => answer[q].id # answer[r].id
        /\ \A b \in bookings : b.id = answer[r].id => b.user = answer[r].user

BaselineInv ==
    /\ TypeOK
    /\ \A r \in Requests : pc[r] = "idle" => answer[r] = Failure
    /\ ListingInv
    /\ ConfirmedInv

(* What the histories of views gain. *)
LEMMA ViewsGrow ==
    ASSUME TypeOK, Observe
    PROVE  /\ views' \in [Requests -> SUBSET SUBSET Rooms]
           /\ \A r \in Requests : views[r] \subseteq views'[r]
           /\ \A r \in Requests : pc'[r] = "listing" => Offered(window[r])' \in views'[r]
<1>1. \A r \in Requests : Offered(window[r])' \subseteq Rooms
  BY DEF Offered, AvailableRooms
<1>2. QED
  BY <1>1 DEF Observe, TypeOK

(* A statement leaves the confirmed ids as they are: rows keep the user of  *)
(* their id, and new rows have ids not handed out before.                  *)
LEMMA ConfirmedStays ==
    ASSUME BaselineInv, StoreInv, [StoreNext]_store, NEW r \in Requests,
           answer[r].kind = "created"
    PROVE  /\ answer[r].id \in 1..bookingSeq
           /\ answer[r].id <= bookingSeq'
           /\ \A b \in bookings' : b.id = answer[r].id => b.user = answer[r].user
<1>1. answer[r].id \in 1..MaxBookings /\ bookingSeq \in Nat /\ answer[r].id <= bookingSeq
  BY StoreAssumption DEF BaselineInv, ConfirmedInv, TypeOK, Answer, Failure, Success, Created,
                         Listed, StoreInv, StoreTypeOK
<1>2. answer[r].id \in 1..bookingSeq
  BY <1>1, StoreAssumption
<1>3. bookingSeq' >= bookingSeq
  <2>1. bookingSeq' = bookingSeq \/ bookingSeq' = bookingSeq + 1
    BY DEF StoreNext, store, InsertUser, UpdateUser, DeleteUser, InsertBooking, UpdateBooking,
           CancelBooking
  <2>2. QED
    BY <1>1, <2>1
<1>4. bookingSeq' \in Nat
  BY NextStoreInv, StoreAssumption DEF StoreInv, StoreTypeOK
<1>5. ASSUME NEW b \in bookings', b.id = answer[r].id PROVE b.user = answer[r].user
  <2>1. PICK c \in bookings : c.id = b.id /\ c.user = b.user
    BY <1>1, <1>2, <1>5, NextRowStep DEF RowStep
  <2>2. QED
    BY <1>5, <2>1 DEF BaselineInv, ConfirmedInv
<1>6. QED
  BY <1>1, <1>2, <1>3, <1>4, <1>5

(* A handler ends its statement with an answer that confirms nothing. *)
LEMMA ConcludeInv ==
    ASSUME BaselineInv, StoreInv, [StoreNext]_store, Observe, NEW r \in Requests,
           NEW a \in Answer, Conclude(r, a), a.kind # "rooms",
           a.kind = "created" =>
              /\ a.id = bookingSeq + 1
              /\ bookingSeq' = bookingSeq + 1
              /\ \A b \in bookings' : b.id = a.id => b.user = a.user
    PROVE  BaselineInv'
<1>1. /\ pc[r] = "idle"
      /\ pc' = [pc EXCEPT ![r] = "reply"]
      /\ answer' = [answer EXCEPT ![r] = a]
      /\ UNCHANGED <<window, stream, cut>>
  BY DEF Conclude
<1>2. TypeOK'
  BY <1>1, ViewsGrow DEF BaselineInv, TypeOK
<1>3. /\ pc'[r] = "reply" /\ answer'[r] = a
      /\ \A q \in Requests : q # r => pc'[q] = pc[q] /\ answer'[q] = answer[q]
  BY <1>1 DEF BaselineInv, TypeOK
<1>4. ListingInv'
  <2> SUFFICES ASSUME NEW q \in Requests, q # r PROVE ListingInv!(q)'
    BY <1>3 DEF ListingInv
  <2>1. views[q] \subseteq views'[q]
    BY ViewsGrow DEF BaselineInv
  <2>2. QED
    BY <1>1, <1>3, <2>1 DEF BaselineInv, ListingInv
<1>5. bookingSeq \in Nat
  BY StoreAssumption DEF StoreInv, StoreTypeOK
<1>6. ConfirmedInv'
  <2>1. ASSUME NEW q \in Requests, q # r, answer[q].kind = "created"
        PROVE  /\ pc'[q] # "idle"
               /\ answer[q].id <= bookingSeq'
               /\ answer[q].id <= bookingSeq /\ answer[q].id \in Nat
               /\ \A b \in bookings' : b.id = answer[q].id => b.user = answer[q].user
    BY <1>3, <1>5, <2>1, ConfirmedStays DEF BaselineInv, ConfirmedInv
  <2>2. ASSUME NEW q \in Requests, q # r, answer[q].kind = "created", a.kind = "created"
        PROVE  answer[q].id # a.id
    BY <1>5, <2>1, <2>2
  <2>3. a.kind = "created" => a.id <= bookingSeq'
    BY <1>5
  <2>4. ASSUME NEW p \in Requests, NEW q \in Requests, p # q, p # r, q # r,
               answer[p].kind = "created", answer[q].kind = "created"
        PROVE  answer[q].id # answer[p].id
    BY <2>4 DEF BaselineInv, ConfirmedInv
  <2>5. QED
    BY <1>3, <2>1, <2>2, <2>3, <2>4 DEF ConfirmedInv
<1>7. \A q \in Requests : pc'[q] = "idle" => answer'[q] = Failure
  BY <1>3 DEF BaselineInv
<1>8. QED
  BY <1>2, <1>4, <1>6, <1>7 DEF BaselineInv

(* The handler of a booking is the only one that confirms an id. *)
LEMMA CreateBookingInv ==
    ASSUME BaselineInv, StoreInv, Observe, NEW r \in Requests, NEW user \in 1..MaxUsers,
           NEW room \in RoomIds, NEW start \in Bound, NEW end \in Bound,
           createBooking(r, user, room, start, end)
    PROVE  BaselineInv'
<1> DEFINE a == Created(bookingSeq', user)
<1>1. /\ bookingSeq' = bookingSeq + 1
      /\ bookingSeq' \in 1..MaxBookings
      /\ \A b \in bookings : b.id <= bookingSeq /\ b.id \in Nat
      /\ bookingSeq \in Nat
  BY StoreAssumption DEF createBooking, InsertBooking, NewBooking, StoreInv, StoreTypeOK, BookingRow
<1>2. PICK row : /\ row.user = user
                 /\ bookings' = bookings \cup {row}
  BY DEF createBooking, InsertBooking, NewBooking
<1>3. \A b \in bookings' : b.id = bookingSeq' => b.user = user
  BY <1>1, <1>2
<1>4. [StoreNext]_store
  BY DEF createBooking, StoreNext
<1>5. a \in Answer /\ Failure \in Answer
  BY <1>1 DEF Answer
<1>6. a.kind = "created" /\ a.id = bookingSeq' /\ a.user = user /\ Failure.kind = "error"
  BY DEF Created, Failure
<1>7. CASE Conclude(r, a)
  <2> HIDE DEF a
  <2> QED
    BY <1>1, <1>3, <1>4, <1>5, <1>6, <1>7, ConcludeInv
<1>8. CASE Conclude(r, Failure)
  BY <1>4, <1>5, <1>6, <1>8, ConcludeInv
<1>9. QED
  BY <1>7, <1>8 DEF createBooking, Committed

LEMMA QuietConcludeInv ==
    ASSUME BaselineInv, StoreInv, [StoreNext]_store, Observe, NEW r \in Requests,
           Committed(r, Success) \/ Conclude(r, Failure)
    PROVE  BaselineInv'
<1>1. /\ Success \in Answer /\ Failure \in Answer
      /\ Success.kind = "ok" /\ Failure.kind = "error"
  BY DEF Answer, Success, Failure
<1>2. QED
  BY <1>1, ConcludeInv DEF Committed

(* A listing begins with nothing read and everything to read. *)
LEMMA CheckAvailabilityInv ==
    ASSUME BaselineInv, Observe, NEW r \in Requests, NEW start \in Bound, NEW end \in Bound,
           checkAvailability(r, start, end)
    PROVE  BaselineInv'
<1> DEFINE offered == Offered(<<start, end>>)
<1>1. /\ pc[r] = "idle"
      /\ pc' = [pc EXCEPT ![r] = "listing"]
      /\ answer' = [answer EXCEPT ![r] = Listed({})]
      /\ window' = [window EXCEPT ![r] = <<start, end>>]
      /\ stream' = [stream EXCEPT ![r] = offered]
      /\ UNCHANGED <<store, cut>>
  BY DEF checkAvailability
<1>2. offered \subseteq Rooms
  BY DEF Offered, AvailableRooms
<1>3. window'[r] = <<start, end>>
  BY <1>1 DEF BaselineInv, TypeOK
<1>4. Offered(window[r])' = offered
  BY <1>1, <1>3 DEF Offered, AvailableRooms, store
<1>5. Listed({}) \in Answer /\ Listed({}).kind = "rooms" /\ Listed({}).rooms = {}
  BY DEF Answer, Listed
<1> HIDE DEF offered
<1>6. TypeOK'
  BY <1>1, <1>2, <1>5, ViewsGrow DEF BaselineInv, TypeOK
<1>7. /\ pc'[r] = "listing" /\ answer'[r] = Listed({}) /\ stream'[r] = offered
      /\ \A q \in Requests : q # r =>
            pc'[q] = pc[q] /\ answer'[q] = answer[q] /\ stream'[q] = stream[q]
  BY <1>1 DEF BaselineInv, TypeOK
<1>8. ListingInv'
  <2>1. \A q \in Requests : views[q] \subseteq views'[q]
    BY ViewsGrow DEF BaselineInv
  <2>2. offered \in views'[r]
    BY <1>4, <1>7, ViewsGrow DEF BaselineInv
  <2>3. \A q \in Requests : q # r => ListingInv!(q)'
    BY <1>1, <1>7, <2>1 DEF BaselineInv, ListingInv
  <2>4. ListingInv!(r)'
    BY <1>5, <1>7, <2>2
  <2>5. QED
    BY <2>3, <2>4 DEF ListingInv
<1>9. ConfirmedInv'
  BY <1>1, <1>5, <1>7 DEF BaselineInv, ConfirmedInv, store
<1>10. QED
  BY <1>6, <1>7, <1>8, <1>9 DEF BaselineInv

LEMMA StatementInv ==
    ASSUME BaselineInv, StoreInv, Observe, NEW r \in Requests, Statement(r)
    PROVE  BaselineInv'
<1>1. [StoreNext]_store
  BY StatementRefinesStore
<1>2. CASE \E email \in Emails : createUser(r, email)
  BY <1>1, <1>2, QuietConcludeInv DEF createUser
<1>3. CASE \E id \in 1..MaxUsers, email \in Emails : updateUser(r, id, email)
  BY <1>1, <1>3, QuietConcludeInv DEF updateUser
<1>4. CASE \E id \in UserIds : deactivateUser(r, id)
  BY <1>1, <1>4, QuietConcludeInv DEF deactivateUser
<1>5. CASE \E user \in 1..MaxUsers, room \in RoomIds, start, end \in Bound :
              createBooking(r, user, room, start, end)
  BY <1>5, CreateBookingInv
<1>6. CASE \E id \in 1..MaxBookings, room \in RoomIds, start, end \in Bound :
              updateBooking(r, id, room, start, end)
  BY <1>1, <1>6, QuietConcludeInv DEF updateBooking
<1>7. CASE \E id \in BookingIds : cancelBooking(r, id)
  BY <1>1, <1>7, QuietConcludeInv DEF cancelBooking
<1>8. CASE \E start, end \in Bound : checkAvailability(r, start, end)
  BY <1>8, CheckAvailabilityInv
<1>9. CASE Rejected(r)
  BY <1>1, <1>9, QuietConcludeInv DEF Rejected
<1>10. QED
  BY <1>2, <1>3, <1>4, <1>5, <1>6, <1>7, <1>8, <1>9 DEF Statement

---------------------------------------------------------------------------
LEMMA ListedRooms ==
    ASSUME TypeOK, NEW r \in Requests, answer[r].kind = "rooms"
    PROVE  answer[r].rooms \subseteq Rooms
<1>1. answer[r] \in Answer
  BY DEF TypeOK
<1>2. PICK rooms \in SUBSET Rooms : answer[r] = Listed(rooms)
  BY <1>1 DEF Answer, Failure, Success, Created
<1>3. QED
  BY <1>2 DEF Listed

(* A row read moves from the stream to the answer. *)
LEMMA NextRowInv ==
    ASSUME BaselineInv, Observe, NEW r \in Requests, NextRow(r)
    PROVE  BaselineInv'
<1>1. PICK room \in stream[r] :
        /\ pc[r] = "listing"
        /\ answer' = [answer EXCEPT ![r] = Listed(answer[r].rooms \cup {room})]
        /\ stream' = [stream EXCEPT ![r] = stream[r] \ {room}]
        /\ UNCHANGED <<store, pc, window, cut>>
  BY DEF NextRow
<1> DEFINE read == answer[r].rooms \cup {room}
<1>2. read \cup (stream[r] \ {room}) = answer[r].rooms \cup stream[r]
  BY <1>1
<1>3. read \subseteq Rooms
  <2>1. answer[r].rooms \subseteq Rooms
    BY <1>1, ListedRooms DEF BaselineInv, ListingInv
  <2>2. QED
    BY <1>1, <2>1 DEF BaselineInv, TypeOK
<1>4. Listed(read) \in Answer /\ Listed(read).kind = "rooms" /\ Listed(read).rooms = read
  BY <1>3 DEF Answer, Listed
<1>5. /\ answer' = [answer EXCEPT ![r] = Listed(read)]
      /\ answer[r].kind = "rooms" /\ answer[r].rooms \cup stream[r] \in views[r]
  BY <1>1 DEF BaselineInv, ListingInv
<1> HIDE DEF read
<1>6. TypeOK'
  BY <1>1, <1>4, <1>5, ViewsGrow DEF BaselineInv, TypeOK
<1>7. /\ answer'[r] = Listed(read) /\ stream'[r] = stream[r] \ {room}
      /\ \A q \in Requests : q # r => answer'[q] = answer[q] /\ stream'[q] = stream[q]
  BY <1>1, <1>5 DEF BaselineInv, TypeOK
<1>8. ListingInv'
  <2>1. \A q \in Requests : views[q] \subseteq views'[q]
    BY ViewsGrow DEF BaselineInv
  <2>2. \A q \in Requests : q # r => ListingInv!(q)'
    BY <1>1, <1>7, <2>1 DEF BaselineInv, ListingInv
  <2>3. read \cup (stream[r] \ {room}) \in views'[r]
    BY <1>2, <1>5, <2>1 DEF read
  <2>4. ListingInv!(r)'
    BY <1>1, <1>4, <1>7, <2>3
  <2>5. QED
    BY <2>2, <2>4 DEF ListingInv
<1>9. ConfirmedInv'
  <2>1. pc' = pc /\ bookings' = bookings /\ bookingSeq' = bookingSeq
    BY <1>1 DEF store
  <2>2. answer'[r].kind = "rooms"
    BY <1>4, <1>7
  <2>3. QED
    BY <1>7, <2>1, <2>2 DEF BaselineInv, ConfirmedInv
<1>10. QED
  BY <1>1, <1>6, <1>7, <1>8, <1>9 DEF BaselineInv

(* A listing ends with all rows read, or is cut. *)
LEMMA EndRowsInv ==
    ASSUME BaselineInv, Observe, NEW r \in Requests, EndRows(r)
    PROVE  BaselineInv'
<1>1. /\ pc[r] = "listing"
      /\ pc' = [pc EXCEPT ![r] = "reply"]
      /\ cut' = IF stream[r] = {} THEN cut ELSE cut \cup {r}
      /\ stream' = [stream EXCEPT ![r] = {}]
      /\ window' = [window EXCEPT ![r] = NoWindow]
      /\ UNCHANGED <<store, answer>>
  BY DEF EndRows
<1>2. TypeOK'
  BY <1>1, ViewsGrow DEF BaselineInv, TypeOK, NoWindow, Bound
<1>3. /\ pc'[r] = "reply"
      /\ \A q \in Requests : q # r => /\ pc'[q] = pc[q] /\ stream'[q] = stream[q]
                                      /\ q \in cut' <=> q \in cut
  BY <1>1 DEF BaselineInv, TypeOK
<1>4. ListingInv'
  <2>1. \A q \in Requests : views[q] \subseteq views'[q]
    BY ViewsGrow DEF BaselineInv
  <2>2. /\ answer[r].rooms \cup stream[r] \in views'[r]
        /\ stream[r] # {} => r \in cut'
    BY <1>1, <2>1 DEF BaselineInv, ListingInv
  <2>3. \E view \in views'[r] : IF r \in cut' THEN answer[r].rooms \subseteq view
                                                ELSE answer[r].rooms = view
    BY <2>2
  <2>4. QED
    BY <1>1, <1>3, <2>1, <2>3 DEF BaselineInv, ListingInv
<1>5. ConfirmedInv'
  BY <1>1, <1>3 DEF BaselineInv, ConfirmedInv, store
<1>6. QED
  BY <1>1, <1>2, <1>3, <1>4, <1>5 DEF BaselineInv

(* Answers that are sent, and handlers that die, change no answer. *)
LEMMA HandlerEndInv ==
    ASSUME BaselineInv, Observe, (\E r \in Requests : Reply(r)) \/ Crash
    PROVE  BaselineInv'
<1>1. /\ UNCHANGED <<store, answer, window, cut>>
      /\ pc' \in [Requests -> {"idle", "listing", "reply", "done", "dead"}]
      /\ stream' \in [Requests -> SUBSET Rooms]
      /\ \A q \in Requests : \/ pc'[q] = pc[q] /\ (pc[q] = "listing" => stream'[q] = stream[q])
                             \/ pc[q] = "reply" /\ pc'[q] = "done"
                             \/ pc[q] # "idle" /\ pc'[q] = "dead"
  <2>1. CASE \E r \in Requests : Reply(r)
    <3>1. PICK r \in Requests : /\ pc[r] = "reply"
                                /\ pc' = [pc EXCEPT ![r] = "done"]
                                /\ UNCHANGED <<store, answer, window, stream, cut>>
      BY <2>1 DEF Reply
    <3>2. /\ pc' \in [Requests -> {"idle", "listing", "reply", "done", "dead"}]
          /\ \A q \in Requests : pc'[q] = pc[q] \/ (pc[q] = "reply" /\ pc'[q] = "done")
      BY <3>1 DEF BaselineInv, TypeOK
    <3>3. stream' = stream /\ stream \in [Requests -> SUBSET Rooms]
      BY <3>1 DEF BaselineInv, TypeOK
    <3>4. QED
      BY <3>1, <3>2, <3>3
  <2>2. CASE Crash
    <3>1. /\ pc' = [r \in Requests |-> IF pc[r] \in {"listing", "reply"} THEN "dead" ELSE pc[r]]
          /\ stream' = [r \in Requests |-> {}]
          /\ UNCHANGED <<store, answer, window, cut>>
      BY <2>2 DEF Crash
    <3>2. pc' \in [Requests -> {"idle", "listing", "reply", "done", "dead"}]
      BY <3>1 DEF BaselineInv, TypeOK
    <3>3. stream' \in [Requests -> SUBSET Rooms]
      BY <3>1
    <3>4. \A q \in Requests : \/ pc'[q] = pc[q] /\ pc[q] # "listing"
                              \/ pc[q] # "idle" /\ pc'[q] = "dead"
      BY <3>1
    <3>5. QED
      BY <3>1, <3>2, <3>3, <3>4
  <2>3. QED
    BY <2>1, <2>2
<1>2. TypeOK'
  BY <1>1, ViewsGrow DEF BaselineInv, TypeOK
<1>3. \A q \in Requests : views[q] \subseteq views'[q]
  BY ViewsGrow DEF BaselineInv
<1>4. ListingInv'
  BY <1>1, <1>3 DEF BaselineInv, ListingInv
<1>5. ConfirmedInv'
  BY <1>1 DEF BaselineInv, ConfirmedInv, store
<1>6. QED
  BY <1>1, <1>2, <1>4, <1>5 DEF BaselineInv

LEMMA NextBaselineInv == BaselineInv /\ StoreInv /\ [Next]_vars => BaselineInv'
<1> SUFFICES ASSUME BaselineInv, StoreInv, [Next]_vars PROVE BaselineInv'
  OBVIOUS
<1>1. CASE \E r \in Requests : Statement(r) /\ Observe
  BY <1>1, StatementInv
<1>2. CASE \E r \in Requests : (NextRow(r) \/ EndRows(r) \/ Reply(r)) /\ Observe
  BY <1>2, NextRowInv, EndRowsInv, HandlerEndInv
<1>3. CASE Crash /\ Observe
  BY <1>3, HandlerEndInv
<1>4. CASE UNCHANGED vars
  BY <1>4 DEF vars, handlerVars, store, BaselineInv, TypeOK, ListingInv, ConfirmedInv
<1>5. QED
  BY <1>1, <1>2, <1>3, <1>4 DEF Next

(* The inductive invariant holds in every state. *)
THEOREM BaselineInvariant == Spec => []BaselineInv
<1>1. Init => BaselineInv
  <2>1. Failure \in Answer /\ Failure.kind = "error"
    BY DEF Answer, Failure
  <2>2. QED
    BY <2>1 DEF Init, BaselineInv, TypeOK, ListingInv, ConfirmedInv, NoWindow, Bound
<1>2. StoreSpec => []StoreInv
  BY StoreInvariant
<1>3. QED
  BY <1>1, <1>2, BaselineImplementsStore, NextBaselineInv, PTL DEF Spec

(* The states of the engine are well-typed (handlers.go:50-244). *)
THEOREM BaselineTypeCorrect == Spec => []TypeOK
BY BaselineInvariant, PTL DEF BaselineInv

(* For any number of requests, an id in a 201 stays the client's            *)
(* (handlers.go:130-142).                                                  *)
THEOREM ConfirmedIdIsKept == Spec => []ToldIdStaysMine
<1>1. BaselineInv => ToldIdStaysMine
  BY DEF BaselineInv, ConfirmedInv, ToldIdStaysMine, Replied
<1>2. QED
  BY <1>1, BaselineInvariant, PTL

(* For any number of requests and rooms, a listing is a view of the         *)
(* database at one moment, or a part of one (handlers.go:211-244).         *)
THEOREM ListingIsAView == Spec => []ListingIsOneView
<1>1. BaselineInv => ListingIsOneView
  BY DEF BaselineInv, ListingInv, ListingIsOneView, Replied
<1>2. QED
  BY <1>1, BaselineInvariant, PTL
=============================================================================
