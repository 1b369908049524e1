----------------------------- MODULE BaselineEngine -----------------------------
(***************************************************************************)
(* The phase 1 business engine: HTTP handlers that send one SQL statement  *)
(* and answer, and GET /rooms/available, which reads its rows one by one   *)
(* from a result the database streams.  Every request is a goroutine of    *)
(* its own; the listing is the same in phases 2 and 3.                     *)
(***************************************************************************)
EXTENDS BookingStore

CONSTANT Requests      \* the HTTP requests, each served once

Failure == [kind |-> "error"]
Success == [kind |-> "ok"]
Created(id, user) == [kind |-> "created", id |-> id, user |-> user]
Listed(rooms) == [kind |-> "rooms", rooms |-> rooms]
Answer == {Failure, Success} \cup {Created(id, user) : id \in 1..MaxBookings, user \in 1..MaxUsers}
             \cup {Listed(rooms) : rooms \in SUBSET Rooms}

VARIABLES
    pc,            \* where each handler is
    answer,        \* what it has for the client so far
    window,        \* the window of a listing under way
    stream,        \* the rows of its result that were not read yet
    views,         \* history: what a listing could have seen since it was asked
    cut            \* history: listings whose result broke off

handlerVars == <<pc, answer, window, stream, views, cut>>
vars == <<store, handlerVars>>

NoWindow == <<Missing, Missing>>

Init ==
    /\ StoreInit
    /\ pc = [r \in Requests |-> "idle"]
    /\ answer = [r \in Requests |-> Failure]
    /\ window = [r \in Requests |-> NoWindow]
    /\ stream = [r \in Requests |-> {}]
    /\ views = [r \in Requests |-> {}]
    /\ cut = {}

---------------------------------------------------------------------------
(* tsrange(start, end) is an error for a malformed or reversed window. *)
Offered(w) ==
    IF w[1] \in Times /\ w[2] \in Times /\ w[1] <= w[2] THEN AvailableRooms(w[1], w[2]) ELSE {}

(* A statement ends the work of its handler with this answer. *)
Conclude(r, a) ==
    /\ pc[r] = "idle"
    /\ pc' = [pc EXCEPT ![r] = "reply"]
    /\ answer' = [answer EXCEPT ![r] = a]
    /\ UNCHANGED <<window, stream, cut>>

(* The statement was committed.  The handler sees its result, or the        *)
(* connection or r.Context() broke first and it sees an error.             *)
Committed(r, a) == Conclude(r, a) \/ Conclude(r, Failure)

(* Seeded fault: the return after http.Error is missing, and the handler    *)
(* confirms a booking whose id was never scanned.                          *)
Rejected_NoReturn(r) == Conclude(r, Created(0, 0)) /\ UNCHANGED store

(* The request was not decodable or lacks a parameter, a constraint refused *)
(* the statement, no row matched, or PostgreSQL could not be reached.      *)
Rejected(r) == Conclude(r, Failure) /\ UNCHANGED store

createUser(r, email) == InsertUser(email) /\ Committed(r, Success)

updateUser(r, id, email) == UpdateUser(id, email) /\ Committed(r, Success)

deactivateUser(r, id) == DeleteUser(id) /\ Committed(r, Success)

createBooking(r, user, room, start, end) ==
    /\ InsertBooking(user, room, start, end)
    /\ Committed(r, Created(bookingSeq', user))

updateBooking(r, id, room, start, end) ==
    /\ UpdateBooking(id, room, start, end)
    /\ Committed(r, Success)

cancelBooking(r, id) == CancelBooking(id) /\ Committed(r, Success)

---------------------------------------------------------------------------
(* Both parameters are there; PostgreSQL takes a snapshot and begins to     *)
(* send the rows.  A window that is no range shows only as a stream that    *)
(* ends before its first row.                                              *)
checkAvailability(r, start, end) ==
    /\ pc[r] = "idle"
    /\ Missing \notin {start, end}
    /\ pc' = [pc EXCEPT ![r] = "listing"]
    /\ answer' = [answer EXCEPT ![r] = Listed({})]
    /\ window' = [window EXCEPT ![r] = <<start, end>>]
    /\ stream' = [stream EXCEPT ![r] = Offered(<<start, end>>)]
    /\ UNCHANGED <<store, cut>>

(* Seeded fault: the bookings of a room are looked up row by row. *)
NextRow_LooksAgain(r) ==
    /\ pc[r] = "listing"
    /\ \E room \in Rooms :
          /\ room \in Offered(window[r]) \ answer[r].rooms
          /\ answer' = [answer EXCEPT ![r] = Listed(@.rooms \cup {room})]
          /\ stream' = [stream EXCEPT ![r] = @ \ {room}]
    /\ UNCHANGED <<store, pc, window, cut>>

(* rows.Next and rows.Scan. *)
NextRow(r) ==
    /\ pc[r] = "listing"
    /\ \E room \in stream[r] :
          /\ answer' = [answer EXCEPT ![r] = Listed(@.rooms \cup {room})]
          /\ stream' = [stream EXCEPT ![r] = @ \ {room}]
    /\ UNCHANGED <<store, pc, window, cut>>

(* rows.Next is false: the rows are read, or an error ended the stream,     *)
(* which nobody asks rows.Err about.                                       *)
EndRows(r) ==
    /\ pc[r] = "listing"
    /\ pc' = [pc EXCEPT ![r] = "reply"]
    /\ cut' = IF stream[r] = {} THEN cut ELSE cut \cup {r}
    /\ stream' = [stream EXCEPT ![r] = {}]
    /\ window' = [window EXCEPT ![r] = NoWindow]
    /\ UNCHANGED <<store, answer>>

Reply(r) ==
    /\ pc[r] = "reply"
    /\ pc' = [pc EXCEPT ![r] = "done"]
    /\ UNCHANGED <<store, answer, window, stream, cut>>

(* The process ends, and every request it is working on with it. *)
Crash ==
    /\ \E r \in Requests : pc[r] \in {"listing", "reply"}
    /\ pc' = [r \in Requests |-> IF pc[r] \in {"listing", "reply"} THEN "dead" ELSE pc[r]]
    /\ stream' = [r \in Requests |-> {}]
    /\ UNCHANGED <<store, answer, window, cut>>

---------------------------------------------------------------------------
Statement(r) ==
    \/ \E email \in Emails : createUser(r, email)
    \/ \E id \in 1..MaxUsers, email \in Emails : updateUser(r, id, email)
    \/ \E id \in UserIds : deactivateUser(r, id)
    \/ \E user \in 1..MaxUsers, room \in RoomIds, start, end \in Bound :
          createBooking(r, user, room, start, end)
    \/ \E id \in 1..MaxBookings, room \in RoomIds, start, end \in Bound :
          updateBooking(r, id, room, start, end)
    \/ \E id \in BookingIds : cancelBooking(r, id)
    \/ \E start, end \in Bound : checkAvailability(r, start, end)
    \/ Rejected(r)

(* A listing that was asked for could have seen the rooms free now. *)
Observe ==
    views' = [r \in Requests |->
                IF pc[r] = "listing" \/ pc'[r] = "listing"
                THEN views[r] \cup {Offered(window[r])'} ELSE views[r]]

Next ==
    \/ \E r \in Requests : Statement(r) /\ Observe
    \/ \E r \in Requests : (NextRow(r) \/ EndRows(r) \/ Reply(r)) /\ Observe
    \/ Crash /\ Observe
    \/ (\A r \in Requests : pc[r] \in {"done", "dead"}) /\ UNCHANGED vars

Spec == Init /\ [][Next]_vars

---------------------------------------------------------------------------
TypeOK ==
    /\ pc \in [Requests -> {"idle", "listing", "reply", "done", "dead"}]
    /\ answer \in [Requests -> Answer]
    /\ window \in [Requests -> Bound \X Bound]
    /\ stream \in [Requests -> SUBSET Rooms]
    /\ views \in [Requests -> SUBSET SUBSET Rooms]
    /\ cut \subseteq Requests

Replied(r, kind) == pc[r] = "done" /\ answer[r].kind = kind

(* The id in a 201 stays the client's: no other request was told the same   *)
(* id, and a booking found under it later is the one that was confirmed,    *)
(* whatever was updated, cancelled or deleted since (handlers.go:130-142).  *)
ToldIdStaysMine ==
    \A r \in Requests : Replied(r, "created") =>
        /\ \A q \in Requests \ {r} : Replied(q, "created") => answer[q].id # answer[r].id
        /\ \A b \in bookings : b.id = answer[r].id => b.user = answer[r].user

(* A listing is a view of the database at one moment between the request    *)
(* and its answer, though its rows are read one by one while bookings come  *)
(* and go; if its result broke off it may miss rooms of such a view, but    *)
(* still offers none that was taken (handlers.go:211-244).                  *)
ListingIsOneView ==
    \A r \in Requests : Replied(r, "rooms") =>
        \E view \in views[r] : IF r \in cut THEN answer[r].rooms \subseteq view
                                            ELSE answer[r].rooms = view
=============================================================================
