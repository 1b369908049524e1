------------------------------ MODULE BookingStore ------------------------------
(***************************************************************************)
(* The PostgreSQL database of the booking engine: the tables of schema.sql *)
(* and the SQL statements the HTTP handlers send to it.  The three phases  *)
(* of the engine share the schema and the statements; a statement is one   *)
(* autocommit transaction and is therefore one atomic action.              *)
(*                                                                         *)
(* A table is a set of rows.  Columns no property tells apart (user name,  *)
(* created_at, the price and type of a room) are left out.  A failed       *)
(* INSERT leaves a gap in its SERIAL sequence; ids are only ever compared  *)
(* for equality, so the gap is not modelled.                               *)
(***************************************************************************)
EXTENDS Integers, FiniteSets

CONSTANTS
    Emails,        \* values of users.email
    RoomIds,       \* room ids a request may name
    Rooms,         \* ids of the rows of table rooms (no endpoint changes it)
    MaxTime,       \* timestamps are 1..MaxTime
    Missing,       \* a date the client left out: the empty string
    Malformed,     \* a date PostgreSQL cannot parse
    MaxUsers,      \* bound on the users_id_seq sequence
    MaxBookings,   \* bound on the bookings_id_seq sequence
    OddIds,        \* integers in a URL that are no id: strconv.Atoi takes a sign
    Seed           \* the database the service is started on

(* The ids a request may name in its URL. *)
UserIds == OddIds \cup 1..MaxUsers
BookingIds == OddIds \cup 1..MaxBookings

Times == 1..MaxTime
Bound == Times \cup {Missing, Malformed}

(* A tsrange [lo, hi).  Lower bound 0 is "unbounded"; the empty range has   *)
(* lost its bounds, as PostgreSQL normalises it.                           *)
Unbounded == 0
EmptyRange == [lo |-> Unbounded, hi |-> 0]
TsRange == [lo : 0..MaxTime, hi : 0..MaxTime]

Status == {"confirmed", "cancelled"}
UserRow == [id : 1..MaxUsers, email : Emails]
BookingRow == [id : 1..MaxBookings, user : 1..MaxUsers, room : Rooms,
               status : Status, during : TsRange]

---------------------------------------------------------------------------
(* The range literal '[start, end)' the handlers format, cast to tsrange.   *)
(* The format puts a space before the upper bound, so a missing end date is *)
(* the bound " ", which is no timestamp; a missing start date is an empty   *)
(* lower bound, which means unbounded.                                      *)
IsRange(start, end) ==
    /\ end \in Times
    /\ start \in Times \cup {Missing}
    /\ start \in Times => start <= end

RangeOf(start, end) ==
    IF start = end THEN EmptyRange
    ELSE [lo |-> IF start = Missing THEN Unbounded ELSE start, hi |-> end]

(* The operator && of ranges. *)
Overlap(r, s) == r.lo < s.hi /\ s.lo < r.hi

Active(b) == b.status # "cancelled"

(* EXCLUDE USING GIST (room_id WITH =, during WITH &&)                      *)
(* WHERE (status != 'cancelled')                                           *)
Conflict(b, c) ==
    /\ Active(b)
    /\ Active(c)
    /\ b.room = c.room
    /\ Overlap(b.during, c.during)

---------------------------------------------------------------------------
(* The constraints of schema.sql on the contents of the two tables. *)
Ids(rows) == {row.id : row \in rows}

UniqueKeys(rows) == \A x, y \in rows : x.id = y.id => x = y

UniqueEmails(us) == \A u, v \in us : u.email = v.email => u = v

Excluded(bs) == \A b, c \in bs : b # c => ~Conflict(b, c)

OwnedBy(bs, us) == \A b \in bs : b.user \in Ids(us)

ASSUME StoreAssumption ==
    /\ MaxTime \in Nat
    /\ MaxUsers \in Nat
    /\ MaxBookings \in Nat
    /\ Rooms \subseteq RoomIds
    /\ OddIds \subseteq Int
    /\ Missing \notin 0..MaxTime
    /\ Malformed \notin 0..MaxTime
    /\ Missing # Malformed

ASSUME SeedAssumption ==
    /\ Seed.users \subseteq UserRow
    /\ Seed.bookings \subseteq BookingRow
    /\ Seed.userSeq \in 0..MaxUsers
    /\ Seed.bookingSeq \in 0..MaxBookings
    /\ \A u \in Seed.users : u.id <= Seed.userSeq
    /\ \A b \in Seed.bookings : b.id <= Seed.bookingSeq
    /\ UniqueKeys(Seed.users)
    /\ UniqueKeys(Seed.bookings)
    /\ UniqueEmails(Seed.users)
    /\ OwnedBy(Seed.bookings, Seed.users)
    /\ Excluded(Seed.bookings)

---------------------------------------------------------------------------
VARIABLES
    users,         \* table users
    bookings,      \* table bookings
    userSeq,       \* last value of users_id_seq
    bookingSeq     \* last value of bookings_id_seq

store == <<users, bookings, userSeq, bookingSeq>>

StoreInit ==
    /\ users = Seed.users
    /\ bookings = Seed.bookings
    /\ userSeq = Seed.userSeq
    /\ bookingSeq = Seed.bookingSeq

---------------------------------------------------------------------------
(* Seeded fault: the id is the number of rows plus one, not the sequence's. *)
InsertUser_CountsRows(email) ==
    /\ userSeq < MaxUsers
    /\ \A u \in users : u.email # email
    /\ userSeq' = userSeq + 1
    /\ users' = users \cup {[id |-> Cardinality(users) + 1, email |-> email]}
    /\ UNCHANGED <<bookings, bookingSeq>>

(* INSERT INTO users: email is UNIQUE. *)
InsertUser(email) ==
    /\ userSeq < MaxUsers
    /\ \A u \in users : u.email # email
    /\ userSeq' = userSeq + 1
    /\ users' = users \cup {[id |-> userSeq', email |-> email]}
    /\ UNCHANGED <<bookings, bookingSeq>>

(* Seeded fault: the old version of the row stays visible. *)
UpdateUser_KeepsOldVersion(id, email) ==
    \E old \in users :
        /\ old.id = id
        /\ \A u \in users \ {old} : u.email # email
        /\ users' = users \cup {[old EXCEPT !.email = email]}
        /\ UNCHANGED <<bookings, userSeq, bookingSeq>>

(* UPDATE users SET name, email WHERE id RETURNING: no row is an error. *)
UpdateUser(id, email) ==
    \E old \in users :
        /\ old.id = id
        /\ \A u \in users \ {old} : u.email # email
        /\ users' = (users \ {old}) \cup {[old EXCEPT !.email = email]}
        /\ UNCHANGED <<bookings, userSeq, bookingSeq>>

(* Seeded fault: the foreign key without ON DELETE CASCADE or a check. *)
DeleteUser_NoCascade(id) ==
    /\ users' = {u \in users : u.id # id}
    /\ UNCHANGED <<bookings, userSeq, bookingSeq>>

(* DELETE FROM users WHERE id, and the bookings ON DELETE CASCADE takes     *)
(* with it.  Deleting no row is not an error.                              *)
DeleteUser(id) ==
    /\ users' = {u \in users : u.id # id}
    /\ bookings' = {b \in bookings : b.user # id}
    /\ UNCHANGED <<userSeq, bookingSeq>>

NewBooking(user, room, start, end) ==
    [id |-> bookingSeq + 1, user |-> user, room |-> room,
     status |-> "confirmed", during |-> RangeOf(start, end)]

(* The cast, both foreign keys and the exclusion constraint pass. *)
AcceptsBooking(user, room, start, end) ==
    /\ IsRange(start, end)
    /\ user \in Ids(users)
    /\ room \in Rooms
    /\ \A b \in bookings : ~Conflict(NewBooking(user, room, start, end), b)

(* Seeded fault: the id is the number of rows plus one, not the sequence's. *)
InsertBooking_CountsRows(user, room, start, end) ==
    LET row == [NewBooking(user, room, start, end) EXCEPT !.id = Cardinality(bookings) + 1]
    IN  /\ bookingSeq < MaxBookings
        /\ AcceptsBooking(user, room, start, end)
        /\ bookings' = bookings \cup {row}
        /\ bookingSeq' = bookingSeq + 1
        /\ UNCHANGED <<users, userSeq>>

(* INSERT INTO bookings. *)
InsertBooking(user, room, start, end) ==
    /\ bookingSeq < MaxBookings
    /\ AcceptsBooking(user, room, start, end)
    /\ bookings' = bookings \cup {NewBooking(user, room, start, end)}
    /\ bookingSeq' = bookingSeq + 1
    /\ UNCHANGED <<users, userSeq>>

(* Seeded faults: an update no constraint checks, one that also finds       *)
(* cancelled rows, and one that confirms them again.                       *)
UpdateBooking_Unchecked(id, room, start, end) ==
    \E old \in bookings :
        /\ old.id = id
        /\ Active(old)
        /\ IsRange(start, end)
        /\ room \in Rooms
        /\ bookings' = (bookings \ {old})
                          \cup {[old EXCEPT !.room = room, !.during = RangeOf(start, end)]}
        /\ UNCHANGED <<users, userSeq, bookingSeq>>

UpdateBooking_AnyStatus(id, room, start, end) ==
    \E old \in bookings :
        LET new == [old EXCEPT !.room = room, !.during = RangeOf(start, end)]
        IN  /\ old.id = id
            /\ IsRange(start, end)
            /\ room \in Rooms
            /\ \A b \in bookings \ {old} : ~Conflict(new, b)
            /\ bookings' = (bookings \ {old}) \cup {new}
            /\ UNCHANGED <<users, userSeq, bookingSeq>>

UpdateBooking_Reconfirms(id, room, start, end) ==
    \E old \in bookings :
        LET new == [old EXCEPT !.room = room, !.during = RangeOf(start, end),
                               !.status = "confirmed"]
        IN  /\ old.id = id
            /\ IsRange(start, end)
            /\ room \in Rooms
            /\ \A b \in bookings \ {old} : ~Conflict(new, b)
            /\ bookings' = (bookings \ {old}) \cup {new}
            /\ UNCHANGED <<users, userSeq, bookingSeq>>

(* UPDATE bookings SET room_id, during WHERE id AND status != 'cancelled'   *)
(* RETURNING: no row is an error, and the new version of the row is checked *)
(* against every other row.                                                *)
UpdateBooking(id, room, start, end) ==
    \E old \in bookings :
        LET new == [old EXCEPT !.room = room, !.during = RangeOf(start, end)]
        IN  /\ old.id = id
            /\ Active(old)
            /\ IsRange(start, end)
            /\ room \in Rooms
            /\ \A b \in bookings \ {old} : ~Conflict(new, b)
            /\ bookings' = (bookings \ {old}) \cup {new}
            /\ UNCHANGED <<users, userSeq, bookingSeq>>

(* UPDATE bookings SET status = 'cancelled' WHERE id.  Updating no row is   *)
(* not an error.                                                           *)
CancelBooking(id) ==
    /\ bookings' = {IF b.id = id THEN [b EXCEPT !.status = "cancelled"] ELSE b
                    : b \in bookings}
    /\ UNCHANGED <<users, userSeq, bookingSeq>>

(* Seeded fault: cancelled bookings still block the room. *)
AvailableRooms_AnyStatus(start, end) ==
    {room \in Rooms : ~\E b \in bookings : /\ b.room = room
                                           /\ Overlap(b.during, RangeOf(start, end))}

(* The SELECT of GET /rooms/available over one snapshot. *)
AvailableRooms(start, end) ==
    {room \in Rooms : ~\E b \in bookings : /\ b.room = room
                                           /\ b.status # "cancelled"
                                           /\ Overlap(b.during, RangeOf(start, end))}

---------------------------------------------------------------------------
StoreNext ==
    \/ \E email \in Emails : InsertUser(email)
    \/ \E id \in 1..MaxUsers, email \in Emails : UpdateUser(id, email)
    \/ \E id \in UserIds : DeleteUser(id)
    \/ \E user \in 1..MaxUsers, room \in RoomIds, start, end \in Bound :
          InsertBooking(user, room, start, end)
    \/ \E id \in 1..MaxBookings, room \in RoomIds, start, end \in Bound :
          UpdateBooking(id, room, start, end)
    \/ \E id \in BookingIds : CancelBooking(id)

StoreSpec == StoreInit /\ [][StoreNext]_store

---------------------------------------------------------------------------
(* What the engines tell of a committed statement: a row and what became of *)
(* it.                                                                     *)
Details == {"user_registered", "user_updated", "user_deactivated",
            "booking_created", "booking_updated", "booking_cancelled"}
Event == [entity : {"user", "booking"}, id : Int, details : Details]

(* The statement met or made the row of that id. *)
MetRow(entity, id) ==
    id \in Ids(IF entity = "user" THEN users \cup users' ELSE bookings \cup bookings')

(* Events that a statement without a row gives rise to as well. *)
NeedsNoRow == {"user_deactivated", "booking_cancelled"}

(* What such an event has told of a row is still so. *)
StillTrue(e) ==
    /\ e.id \in IF e.entity = "user" THEN 1..userSeq ELSE 1..bookingSeq
    /\ e.details = "user_deactivated" =>
          e.id \in 1..userSeq \ Ids(users) /\ \A b \in bookings : b.user # e.id
    /\ e.details = "booking_cancelled" =>
          e.id \in 1..bookingSeq /\ \A b \in bookings : b.id = e.id => ~Active(b)

---------------------------------------------------------------------------
(* The tables hold rows of the schema's types, under ids their sequences    *)
(* have handed out (schema.sql).                                           *)
StoreTypeOK ==
    /\ users \subseteq UserRow
    /\ bookings \subseteq BookingRow
    /\ userSeq \in 0..MaxUsers
    /\ bookingSeq \in 0..MaxBookings
    /\ \A u \in users : u.id <= userSeq
    /\ \A b \in bookings : b.id <= bookingSeq
    /\ UniqueKeys(users)
    /\ UniqueKeys(bookings)

(* The promise of the engine: whatever creates, moves, cancels and cascaded *)
(* deletes interleave, two bookings that are not cancelled never hold the   *)
(* same room at the same time (schema.sql:33, README.md:108).              *)
NoDoubleBooking == Excluded(bookings)

(* A booking always belongs to a user that exists: deactivating a user      *)
(* takes every booking of the user along (schema.sql:24).                  *)
NoOrphanBooking == OwnedBy(bookings, users)

(* Cancelling is final: no later statement confirms a cancelled booking     *)
(* again or moves it to another room or time (handler.go:264).             *)
CancelledIsFinal ==
    [][\A b \in bookings, c \in bookings' :
          b.id = c.id /\ ~Active(b) => c = b]_store

(* An id denotes one booking of one user for ever, also after the row is    *)
(* gone: a job or a client that still holds the id can never act on         *)
(* somebody else's booking (schema.sql:23).                                *)
BookingIdNeverReused ==
    [][\A c \in bookings' :
          c.id <= bookingSeq => \E b \in bookings : b.id = c.id /\ b.user = c.user]_store

(* GET /rooms/available and the exclusion constraint agree: a room is       *)
(* offered for a window exactly when the INSERT of every existing user for  *)
(* that window is accepted (handler.go:322 against schema.sql:34).          *)
OfferedIffBookable ==
    \A u \in users, room \in Rooms, start, end \in Times :
        start <= end =>
            (room \in AvailableRooms(start, end) <=> AcceptsBooking(u.id, room, start, end))
=============================================================================
