--------------------------- MODULE BookingStoreProofs ---------------------------
(***************************************************************************)
(* Theorems about the database of the booking engine, for every set of     *)
(* rooms, users and timestamps.                                            *)
(***************************************************************************)
EXTENDS BookingStore, TLAPS

(* The inductive invariant.  NoDoubleBooking needs the types of the rows    *)
(* and unique ids (an update replaces exactly one row); NoOrphanBooking     *)
(* needs that an update of a user keeps its id.                            *)
StoreInv ==
    /\ StoreTypeOK
    /\ UniqueEmails(users)
    /\ NoDoubleBooking
    /\ NoOrphanBooking

(* A range literal the cast accepts denotes a value of type tsrange. *)
LEMMA RangeOfType ==
    ASSUME NEW start, NEW end, IsRange(start, end)
    PROVE  RangeOf(start, end) \in TsRange
<1>1. end \in 1..MaxTime /\ end \in 0..MaxTime
  BY StoreAssumption DEF IsRange, Times
<1>2. CASE start = end
  BY <1>2, StoreAssumption DEF RangeOf, EmptyRange, Unbounded, TsRange
<1>3. CASE start # end /\ start = Missing
  BY <1>1, <1>3, StoreAssumption DEF RangeOf, Unbounded, TsRange
<1>4. CASE start # end /\ start # Missing
  <2>1. start \in 0..MaxTime
    BY <1>4, StoreAssumption DEF IsRange, Times
  <2>2. QED
    BY <1>1, <1>4, <2>1 DEF RangeOf, TsRange
<1>5. QED
  BY <1>2, <1>3, <1>4

(* The operator && and the exclusion constraint do not depend on the order  *)
(* of the two rows.                                                        *)
LEMMA ConflictSymmetric ==
    ASSUME NEW b, NEW c, Conflict(b, c)
    PROVE  Conflict(c, b)
BY DEF Conflict, Overlap

LEMMA InitStoreInv == StoreInit => StoreInv
BY StoreAssumption, SeedAssumption
   DEF StoreInit, StoreInv, StoreTypeOK, NoDoubleBooking, NoOrphanBooking

LEMMA InsertUserInv ==
    ASSUME StoreInv, NEW email \in Emails, InsertUser(email)
    PROVE  StoreInv'
<1> DEFINE row == [id |-> userSeq + 1, email |-> email]
<1>1. /\ userSeq' = userSeq + 1
      /\ users' = users \cup {row}
      /\ bookings' = bookings
      /\ bookingSeq' = bookingSeq
      /\ userSeq < MaxUsers
      /\ \A u \in users : u.email # email
  BY DEF InsertUser
<1>2. row \in UserRow
  BY <1>1, StoreAssumption DEF StoreInv, StoreTypeOK, UserRow
<1>3. \A u \in users : u.id <= userSeq /\ u \in UserRow
  BY DEF StoreInv, StoreTypeOK
<1>4. StoreTypeOK'
  <2>1. \A u \in users' : u.id <= userSeq'
    BY <1>1, <1>3, StoreAssumption DEF StoreInv, StoreTypeOK, UserRow
  <2>2. UniqueKeys(users')
    BY <1>1, <1>3, StoreAssumption DEF StoreInv, StoreTypeOK, UniqueKeys, UserRow
  <2>3. userSeq' \in 0..MaxUsers
    BY <1>1, StoreAssumption DEF StoreInv, StoreTypeOK
  <2>4. QED
    BY <1>1, <1>2, <2>1, <2>2, <2>3 DEF StoreInv, StoreTypeOK
<1>5. UniqueEmails(users)'
  BY <1>1 DEF StoreInv, UniqueEmails
<1>6. NoOrphanBooking'
  BY <1>1 DEF StoreInv, NoOrphanBooking, OwnedBy, Ids
<1>7. QED
  BY <1>1, <1>4, <1>5, <1>6 DEF StoreInv, NoDoubleBooking

LEMMA UpdateUserInv ==
    ASSUME StoreInv, NEW id \in 1..MaxUsers, NEW email \in Emails, UpdateUser(id, email)
    PROVE  StoreInv'
<1>1. PICK old \in users :
        /\ old.id = id
        /\ \A u \in users \ {old} : u.email # email
        /\ users' = (users \ {old}) \cup {[old EXCEPT !.email = email]}
        /\ UNCHANGED <<bookings, userSeq, bookingSeq>>
  BY DEF UpdateUser
<1> DEFINE new == [old EXCEPT !.email = email]
<1>2. old \in UserRow /\ new \in UserRow /\ new.id = old.id /\ new.email = email
  BY <1>1 DEF StoreInv, StoreTypeOK, UserRow
<1> HIDE DEF new
<1>3. users' = (users \ {old}) \cup {new}
  BY <1>1 DEF new
<1>4. StoreTypeOK'
  BY <1>1, <1>2, <1>3 DEF StoreInv, StoreTypeOK, UniqueKeys
<1>5. UniqueEmails(users)'
  BY <1>1, <1>2, <1>3 DEF StoreInv, UniqueEmails
<1>6. NoOrphanBooking'
  BY <1>1, <1>2, <1>3 DEF StoreInv, NoOrphanBooking, OwnedBy, Ids
<1>7. QED
  BY <1>1, <1>4, <1>5, <1>6 DEF StoreInv, NoDoubleBooking

LEMMA DeleteUserInv ==
    ASSUME StoreInv, NEW id, DeleteUser(id)
    PROVE  StoreInv'
<1>1. /\ users' = {u \in users : u.id # id}
      /\ bookings' = {b \in bookings : b.user # id}
      /\ UNCHANGED <<userSeq, bookingSeq>>
  BY DEF DeleteUser
<1>2. StoreTypeOK'
  BY <1>1 DEF StoreInv, StoreTypeOK, UniqueKeys
<1>3. UniqueEmails(users)'
  BY <1>1 DEF StoreInv, UniqueEmails
<1>4. NoDoubleBooking'
  BY <1>1 DEF StoreInv, NoDoubleBooking, Excluded
<1>5. NoOrphanBooking'
  BY <1>1 DEF StoreInv, NoOrphanBooking, OwnedBy, Ids
<1>6. QED
  BY <1>2, <1>3, <1>4, <1>5 DEF StoreInv

LEMMA InsertBookingInv ==
    ASSUME StoreInv, NEW user \in 1..MaxUsers, NEW room, NEW start, NEW end,
           InsertBooking(user, room, start, end)
    PROVE  StoreInv'
<1> DEFINE row == NewBooking(user, room, start, end)
<1>1. /\ bookingSeq < MaxBookings
      /\ IsRange(start, end)
      /\ user \in Ids(users)
      /\ room \in Rooms
      /\ \A b \in bookings : ~Conflict(row, b)
      /\ bookings' = bookings \cup {row}
      /\ bookingSeq' = bookingSeq + 1
      /\ UNCHANGED <<users, userSeq>>
  BY DEF InsertBooking, AcceptsBooking
<1>2. row \in BookingRow /\ row.id = bookingSeq + 1 /\ row.user = user
  BY <1>1, RangeOfType, StoreAssumption
     DEF StoreInv, StoreTypeOK, BookingRow, Status, NewBooking
<1> HIDE DEF row
<1>3. \A b \in bookings : b.id <= bookingSeq /\ b.id \in Nat
  BY StoreAssumption DEF StoreInv, StoreTypeOK, BookingRow
<1>4. bookingSeq \in Nat /\ bookingSeq' \in 0..MaxBookings
  BY <1>1, StoreAssumption DEF StoreInv, StoreTypeOK
<1>5. StoreTypeOK'
  <2>1. \A b \in bookings' : b.id <= bookingSeq'
    BY <1>1, <1>2, <1>3, <1>4
  <2>2. UniqueKeys(bookings')
    BY <1>1, <1>2, <1>3, <1>4 DEF StoreInv, StoreTypeOK, UniqueKeys
  <2>3. QED
    BY <1>1, <1>2, <1>4, <2>1, <2>2 DEF StoreInv, StoreTypeOK
<1>6. NoDoubleBooking'
  BY <1>1, ConflictSymmetric DEF StoreInv, NoDoubleBooking, Excluded
<1>7. NoOrphanBooking'
  BY <1>1, <1>2 DEF StoreInv, NoOrphanBooking, OwnedBy
<1>8. QED
  BY <1>1, <1>5, <1>6, <1>7 DEF StoreInv

LEMMA UpdateBookingInv ==
    ASSUME StoreInv, NEW id \in 1..MaxBookings, NEW room, NEW start, NEW end,
           UpdateBooking(id, room, start, end)
    PROVE  StoreInv'
<1>1. PICK old \in bookings :
        LET new == [old EXCEPT !.room = room, !.during = RangeOf(start, end)]
        IN  /\ old.id = id
            /\ Active(old)
            /\ IsRange(start, end)
            /\ room \in Rooms
            /\ \A b \in bookings \ {old} : ~Conflict(new, b)
            /\ bookings' = (bookings \ {old}) \cup {new}
            /\ UNCHANGED <<users, userSeq, bookingSeq>>
  BY DEF UpdateBooking
<1> DEFINE new == [old EXCEPT !.room = room, !.during = RangeOf(start, end)]
<1>2. old \in BookingRow
  BY DEF StoreInv, StoreTypeOK
<1>3. new \in BookingRow /\ new.id = old.id /\ new.user = old.user
  BY <1>1, <1>2, RangeOfType DEF BookingRow
<1>4. /\ \A b \in bookings \ {old} : ~Conflict(new, b)
      /\ bookings' = (bookings \ {old}) \cup {new}
      /\ UNCHANGED <<users, userSeq, bookingSeq>>
  BY <1>1
<1> HIDE DEF new
<1>5. StoreTypeOK'
  BY <1>3, <1>4 DEF StoreInv, StoreTypeOK, UniqueKeys
<1>6. NoDoubleBooking'
  BY <1>4, ConflictSymmetric DEF StoreInv, NoDoubleBooking, Excluded
<1>7. NoOrphanBooking'
  BY <1>3, <1>4 DEF StoreInv, NoOrphanBooking, OwnedBy
<1>8. QED
  BY <1>4, <1>5, <1>6, <1>7 DEF StoreInv

LEMMA CancelBookingInv ==
    ASSUME StoreInv, NEW id, CancelBooking(id)
    PROVE  StoreInv'
<1> DEFINE after(b) == IF b.id = id THEN [b EXCEPT !.status = "cancelled"] ELSE b
<1>1. bookings' = {after(b) : b \in bookings} /\ UNCHANGED <<users, userSeq, bookingSeq>>
  BY DEF CancelBooking
<1>2. ASSUME NEW b \in bookings
      PROVE  /\ after(b) \in BookingRow
             /\ after(b).id = b.id
             /\ after(b).user = b.user
             /\ after(b).room = b.room
             /\ after(b).during = b.during
             /\ Active(after(b)) => Active(b)
  BY <1>2 DEF StoreInv, StoreTypeOK, BookingRow, Status, Active
<1> HIDE DEF after
<1>3. \A b, c \in bookings : Conflict(after(b), after(c)) => Conflict(b, c)
  BY <1>2 DEF Conflict
<1>4. StoreTypeOK'
  BY <1>1, <1>2 DEF StoreInv, StoreTypeOK, UniqueKeys
<1>5. NoDoubleBooking'
  BY <1>1, <1>3 DEF StoreInv, NoDoubleBooking, Excluded
<1>6. NoOrphanBooking'
  BY <1>1, <1>2 DEF StoreInv, NoOrphanBooking, OwnedBy
<1>7. QED
  BY <1>1, <1>4, <1>5, <1>6 DEF StoreInv

LEMMA StutterStoreInv == StoreInv /\ UNCHANGED store => StoreInv'
BY DEF StoreInv, StoreTypeOK, NoDoubleBooking, NoOrphanBooking, store

(* Every statement preserves the constraints of the schema. *)
LEMMA NextStoreInv == StoreInv /\ [StoreNext]_store => StoreInv'
<1> SUFFICES ASSUME StoreInv, [StoreNext]_store PROVE StoreInv'
  OBVIOUS
<1>1. ASSUME NEW email \in Emails, InsertUser(email) PROVE StoreInv'
  BY <1>1, InsertUserInv
<1>2. ASSUME NEW id \in 1..MaxUsers, NEW email \in Emails, UpdateUser(id, email)
      PROVE  StoreInv'
  BY <1>2, UpdateUserInv
<1>3. ASSUME NEW id \in UserIds, DeleteUser(id) PROVE StoreInv'
  BY <1>3, DeleteUserInv
<1>4. ASSUME NEW user \in 1..MaxUsers, NEW room \in RoomIds,
             NEW start \in Bound, NEW end \in Bound,
             InsertBooking(user, room, start, end)
      PROVE  StoreInv'
  BY <1>4, InsertBookingInv
<1>5. ASSUME NEW id \in 1..MaxBookings, NEW room \in RoomIds,
             NEW start \in Bound, NEW end \in Bound,
             UpdateBooking(id, room, start, end)
      PROVE  StoreInv'
  BY <1>5, UpdateBookingInv
<1>6. ASSUME NEW id \in BookingIds, CancelBooking(id) PROVE StoreInv'
  BY <1>6, CancelBookingInv
<1>7. CASE UNCHANGED store
  BY <1>7, StutterStoreInv
<1>8. QED
  BY <1>1, <1>2, <1>3, <1>4, <1>5, <1>6, <1>7 DEF StoreNext

(* The database never leaves the states its constraints allow. *)
THEOREM StoreInvariant == StoreSpec => []StoreInv
<1>1. StoreInit => StoreInv
  BY InitStoreInv
<1>2. StoreInv /\ [StoreNext]_store => StoreInv'
  BY NextStoreInv
<1>3. QED
  BY <1>1, <1>2, PTL DEF StoreSpec

(* Type correctness of the tables and uniqueness of their keys. *)
THEOREM StoreTypeCorrect == StoreSpec => []StoreTypeOK
<1>1. StoreInv => StoreTypeOK
  BY DEF StoreInv
<1>2. QED
  BY <1>1, StoreInvariant, PTL

(* No two bookings that are not cancelled hold one room at the same time,   *)
(* however inserts, updates, cancellations and cascades interleave.        *)
THEOREM NeverDoubleBooked == StoreSpec => []NoDoubleBooking
<1>1. StoreInv => NoDoubleBooking
  BY DEF StoreInv
<1>2. QED
  BY <1>1, StoreInvariant, PTL

(* No booking outlives its user. *)
THEOREM NeverOrphaned == StoreSpec => []NoOrphanBooking
<1>1. StoreInv => NoOrphanBooking
  BY DEF StoreInv
<1>2. QED
  BY <1>1, StoreInvariant, PTL

---------------------------------------------------------------------------
(* What one statement may do to the row of a booking: the row keeps id and  *)
(* user, a cancelled row does not change at all, and a row that was not     *)
(* there before carries an id the sequence had not handed out.             *)
RowStep ==
    \A c \in bookings' :
        \/ c.id > bookingSeq
        \/ \E b \in bookings : /\ b.id = c.id
                               /\ b.user = c.user
                               /\ ~Active(b) => c = b

LEMMA SameRowsStep == StoreInv /\ bookings' \subseteq bookings => RowStep
BY DEF RowStep

LEMMA InsertBookingStep ==
    ASSUME StoreInv, NEW user, NEW room, NEW start, NEW end,
           InsertBooking(user, room, start, end)
    PROVE  RowStep
<1> DEFINE row == NewBooking(user, room, start, end)
<1>1. bookings' = bookings \cup {row}
  BY DEF InsertBooking
<1>2. row.id > bookingSeq
  BY StoreAssumption DEF StoreInv, StoreTypeOK, NewBooking
<1>3. QED
  BY <1>1, <1>2 DEF RowStep

LEMMA UpdateBookingStep ==
    ASSUME StoreInv, NEW id, NEW room, NEW start, NEW end,
           UpdateBooking(id, room, start, end)
    PROVE  RowStep
<1>1. PICK old \in bookings :
        /\ Active(old)
        /\ bookings' = (bookings \ {old})
              \cup {[old EXCEPT !.room = room, !.during = RangeOf(start, end)]}
  BY DEF UpdateBooking
<1>2. old \in BookingRow
  BY DEF StoreInv, StoreTypeOK
<1> DEFINE new == [old EXCEPT !.room = room, !.during = RangeOf(start, end)]
<1>3. new.id = old.id /\ new.user = old.user
  BY <1>2 DEF BookingRow
<1> HIDE DEF new
<1>4. bookings' = (bookings \ {old}) \cup {new}
  BY <1>1 DEF new
<1>5. QED
  BY <1>1, <1>3, <1>4 DEF RowStep

LEMMA CancelBookingStep ==
    ASSUME StoreInv, NEW id, CancelBooking(id)
    PROVE  RowStep
<1> DEFINE after(b) == IF b.id = id THEN [b EXCEPT !.status = "cancelled"] ELSE b
<1>1. bookings' = {after(b) : b \in bookings}
  BY DEF CancelBooking
<1>2. ASSUME NEW b \in bookings
      PROVE  /\ after(b).id = b.id
             /\ after(b).user = b.user
             /\ ~Active(b) => after(b) = b
  BY <1>2 DEF StoreInv, StoreTypeOK, BookingRow, Status, Active
<1> HIDE DEF after
<1>3. QED
  BY <1>1, <1>2 DEF RowStep

LEMMA NextRowStep == StoreInv /\ [StoreNext]_store => RowStep
<1> SUFFICES ASSUME StoreInv, [StoreNext]_store PROVE RowStep
  OBVIOUS
<1>1. CASE \E email \in Emails : InsertUser(email)
  BY <1>1, SameRowsStep DEF InsertUser
<1>2. CASE \E id \in 1..MaxUsers, email \in Emails : UpdateUser(id, email)
  BY <1>2, SameRowsStep DEF UpdateUser
<1>3. CASE \E id \in UserIds : DeleteUser(id)
  BY <1>3, SameRowsStep DEF DeleteUser
<1>4. CASE \E user \in 1..MaxUsers, room \in RoomIds, start, end \in Bound :
              InsertBooking(user, room, start, end)
  BY <1>4, InsertBookingStep
<1>5. CASE \E id \in 1..MaxBookings, room \in RoomIds, start, end \in Bound :
              UpdateBooking(id, room, start, end)
  BY <1>5, UpdateBookingStep
<1>6. CASE \E id \in BookingIds : CancelBooking(id)
  BY <1>6, CancelBookingStep
<1>7. CASE UNCHANGED store
  BY <1>7, SameRowsStep DEF store
<1>8. QED
  BY <1>1, <1>2, <1>3, <1>4, <1>5, <1>6, <1>7 DEF StoreNext

(* A cancelled booking is never confirmed again nor moved. *)
THEOREM CancellationIsFinal == StoreSpec => CancelledIsFinal
<1>1. StoreInv /\ [StoreNext]_store
        => [\A b \in bookings, c \in bookings' :
               b.id = c.id /\ ~Active(b) => c = b]_store
  <2> SUFFICES ASSUME StoreInv, [StoreNext]_store,
                      NEW b \in bookings, NEW c \in bookings',
                      b.id = c.id, ~Active(b)
               PROVE  c = b
    OBVIOUS
  <2>1. b.id <= bookingSeq /\ b.id \in Nat /\ bookingSeq \in Nat
    BY StoreAssumption DEF StoreInv, StoreTypeOK, BookingRow
  <2>2. PICK d \in bookings : d.id = c.id /\ (~Active(d) => c = d)
    BY <2>1, NextRowStep DEF RowStep
  <2>3. d = b
    BY <2>2 DEF StoreInv, StoreTypeOK, UniqueKeys
  <2>4. QED
    BY <2>2, <2>3
<1>2. QED
  BY <1>1, StoreInvariant, PTL DEF StoreSpec, CancelledIsFinal

(* A booking id denotes one booking of one user for ever. *)
THEOREM BookingIdIsStable == StoreSpec => BookingIdNeverReused
<1>1. StoreInv /\ [StoreNext]_store
        => [\A c \in bookings' : c.id <= bookingSeq =>
               \E b \in bookings : b.id = c.id /\ b.user = c.user]_store
  <2> SUFFICES ASSUME StoreInv, [StoreNext]_store,
                      NEW c \in bookings', c.id <= bookingSeq
               PROVE  \E b \in bookings : b.id = c.id /\ b.user = c.user
    OBVIOUS
  <2>1. c.id \in Nat /\ bookingSeq \in Nat
    BY NextStoreInv, StoreAssumption DEF StoreInv, StoreTypeOK, BookingRow
  <2>2. QED
    BY <2>1, NextRowStep DEF RowStep
<1>2. QED
  BY <1>1, StoreInvariant, PTL DEF StoreSpec, BookingIdNeverReused

(* The availability query, which repeats the rule of the exclusion          *)
(* constraint in its own words, offers a room exactly when an INSERT for    *)
(* the window would be accepted (handler.go:322, schema.sql:34).            *)
THEOREM OffersAreBookable == StoreSpec => []OfferedIffBookable
<1>1. StoreInv => OfferedIffBookable
  <2> SUFFICES ASSUME NEW u \in users, NEW room \in Rooms, NEW start \in Times, NEW end \in Times,
                      start <= end
               PROVE  room \in AvailableRooms(start, end)
                         <=> AcceptsBooking(u.id, room, start, end)
    BY DEF OfferedIffBookable
  <2>1. u.id \in Ids(users) /\ IsRange(start, end)
    BY DEF Ids, IsRange
  <2>2. ASSUME NEW b \in bookings
        PROVE  Conflict(NewBooking(u.id, room, start, end), b)
                  <=> /\ b.room = room
                      /\ b.status # "cancelled"
                      /\ Overlap(b.during, RangeOf(start, end))
    BY DEF Conflict, Active, NewBooking, Overlap
  <2>3. QED
    BY <2>1, <2>2 DEF AvailableRooms, AcceptsBooking
<1>2. QED
  BY <1>1, StoreInvariant, PTL

---------------------------------------------------------------------------
(* What one statement may do to the sequences and to the ids of users: the  *)
(* sequences never go back, and a user that was not there before carries an *)
(* id the sequence had not handed out.                                     *)
SeqStep ==
    /\ userSeq <= userSeq'
    /\ bookingSeq <= bookingSeq'
    /\ \A u \in users' : u.id > userSeq \/ u.id \in Ids(users)

LEMMA SameUsersStep ==
    ASSUME StoreInv, users' \subseteq users, userSeq' = userSeq,
           bookingSeq' \in {bookingSeq, bookingSeq + 1}
    PROVE  SeqStep
BY StoreAssumption DEF SeqStep, StoreInv, StoreTypeOK, Ids

LEMMA NextSeqStep == StoreInv /\ [StoreNext]_store => SeqStep
<1> SUFFICES ASSUME StoreInv, [StoreNext]_store PROVE SeqStep
  OBVIOUS
<1>1. CASE \E email \in Emails : InsertUser(email)
  <2>1. PICK email \in Emails : InsertUser(email)
    BY <1>1
  <2>2. /\ userSeq' = userSeq + 1
        /\ bookingSeq' = bookingSeq
        /\ users' = users \cup {[id |-> userSeq + 1, email |-> email]}
    BY <2>1 DEF InsertUser
  <2>3. userSeq \in Nat /\ bookingSeq \in Nat
    BY StoreAssumption DEF StoreInv, StoreTypeOK
  <2>4. QED
    BY <2>2, <2>3 DEF SeqStep, Ids
<1>2. CASE \E id \in 1..MaxUsers, email \in Emails : UpdateUser(id, email)
  <2>1. PICK id \in 1..MaxUsers, email \in Emails : UpdateUser(id, email)
    BY <1>2
  <2>2. PICK old \in users :
          /\ users' = (users \ {old}) \cup {[old EXCEPT !.email = email]}
          /\ UNCHANGED <<userSeq, bookingSeq>>
    BY <2>1 DEF UpdateUser
  <2>3. [old EXCEPT !.email = email].id = old.id
    BY DEF StoreInv, StoreTypeOK, UserRow
  <2>4. \A u \in users' : u.id \in Ids(users)
    BY <2>2, <2>3 DEF Ids
  <2>5. userSeq \in Nat /\ bookingSeq \in Nat
    BY StoreAssumption DEF StoreInv, StoreTypeOK
  <2>6. QED
    BY <2>2, <2>4, <2>5 DEF SeqStep
<1>3. CASE \E id \in UserIds : DeleteUser(id)
  BY <1>3, SameUsersStep DEF DeleteUser
<1>4. CASE \E user \in 1..MaxUsers, room \in RoomIds, start, end \in Bound :
              InsertBooking(user, room, start, end)
  BY <1>4, SameUsersStep DEF InsertBooking
<1>5. CASE \E id \in 1..MaxBookings, room \in RoomIds, start, end \in Bound :
              UpdateBooking(id, room, start, end)
  BY <1>5, SameUsersStep DEF UpdateBooking
<1>6. CASE \E id \in BookingIds : CancelBooking(id)
  BY <1>6, SameUsersStep DEF CancelBooking
<1>7. CASE UNCHANGED store
  BY <1>7, SameUsersStep DEF store
<1>8. QED
  BY <1>1, <1>2, <1>3, <1>4, <1>5, <1>6, <1>7 DEF StoreNext

(* What has been told of a row stays so through every statement: ids are    *)
(* never handed out twice, and a cancelled row never becomes active.        *)
LEMMA TruthIsStable ==
    ASSUME StoreInv, [StoreNext]_store, NEW e \in Event, StillTrue(e)
    PROVE  StillTrue(e)'
<1>1. StoreInv' /\ RowStep /\ SeqStep
  BY NextStoreInv, NextRowStep, NextSeqStep
<1>2. /\ userSeq \in Nat /\ bookingSeq \in Nat
      /\ userSeq' \in Nat /\ bookingSeq' \in Nat
      /\ userSeq <= userSeq' /\ bookingSeq <= bookingSeq'
  BY <1>1, StoreAssumption DEF StoreInv, StoreTypeOK, SeqStep
<1>3. e.id \in IF e.entity = "user" THEN 1..userSeq' ELSE 1..bookingSeq'
  BY <1>2 DEF StillTrue
<1>4. ASSUME e.details = "user_deactivated"
      PROVE  /\ e.id \in 1..userSeq' \ Ids(users')
             /\ \A b \in bookings' : b.user # e.id
  <2>1. e.id \in 1..userSeq \ Ids(users)
    BY <1>4 DEF StillTrue
  <2>2. e.id \in 1..userSeq' \ Ids(users')
    BY <1>1, <1>2, <2>1 DEF SeqStep, Ids
  <2>3. QED
    BY <1>1, <2>2 DEF StoreInv, NoOrphanBooking, OwnedBy
<1>5. ASSUME e.details = "booking_cancelled"
      PROVE  e.id \in 1..bookingSeq' /\ \A c \in bookings' : c.id = e.id => ~Active(c)
  <2>1. e.id \in 1..bookingSeq /\ \A b \in bookings : b.id = e.id => ~Active(b)
    BY <1>5 DEF StillTrue
  <2>2. QED
    BY <1>1, <1>2, <2>1 DEF RowStep
<1>6. QED
  BY <1>3, <1>4, <1>5 DEF StillTrue

(* Cancelling leaves no active row of that id. *)
LEMMA CancelledRows ==
    ASSUME StoreInv, NEW id, CancelBooking(id)
    PROVE  \A b \in bookings' : b.id = id => ~Active(b)
<1> DEFINE after(b) == IF b.id = id THEN [b EXCEPT !.status = "cancelled"] ELSE b
<1>1. bookings' = {after(b) : b \in bookings}
  BY DEF CancelBooking
<1>2. \A b \in bookings : after(b).id = id => after(b).status = "cancelled"
  BY DEF StoreInv, StoreTypeOK, BookingRow
<1> HIDE DEF after
<1>3. QED
  BY <1>1, <1>2 DEF Active

(* A statement that met a row tells the truth of it when it commits. *)
LEMMA TruthFromStatement ==
    ASSUME StoreInv, [StoreNext]_store, NEW e \in Event, MetRow(e.entity, e.id),
           e.details = "user_deactivated" => e.entity = "user" /\ e.id \notin Ids(users'),
           e.details = "booking_cancelled" =>
              e.entity = "booking" /\ \A b \in bookings' : b.id = e.id => ~Active(b)
    PROVE  StillTrue(e)'
<1>1. StoreInv' /\ SeqStep
  BY NextStoreInv, NextSeqStep
<1>2. /\ userSeq \in Nat /\ bookingSeq \in Nat
      /\ userSeq' \in Nat /\ bookingSeq' \in Nat
      /\ userSeq <= userSeq' /\ bookingSeq <= bookingSeq'
  BY <1>1, StoreAssumption DEF StoreInv, StoreTypeOK, SeqStep
<1>3. /\ \A u \in users \cup users' : u.id \in 1..userSeq'
      /\ \A b \in bookings \cup bookings' : b.id \in 1..bookingSeq'
  BY <1>1, <1>2, StoreAssumption DEF StoreInv, StoreTypeOK, UserRow, BookingRow
<1>4. e.id \in IF e.entity = "user" THEN 1..userSeq' ELSE 1..bookingSeq'
  BY <1>3 DEF MetRow, Ids
<1>5. e.details = "user_deactivated" => \A b \in bookings' : b.user # e.id
  BY <1>1 DEF StoreInv, NoOrphanBooking, OwnedBy
<1>6. QED
  BY <1>4, <1>5 DEF StillTrue
=============================================================================
