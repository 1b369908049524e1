---------------------------- MODULE MCBookingStore ----------------------------
(* Small instance of BookingStore for TLC: the service starts on an empty   *)
(* database.                                                               *)
EXTENDS BookingStore, TLC

MCSeed == [users |-> {}, bookings |-> {}, userSeq |-> 0, bookingSeq |-> 0]

MCOddIds == {-1}

MCSymmetry == Permutations(Rooms) \cup Permutations(Emails)
=============================================================================
