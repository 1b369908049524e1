---------------------------- MODULE MCSyncEngine ----------------------------
(* Small instances of SyncEngine for TLC.  The service starts on an empty  *)
(* database, or on one with a user who holds one booking.                  *)
EXTENDS SyncEngine, TLC

CONSTANTS SeedRoom, SeedEmail

MCEmpty == [users |-> {}, bookings |-> {}, userSeq |-> 0, bookingSeq |-> 0]

MCSeed == [users |-> {[id |-> 1, email |-> SeedEmail]},
           bookings |-> {[id |-> 1, user |-> 1, room |-> SeedRoom, status |-> "confirmed",
                          during |-> [lo |-> 1, hi |-> 2]]},
           userSeq |-> 1, bookingSeq |-> 1]

MCOddIds == {-1}

MCSymmetry == Permutations(Requests)
=============================================================================
