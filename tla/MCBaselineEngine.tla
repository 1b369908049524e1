--------------------------- MODULE MCBaselineEngine ---------------------------
(* Small instance of BaselineEngine for TLC: two users and two rooms, one   *)
(* of which is booked twice; booking 2 went with its user.                  *)
EXTENDS BaselineEngine, TLC

CONSTANTS SeedRoom, SeedEmail, OtherEmail

MCSeed == [users |-> {[id |-> 1, email |-> SeedEmail], [id |-> 2, email |-> OtherEmail]},
           bookings |-> {[id |-> id, user |-> 1, room |-> SeedRoom, status |-> "confirmed",
                          during |-> [lo |-> id - 1, hi |-> id]] : id \in {1, 3}},
           userSeq |-> 2, bookingSeq |-> 3]

MCSymmetry == Permutations(Requests)
=============================================================================
