---------------------------- MODULE MCPhase3System ----------------------------
(* Small instances of Phase3System for TLC: the service starts on an empty *)
(* database, or on one with one user.                                      *)
EXTENDS Phase3System, TLC

CONSTANT SeedEmail

MCEmpty == [users |-> {}, bookings |-> {}, userSeq |-> 0, bookingSeq |-> 0]

MCSeed == [users |-> {[id |-> 1, email |-> SeedEmail]}, bookings |-> {},
           userSeq |-> 1, bookingSeq |-> 0]

MCSymmetry == Permutations(Requests)
=============================================================================
