SPECIFICATION StoreSpec
CONSTANTS
  Emails = {e1, e2}
  RoomIds = {r1, r2, r3}
  Rooms = {r1, r2}
  MaxTime = 3
  Missing = Missing
  Malformed = Malformed
  MaxUsers = 2
  MaxBookings = 3
  OddIds <- MCOddIds
  Seed <- MCSeed
SYMMETRY MCSymmetry
INVARIANTS
  StoreTypeOK
  NoDoubleBooking
  NoOrphanBooking
  OfferedIffBookable
PROPERTIES
  CancelledIsFinal
  BookingIdNeverReused
