SPECIFICATION Spec
CONSTANTS
  SeedRoom = r1
  SeedEmail = e1
  OtherEmail = e2
  Emails = {e1, e2}
  RoomIds = {r1, r2}
  Rooms = {r1, r2}
  MaxTime = 3
  Missing = Missing
  Malformed = Malformed
  MaxUsers = 3
  MaxBookings = 5
  OddIds = {}
  Seed <- MCSeed
  Requests = {q1, q2}
SYMMETRY MCSymmetry
INVARIANTS
  TypeOK
  ToldIdStaysMine
  ListingIsOneView
