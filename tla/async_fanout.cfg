SPECIFICATION Spec
CONSTANTS
  SeedRoom = r1
  SeedEmail = e1
  Emails = {e1}
  RoomIds = {r1}
  Rooms = {r1}
  MaxTime = 0
  Missing = Missing
  Malformed = Malformed
  MaxUsers = 0
  MaxBookings = 1
  OddIds = {}
  Seed <- MCEmpty
  Requests = {q1, q2}
  MaxRetries = 1
  MaxLate = 1
  NoEvent = NoEvent
SYMMETRY MCSymmetry
INVARIANTS
  FanOutInOrder
  DuplicatesOnlyFromRetries
