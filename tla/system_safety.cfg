SPECIFICATION SystemSpec
CONSTANTS
  SeedEmail = e1
  Emails = {e1}
  RoomIds = {}
  Rooms = {}
  MaxTime = 0
  Missing = Missing
  Malformed = Malformed
  MaxUsers = 0
  MaxBookings = 1
  OddIds = {}
  Seed <- MCEmpty
  Requests = {q1, q2}
  MaxRetries = 1
  MaxLate = 1
  NoEvent = NoEvent
  Capacity = 1
  MaxPush = 4
SYMMETRY MCSymmetry
INVARIANTS
  SystemTypeOK
  FanOutTakenInOrder
  SequentialRequestsInOrder
