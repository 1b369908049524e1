SPECIFICATION Spec
CONSTANTS
  SeedRoom = r1
  SeedEmail = e1
  Emails = {e1}
  RoomIds = {r1}
  Rooms = {r1}
  MaxTime = 2
  Missing = Missing
  Malformed = Malformed
  MaxUsers = 1
  MaxBookings = 1
  OddIds <- MCOddIds
  Seed <- MCSeed
  Requests = {q1, q2}
  MaxRetries = 0
  MaxLate = 1
  NoEvent = NoEvent
INVARIANT LostJobsMeanRedisFailed
