SPECIFICATION Spec
CONSTANTS
  SeedRoom = r1
  SeedEmail = e1
  Emails = {e1, e2}
  RoomIds = {r1}
  Rooms = {r1}
  MaxTime = 2
  Missing = Missing
  Malformed = Malformed
  MaxUsers = 2
  MaxBookings = 2
  OddIds <- MCOddIds
  Seed <- MCSeed
  Requests = {q1, q2}
  MaxRetries = 0
  MaxLate = 0
  NoEvent = NoEvent
INVARIANTS
  TypeOK
  JobsStayTrue
  ReplyFollowsDatabase
  NoSilentLoss
PROPERTY
  StoreSpec
  EveryRequestAnswered
