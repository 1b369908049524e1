SPECIFICATION SystemSpec
CONSTANTS
  SeedEmail = e1
  Emails = {e1}
  RoomIds = {}
  Rooms = {}
  MaxTime = 0
  Missing = Missing
  Malformed = Malformed
  MaxUsers = 1
  MaxBookings = 0
  OddIds = {}
  Seed <- MCSeed
  Requests = {q1}
  MaxRetries = 0
  MaxLate = 1
  NoEvent = NoEvent
  Capacity = 1
  MaxPush = 3
INVARIANT
  DeactivationIsRecorded
