SPECIFICATION Spec
CONSTANTS
  Workers = {w1}
  BufferSize = 1
  BadPayloads = {}
  AnyHandler = FALSE
  MaxPush = 4
  MaxRestarts = 1
INVARIANTS
  BoundedLoss
  OnlyDeadlineFails
