SPECIFICATION Spec
CONSTANTS
  Workers = {w1, w2}
  BufferSize = 1
  BadPayloads = {}
  AnyHandler = FALSE
  MaxPush = 2
  MaxRestarts = 0
INVARIANT GracefulShutdownDrains
