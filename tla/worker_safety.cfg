SPECIFICATION Spec
CONSTANTS
  Workers = {w1, w2}
  BufferSize = 1
  BadPayloads = {2}
  AnyHandler = TRUE
  MaxPush = 3
  MaxRestarts = 1
INVARIANTS
  TypeOK
  Conservation
  ReceivedInOrder
  VerdictTruthful
  AbandonedOnlyOnTimeout
  DrainedOnReturn
PROPERTIES
  ImplementsHandOver
  ShutdownCompletes
  PoppedPayloadSettles
