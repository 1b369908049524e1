SPECIFICATION Spec
CONSTANTS
  Threads = {t1, t2}
  Duration = 2
  Warmup = 1
  TicksPerSecond = 2
  MaxOverrun = 1
  MaxRecords = 2
INVARIANTS
  TypeOK
  EveryRequestIsCounted
  PercentilesAreRight
PROPERTY
  TestEnds
