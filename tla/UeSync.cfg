SPECIFICATION Spec
CONSTANTS
  L = 8
  F = 4
  N = 3
  Streams <- MCStreams
  Nofs = {0, 3}
  MaxWrong = 1
  MaxPos = 66
INVARIANTS
  TypeOK
  BurstContinues
  NoSampleTwice
  BurstsDelivered
  RingKeeps
  InStep
CHECK_DEADLOCK FALSE
