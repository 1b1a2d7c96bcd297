SPECIFICATION FairSpec
CONSTANTS
  N = 3
  Controls <- MCControls
  Envs = {1, 2}
  First <- MCFirst
  FirstEnv = 1
  Failures = {"tune", "env", "gain", "init", "create", "recv", "free"}
  MaxSub = 4
  MaxMsg = 2
INVARIANTS
  TypeOK
  EntryIntact
  Delivery
  JoinedBeforeFreed
  Tuned
PROPERTIES
  Served
  ShutdownEnds
CHECK_DEADLOCK FALSE
