SPECIFICATION Spec
CONSTANTS
  MaxPhys = 2
  DefaultPhy = 1
  NofPhys = 1
  NumBuffers = 4
  Capacity = 2
  MaxMsgs = 3
INVARIANT FreedAfterUse
