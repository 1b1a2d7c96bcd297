SPECIFICATION FairSpec
CONSTANTS
  MaxPhys = 2
  DefaultPhy = 0
  NofPhys = 2
  NumBuffers = 3
  Capacity = 2
  MaxMsgs = 5
INVARIANTS
  TypeOK
  RingFresh
  InOrder
  NoFreedContext
PROPERTIES
  ImplementsStream
  EachControlLeaves
  ShutdownEnds
