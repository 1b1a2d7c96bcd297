SPECIFICATION FairSpec
CONSTANTS
  CompFreqs = {0, 1, 2}
  CompBws = {20}
  Chans = {1, 2}
  BwIdxs = {1, 2}
  Gains = {1, 2}
  Failures = {}
INVARIANTS
  TypeOK
  BurstMatchesControl
PROPERTY ControlEnds
