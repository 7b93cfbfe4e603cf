SPECIFICATION FairSpec
CHECK_DEADLOCK FALSE
CONSTANTS
  Reads = {r1, r2}
  MaxPolls = 2
  None = None
INVARIANT TrackingAlive
PROPERTY LocationLoaderEnds
