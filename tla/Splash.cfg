SPECIFICATION FairSpec
CONSTANTS
  MaxAttempts = 3
  MaxTicks = 2
  MaxStarts = 3
  Inits = {i1, i2}
  MaxAgain = 1
INVARIANTS TypeOK NavigatesOnce
PROPERTIES SplashSettles LateSyncLeaves
