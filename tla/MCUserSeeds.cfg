\* Two posts, of two seeds or twice of one; three seconds.
CONSTANTS
  s1 = s1
  s2 = s2
  Seeds <- MCSeeds
  SeedSize <- MCSeedSize
  Requests = {r1, r2}
  MaxFile = 2
  MaxTime = 3
  None = None
SPECIFICATION Spec
INVARIANTS
  FaultOnlyByRepost
  RunsPrefixes
PROPERTY
  PostedSeedRuns
