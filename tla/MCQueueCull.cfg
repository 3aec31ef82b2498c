CONSTANTS
  MaxPaths = 3
  NEdges = 3
  Traces <- MCTracesTwo
  Lens = {1, 2}
  Sessions <- MCSessions
  CalChances = 2
  MinToSkip = 1
  NoEntry = NoEntry
SPECIFICATION Spec
INVARIANTS
  RefCounts
  WinnersHaveTrace
  FavoredCover
  CountersExact
  PendingFavoredBounds
  SeedsDeduplicated
