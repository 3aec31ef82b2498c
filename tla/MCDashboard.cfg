\* Three builds one after the other, three edits; two blocks, two fetches that
\* overlap; two files, two requests under way.
CONSTANTS
  Builds = {b1, b2, b3}
  MaxEdits = 3
  Parallel = FALSE
  NoBuild = NoBuild
  NoFiles = NoFiles
  NBlocks = 2
  Polls = {p1, p2}
  QueueFiles = {f1, f2}
  Requests = {r1, r2}
SPECIFICATION DashboardSpec
INVARIANTS
  SourceMapOfLastPass
  NeverBehindTheFile
  ReadOnceEach
PROPERTIES
  ViewSettles
  EveryFileStaysShown
  PageSettlesOnCache
