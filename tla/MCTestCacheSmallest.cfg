\* Three entries of one to three bytes and the smallest cache main() accepts.
CONSTANTS
  Entries = {e1, e2, e3}
  MaxFile = 3
  MaxCacheSize = 6
  MaxCacheEntries = 4
  SpliceMin = 2
  NULL = NULL
  Garbage = Garbage
SPECIFICATION Spec
SYMMETRY EntrySymmetry
INVARIANT
  VictimExists
