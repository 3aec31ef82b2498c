\* Four entries of one to three bytes; a cache of six bytes, the smallest that
\* main() accepts, and four slots.
CONSTANTS
  Entries = {e1, e2, e3, e4}
  MaxFile = 3
  MaxCacheSize = 6
  MaxCacheEntries = 4
  SpliceMin = 2
  NULL = NULL
  Garbage = Garbage
SPECIFICATION Spec
SYMMETRY EntrySymmetry
INVARIANTS
  TypeOK
  SlotSearchInBounds
  SlotsMatchBuffers
  SizeExact
  Coherent
  InUseNotFreed
  StuckOnlyAtLimits
  SplicePartnerExists
