\* Three test cases; one is trimmed; two deaths.
CONSTANTS
  MaxCases = 3
  MaxTrims = 1
  MaxKills = 2
  NoUnlinks = {TRUE, FALSE}
SPECIFICATION Spec
CHECK_DEADLOCK FALSE
INVARIANTS
  KeptOnDisk
  CountedWasSeen
  TornOnlyInPlace
PROPERTY
  EveryCaseOffered
