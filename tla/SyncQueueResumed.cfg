\* Three test cases, one stop and resume of the exporter.
CONSTANTS
  MaxCases = 3
  MaxTrims = 0
  MaxKills = 1
  NoUnlinks = {FALSE}
SPECIFICATION Spec
CHECK_DEADLOCK FALSE
INVARIANT
  NothingNewMeansSeen
