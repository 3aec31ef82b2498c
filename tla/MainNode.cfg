\* One -M instance and two secondaries, five starts, two deaths.
CONSTANTS
  Nodes = {m, s1, s2}
  Mains = {m}
  MaxDeaths = 2
  MaxStarts = 5
SPECIFICATION Spec
CHECK_DEADLOCK FALSE
INVARIANTS
  StaleOnlyByDeath
PROPERTIES
  MainAgain
  TempsYield
