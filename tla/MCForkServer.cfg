\* Three runs, of a process that is good for two of them.
CONSTANTS
  MaxRuns = 3
  Persistent = TRUE
  MaxCnt = 2
  Handshakes <- AllHandshakes
SPECIFICATION Spec
INVARIANTS
  InStep
  OnlyUnannouncedLeft
PROPERTY
  ImplementsRunTarget
