SPECIFICATION Spec
CONSTANTS
  MaxGeneration = 2
  MaxCommit = 1
  MaxIncident = 1
  MaxCrash = 0
  Refusable = {"move main"}
INVARIANTS DatabasesKept
CHECK_DEADLOCK FALSE
