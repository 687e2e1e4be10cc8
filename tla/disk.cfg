SPECIFICATION DiskSpec
CONSTANTS
  p1 = p1
  p2 = p2
  r1 = r1
  None = None
  Process <- TwoProcesses
  RunId = {r1}
  Builds = {1, 2}
  MaxEvents = 4
  MaxGeneration = 3
  MaxCommit = 2
  MaxIncident = 2
  MaxCrash = 2
  Refusable = {"move wal", "place"}
  File = {f1, f2}
  Tx = {t1, t2}
  Body = {empty, x}
  Empty = empty
  Absent = absent
  Racing = TRUE
  MaxEdits = 1
SYMMETRY Symmetric
INVARIANTS ChainIsWhole TrailTellsState MigrationsApplyOnce DamageStopsWriting OpenIsWhole DatabasesKept NothingLost JournalCoversWrites RecoveryUndoes
PROPERTIES ActivationAtomic
CHECK_DEADLOCK FALSE
