SPECIFICATION Spec
SYMMETRY Symmetry
CONSTANTS
  Workspace = {w1, w2}
  Plan = {p1, p2}
  Run = {r1, r2}
  Approval = {a1}
  NoOne = NoOne
  MaxCrash = 1
  Faults = TRUE
INVARIANTS LiveMeansExecuting SessionIsOfOneWorkspace PurgeIsWhole ShownAsItEnded
PROPERTIES DecisionsAreOfTheSession
