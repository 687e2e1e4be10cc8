SPECIFICATION Spec
CONSTANTS
  recall = recall
  team = team
  synthesis = synthesis
  commit = commit
  evaluation = evaluation
  extra = extra
  r1 = r1
  r2 = r2
  Capability <- Capabilities
  Registries <- AllRegistries
  Requests <- AllRequests
  MaxSteps = 5
  Run = {r1, r2}
  Namespace = {"w1", "w2"}
  Budgets <- TwoBudgets
  Sizes = {1, 2, 3}
  Stored <- AtMostOneEntry
  MinOutput = 2
SYMMETRY Symmetry
INVARIANTS PlanIsOrdered VerdictIsRight BudgetsHold MemoryIsEarned
PROPERTIES RecallIsCurrent
