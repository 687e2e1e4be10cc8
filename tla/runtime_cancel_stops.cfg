SPECIFICATION Spec
CONSTANTS
  r1 = r1
  r2 = r2
  p1 = p1
  a1 = a1
  a2 = a2
  d1 = d1
  d2 = d2
  None = None
  Run <- TwoRuns
  Plan <- OnePlan
  NSteps = 2
  Approval <- NoApprovals
  Descriptor <- OneDescriptor
  NeedsApproval <- NoApprovals
  ProviderStep <- Second
  DependsOn <- Chain
  StoreFaults <- NoFaults
  MayCrash = FALSE
PROPERTIES CancellationStopsPlan
CHECK_DEADLOCK FALSE
