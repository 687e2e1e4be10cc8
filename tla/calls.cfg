SPECIFICATION CallsSpec
CONSTANTS
  Kind = {"process", "git", "provider", "workspace", "watched"}
  Platforms = {"posix", "win32"}
  MaxOutput = 2
  MaxChunk = 2
  MaxProduced = 4
  ResponseSize = 5
  ChunkSize = 2
  ChunkBudgets = {1, 3, 4}
  SizeBudgets = {3, 4, 5}
  MaxSessions = 3
  root = root
  docs = docs
  lib = lib
  Root = root
  Dir = {root, docs, lib}
  File = {1, 2, 3, 4}
  Content <- Contents
  Starts <- AllStarts
  CheckEvery = 2
  MaxFiles = 3
  MaxFileBytes = 2
  MaxSearchBytes = 3
  MaxMatches = 2
  MaxPending = 2
  Mark = 1
  MaxChanges = 2
  r1 = r1
  r2 = r2
  p1 = p1
  d1 = d1
  Runs = {r1, r2}
  Plan = {p1}
  NSteps = 2
  Approval = {}
  Descriptor = {d1}
  NeedsApproval = {}
  ProviderStep = {1}
  DependsOn <- Chain
  StoreFaults = {}
  MayCrash = TRUE
  None = None
INVARIANTS OutcomeTellsCause ConfirmedTreeIsDoomed ResponseIsWhole StreamIsWellFormed SearchIsHonest WatcherCovers
PROPERTIES CauseIsFinal AnswersAsPromised CallsAreAnswered RunsSettle
CHECK_DEADLOCK FALSE
