SPECIFICATION DispatchSpec
CONSTANTS
  Kind = {"workspace"}
  Platforms = {"posix", "win32"}
  MaxOutput = 2
  MaxChunk = 2
  MaxProduced = 4
  ResponseSize = 5
  ChunkSize = 2
  ChunkBudgets = {1, 3, 4}
  SizeBudgets = {3, 4, 5}
  MaxSessions = 3
  root = root
  docs = docs
  lib = lib
  Root = root
  Dir = {root, docs, lib}
  File = {1, 2, 3, 4}
  Content <- Contents
  Starts <- FullStart
  CheckEvery = 2
  MaxFiles = 3
  MaxFileBytes = 2
  MaxSearchBytes = 5
  MaxMatches = 5
  MaxPending = 2
  Mark = 1
  MaxChanges = 0
INVARIANTS SearchAnswers
CHECK_DEADLOCK FALSE
