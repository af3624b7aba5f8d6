SPECIFICATION ServiceSpec
CONSTANTS
  t1 = t1
  t2 = t2
  module = module
  fileA = fileA
  fileB = fileB
  fileC = fileC
  fileD = fileD
  tree = tree
  cli = cli
  agent = agent
  None = None
  Task = {t1, t2}
  Exec = {e1, e2}
  Preflight = {p1, p2}
  Segment <- MCSegment
  Fold <- MCFold
  Drive = {"c:"}
  ForbiddenRoot = {".env"}
  Project <- MCProject
  Directory <- MCDirectory
  ScopeKey <- MCKey
  File <- MCFile
  Scope = {fileA}
  Platform = {cli, agent}
  Conflict <- MCConflict
  PlatformOf <- OnePlatform
  PlatformLimit <- MCPlatformLimit
  GlobalLimit = 2
  QueueLimit = 2
  PlannerLimit = 1
  PlannerBatch = 2
  Rank <- MCRank
  MaxLives = 2
CHECK_DEADLOCK FALSE
PROPERTIES
  ReadyTasksFinish
  InspectionsEnd
