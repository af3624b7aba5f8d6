SPECIFICATION CapacitySpec
CONSTANTS
  t1 = t1
  t2 = t2
  module = module
  fileA = fileA
  fileB = fileB
  fileC = fileC
  fileD = fileD
  tree = tree
  cli = cli
  agent = agent
  None = None
  Task = {t1, t2, t3, t4}
  Exec = {e1, e2, e3, e4, e5}
  Preflight = {p1, p2, p3, p4}
  Segment <- MCSegment
  Fold <- MCFold
  Drive = {"c:"}
  ForbiddenRoot = {".env"}
  Project <- MCProject
  Directory <- MCDirectory
  ScopeKey <- MCKey
  File <- MCFile
  Scope = {fileA, fileB, fileC, fileD}
  Platform = {cli, agent}
  Conflict <- MCConflict
  PlatformOf <- MCPlatformOf
  PlatformLimit <- TightPlatformLimit
  GlobalLimit = 2
  QueueLimit = 3
  PlannerLimit = 2
  PlannerBatch = 2
SYMMETRY ExecSymmetry
INVARIANTS
  CapacityRespected
