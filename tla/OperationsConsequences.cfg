SPECIFICATION Spec
CONSTANTS
  Ops = {o1, o2}
  prod2 = prod2
  prod = prod
  dr = dr
  web = web
  webCaps = webCaps
  copy = copy
  hostP = hostP
  hostD = hostD
  dirP = dirP
  dirD = dirD
  Agents = {prod, prod2, dr}
  VMs = {web, webCaps, copy}
  Hosts = {hostP, hostD}
  Dirs = {dirP, dirD}
  Nobody = Nobody
  NoOp = NoOp
  NoHost = NoHost
  NoVM = NoVM
  Fold <- MCFold
  HostOf <- ReenrolledHostOf
  DiskDir <- ReenrolledDiskDir
  Requests <- ConsequenceRequests
  Saves <- ConsequenceSaves
  Schedule0 <- ReenrolledSchedule
  Failures <- NoFailures
  Enrolled0 = {prod}
  Revocable = {prod}
  MaxLegacy = 0
  MaxInFlight = 1
  MaxCrashes = 1
SYMMETRY Symmetry
INVARIANTS
  ConsequencesBeforeAcknowledgement
  PromotionQuietsSource
  AuditTellsTheOutcome
PROPERTIES
  DirectionNeverLost
  RerunIsIdempotent
