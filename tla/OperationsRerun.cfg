SPECIFICATION Spec
CONSTANTS
  Ops = {o1}
  prod = prod
  dr = dr
  web = web
  webCaps = webCaps
  copy = copy
  hostP = hostP
  hostD = hostD
  dirP = dirP
  dirD = dirD
  Agents = {prod, dr}
  VMs = {web, webCaps, copy}
  Hosts = {hostP, hostD}
  Dirs = {dirP, dirD}
  Nobody = Nobody
  NoOp = NoOp
  NoHost = NoHost
  NoVM = NoVM
  Fold <- MCFold
  HostOf <- MCHostOf
  DiskDir <- MCDiskDir
  Requests <- PromoteOnly
  Saves <- OperatorSaves
  Schedule0 <- MCSchedule
  Failures <- NoFailures
  Enrolled0 = {prod, dr}
  Revocable = {}
  MaxLegacy = 0
  MaxInFlight = 1
  MaxCrashes = 1
SYMMETRY Symmetry
PROPERTIES
  RerunKeepsLaterEdits
