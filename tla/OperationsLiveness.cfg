SPECIFICATION FairSpec
CONSTANTS
  Ops = {o1}
  prod = prod
  dr = dr
  web = web
  webCaps = webCaps
  copy = copy
  hostP = hostP
  hostD = hostD
  dirP = dirP
  dirD = dirD
  Agents = {prod, dr}
  VMs = {web, webCaps, copy}
  Hosts = {hostP, hostD}
  Dirs = {dirP, dirD}
  Nobody = Nobody
  NoOp = NoOp
  NoHost = NoHost
  NoVM = NoVM
  Fold <- MCFold
  HostOf <- MCHostOf
  DiskDir <- MCDiskDir
  Requests <- LiveRequests
  Saves <- NoSaves
  Schedule0 <- MCSchedule
  Failures = {"failed"}
  Enrolled0 = {prod, dr}
  Revocable = {dr}
  MaxLegacy = 0
  MaxInFlight = 2
  MaxCrashes = 1
PROPERTIES
  EveryOperationAnswered
CHECK_DEADLOCK FALSE
