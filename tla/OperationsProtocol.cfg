SPECIFICATION Spec
CONSTANTS
  Ops = {o1, o2}
  prod = prod
  dr = dr
  web = web
  webCaps = webCaps
  copy = copy
  hostP = hostP
  hostD = hostD
  dirP = dirP
  dirD = dirD
  Agents = {prod, dr}
  VMs = {web, webCaps, copy}
  Hosts = {hostP, hostD}
  Dirs = {dirP, dirD}
  Nobody = Nobody
  NoOp = NoOp
  NoHost = NoHost
  NoVM = NoVM
  Fold <- MCFold
  HostOf <- MCHostOf
  DiskDir <- MCDiskDir
  Requests <- ProtocolRequests
  Saves <- NoSaves
  Schedule0 <- EmptySchedule
  Failures = {"failed"}
  Enrolled0 = {prod, dr}
  Revocable = {}
  MaxLegacy = 1
  MaxInFlight = 2
  MaxCrashes = 0
SYMMETRY Symmetry
INVARIANTS
  TypeOK
  OneInFlightPerVM
  ExecutedAtMostOnce
  RacingWorkNeedsCancel
  OutcomeNeverLost
PROPERTIES
  NeverRepublished
  ImplementsLifecycle
CHECK_DEADLOCK FALSE
