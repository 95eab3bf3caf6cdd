SPECIFICATION Spec
CONSTANTS
  src = src
  again = again
  dr1 = dr1
  dr2 = dr2
  hostS = hostS
  host1 = host1
  host2 = host2
  Agents = {src, again, dr1, dr2}
  Hosts = {hostS, host1, host2}
  Host <- MCHost
  vm = vm
  VMs = {vm}
  point = point
  Tags = {point}
  NoRef = NoRef
  NoReport = NoReport
  NoAsk = NoAsk
  NoCall = NoCall
  NoFleet = NoFleet
  Reports <- MCReports
  New = {again}
  Sent <- MCSent
  MayFallSilent = {src, dr1}
  MayBeRevoked = {src, dr2}
  Places <- MCPlaces
  MaxChanges = 0
  MaxGone = 0
INVARIANT ResyncSparesEveryServed
CHECK_DEADLOCK FALSE
