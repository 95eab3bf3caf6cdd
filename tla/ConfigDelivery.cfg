SPECIFICATION FairPollSpec
CONSTANTS
  Requests = {r1, r2}
  prod = prod
  dr = dr
  web = web
  default = default
  nightly = nightly
  low = low
  high = high
  tooHigh = tooHigh
  Agents = {prod, dr}
  VMs = {web}
  Names = {default, nightly}
  Default = default
  NoTemplate = NoTemplate
  Limits = {low, high, tooHigh}
  ValidLimits = {low, high}
  Intervals = {1, 2}
  Forms <- AllForms
  Settings0 <- WithNightly
  Schedule0 <- OneSchedule
  NoForm = NoForm
  NoSettings = NoSettings
  NoDocument = NoDocument
  MaxCrashes = 1
INVARIANTS
  PollTypeOK
  OneAnswerAfterRevocation
PROPERTIES
  EveryChangeIsAudited
  ChangesReachAgents
CHECK_DEADLOCK FALSE
