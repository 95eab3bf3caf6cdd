SPECIFICATION PollSpec
CONSTANTS
  Requests = {r1, r2}
  prod = prod
  dr = dr
  web = web
  default = default
  nightly = nightly
  low = low
  high = high
  tooHigh = tooHigh
  Agents = {prod, dr}
  VMs = {web}
  Names = {default, nightly}
  Default = default
  NoTemplate = NoTemplate
  Limits = {low, high, tooHigh}
  ValidLimits = {low, high}
  Intervals = {1, 2}
  Forms <- SettingsForms
  Settings0 <- NoTemplates
  Schedule0 <- EmptySchedule
  NoForm = NoForm
  NoSettings = NoSettings
  NoDocument = NoDocument
  MaxCrashes = 0
SYMMETRY Symmetry
PROPERTIES
  TemplatesOutliveOtherForms
CHECK_DEADLOCK FALSE
