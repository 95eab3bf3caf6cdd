SPECIFICATION Spec
CONSTANTS
  Tokens = {t1}
  Ids = {i1, i2}
  hyper = hyper
  HYPER = HYPER
  other = other
  Hosts = {hyper, HYPER, other}
  Fold <- MCFold
  MintedFor <- MCMintedFor
  NoAgent = NoAgent
  NoToken = NoToken
  NoCall = NoCall
  MaxReports = 2
  MaxFailures = 1

INVARIANT
  SingleUse
CHECK_DEADLOCK FALSE
