SPECIFICATION Spec
CONSTANTS
  Tokens = {t1, t2}
  Ids = {i1, i2}
  hyper = hyper
  HYPER = HYPER
  other = other
  Hosts = {hyper, HYPER, other}
  Fold <- MCFold
  MintedFor <- MCMintedFor
  NoAgent = NoAgent
  NoToken = NoToken
  NoCall = NoCall
  MaxReports = 2
  MaxFailures = 1
INVARIANTS
  TypeOK
  OneIdentityPerToken
  UsesBoundedByFailures
  TrailResolves
  SeenNoLaterThanReported
PROPERTIES
  ImplementsEnrolment
SYMMETRY Symmetry
CHECK_DEADLOCK FALSE
