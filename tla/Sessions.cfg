SPECIFICATION Spec
CONSTANTS
  ann = ann
  bob = bob
  Names <- MCNames
  Configs <- MCConfigs
  Browsers = {b1}
  Requests = {r1, r2}
  Tokens = {t1, t2}
  NoToken = NoToken
  NoRequest = NoRequest
  Ttl = 1
  MaxClock = 2
  MaxRestarts = 1
INVARIANTS
  TypeOK
  ActorSawTheForm
  OverIsOver
PROPERTIES
  ImplementsSignIns
SYMMETRY Symmetry
CHECK_DEADLOCK FALSE
