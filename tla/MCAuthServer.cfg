\* Two clients, one login, two requests with its bearer token.
CONSTANTS
  ClientIds = {a, b}
  PendingKeys = {k1}
  Codes = {c1}
  SessionIds = {s1}
  Verifiers = {v1}
  AuthMethods = {"none"}
  States = {x}
  PlainStates = {x}
  Handlers = {h1}
  URIs <- OneURI
  LoopbackHosts <- Loopbacks
  Requests = {r1, r2}
  PendingTTL = 1
  CodeTTL = 1
  SessionTTL = 2
  TokenLife = 2
  RefreshBuffer = 1
  ReplyDelay = 0
  RequestSpan = 1
  MaxLosses = 1
  MaxTime = 3
SYMMETRY ServerSymmetry
SPECIFICATION ServerSpec
INVARIANTS ServerInv
PROPERTIES ClientsAreServedOnTheirGrants
