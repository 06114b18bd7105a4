\* Two requests of one session around its first refresh.
CONSTANTS
  SessionIds = {s1}
  Requests = {r1, r2}
  SessionTTL = 5
  TokenLife = 4
  RefreshBuffer = 2
  ReplyDelay = 1
  RequestSpan = 1
  MaxTime = 4
  MaxLosses = 1
SYMMETRY RequestSymmetry
SPECIFICATION Spec
INVARIANTS ToolsUseAnIssuedToken
