\* Two clients, two concurrent logins, clock 0..3.
CONSTANTS
  ClientIds = {a, b}
  PendingKeys = {k1, k2}
  Codes = {c1, c2}
  SessionIds = {s1, s2}
  Verifiers = {v1, v2}
  AuthMethods = {"none"}
  States = {x}
  PlainStates = {x}
  Handlers = {h1, h2}
  URIs <- OneURI
  LoopbackHosts <- Loopbacks
  PendingTTL = 1
  CodeTTL = 1
  SessionTTL = 2
  MaxTime = 3
SYMMETRY FlowSymmetry
SPECIFICATION Spec
INVARIANTS TypeOK AtMostOneGrantPerLogin FlowInv
PROPERTIES PendingKeysAreOneTimeTickets CodesAreOneTimeTickets SweepIsExact
  ExpiresInIsNearlyTrue
