\* One client of either kind, URIs of every kind, a plain and a special state.
CONSTANTS
  ClientIds = {a}
  PendingKeys = {k1}
  Codes = {c1}
  SessionIds = {s1}
  Verifiers = {v1}
  AuthMethods = {"none", "client_secret_post"}
  States = {x, y}
  PlainStates = {x}
  Handlers = {h1}
  URIs <- MixedURIs
  LoopbackHosts <- Loopbacks
  PendingTTL = 1
  CodeTTL = 1
  SessionTTL = 1
  MaxTime = 2
SPECIFICATION FairSpec
INVARIANTS CodesGoToTheRequestersLoopback ClientsReadTheirCode
PROPERTIES ExpiredIsPruned
