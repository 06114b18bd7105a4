\* Two calls at a time, with either deadline, for two clusters of one name, each
\* changing once.
CONSTANTS
  Projects = {"p"}
  Locations = {east, west}
  Names = {"prod"}
  Requests = {r1, r2}
  TTL = 2
  FetchSpan = 2
  CallTimeout = 1
  LogTimeout = 2
  BodySpan = 1
  TokenMargin = 3
  MaxTime = 4
  MaxChanges = 1
SYMMETRY CallSymmetry
SPECIFICATION CallSpec
INVARIANTS CallTypeOK StalenessIsBounded OwnCluster TokensOutliveCalls
PROPERTIES CallsUseTheCache
