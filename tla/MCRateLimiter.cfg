\* Two requests at a time from one IP, long enough to be pruned and come back.
CONSTANTS
  IPs = {ip1}
  Requests = {r1, r2}
  Burst = 2
  Interval = 2
  IdleLimit = 5
  AskSpan = 1
  MaxTime = 11
SYMMETRY LimiterSymmetry
SPECIFICATION Spec
INVARIANTS TypeOK RateIsBounded
PROPERTIES RefusedOnlyWhenSpent PruningIsInvisible
