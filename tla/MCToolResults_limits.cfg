\* More objects, events and log lines than the limits allow.
CONSTANTS
  Names = {1, 2, 3, 4}
  NamespaceOf <- SomeNamespaces
  KindOf <- SomeKinds
  Untimed = {2, 4}
  Resource <- Plurals
  ListLimit = 3
  ShowLimit = 2
  Tails = {0, 1, 2, 3}
  LogCap = 2
  MaxTime = 1
  MaxLines = 4
SPECIFICATION Spec
INVARIANTS TypeOK ListsAreWholeWithinTheLimit EventsAreRecentWithinTheLimit LogsReachTheEndWithinTheCap
