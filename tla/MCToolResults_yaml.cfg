\* A resource whose collection is not its kind with an s.
CONSTANTS
  Names = {1, 2, 3, 4}
  NamespaceOf <- SomeNamespaces
  KindOf <- SomeKinds
  Untimed = {}
  Resource <- Plurals
  ListLimit = 3
  ShowLimit = 2
  Tails = {0, 1, 2, 3}
  LogCap = 2
  MaxTime = 1
  MaxLines = 4
SPECIFICATION Spec
INVARIANTS YAMLOfAnyResource
