SPECIFICATION FairSpec
CONSTANTS
  Out <- Second
  Unset = ""
  Call = {1, 2, 3}
  Requests <- SomeRequests
  Valid0 <- WithSource
  Pending = Pending
  Error = Error
  MaxConns = 1
  Limit = 2
  Pieces = 1
INVARIANTS
  NoBrokenReuse
PROPERTIES
  ImplementsStore
  Drained
