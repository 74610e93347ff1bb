SPECIFICATION Spec
CONSTANTS
  Process = {1, 2}
  Src = {"link"}
  Setting = {"a", "b"}
  StoreTree = {"s1", "s2", "open"}
  Open = {"open"}
  Live = "live"
  Module = {"m1", "m2"}
  Requires <- SomeRequires
  Size <- SomeSizes
  Limit = 2
  NoKey = NoKey
  None = None
  MaxCalls = 3
  MaxEdits = 1
INVARIANTS
  ServedIsCurrent
  HashesRight
