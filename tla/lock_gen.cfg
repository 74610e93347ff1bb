SPECIFICATION Spec
CONSTANTS
  Path = {"m", "fork"}
  Version = {1, 2}
  AnyVersion = AnyVersion
  Directory = Directory
  Dir = {"x", "y"}
  GoMods <- SomeGoMods
  Args <- OneOrBoth
  Jobs = 2
INVARIANTS
  HashOfNamedTree
  ChecksAfterGenerate
  FirstListedWins
  FailureKeepsLock
