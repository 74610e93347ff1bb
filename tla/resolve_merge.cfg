SPECIFICATION Spec
CONSTANTS
  Path = {"m", "fork"}
  Version = {1, 2}
  AnyVersion = AnyVersion
  Directory = Directory
  Local = {"x", "y", "lib"}
  Foreign = {"m/a", "m/b"}
  Owner <- OwnerOf
  ForeignImports <- TreeImports
  Projects <- JustReplaced
  Locks <- FirstOfBoth
  NFiles = 1
  MaxRuns = 1
  MaxFaults = 0
INVARIANTS
  SourceIsListed
CHECK_DEADLOCK FALSE
