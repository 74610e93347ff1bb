SPECIFICATION Spec
CONSTANTS
  Path = {"m", "fork"}
  Version = {1, 2}
  AnyVersion = AnyVersion
  Directory = Directory
  Local = {"x", "y", "lib"}
  Foreign = {"m/a", "m/b"}
  Owner <- OwnerOf
  ForeignImports <- TreeImports
  Projects <- SomeProjects
  Locks <- OwnOrStale
  NFiles = 2
  MaxRuns = 2
  MaxFaults = 1
INVARIANTS
  OnlyForACause
  GoListSeesTrees
  LockErrorIsEarned
  SourceIsListed
  LinkConsistent
  RebuiltIffChanged
  RelinkedIffChanged
