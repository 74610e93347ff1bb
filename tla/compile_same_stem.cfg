SPECIFICATION Spec
CONSTANTS
  Job = {1}
  Command = {1}
  Split = {1}
  Dir = {"a", "b"}
  TrimPath <- OneOnly
  Packages <- SameStem
  Nothing = Nothing
INVARIANT
  CompleteArchive
