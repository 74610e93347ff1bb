SPECIFICATION Spec
CONSTANTS
  Job = {1, 2}
  Command = {1}
  Split = {1}
  Dir = {"a", "b"}
  TrimPath <- OneDir
  Packages <- SomePackages
  Nothing = Nothing
INVARIANTS
  OwnInputsOnly
  CompleteArchive
  NoEntryForPartial
  ExternalWhenUnlinked
