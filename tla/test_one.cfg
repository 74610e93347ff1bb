SPECIFICATION Spec
CONSTANTS
  Local = {1, 2, 3, 4}
  ThirdParty = {}
  Graphs <- NoLocalImports
  Sanitized <- OneEach
  Split = TRUE
  MaxTargets = 1
INVARIANTS
  LinkConsistent
  RecompiledIsNeeded
