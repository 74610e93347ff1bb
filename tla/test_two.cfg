SPECIFICATION Spec
CONSTANTS
  Local = {1, 2, 3}
  ThirdParty = {}
  Graphs <- ThreeOnTop
  Sanitized <- Colliding
  Split = FALSE
  MaxTargets = 2
INVARIANTS
  NoLeftovers
