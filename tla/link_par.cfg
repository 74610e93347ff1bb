SPECIFICATION FairSpec
CONSTANTS
  N = 4
  Limit = 3
  BinName <- ChainNames
INVARIANTS
  IInv
  NoLogHeldBack
  CancelHasACause
  SameNameExclusive
  NoRunAfterFailedPredecessor
  LastListedWins
PROPERTIES
  ImplementsOrderedLog
  Termination
