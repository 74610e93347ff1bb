SPECIFICATION ListingSpec
CONSTANTS
  Trees <- MCTrees
  Requests <- MCRequests
  MaxTraits = 4
INVARIANTS
  SinglePassAgrees
  RestrictIsListing
  DeclinesForACause
  TestsFindTheirImports
  ClosuresAreLinked
