SPECIFICATION Spec
CONSTANTS
  NKeys = 4
  SortKeys <- MCKeys
  NodeSets <- MCNodeSets
  NNodes = 3
  MaxTraits = 2
INVARIANTS
  SortIsTopological
  EmbedsAsSpecified
  MergeAgrees
PROPERTIES
  VisitsEnd
