SPECIFICATION Spec
CONSTANTS
  Inputs <- MCInputs
  NameOrder <- MCNameOrder
  PrioMin <- MCPrioMin
  PrioMax <- MCPrioMax
  LdirCount <- MCLdirCount
INVARIANTS
  TreeSound
  ExcludeExact
  ListingExact
  ReaderInStep
  PruneExact
