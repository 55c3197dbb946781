\* Two non-anchored excludes: one name, and a path of two components of which
\* the source tree has the first.
SPECIFICATION Spec
CONSTANTS
  Inputs <- MCStickyInputs
  NameOrder <- MCNameOrder
  PrioMin <- MCPrioMin
  PrioMax <- MCPrioMax
  LdirCount <- MCLdirCount
INVARIANT ExcludeDocumented
