CONSTANTS
  List <- MCList
  Prefixes <- MCPrefixes

SPECIFICATION Spec

INVARIANTS
  SearchIsExact
  ValidZonesAreListed
PROPERTY
  SearchEnds
