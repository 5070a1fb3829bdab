CONSTANTS
  List <- MCList
  Prefixes <- MCPrefixes

SPECIFICATION Spec

INVARIANT
  ListedZonesAreValid
