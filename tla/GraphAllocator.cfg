\* Any graph of a leaf and three nodes, and a decoder block, allocated and
\* computed at a size, at twice the size and at the first size again.  A
\* behaviour ends after the third call.
SPECIFICATION Spec
CONSTANTS
  Arena = 1000
  MaxSize = 4
  Calls = 3
  FirstGraphs <- MCFirstGraphs
  NodesAfter <- MCNodesAfter
  GraphsAfter <- MCGraphsAfter
INVARIANTS
  TypeOK
  ReadsIntact
  OutputsKept
PROPERTIES
  ImplementsTallocr
CHECK_DEADLOCK FALSE
