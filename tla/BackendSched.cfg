\* Any graph of three nodes on three machines, computed twice with different
\* operations supported.  A behaviour ends after the second graph.
SPECIFICATION Spec
CONSTANTS
  Programs <- MCPrograms
  Platforms <- MCPlatforms
  Leaves <- MCLeaves
  Inputs <- MCInputs
  Weights <- MCWeights
  Buffer <- MCBuffer
  GGML_SCHED_MAX_SPLIT_INPUTS = 2
INVARIANTS
  TypeOK
  ReadsAsInOrder
  RunsWhereItCan
  PlacesServe
CHECK_DEADLOCK FALSE
