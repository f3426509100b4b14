\* A pool of three threads, two lists of graphs, paused or not.  A behaviour
\* ends when the pool has been freed.
SPECIFICATION Spec
CONSTANTS
  NThreads = 3
  Plans <- MCPlans
INVARIANTS
  TypeOK
  WorkersOutsideBetweenGraphs
  WdataFilledBeforeUse
PROPERTIES
  FreeEnds
  ImplementsParallelGraph
CHECK_DEADLOCK FALSE
