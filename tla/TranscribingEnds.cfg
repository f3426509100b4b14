\* One window, its clock, and two recordings under fairness.  No symmetry: liveness.
SPECIFICATION FairSpec
CONSTANTS
  Windows = {w1}
  Recordings = {f1, f2}
  Dirs = {d1}
  Kinds = {"process"}
  Unlisted = {f1}
  None = None
  Delay = 2
  Clocks = {w1}
INVARIANT
  DurationZeroWhenIdle
PROPERTIES
  TranscribingEnds
  LoneCountdownEndsInBatch
