\* One window that records again before the task of its stop has run.
SPECIFICATION FairSpec
CONSTANTS
  Windows = {w1}
  Recordings = {f1, f2}
  Dirs = {d1}
  Kinds = {"process"}
  Unlisted = {}
  None = None
  Delay = 1
  Clocks = {}
PROPERTY
  StopIsFollowedByBatch
