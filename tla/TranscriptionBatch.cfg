\* Two windows, two recordings, two directories, crashes.
SPECIFICATION Spec
CONSTANTS
  Windows = {w1, w2}
  Recordings = {f1, f2}
  Dirs = {d1, d2}
  Kinds = {"process"}
  Unlisted = {}
  None = None
  Delay = 1
  Clocks = {}
SYMMETRY Symmetry
VIEW BatchView
INVARIANTS
  TranscriptPathExists
PROPERTIES
  ArtifactsWrittenOnce
  BatchLeavesNothingUndone
