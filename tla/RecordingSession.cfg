\* Two windows, three recordings, two directories; any lookup
\* may fail.
SPECIFICATION SessionSpec
CONSTANTS
  Windows = {w1, w2}
  Recordings = {f1, f2, f3}
  Dirs = {d1, d2}
  Kinds = {"process"}
  Unlisted = {f1, f2, f3}
  None = None
INVARIANT
  UndisturbedRowNamesItsFile
PROPERTY
  RowsAreOfStoppedRecordings
