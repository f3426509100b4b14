SPECIFICATION Spec
CONSTANTS
  Recorders = {r1, r2}
  Sessions = {s1, s2}
  None = None
SYMMETRY Symmetry
INVARIANT
  CleanerSparesLiveSessions
