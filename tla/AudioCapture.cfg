\* Two recorders (two windows), two starts, crashes at any step.  No symmetry:
\* liveness is checked.
SPECIFICATION FairSpec
CONSTANTS
  Recorders = {r1, r2}
  Sessions = {s1, s2}
  None = None
INVARIANTS
  StartedAndStoppedTogether
  EndedSessionReleasesHardware
  FailedStartCapturesNothing
  HandledExactlyOnce
  AtMostOneLateWrite
PROPERTIES
  ImplementsService
  DroppedTapReleased
