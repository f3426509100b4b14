\* Two calls of any service on one file or on two.  A behaviour ends when
\* both calls have ended.
SPECIFICATION EngineFairSpec
CONSTANTS
  Calls = {c1, c2}
  Files = {f1, f2}
INVARIANTS
  EngineTypeOK
  AnswersAloneResumeOnce
  TimerReleased
PROPERTY
  RecognitionEnds
CHECK_DEADLOCK FALSE
