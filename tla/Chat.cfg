\* Three questions, answers of at most one token.  A behaviour ends when the
\* chat is cleared and nothing is in work.
SPECIFICATION FairSpec
CONSTANTS
  Questions = {q1, q2, q3}
  MaxTokens = 1
INVARIANTS
  TypeOK
  AnswersFollowTheirQuestions
  LoneAnswerIsWhole
PROPERTY
  ProcessingEnds
CHECK_DEADLOCK FALSE
