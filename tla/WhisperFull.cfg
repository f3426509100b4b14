\* Calls one after another: greedy sampling with a fallback, with and without
\* timestamps, beam search, and a prompt of half the text; two decoders, up to
\* three tokens.  Nothing follows a call that freed the state.
SPECIFICATION Spec
CONSTANTS
  TextCtx = 14
  TokenBeg = 100
  Text <- MCText
  ChunkLen = 3
  DeltaMin = 1
  NearEnd = 2
  MaxInitialTs = 1
  LongLen = 2
  WHISPER_MAX_DECODERS = 2
  Params <- MCParams
  Lengths <- MCLengths
INVARIANTS
  TypeOK
  AttendsToOwnPast
  SegmentsInOrder
PROPERTIES
  ChunkAdvances
CHECK_DEADLOCK FALSE
