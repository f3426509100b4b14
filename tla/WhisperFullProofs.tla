------------------------- MODULE WhisperFullProofs -------------------------
(***************************************************************************)
(* Proofs about WhisperFull, whatever the model samples and however the     *)
(* decoders are chosen: the main loop moves on in the audio, the segments   *)
(* come in order, the cells of the cache are within bounds, and a decoder   *)
(* attends to the prompt and to its own text.                               *)
(***************************************************************************)
EXTENDS WhisperFull, FiniteSetTheorems, WellFoundedInduction, TLAPS

Decoders == [tokens : Seq(Int), tid : Int, resultLen : Nat, seekDelta : 1..ChunkLen,
             failed : BOOLEAN, completed : BOOLEAN, hasTs : BOOLEAN]

(* A result names tokens that were sampled; the decoders at work have       *)
(* sampled as many as there were steps.                                     *)
LengthInv ==
  /\ \A j \in DecoderIds : decoders[j].resultLen <= Len(decoders[j].tokens)
  /\ pc = "sample" => \A j \in Active : Len(decoders[j].tokens) = i
  /\ pc = "next" => \A j \in Active : Len(decoders[j].tokens) = i + 1

(* In a chunk there is audio left.                                          *)
AudioInv ==
  pc \in {"temperature", "sample", "next", "rank", "output"} =>
    seek + DeltaMin < seekEnd

FullInv ==
  /\ decoders \in [DecoderIds -> Decoders] /\ best \in DecoderIds /\ i \in Nat
  /\ params \in Params /\ seek \in Int /\ seekEnd \in Int
  /\ LengthInv /\ AudioInv

-----------------------------------------------------------------------------
LEMMA CurrentType ==
  ASSUME FullInv
  PROVE  Current \subseteq DecoderIds /\ Active \subseteq Current
<1>1. {params.bestOf, params.beamSize} \subseteq 1..WHISPER_MAX_DECODERS
      /\ WHISPER_MAX_DECODERS \in Nat \ {0}
  BY WhisperConstants DEF FullInv
<1>2. NDecoders(T) \in 1..WHISPER_MAX_DECODERS
  BY <1>1 DEF NDecoders
<1> QED
  BY <1>1, <1>2 DEF Current, Active, DecoderIds

LEMMA FreshType ==
  /\ Fresh \in Decoders /\ Fresh.resultLen = 0 /\ Fresh.tokens = <<>>
  /\ Len(Fresh.tokens) = 0
BY WhisperConstants DEF Fresh, Decoders

-----------------------------------------------------------------------------
(* A decoder with some of its fields changed.                               *)
WithToken(d, s, x) == [d EXCEPT !.tokens = s, !.tid = x]
WithFailed(d, b) == [d EXCEPT !.failed = b]
WithMove(d, n, delta) == [d EXCEPT !.seekDelta = delta, !.resultLen = n, !.hasTs = TRUE]
WithResult(d, n, delta) ==
  [d EXCEPT !.completed = TRUE, !.resultLen = n, !.seekDelta = delta]

LEMMA TokenFacts ==
  ASSUME NEW d \in Decoders, NEW s \in Seq(Int), NEW x \in Int
  PROVE  /\ WithToken(d, s, x) \in Decoders
         /\ WithToken(d, s, x).tokens = s
         /\ WithToken(d, s, x).resultLen = d.resultLen
         /\ WithToken(d, s, x).seekDelta = d.seekDelta
         /\ WithToken(d, s, x).tid = x
         /\ WithToken(d, s, x).hasTs = d.hasTs
BY DEF Decoders, WithToken

LEMMA FailedFacts ==
  ASSUME NEW d \in Decoders, NEW b \in BOOLEAN
  PROVE  /\ WithFailed(d, b) \in Decoders
         /\ WithFailed(d, b).tokens = d.tokens
         /\ WithFailed(d, b).resultLen = d.resultLen
         /\ WithFailed(d, b).seekDelta = d.seekDelta
         /\ WithFailed(d, b).tid = d.tid
         /\ WithFailed(d, b).hasTs = d.hasTs
         /\ WithFailed(d, b).failed = b
BY DEF Decoders, WithFailed

LEMMA ResultFacts ==
  ASSUME NEW d \in Decoders, NEW n \in Nat, NEW delta \in 1..ChunkLen
  PROVE  /\ WithMove(d, n, delta) \in Decoders
         /\ WithMove(d, n, delta).tokens = d.tokens
         /\ WithMove(d, n, delta).resultLen = n
         /\ WithResult(d, n, delta) \in Decoders
         /\ WithResult(d, n, delta).tokens = d.tokens
         /\ WithResult(d, n, delta).resultLen = n
BY DEF Decoders, WithMove, WithResult

LEMMA MoveFields ==
  ASSUME NEW d \in Decoders, NEW n \in Nat, NEW delta \in 1..ChunkLen
  PROVE  /\ WithMove(d, n, delta).seekDelta = delta
         /\ WithMove(d, n, delta).tid = d.tid
         /\ WithMove(d, n, delta).hasTs = TRUE
BY DEF Decoders, WithMove

LEMMA ResultFields ==
  ASSUME NEW d \in Decoders, NEW n \in Nat, NEW delta \in 1..ChunkLen
  PROVE  /\ WithResult(d, n, delta).seekDelta = delta
         /\ WithResult(d, n, delta).tid = d.tid
         /\ WithResult(d, n, delta).hasTs = d.hasTs
         /\ WithResult(d, n, delta).completed = TRUE
BY DEF Decoders, WithResult

(* A sample adds a token, a text or a timestamp, and leaves the rest of the *)
(* decoder alone.                                                           *)
LEMMA SampleFacts ==
  ASSUME NEW d \in Decoders, NEW new \in Samples(d)
  PROVE  /\ new \in Decoders
         /\ Len(new.tokens) = Len(d.tokens) + 1
         /\ new.tokens[Len(new.tokens)] \in Int
         /\ new.tokens[Len(new.tokens)] <= ChunkLen
         /\ new.resultLen = d.resultLen /\ new.seekDelta = d.seekDelta
<1>1. PICK t \in Tokens(d) :
        \E x \in IF d.tokens = <<>> THEN Tids(d, t) ELSE {d.tid} :
          new = [d EXCEPT !.tokens = Append(@, t), !.tid = x]
  BY DEF Samples
<1>2. t \in Int /\ t <= ChunkLen
  BY WhisperConstants DEF Tokens, Timestamps, Eot
<1>3. PICK x \in Int : new = [d EXCEPT !.tokens = Append(@, t), !.tid = x]
  <2>1. d.tid \in Int /\ Tids(d, t) \subseteq Int
    BY <1>2, WhisperConstants DEF Decoders, Tids, Timestamps
  <2> QED
    BY <1>1, <2>1
<1>4. new.tokens = Append(d.tokens, t) /\ d.tokens \in Seq(Int)
  BY <1>3 DEF Decoders
<1>5. new \in Decoders /\ new.resultLen = d.resultLen /\ new.seekDelta = d.seekDelta
  <2> DEFINE s == Append(d.tokens, t)
  <2>1. s \in Seq(Int) /\ new = WithToken(d, s, x)
    BY <1>2, <1>3, <1>4 DEF WithToken
  <2> HIDE DEF s
  <2> QED
    BY <2>1, TokenFacts
<1> QED
  BY <1>2, <1>4, <1>5

(* The window moves to a timestamp, or stays; a result ends with a token    *)
(* that was sampled.                                                        *)
LEMMA UpdatedType ==
  ASSUME FullInv, NEW d \in Decoders, Len(d.tokens) = i + 1,
         d.tokens[i + 1] \in Int, d.tokens[i + 1] <= ChunkLen, d.resultLen <= i
  PROVE  /\ Updated(d) \in Decoders
         /\ Updated(d).tokens = d.tokens
         /\ Updated(d).resultLen <= i + 1
<1> DEFINE t == d.tokens[i + 1]
           m == Moved(d, t)
<1>1. i \in Nat /\ ChunkLen \in Nat \ {0}
  BY WhisperConstants DEF FullInv
<1>2. m \in Decoders /\ m.tokens = d.tokens /\ m.resultLen <= i + 1
  <2>1. CASE Moves(t)
    <3>1. t \in 1..ChunkLen /\ i + 1 \in Nat
      BY <1>1, <2>1 DEF Moves
    <3>2. m = WithMove(d, i + 1, t)
      BY <2>1 DEF Moved, WithMove
    <3> DEFINE n == i + 1
    <3>3. n \in Nat /\ m = WithMove(d, n, t)
      BY <3>1, <3>2
    <3> HIDE DEF t, m, n
    <3>4. m \in Decoders /\ m.tokens = d.tokens /\ m.resultLen = n
      BY <3>1, <3>3, ResultFacts
    <3> QED
      BY <1>1, <3>4 DEF n
  <2>2. CASE ~Moves(t)
    BY <1>1, <2>2 DEF Moved, Decoders
  <2> QED
    BY <2>1, <2>2
<1> HIDE DEF m
<1>3. ASSUME NEW b \in BOOLEAN, NEW e \in {d, m}
      PROVE  /\ WithFailed(e, b) \in Decoders
             /\ WithFailed(e, b).tokens = d.tokens
             /\ WithFailed(e, b).resultLen <= i + 1
  <2>1. e \in Decoders /\ e.tokens = d.tokens /\ e.resultLen <= i + 1
    BY <1>1, <1>2 DEF Decoders
  <2> QED
    BY <2>1, FailedFacts
<1>4. /\ Completed(m) \in Decoders /\ Completed(m).tokens = d.tokens
      /\ Completed(m).resultLen <= i + 1
  <2>1. CASE m.resultLen = 0 /\ ~params.noTimestamps /\ ~AtEnd(m)
    <3>1. Completed(m) = WithFailed(m, TRUE)
      BY <2>1 DEF Completed, WithFailed
    <3> QED
      BY <1>3, <3>1
  <2>2. CASE ~(m.resultLen = 0 /\ ~params.noTimestamps /\ ~AtEnd(m))
    <3> DEFINE len == IF params.noTimestamps \/ m.resultLen = 0 THEN i + 1 ELSE m.resultLen
               delta == IF params.noTimestamps THEN ChunkLen ELSE m.seekDelta
    <3>1. len \in Nat /\ len <= i + 1 /\ delta \in 1..ChunkLen
      BY <1>1, <1>2 DEF Decoders
    <3>2. Completed(m) = WithResult(m, len, delta)
      BY <2>2 DEF Completed, WithResult
    <3> HIDE DEF len, delta
    <3> DEFINE c == Completed(m)
    <3> HIDE DEF c
    <3>3. c = WithResult(m, len, delta)
      BY <3>2 DEF c
    <3>4. c \in Decoders /\ c.tokens = m.tokens /\ c.resultLen = len
      BY <1>2, <3>1, <3>3, ResultFacts
    <3> QED
      BY <1>2, <3>1, <3>4 DEF c
  <2> QED
    BY <2>1, <2>2
<1>5. Repeats(m) \in BOOLEAN
  BY DEF Repeats
<1>6. Updated(d) \in {WithFailed(d, TRUE), Completed(m), WithFailed(m, Repeats(m))}
  BY DEF Updated, WithFailed, m
<1> QED
  BY <1>3, <1>4, <1>5, <1>6

(* One token more for every decoder at work.                                *)
LEMMA DrawsKept ==
  ASSUME FullInv, pc = "sample", NEW from \in [Active -> Active],
         decoders' \in Draws(from), pc' = "next",
         UNCHANGED <<audio, chunk, choice, i>>
  PROVE  FullInv'
<1>1. /\ Current \subseteq DecoderIds /\ Active \subseteq Current
      /\ decoders \in [DecoderIds -> Decoders] /\ i \in Nat
      /\ \A j \in DecoderIds : decoders[j].resultLen <= Len(decoders[j].tokens)
      /\ \A j \in Active : Len(decoders[j].tokens) = i
  BY CurrentType DEF FullInv, LengthInv
<1>2. PICK new : /\ \A j \in Active : new[j] \in Samples(decoders[from[j]])
                 /\ decoders' = [j \in DecoderIds |->
                      IF j \in Active THEN Updated(new[j]) ELSE decoders[j]]
  BY DEF Draws
<1>3. ASSUME NEW j \in Active
      PROVE  /\ decoders'[j] \in Decoders /\ Len(decoders'[j].tokens) = i + 1
             /\ decoders'[j].resultLen <= i + 1
  <2>1. from[j] \in Active /\ j \in DecoderIds
    BY <1>1
  <2> DEFINE d == decoders[from[j]]
  <2>2. d \in Decoders /\ Len(d.tokens) = i /\ d.resultLen <= i
    BY <1>1, <2>1
  <2> HIDE DEF d
  <2>3. /\ new[j] \in Decoders /\ Len(new[j].tokens) = i + 1
        /\ new[j].tokens[i + 1] \in Int /\ new[j].tokens[i + 1] <= ChunkLen
        /\ new[j].resultLen <= i
    <3>1. new[j] \in Samples(d)
      BY <1>2 DEF d
    <3> QED
      BY <2>2, <3>1, SampleFacts
  <2>4. decoders'[j] = Updated(new[j])
    BY <1>2, <2>1
  <2> QED
    BY <2>3, <2>4, UpdatedType
<1>4. \A j \in DecoderIds \ Active : decoders'[j] = decoders[j]
  BY <1>2
<1>5. decoders' \in [DecoderIds -> Decoders]
  BY <1>1, <1>2, <1>3, <1>4
<1>6. Active' \subseteq Active
  <2>1. Current' = Current
    BY DEF Current, NDecoders, T, audio, choice
  <2> QED
    BY <1>1, <1>4, <2>1 DEF Active
<1>7. LengthInv'
  BY <1>1, <1>3, <1>4, <1>6 DEF LengthInv
<1> QED
  BY <1>5, <1>7 DEF FullInv, AudioInv, audio, chunk, choice
-----------------------------------------------------------------------------
(* What the best decoder moves the window by.                               *)
LEMMA MinOfTwo ==
  ASSUME NEW a \in Int, NEW b \in Int
  PROVE  Min({a, b}) \in {a, b} /\ Min({a, b}) <= a /\ Min({a, b}) <= b
<1> DEFINE Least(x) == x \in {a, b} /\ \A y \in {a, b} : x <= y
<1>1. \E x : Least(x)
  OBVIOUS
<1>2. Min({a, b}) = CHOOSE x : Least(x)
  BY DEF Min
<1>3. Least(CHOOSE x : Least(x))
  <2> HIDE DEF Least
  <2> QED
    BY <1>1
<1> QED
  BY <1>2, <1>3

LEMMA OutputMoves ==
  ASSUME FullInv, Output
  PROVE  seek' \in Int /\ seek < seek' /\ seek' <= seek + ChunkLen
<1>1. /\ seek \in Int /\ seekEnd \in Int /\ seek + DeltaMin < seekEnd
      /\ decoders[best] \in Decoders
      /\ DeltaMin \in Nat /\ ChunkLen \in Nat \ {0}
  BY WhisperConstants DEF FullInv, AudioInv, Output
<1> DEFINE rest == Min({seekEnd - seek, ChunkLen})
<1>2. rest \in 1..ChunkLen
  <2>1. seekEnd - seek \in Int /\ seekEnd - seek > 0
    BY <1>1
  <2> QED
    BY <1>1, <2>1, MinOfTwo
<1>3. decoders[best].seekDelta \in 1..ChunkLen
  BY <1>1 DEF Decoders
<1>4. seek' = seek + rest \/ seek' = seek + decoders[best].seekDelta
  BY DEF Output
<1> HIDE DEF rest
<1> QED
  BY <1>1, <1>2, <1>3, <1>4

(* The results are cut to what their timestamps cover.                      *)
LEMMA RankType ==
  ASSUME FullInv, Rank
  PROVE  /\ decoders' \in [DecoderIds -> Decoders] /\ best' \in DecoderIds
         /\ \A j \in DecoderIds : decoders'[j].resultLen <= Len(decoders'[j].tokens)
         /\ pc' \in {"temperature", "output"}
<1> DEFINE ranked == {j \in Current : ~decoders[j].failed}
<1>1. /\ Current \subseteq DecoderIds /\ decoders \in [DecoderIds -> Decoders]
      /\ \A j \in DecoderIds : decoders[j].resultLen <= Len(decoders[j].tokens)
      /\ best \in DecoderIds
  BY CurrentType DEF FullInv, LengthInv
<1>2. PICK repetitive \in SUBSET {j \in ranked : decoders[j].resultLen > LongLen} :
        /\ decoders' = [j \in DecoderIds |->
             IF j \notin ranked THEN decoders[j]
             ELSE [decoders[j] EXCEPT
                     !.tokens = SubSeq(@, 1, decoders[j].resultLen),
                     !.failed = j \in repetitive]]
        /\ best' \in IF ranked = repetitive THEN {best} ELSE ranked \ repetitive
        /\ pc' \in {"temperature", "output"}
  BY DEF Rank
<1>3. ASSUME NEW j \in DecoderIds
      PROVE  /\ decoders'[j] \in Decoders
             /\ decoders'[j].resultLen <= Len(decoders'[j].tokens)
  <2> DEFINE d == decoders[j]
             s == SubSeq(d.tokens, 1, d.resultLen)
             b == j \in repetitive
  <2>1. d \in Decoders /\ d.resultLen <= Len(d.tokens)
    BY <1>1
  <2>2. s \in Seq(Int) /\ Len(s) = d.resultLen
    <3>1. d.tokens \in Seq(Int) /\ d.resultLen \in Nat
      BY <2>1 DEF Decoders
    <3> HIDE DEF d
    <3> QED
      BY <2>1, <3>1
  <2>3. CASE j \notin ranked
    <3>1. decoders'[j] = d
      BY <1>2, <2>3
    <3> QED
      BY <2>1, <3>1
  <2>4. CASE j \in ranked
    <3>1. decoders'[j] = WithFailed(WithToken(d, s, d.tid), b)
      <4>1. decoders'[j] = [d EXCEPT !.tokens = s, !.failed = b]
        BY <1>2, <2>4
      <4> HIDE DEF d, s, b
      <4> QED
        BY <2>1, <4>1 DEF WithFailed, WithToken, Decoders
    <3>2. d.tid \in Int /\ d.resultLen \in Nat /\ b \in BOOLEAN
      BY <2>1 DEF Decoders
    <3> HIDE DEF d, s, b
    <3> DEFINE w == WithToken(d, s, d.tid)
    <3>3. w \in Decoders /\ w.tokens = s /\ w.resultLen = d.resultLen
      BY <2>1, <2>2, <3>2, TokenFacts
    <3>4. decoders'[j] = WithFailed(w, b)
      BY <3>1
    <3> HIDE DEF w
    <3>5. /\ WithFailed(w, b) \in Decoders /\ WithFailed(w, b).tokens = s
          /\ WithFailed(w, b).resultLen = d.resultLen
      BY <3>2, <3>3, FailedFacts
    <3> QED
      BY <2>2, <3>2, <3>4, <3>5
  <2> QED
    BY <2>3, <2>4
<1>4. best' \in DecoderIds
  BY <1>1, <1>2
<1> QED
  BY <1>2, <1>3, <1>4

-----------------------------------------------------------------------------
(* The decoders begin again when a call returns or a chunk is done.         *)
LEMMA Forgotten ==
  ASSUME ForgetChunk, WHISPER_MAX_DECODERS \in Nat \ {0}
  PROVE  /\ decoders' \in [DecoderIds -> Decoders] /\ best' \in DecoderIds /\ i' \in Nat
         /\ \A j \in DecoderIds : decoders'[j].resultLen <= Len(decoders'[j].tokens)
BY FreshType DEF ForgetChunk, DecoderIds

(* The invariant in every state, and after every step.                      *)
LEMMA FullInit == Init => FullInv
<1> SUFFICES ASSUME Init PROVE FullInv
  OBVIOUS
<1>1. decoders \in [DecoderIds -> Decoders] /\ best \in DecoderIds
  BY FreshType, WhisperConstants DEF Init, DecoderIds
<1>2. LengthInv
  BY FreshType DEF Init, LengthInv
<1> QED
  BY <1>1, <1>2 DEF Init, FullInv, AudioInv

LEMMA FullKept == FullInv /\ [Next]_vars => FullInv'
<1> SUFFICES ASSUME FullInv, [Next]_vars PROVE FullInv'
  OBVIOUS
<1> USE DEF FullInv, LengthInv, AudioInv
<1>1. CASE Call
  BY <1>1, WhisperConstants DEF Call, chunk, choice
<1>2. CASE DetectLanguage
  <2>1. CASE ForgetChunk /\ pc' = "idle" /\ seek' = 0
    BY <1>2, <2>1, Forgotten, WhisperConstants DEF DetectLanguage, audio
  <2>2. CASE pc' = "chunk" /\ UNCHANGED <<seek, choice, taken, i, decoders>>
    BY <1>2, <2>2 DEF DetectLanguage, audio, choice
  <2> QED
    BY <1>2, <2>1, <2>2 DEF DetectLanguage, Return
<1>3. CASE BeginChunk
  <2>1. CASE ForgetChunk /\ pc' = "idle" /\ seek' = 0
    BY <1>3, <2>1, Forgotten, WhisperConstants DEF BeginChunk, audio
  <2>2. CASE /\ seek + DeltaMin < seekEnd /\ pc' = "temperature"
             /\ UNCHANGED <<seek, choice, taken, i, decoders>>
    BY <1>3, <2>2 DEF BeginChunk, audio, choice
  <2> QED
    BY <1>3, <2>1, <2>2 DEF BeginChunk, Return
<1>4. CASE BeginTemperature
  <2>1. /\ decoders' = [j \in DecoderIds |-> IF j \in Current THEN Fresh ELSE decoders[j]]
        /\ i' = 0 /\ pc' = "sample" /\ pc = "temperature"
        /\ UNCHANGED <<params, seekEnd, seek, it, best>>
    BY <1>4 DEF BeginTemperature, audio, chunk, choice
  <2>2. Active' \subseteq Current /\ Current \subseteq DecoderIds
    BY <2>1, CurrentType DEF Active, Current, NDecoders, T
  <2>3. decoders' \in [DecoderIds -> Decoders]
    BY <2>1, FreshType
  <2>4. LengthInv'
    BY <2>1, <2>2, FreshType
  <2> QED
    BY <2>1, <2>3, <2>4
<1>5. CASE TemperatureFails
  <2>1. ForgetChunk /\ pc' \in {"idle", "freed"} /\ seek' \in {0, seek}
        /\ UNCHANGED <<params, seekEnd>>
    BY <1>5 DEF TemperatureFails, Return, chunk, audio
  <2>2. /\ decoders' \in [DecoderIds -> Decoders] /\ best' \in DecoderIds /\ i' \in Nat
        /\ \A j \in DecoderIds : decoders'[j].resultLen <= Len(decoders'[j].tokens)
    BY <2>1, Forgotten, WhisperConstants
  <2>3. LengthInv' /\ AudioInv'
    BY <2>1, <2>2
  <2> QED
    BY <2>1, <2>2, <2>3
<1>6. CASE SampleGreedy
  <2>1. [j \in Active |-> j] \in [Active -> Active]
    OBVIOUS
  <2> QED
    BY <1>6, <2>1, DrawsKept DEF SampleGreedy
<1>7. CASE SampleBeam
  <2>1. PICK from \in [Active -> Active] : decoders' \in Draws(from)
    BY <1>7 DEF SampleBeam
  <2> QED
    BY <1>7, <2>1, DrawsKept DEF SampleBeam
<1>8. CASE NextToken
  <2>1. /\ i' = i + 1 /\ pc' \in {"sample", "rank"} /\ pc = "next"
        /\ UNCHANGED <<params, seekEnd, seek, it, best, decoders>>
    BY <1>8 DEF NextToken, audio, chunk, choice
  <2>2. Active' = Active
    BY <2>1 DEF Active, Current, NDecoders, T
  <2> QED
    BY <2>1, <2>2
<1>9. CASE NextTokenFails
  BY <1>9, Forgotten, WhisperConstants DEF NextTokenFails, Return, audio
<1>10. CASE AllDone
  BY <1>10 DEF AllDone, audio, chunk, choice
<1>11. CASE Rank
  <2>1. pc = "rank" /\ UNCHANGED <<params, seekEnd, seek, i>>
    BY <1>11 DEF Rank, audio, chunk
  <2> QED
    BY <1>11, <2>1, RankType
<1>12. CASE Output
  <2>1. ForgetChunk /\ pc' = "chunk" /\ UNCHANGED <<params, seekEnd>>
    BY <1>12 DEF Output, audio
  <2> QED
    BY <1>12, <2>1, Forgotten, OutputMoves, WhisperConstants
<1>13. CASE UNCHANGED vars
  <2>1. UNCHANGED <<params, seekEnd, pc, seek, it, best, i, decoders>>
    BY <1>13 DEF vars, audio, chunk, choice
  <2>2. Active' = Active
    BY <2>1 DEF Active, Current, NDecoders, T
  <2> QED
    BY <2>1, <2>2
<1> QED
  BY <1>1, <1>2, <1>3, <1>4, <1>5, <1>6, <1>7, <1>8, <1>9, <1>10, <1>11, <1>12, <1>13
  DEF Next

(* Every chunk moves on in the audio, by a whole chunk at most: the main    *)
(* loop of whisper_full_with_state ends for every recording, model and      *)
(* decoding strategy, and leaves no audio out.                              *)
THEOREM Advances == Spec => ChunkAdvances
<1>1. FullInv /\ [Next]_vars => [pc = "output" => seek < seek' /\ seek' <= seek + ChunkLen]_vars
  <2> SUFFICES ASSUME FullInv, Next, pc = "output"
               PROVE  seek < seek' /\ seek' <= seek + ChunkLen
    OBVIOUS
  <2>1. Output
    BY DEF Next, Call, DetectLanguage, BeginChunk, BeginTemperature, TemperatureFails,
           SampleGreedy, SampleBeam, NextToken, NextTokenFails, AllDone, Rank
  <2> QED
    BY <2>1, OutputMoves
<1> QED
  BY <1>1, FullInit, FullKept, PTL DEF Spec, ChunkAdvances

-----------------------------------------------------------------------------
(* The segments.                                                            *)

(* The timestamps of a decoder never go back, and its window moves to the   *)
(* last of them.                                                            *)
Sorted(d) ==
  /\ \A m, n \in DOMAIN d.tokens :
       m < n /\ Moves(d.tokens[m]) /\ Moves(d.tokens[n]) => d.tokens[m] <= d.tokens[n]
  /\ \A n \in DOMAIN d.tokens :
       Moves(d.tokens[n]) => d.hasTs /\ d.tokens[n] <= d.seekDelta

TokenInv ==
  /\ \A j \in DecoderIds : Sorted(decoders[j])
  /\ ~params.noTimestamps => \A j \in DecoderIds : decoders[j].tid >= 0
  /\ pc \in {"idle", "detect", "chunk", "freed"} =>
       \A j \in DecoderIds : decoders[j] = Fresh

(* The segments so far are in order, and before the window; behind its end  *)
(* no chunk begins.                                                         *)
InOrder(s) == \A m, n \in DOMAIN s : m < n => s[m].t1 <= s[n].t0
ResultInv ==
  /\ \E k \in Nat : DOMAIN result \subseteq 0..k
  /\ \A n \in DOMAIN result : result[n].t0 \in Int /\ result[n].t1 \in Int
  /\ pc \notin {"chunk", "idle", "freed"} => DOMAIN result \subseteq {0}
  /\ ~params.noTimestamps =>
       /\ InOrder(result)
       /\ pc \notin {"idle", "freed"} =>
            \A n \in DOMAIN result : result[n].t1 <= seek \/ seek + DeltaMin >= seekEnd


-----------------------------------------------------------------------------
(* Sets of naturals have a least element, and bounded ones a largest.       *)
LEMMA LeastNat ==
  ASSUME NEW S \in SUBSET Nat, S # {}
  PROVE  Min(S) \in S /\ \A x \in S : Min(S) <= x
<1> DEFINE less == OpToRel(<, Nat)
           Least(x) == x \in S /\ \A y \in S : x <= y
<1>1. IsWellFoundedOn(less, Nat)
  BY NatLessThanWellFounded
<1>2. PICK k \in S : \A m \in S : <<m, k>> \notin less
  <2> HIDE DEF less
  <2> QED
    BY <1>1, WFMin
<1>3. \A m, n \in Nat : m < n => <<m, n>> \in less
  BY DEF OpToRel
<1>4. \A m \in S : ~(m < k)
  <2> HIDE DEF less
  <2> QED
    BY <1>2, <1>3
<1>5. \A m \in S : k <= m
  BY <1>4
<1>6. Least(k)
  BY <1>5
<1>7. Min(S) = CHOOSE x : Least(x)
  BY DEF Min
<1>8. Least(CHOOSE x : Least(x))
  <2> HIDE DEF Least
  <2> QED
    BY <1>6
<1> QED
  BY <1>7, <1>8

LEMMA LargestNat ==
  ASSUME NEW k \in Nat, NEW S \in SUBSET (0..k), S # {}
  PROVE  Max(S) \in S /\ \A x \in S : x <= Max(S)
<1> DEFINE back == {k - x : x \in S}
           Largest(x) == x \in S /\ \A y \in S : x >= y
<1>1. back \in SUBSET Nat /\ back # {}
  <2>1. \A x \in S : k - x \in Nat
    OBVIOUS
  <2> QED
    BY <2>1
<1>2. Min(back) \in back /\ \A m \in back : Min(back) <= m
  <2> HIDE DEF back
  <2> QED
    BY <1>1, LeastNat
<1>3. PICK x \in S : Min(back) = k - x
  BY <1>2
<1>4. \A y \in S : k - x <= k - y
  BY <1>2, <1>3
<1>5. Largest(x)
  <2> HIDE DEF back
  <2> QED
    BY <1>4
<1>6. Max(S) = CHOOSE z : Largest(z)
  BY DEF Max
<1>7. Largest(CHOOSE z : Largest(z))
  <2> HIDE DEF Largest
  <2> QED
    BY <1>5
<1> QED
  BY <1>6, <1>7


-----------------------------------------------------------------------------
(* What a new token makes of a decoder: the token is not before the window. *)
Sampled(d, new, t) ==
  /\ new \in Decoders /\ t \in Int /\ t <= ChunkLen
  /\ new.tokens = Append(d.tokens, t)
  /\ new.hasTs = d.hasTs /\ new.seekDelta = d.seekDelta
  /\ new.resultLen = d.resultLen
  /\ d.hasTs /\ Moves(t) => d.seekDelta <= t
  /\ params.noTimestamps => ~Moves(t)
  /\ ~params.noTimestamps /\ d.tid >= 0 => new.tid >= 0

LEMMA SampledFacts ==
  ASSUME NEW d \in Decoders, NEW new \in Samples(d)
  PROVE  \E t : Sampled(d, new, t)
<1>1. PICK t \in Tokens(d) :
        \E x \in IF d.tokens = <<>> THEN Tids(d, t) ELSE {d.tid} :
          new = [d EXCEPT !.tokens = Append(@, t), !.tid = x]
  BY DEF Samples
<1>2. PICK x \in IF d.tokens = <<>> THEN Tids(d, t) ELSE {d.tid} :
        new = [d EXCEPT !.tokens = Append(@, t), !.tid = x]
  BY <1>1
<1>3. t \in Int /\ t <= ChunkLen
  BY WhisperConstants DEF Tokens, Timestamps, Eot
<1>4. /\ d.hasTs /\ Moves(t) => d.seekDelta <= t
      /\ params.noTimestamps => ~Moves(t)
  <2>1. t \notin Suppressed(d) /\ t \in Text \union {Eot} \union Timestamps
    BY DEF Tokens
  <2>2. Increasing(d, t) /\ (params.noTimestamps => ~IsTime(t))
    BY <2>1 DEF Suppressed
  <2>3. d.seekDelta \in Int
    BY WhisperConstants DEF Decoders
  <2> QED
    BY <1>3, <2>2, <2>3 DEF Increasing, Moves, IsTime
<1>5. d.tid \in Int /\ x \in Int
  <2>1. d.tid \in Int /\ Tids(d, t) \subseteq Int
    BY <1>3, WhisperConstants DEF Decoders, Tids, Timestamps
  <2> QED
    BY <2>1
<1>6. ~params.noTimestamps /\ d.tid >= 0 => x >= 0
  <2>1. ~params.noTimestamps => \A y \in Tids(d, t) : y \in Int /\ y >= 0
    BY <1>3, WhisperConstants DEF Tids, Timestamps, IsTime
  <2> QED
    BY <1>2, <1>5, <2>1
<1>7. /\ new \in Decoders /\ new.tokens = Append(d.tokens, t)
      /\ new.hasTs = d.hasTs /\ new.seekDelta = d.seekDelta
      /\ new.resultLen = d.resultLen /\ new.tid = x
  <2> DEFINE s == Append(d.tokens, t)
  <2>1. s \in Seq(Int) /\ new = WithToken(d, s, x)
    BY <1>2, <1>3 DEF WithToken, Decoders
  <2> HIDE DEF s
  <2>2. /\ WithToken(d, s, x) \in Decoders
        /\ WithToken(d, s, x).tokens = s
        /\ WithToken(d, s, x).resultLen = d.resultLen
        /\ WithToken(d, s, x).seekDelta = d.seekDelta
        /\ WithToken(d, s, x).tid = x
        /\ WithToken(d, s, x).hasTs = d.hasTs
    BY <1>5, <2>1, TokenFacts
  <2> QED
    BY <2>1, <2>2 DEF s
<1> QED
  BY <1>3, <1>4, <1>6, <1>7 DEF Sampled

(* The window after the token.                                              *)
LEMMA UpdatedFields ==
  ASSUME FullInv, NEW d \in Decoders, Len(d.tokens) = i + 1, d.resultLen <= i,
         NEW t, t = d.tokens[i + 1], t \in Int, t <= ChunkLen,
         d.hasTs /\ Moves(t) => d.seekDelta <= t
  PROVE  /\ Updated(d).tid = d.tid
         /\ Updated(d).hasTs = (d.hasTs \/ Moves(t))
         /\ Updated(d).seekDelta \in {IF Moves(t) THEN t ELSE d.seekDelta, ChunkLen}
         /\ ~Moves(t) /\ params.noTimestamps =>
              \/ Updated(d).completed \/ Updated(d).failed
              \/ d.resultLen # 0
              \/ Updated(d).resultLen = 0 /\ i # NMax - 1
<1> DEFINE m == Moved(d, t)
<1>1. i \in Nat /\ ChunkLen \in Nat \ {0} /\ d.hasTs \in BOOLEAN /\ d.seekDelta \in Int
  BY WhisperConstants DEF FullInv, Decoders
<1>2. /\ m \in Decoders /\ m.tid = d.tid /\ m.hasTs = (d.hasTs \/ Moves(t))
      /\ m.seekDelta = IF Moves(t) THEN t ELSE d.seekDelta
      /\ ~Moves(t) => m.resultLen = d.resultLen
  <2>1. CASE Moves(t)
    <3>1. t \in 1..ChunkLen /\ i + 1 \in Nat
      BY <1>1, <2>1 DEF Moves
    <3> DEFINE n == i + 1
    <3>2. n \in Nat /\ m = WithMove(d, n, t)
      BY <2>1, <3>1 DEF Moved, WithMove
    <3> HIDE DEF m, n
    <3>3. m \in Decoders /\ m.resultLen = n
      BY <3>1, <3>2, ResultFacts
    <3>4. m.seekDelta = t /\ m.tid = d.tid /\ m.hasTs = TRUE
      BY <3>1, <3>2, MoveFields
    <3> QED
      BY <2>1, <3>3, <3>4
  <2>2. CASE ~Moves(t)
    <3>1. m = d
      BY <2>2 DEF Moved
    <3> HIDE DEF m
    <3>2. d.hasTs = (d.hasTs \/ Moves(t))
      BY <1>1, <2>2
    <3> QED
      BY <2>2, <3>1, <3>2
  <2> QED
    BY <2>1, <2>2
<1> HIDE DEF m
<1>3. \A b \in BOOLEAN :
        /\ WithFailed(m, b).tid = d.tid /\ WithFailed(m, b).hasTs = m.hasTs
        /\ WithFailed(m, b).seekDelta = m.seekDelta
        /\ WithFailed(m, b).resultLen = m.resultLen
        /\ WithFailed(m, b).failed = b
  BY <1>2, FailedFacts
<1>4. /\ Completed(m).tid = d.tid /\ Completed(m).hasTs = m.hasTs
      /\ Completed(m).seekDelta \in {m.seekDelta, ChunkLen}
      /\ Completed(m).completed \/ Completed(m).failed
  <2>1. CASE m.resultLen = 0 /\ ~params.noTimestamps /\ ~AtEnd(m)
    <3>1. Completed(m) = WithFailed(m, TRUE)
      BY <2>1 DEF Completed, WithFailed
    <3> QED
      BY <1>3, <3>1
  <2>2. CASE ~(m.resultLen = 0 /\ ~params.noTimestamps /\ ~AtEnd(m))
    <3> DEFINE len == IF params.noTimestamps \/ m.resultLen = 0 THEN i + 1 ELSE m.resultLen
               delta == IF params.noTimestamps THEN ChunkLen ELSE m.seekDelta
    <3>1. len \in Nat /\ delta \in 1..ChunkLen /\ delta \in {m.seekDelta, ChunkLen}
      BY <1>1, <1>2 DEF Decoders
    <3>2. Completed(m) = WithResult(m, len, delta)
      BY <2>2 DEF Completed, WithResult
    <3> HIDE DEF len, delta
    <3>3. /\ WithResult(m, len, delta).seekDelta = delta
          /\ WithResult(m, len, delta).tid = m.tid
          /\ WithResult(m, len, delta).hasTs = m.hasTs
          /\ WithResult(m, len, delta).completed = TRUE
      BY <1>2, <3>1, ResultFields
    <3> QED
      BY <1>2, <3>1, <3>2, <3>3
  <2> QED
    BY <2>1, <2>2
<1>5. ~GoesBack(d, t)
  BY <1>1 DEF GoesBack
<1>6. d.tokens[Len(d.tokens)] = t
  OBVIOUS
<1>7. CASE Ends(m, t)
  <2>1. Updated(d) = Completed(m)
    BY <1>5, <1>6, <1>7 DEF Updated, m
  <2> QED
    BY <1>2, <1>4, <2>1
<1>8. CASE ~Ends(m, t)
  <2>1. Updated(d) = WithFailed(m, Repeats(m))
    BY <1>5, <1>6, <1>8 DEF Updated, WithFailed, m
  <2>2. Repeats(m) \in BOOLEAN /\ (i = NMax - 1 /\ m.resultLen = 0 => Repeats(m))
    BY DEF Repeats
  <2> QED
    BY <1>2, <1>3, <2>1, <2>2
<1> QED
  BY <1>7, <1>8

(* A decoder stays sorted with the token that it samples.                   *)
LEMMA SortedSample ==
  ASSUME FullInv, NEW d \in Decoders, Len(d.tokens) = i, d.resultLen <= i, Sorted(d),
         NEW new \in Samples(d)
  PROVE  /\ Sorted(Updated(new))
         /\ ~params.noTimestamps /\ d.tid >= 0 => Updated(new).tid >= 0
<1>1. PICK t : Sampled(d, new, t)
  BY SampledFacts
<1>2. i \in Nat /\ d.tokens \in Seq(Int) /\ d.seekDelta \in 1..ChunkLen /\ ChunkLen \in Nat
  BY WhisperConstants DEF FullInv, Decoders
<1>3. /\ new \in Decoders /\ Len(new.tokens) = i + 1 /\ new.tokens[i + 1] = t
      /\ t \in Int /\ t <= ChunkLen /\ new.resultLen <= i
      /\ new.hasTs /\ Moves(t) => new.seekDelta <= t
      /\ \A n \in 1..i : new.tokens[n] = d.tokens[n]
  <2>1. new.tokens = Append(d.tokens, t) /\ t \in Int /\ new.resultLen = d.resultLen
    BY <1>1 DEF Sampled
  <2>2. /\ Len(new.tokens) = i + 1 /\ new.tokens[i + 1] = t
        /\ \A n \in 1..i : new.tokens[n] = d.tokens[n]
    BY <1>2, <2>1
  <2> QED
    BY <1>1, <2>1, <2>2 DEF Sampled
<1> DEFINE u == Updated(new)
<1>4. u.tokens = new.tokens
  BY <1>3, UpdatedType
<1>5. /\ u.tid = new.tid
      /\ u.hasTs = (new.hasTs \/ Moves(t))
      /\ u.seekDelta \in {IF Moves(t) THEN t ELSE new.seekDelta, ChunkLen}
  BY <1>3, UpdatedFields
<1>6. new.hasTs = d.hasTs /\ new.seekDelta = d.seekDelta
      /\ (~params.noTimestamps /\ d.tid >= 0 => new.tid >= 0)
  BY <1>1 DEF Sampled
<1> HIDE DEF u
<1>7. u.tokens \in Seq(Int) /\ DOMAIN u.tokens = 1..i + 1 /\ u.tokens[i + 1] = t
      /\ \A n \in 1..i : u.tokens[n] = d.tokens[n]
  BY <1>2, <1>3, <1>4 DEF Decoders
<1>8. DOMAIN d.tokens = 1..i /\ \A n \in 1..i : d.tokens[n] \in Int
  BY <1>2
<1>9. \A n \in 1..i : Moves(d.tokens[n]) =>
        d.hasTs /\ d.tokens[n] <= d.seekDelta /\ d.tokens[n] \in Int
  BY <1>2, <1>8 DEF Sorted
<1>10. \A n \in 1..i : Moves(d.tokens[n]) /\ Moves(t) => d.tokens[n] <= t
  BY <1>2, <1>3, <1>6, <1>9
<1>11. \A n \in 1..i + 1 : n \in 1..i \/ n = i + 1
  BY <1>2
<1>12. ASSUME NEW m \in DOMAIN u.tokens, NEW n \in DOMAIN u.tokens, m < n,
              Moves(u.tokens[m]), Moves(u.tokens[n])
       PROVE  u.tokens[m] <= u.tokens[n]
  <2>1. m \in 1..i
    BY <1>2, <1>7, <1>12
  <2>2. CASE n \in 1..i
    BY <1>7, <1>8, <1>12, <2>1, <2>2 DEF Sorted
  <2>3. CASE n = i + 1
    BY <1>7, <1>10, <1>12, <2>1, <2>3
  <2> QED
    BY <1>7, <1>11, <2>2, <2>3
<1>13. ASSUME NEW n \in DOMAIN u.tokens, Moves(u.tokens[n])
       PROVE  u.hasTs /\ u.tokens[n] <= u.seekDelta
  <2>1. CASE n \in 1..i
    <3>1. Moves(d.tokens[n]) /\ d.hasTs /\ d.tokens[n] <= d.seekDelta /\ d.tokens[n] \in Int
      BY <1>7, <1>9, <1>13, <2>1
    <3>2. u.hasTs
      BY <1>5, <1>6, <3>1
    <3>3. Moves(t) => d.tokens[n] <= t
      BY <1>10, <2>1, <3>1
    <3>4. d.tokens[n] <= u.seekDelta
      BY <1>2, <1>3, <1>5, <1>6, <3>1, <3>3
    <3> QED
      BY <1>7, <2>1, <3>2, <3>4
  <2>2. CASE n = i + 1
    <3>1. Moves(t)
      BY <1>7, <1>13, <2>2
    <3>2. u.hasTs
      BY <1>5, <3>1
    <3>3. t <= u.seekDelta
      BY <1>3, <1>5, <3>1
    <3> QED
      BY <1>7, <2>2, <3>2, <3>3
  <2> QED
    BY <1>7, <1>11, <2>1, <2>2
<1>14. Sorted(u)
  BY <1>12, <1>13 DEF Sorted
<1> QED
  BY <1>5, <1>6, <1>14 DEF u

(* The decoders after the draw: new tokens for those at work.               *)
LEMMA DrawsFacts ==
  ASSUME FullInv, pc = "sample", NEW from \in [Active -> Active], decoders' \in Draws(from)
  PROVE  /\ \A j \in Active :
              /\ from[j] \in Active
              /\ Len(decoders[from[j]].tokens) = i /\ decoders[from[j]].resultLen <= i
              /\ \E new \in Samples(decoders[from[j]]) : decoders'[j] = Updated(new)
         /\ \A j \in DecoderIds \ Active : decoders'[j] = decoders[j]
<1>1. /\ Current \subseteq DecoderIds /\ Active \subseteq Current
      /\ \A j \in DecoderIds : decoders[j].resultLen <= Len(decoders[j].tokens)
      /\ \A j \in Active : Len(decoders[j].tokens) = i
  BY CurrentType DEF FullInv, LengthInv
<1>2. PICK new : /\ \A j \in Active : new[j] \in Samples(decoders[from[j]])
                 /\ decoders' = [j \in DecoderIds |->
                      IF j \in Active THEN Updated(new[j]) ELSE decoders[j]]
  BY DEF Draws
<1>3. \A j \in DecoderIds :
        decoders'[j] = IF j \in Active THEN Updated(new[j]) ELSE decoders[j]
  BY <1>2
<1>4. \A j \in Active : from[j] \in Active /\ j \in DecoderIds /\ from[j] \in DecoderIds
  BY <1>1
<1> QED
  BY <1>1, <1>2, <1>3, <1>4

(* Ranking cuts the tokens to a decoder's result.                           *)
LEMMA RankFields ==
  ASSUME FullInv, Rank, NEW j \in DecoderIds
  PROVE  /\ decoders'[j].tid = decoders[j].tid
         /\ decoders'[j].hasTs = decoders[j].hasTs
         /\ decoders'[j].seekDelta = decoders[j].seekDelta
         /\ decoders'[j].tokens \in
              {decoders[j].tokens, SubSeq(decoders[j].tokens, 1, decoders[j].resultLen)}
<1> DEFINE ranked == {k \in Current : ~decoders[k].failed}
           d == decoders[j]
           s == SubSeq(d.tokens, 1, d.resultLen)
<1>1. PICK repetitive \in SUBSET {k \in ranked : decoders[k].resultLen > LongLen} :
        decoders' = [k \in DecoderIds |->
             IF k \notin ranked THEN decoders[k]
             ELSE [decoders[k] EXCEPT
                     !.tokens = SubSeq(@, 1, decoders[k].resultLen),
                     !.failed = k \in repetitive]]
  BY DEF Rank
<1>2. d \in Decoders
  BY DEF FullInv
<1>3. decoders'[j] = d \/ decoders'[j] = [d EXCEPT !.tokens = s, !.failed = j \in repetitive]
  BY <1>1
<1> HIDE DEF s
<1>4. CASE decoders'[j] = d
  BY <1>4
<1>5. CASE decoders'[j] = [d EXCEPT !.tokens = s, !.failed = j \in repetitive]
  <2>1. /\ decoders'[j].tid = d.tid /\ decoders'[j].hasTs = d.hasTs
        /\ decoders'[j].seekDelta = d.seekDelta /\ decoders'[j].tokens = s
    BY <1>2, <1>5 DEF Decoders
  <2> QED
    BY <2>1 DEF s
<1> QED
  BY <1>3, <1>4, <1>5

LEMMA FreshSorted == Sorted(Fresh) /\ Fresh.tid = 0
BY DEF Fresh, Sorted

LEMMA AllFresh ==
  ASSUME \A j \in DecoderIds : decoders'[j] = Fresh
  PROVE  TokenInv'
BY FreshSorted DEF TokenInv

LEMMA ForgottenFresh == ForgetChunk => \A j \in DecoderIds : decoders'[j] = Fresh
BY DEF ForgetChunk

LEMMA TokenInit == Init => TokenInv
BY FreshSorted DEF Init, TokenInv

LEMMA TokenKept == FullInv /\ TokenInv /\ [Next]_vars => TokenInv'
<1> SUFFICES ASSUME FullInv, TokenInv, [Next]_vars PROVE TokenInv'
  OBVIOUS
<1>1. ASSUME pc \in {"idle", "detect", "chunk", "freed"}, UNCHANGED decoders
      PROVE  TokenInv'
  BY <1>1, AllFresh DEF TokenInv
<1>2. ASSUME UNCHANGED <<params, decoders>>, pc' \notin {"idle", "detect", "chunk", "freed"}
      PROVE  TokenInv'
  BY <1>2 DEF TokenInv
<1>3. CASE Call
  BY <1>1, <1>3 DEF Call, choice
<1>4. CASE DetectLanguage
  BY <1>1, <1>4, ForgottenFresh, AllFresh DEF DetectLanguage, Return
<1>5. CASE BeginChunk
  BY <1>1, <1>5, ForgottenFresh, AllFresh DEF BeginChunk, Return
<1>6. CASE BeginTemperature
  <2>1. /\ \A j \in DecoderIds : decoders'[j] \in {Fresh, decoders[j]}
        /\ pc' = "sample" /\ params' = params
    BY <1>6 DEF BeginTemperature, audio
  <2> QED
    BY <2>1, FreshSorted DEF TokenInv
<1>7. CASE TemperatureFails
  BY <1>7, ForgottenFresh, AllFresh DEF TemperatureFails, Return
<1>8. CASE SampleGreedy \/ SampleBeam
  <2>1. PICK from \in [Active -> Active] : decoders' \in Draws(from)
    <3>1. [j \in Active |-> j] \in [Active -> Active]
      OBVIOUS
    <3> QED
      BY <1>8, <3>1 DEF SampleGreedy, SampleBeam
  <2>2. pc = "sample" /\ pc' = "next" /\ params' = params
    BY <1>8 DEF SampleGreedy, SampleBeam, audio
  <2>3. ASSUME NEW j \in DecoderIds
        PROVE  /\ Sorted(decoders'[j])
               /\ ~params.noTimestamps => decoders'[j].tid >= 0
    <3>1. CASE j \notin Active
      BY <2>1, <2>2, <3>1, DrawsFacts DEF TokenInv
    <3>2. CASE j \in Active
      <4> DEFINE d == decoders[from[j]]
      <4>1. PICK new \in Samples(d) : decoders'[j] = Updated(new)
        BY <2>1, <2>2, <3>2, DrawsFacts
      <4>2. from[j] \in DecoderIds /\ Len(d.tokens) = i /\ d.resultLen <= i
        BY <2>1, <2>2, <3>2, DrawsFacts, CurrentType
      <4>3. d \in Decoders /\ Sorted(d) /\ (~params.noTimestamps => d.tid >= 0)
        BY <4>2 DEF FullInv, TokenInv
      <4> HIDE DEF d
      <4> QED
        BY <4>1, <4>2, <4>3, SortedSample
    <3> QED
      BY <3>1, <3>2
  <2> QED
    BY <2>2, <2>3 DEF TokenInv
<1>9. CASE NextToken
  BY <1>2, <1>9 DEF NextToken, audio
<1>10. CASE NextTokenFails
  BY <1>10, ForgottenFresh, AllFresh DEF NextTokenFails, Return
<1>11. CASE AllDone
  BY <1>2, <1>11 DEF AllDone, audio
<1>12. CASE Rank
  <2>1. pc' \in {"temperature", "output"} /\ params' = params
    BY <1>12, RankType DEF Rank, audio
  <2>2. ASSUME NEW j \in DecoderIds
        PROVE  Sorted(decoders'[j]) /\ decoders'[j].tid = decoders[j].tid
    <3> DEFINE d == decoders[j]
               e == decoders'[j]
    <3>1. /\ e.tid = d.tid /\ e.hasTs = d.hasTs /\ e.seekDelta = d.seekDelta
          /\ e.tokens \in {d.tokens, SubSeq(d.tokens, 1, d.resultLen)}
      BY <1>12, RankFields
    <3>2. d.tokens \in Seq(Int) /\ d.resultLen \in 0..Len(d.tokens) /\ Sorted(d)
      BY DEF FullInv, LengthInv, TokenInv, Decoders
    <3> HIDE DEF d, e
    <3>3. DOMAIN e.tokens \subseteq DOMAIN d.tokens
          /\ \A n \in DOMAIN e.tokens : e.tokens[n] = d.tokens[n] /\ n \in Int
      <4> DEFINE s == d.tokens
                 len == d.resultLen
      <4>1. s \in Seq(Int) /\ len \in 0..Len(s)
        BY <3>2
      <4> HIDE DEF s, len
      <4>2. /\ DOMAIN SubSeq(s, 1, len) \subseteq DOMAIN s
            /\ \A n \in DOMAIN SubSeq(s, 1, len) : SubSeq(s, 1, len)[n] = s[n] /\ n \in Int
        BY <4>1
      <4>3. \A n \in DOMAIN s : n \in Int
        BY <4>1
      <4>4. e.tokens = s \/ e.tokens = SubSeq(s, 1, len)
        BY <3>1 DEF s, len
      <4> QED
        BY <4>2, <4>3, <4>4 DEF s
    <3>4. ASSUME NEW m \in DOMAIN e.tokens, NEW n \in DOMAIN e.tokens, m < n,
                 Moves(e.tokens[m]), Moves(e.tokens[n])
          PROVE  e.tokens[m] <= e.tokens[n]
      <4>1. /\ m \in DOMAIN d.tokens /\ n \in DOMAIN d.tokens
            /\ e.tokens[m] = d.tokens[m] /\ e.tokens[n] = d.tokens[n]
        BY <3>3
      <4> QED
        BY <3>2, <3>4, <4>1 DEF Sorted
    <3>5. \A n \in DOMAIN e.tokens :
            Moves(e.tokens[n]) => e.hasTs /\ e.tokens[n] <= e.seekDelta
      BY <3>1, <3>2, <3>3 DEF Sorted
    <3>6. Sorted(e)
      BY <3>4, <3>5 DEF Sorted
    <3> QED
      BY <3>1, <3>6 DEF d, e
  <2> QED
    BY <2>1, <2>2 DEF TokenInv
<1>13. CASE Output
  BY <1>13, ForgottenFresh, AllFresh DEF Output
<1>14. CASE UNCHANGED vars
  BY <1>14 DEF vars, audio, TokenInv
<1> QED
  BY <1>3, <1>4, <1>5, <1>6, <1>7, <1>8, <1>9, <1>10, <1>11, <1>12, <1>13, <1>14 DEF Next

-----------------------------------------------------------------------------
(* The segments of a chunk are in order and within its window.              *)
LEMMA SegmentFacts ==
  ASSUME FullInv, NEW d \in Decoders, Sorted(d), NEW new, new = Segments(d)
  PROVE  /\ DOMAIN new \subseteq 1..Len(d.tokens) + 1
         /\ \A n \in DOMAIN new :
              /\ new[n].t0 \in Int /\ new[n].t1 \in Int
              /\ new[n].t1 <= seek + d.seekDelta
              /\ d.tid >= 0 => seek <= new[n].t0
         /\ InOrder(new)
<1> DEFINE toks == d.tokens
           ends == {n \in DOMAIN toks : Moves(toks[n]) /\ (n = 1 \/ ~Moves(toks[n - 1]))}
           before(n) == {0} \union {m \in ends : m < n}
           begin(n) == Max(before(n))
           text(n)  == \E k \in begin(n) + 1..n - 1 : toks[k] < Eot
           segment(n) ==
             [t0 |-> seek + IF begin(n) = 0 THEN d.tid ELSE toks[begin(n)],
              t1 |-> seek + IF n \in ends THEN toks[n] ELSE d.seekDelta]
           all == {e \in ends \union {Len(toks) + 1} : text(e)}
<1>1. new = [n \in all |-> segment(n)]
  BY DEF Segments
<1>2. /\ toks \in Seq(Int) /\ d.seekDelta \in Int /\ d.tid \in Int /\ seek \in Int
      /\ Len(toks) \in Nat
  BY WhisperConstants DEF FullInv, Decoders
<1>3. ends \subseteq 1..Len(toks)
  BY <1>2
<1>4. ASSUME NEW n \in ends
      PROVE  toks[n] \in Int /\ toks[n] > 0 /\ toks[n] <= d.seekDelta
  BY <1>2, <1>3 DEF Moves, Sorted
<1>5. ASSUME NEW m \in ends, NEW n \in ends, m <= n
      PROVE  toks[m] <= toks[n]
  <2>1. Moves(toks[m]) /\ Moves(toks[n]) /\ m \in DOMAIN toks /\ n \in DOMAIN toks
    OBVIOUS
  <2>2. CASE m < n
    BY <2>1, <2>2 DEF Sorted
  <2>3. CASE m = n
    BY <1>4, <2>3
  <2> HIDE DEF ends
  <2> QED
    BY <1>2, <1>3, <1>5, <2>2, <2>3
<1> HIDE DEF ends, toks
<1>6. ASSUME NEW n \in 1..Len(toks) + 1
      PROVE  /\ begin(n) \in before(n)
             /\ \A m \in ends : m < n => m <= begin(n)
  <2>1. before(n) \in SUBSET (0..Len(toks)) /\ before(n) # {}
    <3>1. 0 \in 0..Len(toks) /\ \A m \in ends : m \in 0..Len(toks)
      BY <1>2, <1>3
    <3> QED
      BY <3>1
  <2>2. \A m \in ends : m < n => m \in before(n)
    OBVIOUS
  <2> DEFINE B == before(n)
  <2> HIDE DEF B
  <2>3. B \in SUBSET (0..Len(toks)) /\ B # {}
    BY <2>1 DEF B
  <2>4. Max(B) \in B /\ \A x \in B : x <= Max(B)
    BY <1>2, <2>3, LargestNat
  <2> QED
    BY <2>2, <2>4 DEF B
<1> HIDE DEF begin
<1>7. all \subseteq 1..Len(toks) + 1 /\ DOMAIN new = all
      /\ \A n \in all : new[n] = segment(n)
  <2>1. \A n \in ends \union {Len(toks) + 1} : n \in 1..Len(toks) + 1
    BY <1>2, <1>3
  <2>2. all \subseteq ends \union {Len(toks) + 1}
    OBVIOUS
  <2> HIDE DEF all, segment
  <2> QED
    BY <1>1, <2>1, <2>2
<1>8. ASSUME NEW n \in all
      PROVE  /\ segment(n).t0 \in Int /\ segment(n).t1 \in Int
             /\ segment(n).t1 <= seek + d.seekDelta
             /\ d.tid >= 0 => seek <= segment(n).t0
  <2>1. begin(n) = 0 \/ begin(n) \in ends
    BY <1>6, <1>7
  <2>2. begin(n) \in ends => begin(n) # 0
    BY <1>3
  <2> QED
    BY <1>2, <1>4, <2>1, <2>2, SMTT(60)
<1>9. ASSUME NEW m \in all, NEW n \in all, m < n
      PROVE  segment(m).t1 <= segment(n).t0
  <2>1. m \in ends /\ n \in 1..Len(toks) + 1
    <3>1. n \in 1..Len(toks) + 1 /\ m \in 1..Len(toks) + 1
      BY <1>7, <1>9
    <3>2. m # Len(toks) + 1
      BY <1>2, <1>9, <3>1
    <3> QED
      BY <1>3, <1>9, <3>1, <3>2
  <2>2. m <= begin(n) /\ m >= 1 /\ begin(n) \in before(n)
    BY <1>3, <1>6, <1>9, <2>1
  <2>3. begin(n) \in ends /\ begin(n) # 0
    BY <1>3, <2>1, <2>2
  <2>4. toks[m] <= toks[begin(n)]
    BY <1>5, <2>1, <2>2, <2>3
  <2>5. segment(m).t1 = seek + toks[m] /\ segment(n).t0 = seek + toks[begin(n)]
    BY <2>1, <2>3
  <2>6. toks[m] \in Int /\ toks[begin(n)] \in Int
    BY <1>4, <2>1, <2>3
  <2> HIDE DEF segment
  <2> QED
    BY <1>2, <2>4, <2>5, <2>6
<1> HIDE DEF segment, all
<1> QED
  BY <1>7, <1>8, <1>9 DEF InOrder, toks

LEMMA ResultInit == Init => ResultInv
<1> SUFFICES ASSUME Init PROVE ResultInv
  OBVIOUS
<1>1. result = <<>> /\ DOMAIN result = {} /\ pc = "idle"
  BY DEF Init
<1>2. 0 \in Nat /\ DOMAIN result \subseteq 0..0
  BY <1>1
<1> QED
  BY <1>1, <1>2 DEF ResultInv, InOrder

(* A chunk adds its segments behind those there are.                        *)
LEMMA ResultOutput ==
  ASSUME FullInv, TokenInv, ResultInv, Output
  PROVE  ResultInv'
<1> DEFINE d == decoders[best]
           new == IF silent THEN <<>> ELSE Segments(d)
<1>1. /\ pc = "output" /\ pc' = "chunk" /\ UNCHANGED <<params, seekEnd>>
      /\ seek' = seek + IF SingleTimestampEnding(d)
                        THEN Min({seekEnd - seek, ChunkLen}) ELSE d.seekDelta
      /\ result' = [n \in DOMAIN result \union DOMAIN new |->
                      IF n \in DOMAIN new THEN new[n] ELSE result[n]]
  BY DEF Output, audio
<1>2. /\ d \in Decoders /\ Sorted(d) /\ (~params.noTimestamps => d.tid >= 0)
      /\ seek \in Int /\ seekEnd \in Int /\ seek + DeltaMin < seekEnd
      /\ DeltaMin \in Nat /\ ChunkLen \in Nat
  BY <1>1, WhisperConstants DEF FullInv, TokenInv, AudioInv
<1>3. /\ d.seekDelta \in 1..ChunkLen /\ d.tokens \in Seq(Int) /\ Len(d.tokens) \in Nat
  BY <1>2 DEF Decoders
<1>4. /\ DOMAIN new \subseteq 1..Len(d.tokens) + 1
      /\ \A n \in DOMAIN new :
           /\ new[n].t0 \in Int /\ new[n].t1 \in Int
           /\ new[n].t1 <= seek + d.seekDelta
           /\ ~params.noTimestamps => seek <= new[n].t0
      /\ InOrder(new)
  <2> HIDE DEF d
  <2>1. CASE silent
    <3>1. DOMAIN new = {}
      BY <2>1
    <3> HIDE DEF new
    <3> QED
      BY <3>1 DEF InOrder
  <2>2. CASE ~silent
    <3>1. new = Segments(d)
      BY <2>2
    <3> HIDE DEF new
    <3> QED
      BY <1>2, <3>1, SegmentFacts
  <2> QED
    BY <2>1, <2>2
<1>5. /\ DOMAIN result \subseteq {0}
      /\ \A n \in DOMAIN result : result[n].t0 \in Int /\ result[n].t1 \in Int
      /\ ~params.noTimestamps => \A n \in DOMAIN result : result[n].t1 <= seek
  BY <1>1, <1>2 DEF ResultInv
<1>6. seek' \in Int /\ seek < seek'
      /\ (seek + d.seekDelta <= seek' \/ seek' + DeltaMin >= seekEnd')
  <2> DEFINE rest == Min({seekEnd - seek, ChunkLen})
  <2>0. seekEnd - seek \in Int /\ ChunkLen \in Int
    BY <1>2, WhisperConstants
  <2>1. rest \in {seekEnd - seek, ChunkLen}
    BY <2>0, MinOfTwo
  <2>2. seek' = seek + rest \/ seek' = seek + d.seekDelta
    BY <1>1
  <2>3. seek' \in Int /\ seek < seek'
    BY OutputMoves
  <2> HIDE DEF rest, d
  <2> QED
    BY <1>1, <1>2, <1>3, <2>1, <2>2, <2>3
<1> HIDE DEF new, d
<1>7. /\ DOMAIN result' = DOMAIN result \union DOMAIN new
      /\ \A n \in DOMAIN new : result'[n] = new[n]
      /\ \A n \in DOMAIN result : n \notin DOMAIN new => result'[n] = result[n]
  BY <1>1
<1>8. DOMAIN result' \subseteq 0..Len(d.tokens) + 1 /\ Len(d.tokens) + 1 \in Nat
  BY <1>3, <1>4, <1>5, <1>7
<1>9. \A n \in DOMAIN result' : result'[n].t0 \in Int /\ result'[n].t1 \in Int
  BY <1>4, <1>5, <1>7
<1>10. ASSUME ~params.noTimestamps, NEW m \in DOMAIN result', NEW n \in DOMAIN result', m < n
       PROVE  result'[m].t1 <= result'[n].t0
  <2>1. n \in DOMAIN new
    <3>1. n # 0
      BY <1>8, <1>10
    <3> QED
      BY <1>5, <1>7, <3>1
  <2>2. CASE m \in DOMAIN new
    BY <1>4, <1>7, <1>10, <2>1, <2>2 DEF InOrder
  <2>3. CASE m \notin DOMAIN new
    <3>1. m \in DOMAIN result /\ result'[m] = result[m] /\ result'[n] = new[n]
      BY <1>7, <2>1, <2>3
    <3>2. result[m].t1 <= seek /\ seek <= new[n].t0 /\ result[m].t1 \in Int /\ new[n].t0 \in Int
      BY <1>4, <1>5, <1>10, <2>1, <3>1
    <3> QED
      BY <1>2, <3>1, <3>2
  <2> QED
    BY <2>2, <2>3
<1>11. ASSUME ~params.noTimestamps, NEW n \in DOMAIN result'
       PROVE  result'[n].t1 <= seek' \/ seek' + DeltaMin >= seekEnd'
  <2>1. CASE n \in DOMAIN new
    <3>1. result'[n].t1 <= seek + d.seekDelta /\ result'[n].t1 \in Int
      BY <1>4, <1>7, <2>1
    <3> QED
      BY <1>2, <1>3, <1>6, <3>1
  <2>2. CASE n \notin DOMAIN new
    <3>1. result'[n].t1 <= seek /\ result'[n].t1 \in Int
      BY <1>5, <1>7, <1>11, <2>2
    <3> QED
      BY <1>2, <1>6, <3>1
  <2> QED
    BY <2>1, <2>2
<1> QED
  BY <1>1, <1>8, <1>9, <1>10, <1>11 DEF ResultInv, InOrder

(* Only the last segment is kept at the head of the loop.                   *)
LEMMA ResultBegin ==
  ASSUME FullInv, ResultInv, BeginChunk
  PROVE  ResultInv'
<1>1. /\ pc = "chunk" /\ UNCHANGED <<params, seekEnd>>
      /\ result' = [n \in {0 : m \in DOMAIN result} |-> result[Max(DOMAIN result)]]
      /\ \/ pc' = "idle"
         \/ pc' = "temperature" /\ seek + DeltaMin < seekEnd /\ seek' = seek
  BY DEF BeginChunk, Return, audio
<1>2. DOMAIN result' \subseteq {0} /\ DOMAIN result' = {0 : m \in DOMAIN result}
  BY <1>1
<1>3. ASSUME NEW n \in DOMAIN result'
      PROVE  \E m \in DOMAIN result : result'[n] = result[m]
  <2>1. DOMAIN result # {}
    BY <1>2, <1>3
  <2>2. PICK k \in Nat : DOMAIN result \subseteq 0..k
    BY DEF ResultInv
  <2> DEFINE S == DOMAIN result
  <2>3. S \in SUBSET (0..k) /\ S # {}
    BY <2>1, <2>2
  <2> HIDE DEF S
  <2>4. Max(S) \in S
    BY <2>3, LargestNat
  <2>5. result'[n] = result[Max(DOMAIN result)]
    BY <1>1, <1>2, <1>3
  <2> QED
    BY <2>4, <2>5 DEF S
<1>4. InOrder(result')
  <2>1. \A m, n \in DOMAIN result' : ~(m < n)
    BY <1>2
  <2> QED
    BY <2>1 DEF InOrder
<1>5. 0 \in Nat /\ DOMAIN result' \subseteq 0..0
  BY <1>2
<1>6. \A n \in DOMAIN result' : result'[n].t0 \in Int /\ result'[n].t1 \in Int
  BY <1>3 DEF ResultInv
<1>7. ASSUME ~params.noTimestamps, pc' = "temperature", NEW n \in DOMAIN result'
      PROVE  result'[n].t1 <= seek'
  <2>1. PICK m \in DOMAIN result : result'[n] = result[m]
    BY <1>3, <1>7
  <2>2. result[m].t1 <= seek \/ seek + DeltaMin >= seekEnd
    BY <1>1, <1>7 DEF ResultInv
  <2>3. seek + DeltaMin < seekEnd /\ seek' = seek
    BY <1>1, <1>7
  <2>4. seek \in Int /\ DeltaMin \in Nat /\ seekEnd \in Int
    BY WhisperConstants DEF FullInv
  <2> QED
    BY <2>1, <2>2, <2>3, <2>4
<1> QED
  BY <1>1, <1>2, <1>4, <1>5, <1>6, <1>7 DEF ResultInv, InOrder

LEMMA ResultKept == FullInv /\ TokenInv /\ ResultInv /\ [Next]_vars => ResultInv'
<1> SUFFICES ASSUME FullInv, TokenInv, ResultInv, [Next]_vars PROVE ResultInv'
  OBVIOUS
<1>1. ASSUME UNCHANGED <<params, seekEnd, result>>,
             pc' \in {"idle", "freed"} \/
             (seek' = seek /\ pc \notin {"chunk", "idle", "freed"})
      PROVE  ResultInv'
  BY <1>1 DEF ResultInv, InOrder
<1>2. CASE Call
  <2>1. result' = <<>> /\ DOMAIN result' = {}
    BY <1>2 DEF Call
  <2>2. 0 \in Nat /\ DOMAIN result' \subseteq 0..0
    BY <2>1
  <2> QED
    BY <2>1, <2>2 DEF ResultInv, InOrder
<1>3. CASE DetectLanguage
  BY <1>1, <1>3 DEF DetectLanguage, Return, audio
<1>4. CASE BeginChunk
  BY <1>4, ResultBegin
<1>5. CASE BeginTemperature
  BY <1>1, <1>5 DEF BeginTemperature, audio, chunk
<1>6. CASE TemperatureFails
  BY <1>1, <1>6 DEF TemperatureFails, Return, audio
<1>7. CASE SampleGreedy
  BY <1>1, <1>7 DEF SampleGreedy, audio, chunk
<1>8. CASE SampleBeam
  BY <1>1, <1>8 DEF SampleBeam, audio, chunk
<1>9. CASE NextToken
  BY <1>1, <1>9 DEF NextToken, audio, chunk
<1>10. CASE NextTokenFails
  BY <1>1, <1>10 DEF NextTokenFails, Return, audio
<1>11. CASE AllDone
  BY <1>1, <1>11 DEF AllDone, audio, chunk
<1>12. CASE Rank
  BY <1>1, <1>12 DEF Rank, audio, chunk
<1>13. CASE Output
  BY <1>13, ResultOutput
<1>14. CASE UNCHANGED vars
  BY <1>14 DEF vars, audio, chunk, ResultInv, InOrder
<1> QED
  BY <1>2, <1>3, <1>4, <1>5, <1>6, <1>7, <1>8, <1>9, <1>10, <1>11, <1>12, <1>13, <1>14
  DEF Next

(* No segment begins before the end of the one before it, in whatever       *)
(* chunks and at whatever temperatures they were decoded.                   *)
THEOREM SegmentsOrdered == Spec => []SegmentsInOrder
<1>1. Init => FullInv /\ TokenInv /\ ResultInv
  BY FullInit, TokenInit, ResultInit
<1>2. FullInv /\ TokenInv /\ ResultInv /\ [Next]_vars =>
        FullInv' /\ TokenInv' /\ ResultInv'
  BY FullKept, TokenKept, ResultKept
<1>3. ResultInv => SegmentsInOrder
  BY DEF ResultInv, SegmentsInOrder, InOrder
<1> QED
  BY <1>1, <1>2, <1>3, PTL DEF Spec


-----------------------------------------------------------------------------
(* The cache.                                                               *)

(* A cache is a record, and so are its cells, which are as many as its size *)
(* says.                                                                    *)
IsCache(k) ==
  /\ k = [size |-> k.size, head |-> k.head, cells |-> k.cells]
  /\ k.size \in Nat /\ k.head \in Nat
  /\ \A c \in Used(k) :
       /\ c \in 0..k.size - 1
       /\ k.cells[c] = [pos |-> k.cells[c].pos, seqs |-> k.cells[c].seqs,
                        past |-> k.cells[c].past]

LEMMA EmptyFacts ==
  ASSUME NEW n \in Nat
  PROVE  /\ IsCache(EmptyCache(n)) /\ Used(EmptyCache(n)) = {}
         /\ EmptyCache(n).size = n /\ EmptyCache(n).head = 0
BY DEF EmptyCache, IsCache, Used

LEMMA CellFacts ==
  ASSUME NEW e, NEW p, NEW q, NEW v, e = [pos |-> p, seqs |-> q, past |-> v]
  PROVE  /\ e.pos = p /\ e.seqs = q /\ e.past = v
         /\ e = [pos |-> e.pos, seqs |-> e.seqs, past |-> e.past]
OBVIOUS

(* The slot that is found is free, and no free one between it and the head. *)
LEMMA SlotFacts ==
  ASSUME NEW k, IsCache(k), NEW n \in Nat, HasSlot(k, n)
  PROVE  /\ Slot(k, n) \in Nat /\ Slot(k, n) + n <= k.size
         /\ \A c \in Slot(k, n)..Slot(k, n) + n - 1 : c \notin Used(k)
         /\ \A s \in Slots(k, n) : s >= k.head => Slot(k, n) <= s
<1>1. Slots(k, n) \in SUBSET Nat /\ Slots(k, n) # {}
  BY DEF HasSlot, Slots, IsCache
<1> DEFINE ahead == {s \in Slots(k, n) : s >= k.head}
           all == IF ahead = {} THEN Slots(k, n) ELSE ahead
<1>2. all \in SUBSET Nat /\ all # {} /\ all \subseteq Slots(k, n)
  BY <1>1
<1>3. Slot(k, n) = Min(all)
  BY DEF Slot
<1>4. Min(all) \in all /\ \A s \in all : Min(all) <= s
  <2> HIDE DEF all
  <2> QED
    BY <1>2, LeastNat
<1>5. \A s \in Slots(k, n) : s >= k.head => s \in all
  OBVIOUS
<1>6. Slot(k, n) \in Slots(k, n)
  BY <1>2, <1>3, <1>4
<1>7. \A s \in Slots(k, n) :
        /\ s \in Nat /\ s + n <= k.size
        /\ \A c \in s..s + n - 1 : c \notin Used(k)
  BY DEF Slots, IsCache
<1> QED
  BY <1>3, <1>4, <1>5, <1>6, <1>7

(* A batch is given the cells of the slot, in order.                        *)
LEMMA PlaceFacts ==
  ASSUME NEW k, IsCache(k), NEW batch, Len(batch) \in Nat, HasSlot(k, Len(batch))
  PROVE  LET n == Len(batch)
             s == Slot(k, n)
             r == Place(k, batch)
         IN /\ IsCache(r) /\ r.size = k.size /\ r.head = s
            /\ Used(r) = Used(k) \union s..s + n - 1
            /\ \A c \in Used(k) : c \notin s..s + n - 1 /\ r.cells[c] = k.cells[c]
            /\ \A b \in 1..n :
                 r.cells[s + b - 1] =
                   [pos |-> batch[b].pos, seqs |-> {batch[b].seq}, past |-> batch[b].past]
<1> DEFINE n == Len(batch)
           s == Slot(k, n)
           r == Place(k, batch)
           cell(b) == [pos |-> b.pos, seqs |-> {b.seq}, past |-> b.past]
           cells == [c \in Used(k) \union s..s + n - 1 |->
                       IF c \in s..s + n - 1 THEN cell(batch[c - s + 1]) ELSE k.cells[c]]
<1>1. /\ n \in Nat /\ s \in Nat /\ s + n <= k.size
      /\ \A c \in s..s + n - 1 : c \notin Used(k)
  <2> HIDE DEF s
  <2> QED
    BY SlotFacts DEF s
<1>2. r = [k EXCEPT !.head = s, !.cells = cells]
  BY DEF Place
<1>3. r = [size |-> k.size, head |-> s, cells |-> cells]
  <2>1. k = [size |-> k.size, head |-> k.head, cells |-> k.cells]
    BY DEF IsCache
  <2> HIDE DEF cells, r, s, n
  <2> QED
    BY <1>2, <2>1
<1>4. r.size = k.size /\ r.head = s /\ r.cells = cells
  <2> HIDE DEF cells, r, s, n
  <2> QED
    BY <1>3
<1> HIDE DEF r, s, n
<1>5. Used(r) = Used(k) \union s..s + n - 1
  BY <1>4 DEF Used
<1>6. \A c \in Used(k) : c \notin s..s + n - 1 /\ r.cells[c] = k.cells[c]
  BY <1>1, <1>4
<1>7. \A c \in s..s + n - 1 : r.cells[c] = cell(batch[c - s + 1])
  BY <1>4
<1>8. ASSUME NEW b \in 1..n
      PROVE  r.cells[s + b - 1] = cell(batch[b])
  <2>1. s + b - 1 \in s..s + n - 1 /\ (s + b - 1) - s + 1 = b
    BY <1>1
  <2> HIDE DEF cell
  <2> QED
    BY <1>7, <2>1
<1>9. IsCache(r)
  <2>1. k.size \in Nat
    BY DEF IsCache
  <2>2. \A c \in s..s + n - 1 : c \in 0..r.size - 1
    BY <1>1, <1>4, <2>1
  <2>3. \A c \in s..s + n - 1 :
          r.cells[c] = [pos |-> r.cells[c].pos, seqs |-> r.cells[c].seqs,
                        past |-> r.cells[c].past]
    <3> SUFFICES ASSUME NEW c \in s..s + n - 1
                 PROVE  r.cells[c] = [pos |-> r.cells[c].pos, seqs |-> r.cells[c].seqs,
                                      past |-> r.cells[c].past]
      OBVIOUS
    <3> DEFINE b == batch[c - s + 1]
    <3>1. r.cells[c] = [pos |-> b.pos, seqs |-> {b.seq}, past |-> b.past]
      BY <1>7
    <3> HIDE DEF b
    <3> QED
      BY <3>1, CellFacts
  <2>4. \A c \in Used(k) :
          /\ c \in 0..r.size - 1
          /\ r.cells[c] = [pos |-> r.cells[c].pos, seqs |-> r.cells[c].seqs,
                           past |-> r.cells[c].past]
    BY <1>4, <1>6 DEF IsCache
  <2>5. r = [size |-> r.size, head |-> r.head, cells |-> r.cells]
    BY <1>3, <1>4
  <2> HIDE DEF cells
  <2> QED
    BY <1>1, <1>4, <1>5, <2>1, <2>2, <2>3, <2>4, <2>5 DEF IsCache
<1> QED
  BY <1>4, <1>5, <1>6, <1>8, <1>9 DEF r, s, n

(* Cells are given other sequences; those left with none are free.          *)
LEMMA SeqMapFacts ==
  ASSUME NEW k, IsCache(k), NEW ids
  PROVE  LET r == SeqMap(k, ids)
         IN /\ IsCache(r) /\ r.size = k.size /\ r.head = 0
            /\ Used(r) = {c \in Used(k) : ids[c] # {}}
            /\ \A c \in Used(r) :
                 /\ r.cells[c].pos = k.cells[c].pos
                 /\ r.cells[c].past = k.cells[c].past
                 /\ r.cells[c].seqs = ids[c]
<1> DEFINE r == SeqMap(k, ids)
           cells == [c \in {d \in Used(k) : ids[d] # {}} |->
                          [k.cells[c] EXCEPT !.seqs = ids[c]]]
<1>1. r = [k EXCEPT !.head = 0, !.cells = cells]
  BY DEF SeqMap
<1>2. r = [size |-> k.size, head |-> 0, cells |-> cells]
  <2>1. k = [size |-> k.size, head |-> k.head, cells |-> k.cells]
    BY DEF IsCache
  <2> HIDE DEF cells, r
  <2> QED
    BY <1>1, <2>1
<1>3. r.size = k.size /\ r.head = 0 /\ r.cells = cells
  <2> HIDE DEF cells, r
  <2> QED
    BY <1>2
<1> HIDE DEF r
<1>4. Used(r) = {c \in Used(k) : ids[c] # {}}
  BY <1>3 DEF Used
<1>5. ASSUME NEW c \in Used(r)
      PROVE  r.cells[c] = [pos |-> k.cells[c].pos, seqs |-> ids[c],
                           past |-> k.cells[c].past]
  <2> DEFINE e == k.cells[c]
  <2>1. e = [pos |-> e.pos, seqs |-> e.seqs, past |-> e.past]
    BY <1>4 DEF IsCache
  <2>2. r.cells[c] = [e EXCEPT !.seqs = ids[c]]
    BY <1>3, <1>4
  <2> HIDE DEF e
  <2>3. [e EXCEPT !.seqs = ids[c]] = [pos |-> e.pos, seqs |-> ids[c], past |-> e.past]
    BY <2>1
  <2> QED
    BY <2>2, <2>3 DEF e
<1> HIDE DEF cells
<1>6. \A c \in Used(r) : /\ r.cells[c].pos = k.cells[c].pos
                         /\ r.cells[c].past = k.cells[c].past
                         /\ r.cells[c].seqs = ids[c]
  <2> SUFFICES ASSUME NEW c \in Used(r)
               PROVE  /\ r.cells[c].pos = k.cells[c].pos
                      /\ r.cells[c].past = k.cells[c].past
                      /\ r.cells[c].seqs = ids[c]
    OBVIOUS
  <2> DEFINE e == r.cells[c]
             f == k.cells[c]
  <2>1. e = [pos |-> f.pos, seqs |-> ids[c], past |-> f.past]
    BY <1>5
  <2> HIDE DEF e, f
  <2>2. e.pos = f.pos /\ e.seqs = ids[c] /\ e.past = f.past
    BY <2>1, CellFacts
  <2> QED
    BY <2>2 DEF e, f
<1>7. IsCache(r)
  <2>1. r = [size |-> r.size, head |-> r.head, cells |-> r.cells]
    BY <1>2, <1>3
  <2>2. \A c \in Used(r) : c \in 0..r.size - 1
    BY <1>3, <1>4 DEF IsCache
  <2>3. \A c \in Used(r) :
          r.cells[c] = [pos |-> r.cells[c].pos, seqs |-> r.cells[c].seqs,
                        past |-> r.cells[c].past]
    BY <1>5, <1>6
  <2>4. r.size \in Nat /\ r.head \in Nat
    BY <1>3 DEF IsCache
  <2> QED
    BY <2>1, <2>2, <2>3, <2>4 DEF IsCache
<1> QED
  BY <1>3, <1>4, <1>6, <1>7 DEF r

(* A sequence is taken from the cells; those that had no other are free.    *)
LEMMA SeqRmFacts ==
  ASSUME NEW k, IsCache(k), NEW id
  PROVE  LET r == SeqRm(k, id)
         IN /\ IsCache(r) /\ r.size = k.size
            /\ Used(r) = {c \in Used(k) : k.cells[c].seqs # {id}}
            /\ \A c \in Used(r) :
                 /\ r.cells[c].pos = k.cells[c].pos
                 /\ r.cells[c].seqs = k.cells[c].seqs \ {id}
<1> DEFINE r == SeqRm(k, id)
           freed == {c \in Used(k) : k.cells[c].seqs = {id}}
           head == IF freed = {} THEN k.head ELSE Min(freed)
           cells == [c \in Used(k) \ freed |-> [k.cells[c] EXCEPT !.seqs = @ \ {id}]]
<1>1. r = [k EXCEPT !.head = head, !.cells = cells]
  <2>1. k = [size |-> k.size, head |-> k.head, cells |-> k.cells]
    BY DEF IsCache
  <2>2. r = [k EXCEPT !.head = IF freed = {} THEN @ ELSE Min(freed), !.cells = cells]
    BY DEF SeqRm
  <2> HIDE DEF cells, r, freed
  <2> QED
    BY <2>1, <2>2
<1>2. head \in Nat
  <2>1. freed \in SUBSET Nat /\ k.head \in Nat
    <3>1. k.size \in Nat /\ k.head \in Nat /\ \A c \in Used(k) : c \in 0..k.size - 1
      BY DEF IsCache
    <3>2. \A c \in freed : c \in Nat
      BY <3>1
    <3> HIDE DEF freed
    <3> QED
      BY <3>1, <3>2
  <2> HIDE DEF freed
  <2> QED
    BY <2>1, LeastNat
<1>3. r = [size |-> k.size, head |-> head, cells |-> cells]
  <2>1. k = [size |-> k.size, head |-> k.head, cells |-> k.cells]
    BY DEF IsCache
  <2> HIDE DEF cells, r, head
  <2> QED
    BY <1>1, <2>1
<1>4. r.size = k.size /\ r.head = head /\ r.cells = cells
  <2> HIDE DEF cells, r, head
  <2> QED
    BY <1>3
<1> HIDE DEF r, head
<1>5. Used(r) = {c \in Used(k) : k.cells[c].seqs # {id}}
  BY <1>4 DEF Used
<1>6. ASSUME NEW c \in Used(r)
      PROVE  r.cells[c] = [pos |-> k.cells[c].pos, seqs |-> k.cells[c].seqs \ {id},
                           past |-> k.cells[c].past]
  <2> DEFINE e == k.cells[c]
  <2>1. e = [pos |-> e.pos, seqs |-> e.seqs, past |-> e.past]
    BY <1>5 DEF IsCache
  <2>2. r.cells[c] = [e EXCEPT !.seqs = @ \ {id}]
    BY <1>4, <1>5
  <2> HIDE DEF e
  <2>3. [e EXCEPT !.seqs = @ \ {id}] =
          [pos |-> e.pos, seqs |-> e.seqs \ {id}, past |-> e.past]
    BY <2>1
  <2> QED
    BY <2>2, <2>3 DEF e
<1> HIDE DEF cells
<1>7. \A c \in Used(r) : /\ r.cells[c].pos = k.cells[c].pos
                         /\ r.cells[c].seqs = k.cells[c].seqs \ {id}
                         /\ r.cells[c].past = k.cells[c].past
  <2> SUFFICES ASSUME NEW c \in Used(r)
               PROVE  /\ r.cells[c].pos = k.cells[c].pos
                      /\ r.cells[c].seqs = k.cells[c].seqs \ {id}
                      /\ r.cells[c].past = k.cells[c].past
    OBVIOUS
  <2> DEFINE e == r.cells[c]
             f == k.cells[c]
             left == f.seqs \ {id}
  <2>1. e = [pos |-> f.pos, seqs |-> left, past |-> f.past]
    BY <1>6
  <2> HIDE DEF e, f, left
  <2>2. e.pos = f.pos /\ e.seqs = left /\ e.past = f.past
    BY <2>1, CellFacts
  <2> QED
    BY <2>2 DEF e, f, left
<1>8. IsCache(r)
  <2>1. r = [size |-> r.size, head |-> r.head, cells |-> r.cells]
    BY <1>3, <1>4
  <2>2. \A c \in Used(r) : c \in 0..r.size - 1
    BY <1>4, <1>5 DEF IsCache
  <2>3. \A c \in Used(r) :
          r.cells[c] = [pos |-> r.cells[c].pos, seqs |-> r.cells[c].seqs,
                        past |-> r.cells[c].past]
    BY <1>6, <1>7
  <2>4. r.size \in Nat /\ r.head \in Nat
    BY <1>2, <1>4 DEF IsCache
  <2> QED
    BY <2>1, <2>2, <2>3, <2>4 DEF IsCache
<1> QED
  BY <1>4, <1>5, <1>7, <1>8 DEF r

-----------------------------------------------------------------------------
(* How large the cache is, and how much of it is in use.                    *)
SizeFor(n) == TextCtx * (IF n > 1 THEN n + 2 ELSE 1)
Busy == pc \in {"sample", "next"}
Fill == NPrompt + NDecoders(T) * i

SizeInv ==
  /\ kvDecoders \in 1..WHISPER_MAX_DECODERS
  /\ kv.size = SizeFor(kvDecoders)
  /\ Busy => NDecoders(T) <= kvDecoders

(* The sequences are those of n decoders.                                   *)
CellsOf(k, n) ==
  \A c \in Used(k) :
    /\ k.cells[c].pos \in 0..TextCtx - 1
    /\ k.cells[c].seqs \subseteq 0..n - 1 /\ k.cells[c].seqs # {}
(* A cell that is free when sequence 0 is removed.                          *)
HasRoom(k) == \E c \in 0..k.size - 1 : c \in Used(k) => k.cells[c].seqs = {0}
CellInv == IsCache(kv) /\ CellsOf(kv, kvDecoders) /\ HasRoom(kv)

(* The cells in use are the first ones.                                     *)
FillInv == Busy => (\A c \in Used(kv) : c < Fill) /\ kv.head <= Fill

(* Without timestamps a decoder that is still at work has no result, and is *)
(* never at work for the last token.                                        *)
StepInv ==
  /\ taken \in 0..TextCtx \div 2 /\ promptPast \in Nat
  /\ i \in 0..NMax
  /\ Busy => i < NMax
  /\ params.noTimestamps => \A j \in Active :
       /\ Busy => ~decoders[j].hasTs /\ decoders[j].resultLen = 0
       /\ pc = "next" => i < NMax - 1

LEMMA Product ==
  ASSUME NEW a \in Nat, NEW b \in Nat, NEW c \in Nat, NEW d \in Nat, a <= b, c <= d
  PROVE  a * c <= b * d
<1>1. PICK x \in Nat : b = a + x
  <2>1. b - a \in Nat /\ b = a + (b - a)
    OBVIOUS
  <2> QED
    BY <2>1
<1>2. PICK y \in Nat : d = c + y
  <2>1. d - c \in Nat /\ d = c + (d - c)
    OBVIOUS
  <2> QED
    BY <2>1
<1>3. b * d = a * c + (a * y + x * d)
  BY <1>1, <1>2
<1>4. a * c \in Nat /\ a * y \in Nat /\ x * d \in Nat
  OBVIOUS
<1> QED
  BY <1>3, <1>4

LEMMA DecodersType ==
  ASSUME FullInv
  PROVE  /\ NDecoders(T) \in 1..WHISPER_MAX_DECODERS /\ WHISPER_MAX_DECODERS \in Nat
         /\ Current = 0..NDecoders(T) - 1
         /\ \A j \in Active : j \in 0..NDecoders(T) - 1
<1>1. {params.bestOf, params.beamSize} \subseteq 1..WHISPER_MAX_DECODERS
      /\ WHISPER_MAX_DECODERS \in Nat \ {0}
  BY WhisperConstants DEF FullInv
<1>2. NDecoders(T) \in 1..WHISPER_MAX_DECODERS
  BY <1>1 DEF NDecoders
<1> QED
  BY <1>1, <1>2 DEF Current, Active

LEMMA SizeFacts ==
  ASSUME NEW n \in Nat \ {0}
  PROVE  /\ SizeFor(n) \in Nat /\ TextCtx <= SizeFor(n)
         /\ n = 1 => SizeFor(n) = TextCtx
         /\ n > 1 => SizeFor(n) = n * TextCtx + 2 * TextCtx
<1>1. TextCtx \in Nat
  BY WhisperConstants
<1>2. CASE n = 1
  BY <1>1, <1>2 DEF SizeFor
<1>3. CASE n > 1
  <2>1. SizeFor(n) = n * TextCtx + 2 * TextCtx
    BY <1>1, <1>3 DEF SizeFor
  <2>2. n * TextCtx \in Nat
    BY <1>1
  <2> QED
    BY <1>1, <1>3, <2>1, <2>2
<1> QED
  BY <1>2, <1>3

(* A prompt takes half of the context and the sot sequence at most.         *)
LEMMA PromptBound ==
  ASSUME FullInv, NEW past \in 0..TextCtx \div 2
  PROVE  /\ PromptLen(past) \in 3..TextCtx
         /\ PromptLen(past) <= TextCtx \div 2 + (IF params.noTimestamps THEN 5 ELSE 4)
<1>1. TextCtx \in Nat /\ TextCtx >= 10 /\ TextCtx = 2 * (TextCtx \div 2)
  BY WhisperConstants
<1>2. TextCtx \div 2 \in Nat
  BY <1>1
<1> QED
  BY <1>1, <1>2 DEF PromptLen, PromptInit

LEMMA NMaxFacts ==
  /\ NMax \in Nat \ {0} /\ NMax = TextCtx \div 2 - 4
  /\ TextCtx \div 2 \in Nat /\ TextCtx \div 2 >= 5
  /\ TextCtx \in Nat /\ TextCtx = 2 * (TextCtx \div 2)
<1>1. TextCtx \in Nat /\ TextCtx >= 10 /\ TextCtx = 2 * (TextCtx \div 2)
  BY WhisperConstants
<1>2. TextCtx \div 2 \in Nat
  BY <1>1
<1> QED
  BY <1>1, <1>2 DEF NMax

(* There is room for the next token of every decoder, in the context and in *)
(* the cache.                                                               *)
LEMMA StepRoom ==
  ASSUME FullInv, SizeInv, StepInv, Busy
  PROVE  /\ Fill \in Nat /\ NPrompt \in Nat /\ NPrompt + i \in Nat
         /\ kvDecoders > 1 => Fill + NDecoders(T) < kv.size
         /\ pc = "next" /\ Active # {} =>
              NPrompt + i < TextCtx /\ Fill + NDecoders(T) <= kv.size
<1> DEFINE n == NDecoders(T)
           half == TextCtx \div 2
<1>1. n \in Nat \ {0} /\ n <= kvDecoders /\ kvDecoders \in Nat \ {0} /\ i \in Nat
  BY DecodersType DEF SizeInv, FullInv
<1>2. half \in Nat /\ half >= 5 /\ TextCtx = 2 * half /\ TextCtx \in Nat
  BY NMaxFacts
<1>3. NPrompt \in 3..TextCtx /\ NPrompt <= half + (IF params.noTimestamps THEN 5 ELSE 4)
  BY PromptBound DEF StepInv, NPrompt
<1>4. i < half - 4
  BY NMaxFacts DEF StepInv
<1>5. kv.size = SizeFor(kvDecoders)
  BY DEF SizeInv
<1>6. pc = "next" /\ Active # {} => NPrompt + i < TextCtx
  <2> SUFFICES ASSUME pc = "next", Active # {} PROVE NPrompt + i < TextCtx
    OBVIOUS
  <2>1. params.noTimestamps => i < half - 5
    BY NMaxFacts DEF StepInv
  <2> HIDE DEF half
  <2> QED
    BY <1>1, <1>2, <1>3, <1>4, <2>1
<1> HIDE DEF n, half
<1>7. n * i \in Nat /\ Fill = NPrompt + n * i
  BY <1>1 DEF Fill, n
<1>8. kvDecoders > 1 => Fill + n < kv.size
  <2> SUFFICES ASSUME kvDecoders > 1 PROVE Fill + n < kv.size
    OBVIOUS
  <2>1. i + 1 \in Nat /\ i + 1 <= TextCtx
    BY <1>1, <1>2, <1>4
  <2>2. n * (i + 1) <= kvDecoders * TextCtx
    BY <1>1, <1>2, <2>1, Product
  <2>3. n * (i + 1) = n * i + n /\ kvDecoders * TextCtx \in Nat
    BY <1>1, <1>2
  <2>4. kv.size = kvDecoders * TextCtx + 2 * TextCtx
    BY <1>1, <1>5, SizeFacts
  <2> DEFINE a == n * i
             b == kvDecoders * TextCtx
             c == n * (i + 1)
  <2>5. Fill = NPrompt + a /\ c = a + n /\ c <= b /\ kv.size = b + 2 * TextCtx
        /\ a \in Nat /\ b \in Nat
    BY <1>7, <2>2, <2>3, <2>4
  <2> HIDE DEF a, b, c
  <2> QED
    BY <1>1, <1>2, <1>3, <2>5
<1>9. kvDecoders = 1 => n = 1 /\ kv.size = TextCtx /\ Fill = NPrompt + i
  <2> SUFFICES ASSUME kvDecoders = 1 PROVE n = 1 /\ kv.size = TextCtx /\ Fill = NPrompt + i
    OBVIOUS
  <2>1. n = 1
    BY <1>1
  <2>2. n * i = i
    BY <1>1, <2>1
  <2> QED
    BY <1>5, <1>7, <2>1, <2>2, SizeFacts
<1>10. pc = "next" /\ Active # {} => Fill + n <= kv.size
  <2>1. kv.size \in Nat
    BY <1>1, <1>5, SizeFacts
  <2> QED
    BY <1>1, <1>2, <1>3, <1>6, <1>7, <1>8, <1>9, <2>1
<1>11. Fill \in Nat /\ NPrompt \in Nat /\ NPrompt + i \in Nat
  BY <1>1, <1>2, <1>3, <1>7
<1> QED
  BY <1>6, <1>8, <1>10, <1>11 DEF n

-----------------------------------------------------------------------------
(* The batch holds every decoder at work, each once.                        *)
LEMMA ActiveFinite ==
  ASSUME FullInv
  PROVE  /\ IsFiniteSet(Active) /\ Cardinality(Active) \in 0..NDecoders(T)
         /\ Active # {} => Cardinality(Active) > 0
<1>1. NDecoders(T) \in Nat \ {0} /\ \A j \in Active : j \in 0..NDecoders(T) - 1
  BY DecodersType
<1> DEFINE n == NDecoders(T)
<1> HIDE DEF n
<1>2. Active \in SUBSET (0..n - 1) /\ n \in Nat \ {0}
  BY <1>1 DEF n
<1>3. IsFiniteSet(0..n - 1) /\ Cardinality(0..n - 1) = n
  BY <1>2, FS_Interval
<1>4. IsFiniteSet(Active) /\ Cardinality(Active) <= n
  BY <1>2, <1>3, FS_Subset
<1>5. Cardinality(Active) \in Nat
  BY <1>4, FS_CardinalityType
<1>6. Active # {} => Cardinality(Active) # 0
  BY <1>4, FS_EmptySet
<1> QED
  BY <1>2, <1>4, <1>5, <1>6 DEF n

LEMMA ActiveSeqFacts ==
  ASSUME FullInv
  PROVE  /\ ActiveSeq \in [1..Cardinality(Active) -> Active]
         /\ \A b, c \in 1..Cardinality(Active) : ActiveSeq[b] = ActiveSeq[c] => b = c
         /\ \A j \in Active : \E b \in 1..Cardinality(Active) : ActiveSeq[b] = j
<1> DEFINE S == Active
           n == Cardinality(S)
           OK(f) == f \in [1..n -> S] /\ IsInjective(f)
<1> HIDE DEF S
<1>1. IsFiniteSet(S) /\ n \in Nat
  BY ActiveFinite DEF S
<1>2. PICK f : f \in Bijection(1..n, S)
  BY <1>1, FS_CardinalityType DEF ExistsBijection
<1>3. OK(f)
  BY <1>2 DEF Bijection, Injection, IsInjective
<1>4. SetToSeq(S) = CHOOSE g : OK(g)
  BY DEF SetToSeq
<1>5. OK(SetToSeq(S))
  <2> HIDE DEF OK
  <2> QED
    BY <1>3, <1>4
<1> DEFINE s == SetToSeq(S)
<1> HIDE DEF s
<1>6. s \in Injection(1..n, S)
  BY <1>5 DEF s, Injection, IsInjective
<1>7. IsFiniteSet(1..n) /\ Cardinality(1..n) = n
  <2> HIDE DEF n
  <2> QED
    BY <1>1, FS_Interval
<1>8. s \in Surjection(1..n, S)
  <2>1. Cardinality(1..n) = Cardinality(S)
    BY <1>7
  <2> QED
    BY <1>1, <1>6, <2>1, FS_Injection
<1> HIDE DEF n
<1>9. s \in [1..n -> S] /\ \A b, c \in 1..n : s[b] = s[c] => b = c
  BY <1>6 DEF Injection, IsInjective
<1>10. \A j \in S : \E b \in 1..n : s[b] = j
  BY <1>8 DEF Surjection
<1> QED
  BY <1>9, <1>10 DEF s, S, n, ActiveSeq

LEMMA BatchFacts ==
  ASSUME FullInv
  PROVE  /\ Len(Batch) = Cardinality(Active)
         /\ \A b \in 1..Cardinality(Active) :
              /\ Batch[b].pos = NPrompt + i /\ Batch[b].seq = ActiveSeq[b]
              /\ Batch[b].past = decoders[ActiveSeq[b]].tokens
<1> DEFINE n == Cardinality(Active)
<1>1. n \in Nat
  BY ActiveFinite
<1>2. ActiveSeq \in [1..n -> Active]
  BY ActiveSeqFacts
<1> HIDE DEF n
<1>3. Len(ActiveSeq) = n
  <2>1. ActiveSeq \in Seq(Active)
    BY <1>1, <1>2
  <2> QED
    BY <1>1, <1>2, <2>1
<1>4. Batch = [b \in 1..n |-> [pos |-> NPrompt + i, seq |-> ActiveSeq[b],
                               past |-> decoders[ActiveSeq[b]].tokens]]
  BY <1>3 DEF Batch
<1>5. Len(Batch) = n
  <2> DEFINE e(b) == [pos |-> NPrompt + i, seq |-> ActiveSeq[b],
                      past |-> decoders[ActiveSeq[b]].tokens]
             R == {e(b) : b \in 1..n}
  <2>1. \A b \in 1..n : e(b) \in R
    OBVIOUS
  <2>2. Batch = [b \in 1..n |-> e(b)]
    BY <1>4
  <2> HIDE DEF e, R
  <2>3. Batch \in [1..n -> R]
    BY <2>1, <2>2
  <2>4. Batch \in Seq(R)
    BY <1>1, <2>3
  <2> QED
    BY <1>1, <2>3, <2>4
<1>6. ASSUME NEW b \in 1..n
      PROVE  /\ Batch[b].pos = NPrompt + i /\ Batch[b].seq = ActiveSeq[b]
             /\ Batch[b].past = decoders[ActiveSeq[b]].tokens
  BY <1>4
<1> QED
  BY <1>5, <1>6 DEF n

-----------------------------------------------------------------------------
(* The prompt and the batches in the cache.                                 *)
LEMMA MaxOfTwo ==
  ASSUME NEW a \in Int, NEW b \in Int
  PROVE  Max({a, b}) \in {a, b} /\ a <= Max({a, b}) /\ b <= Max({a, b})
<1> DEFINE Largest(x) == x \in {a, b} /\ \A y \in {a, b} : x >= y
<1>1. \E x : Largest(x)
  OBVIOUS
<1>2. Max({a, b}) = CHOOSE x : Largest(x)
  BY DEF Max
<1>3. Largest(CHOOSE x : Largest(x))
  <2> HIDE DEF Largest
  <2> QED
    BY <1>1
<1> QED
  BY <1>2, <1>3

LEMMA CacheForFacts ==
  ASSUME FullInv, SizeInv
  PROVE  LET n == NDecoders(T)
             m == Max({kvDecoders, n})
         IN /\ m \in 1..WHISPER_MAX_DECODERS /\ n <= m /\ kvDecoders <= m
            /\ CacheFor(n) = EmptyCache(SizeFor(m))
<1> DEFINE n == NDecoders(T)
           m == Max({kvDecoders, n})
<1>1. /\ n \in 1..WHISPER_MAX_DECODERS /\ WHISPER_MAX_DECODERS \in Nat
      /\ kvDecoders \in 1..WHISPER_MAX_DECODERS /\ kv.size = SizeFor(kvDecoders)
  BY DecodersType DEF SizeInv
<1>2. CacheFor(n) = EmptyCache(IF kvDecoders >= n THEN kv.size ELSE SizeFor(n))
  BY DEF CacheFor, SizeFor
<1> HIDE DEF n
<1>3. m \in {kvDecoders, n} /\ kvDecoders <= m /\ n <= m
  BY <1>1, MaxOfTwo
<1> HIDE DEF m
<1>4. m = IF kvDecoders >= n THEN kvDecoders ELSE n
  BY <1>1, <1>3
<1>5. CacheFor(n) = EmptyCache(SizeFor(m))
  BY <1>1, <1>2, <1>4
<1> QED
  BY <1>1, <1>3, <1>5 DEF n, m

(* The prompt goes into the first cells of an empty cache, in order.        *)
LEMMA PromptFacts ==
  ASSUME NEW size \in Nat, NEW n \in Nat, n > 0, n <= size
  PROVE  LET e == EmptyCache(size)
             r == Place(e, Prompt(n))
         IN /\ HasSlot(e, n) /\ IsCache(r) /\ r.size = size
            /\ Used(r) = 0..n - 1
            /\ \A c \in 0..n - 1 :
                 r.cells[c].pos = c /\ r.cells[c].seqs = {0} /\ r.cells[c].past = <<>>
<1> DEFINE e == EmptyCache(size)
           batch == Prompt(n)
           r == Place(e, batch)
<1>1. IsCache(e) /\ Used(e) = {} /\ e.size = size /\ e.head = 0
  BY EmptyFacts
<1>2. Len(batch) = n /\ \A b \in 1..n : batch[b] = [pos |-> b - 1, seq |-> 0, past |-> <<>>]
  <2> DEFINE entry(b) == [pos |-> b - 1, seq |-> 0, past |-> <<>>]
             R == {entry(b) : b \in 1..n}
  <2>1. \A b \in 1..n : entry(b) \in R
    OBVIOUS
  <2>2. batch = [b \in 1..n |-> entry(b)]
    BY DEF Prompt
  <2>3. batch \in [1..n -> R] /\ \A b \in 1..n : batch[b] = entry(b)
    <3> HIDE DEF entry, R, batch
    <3> QED
      BY <2>1, <2>2
  <2>4. batch \in Seq(R) /\ Len(batch) = n
    <3> HIDE DEF entry, R, batch
    <3> QED
      BY <2>3
  <2> QED
    BY <2>3, <2>4
<1> HIDE DEF e, batch
<1>3. 0 \in Slots(e, n) /\ HasSlot(e, n)
  <2>1. 0 \in 0..size - n
    OBVIOUS
  <2> QED
    BY <1>1, <2>1 DEF Slots, HasSlot
<1>4. Slot(e, n) = 0
  <2>1. Slot(e, n) \in Nat /\ \A s \in Slots(e, n) : s >= e.head => Slot(e, n) <= s
    BY <1>1, <1>3, SlotFacts
  <2> QED
    BY <1>1, <1>3, <2>1
<1>5. /\ IsCache(r) /\ r.size = size
      /\ Used(r) = {} \union 0..0 + n - 1
      /\ \A b \in 1..n :
           r.cells[0 + b - 1] =
             [pos |-> batch[b].pos, seqs |-> {batch[b].seq}, past |-> batch[b].past]
  <2> DEFINE k == Len(batch)
  <2>1. k = n
    BY <1>2
  <2>2. /\ IsCache(r) /\ r.size = e.size
        /\ Used(r) = Used(e) \union Slot(e, k)..Slot(e, k) + k - 1
        /\ \A b \in 1..k :
             r.cells[Slot(e, k) + b - 1] =
               [pos |-> batch[b].pos, seqs |-> {batch[b].seq}, past |-> batch[b].past]
    <3>1. IsCache(e) /\ Len(batch) \in Nat /\ HasSlot(e, Len(batch))
      BY <1>1, <1>2, <1>3
    <3> QED
      BY <3>1, PlaceFacts
  <2> HIDE DEF k, r
  <2> QED
    BY <1>1, <1>4, <2>1, <2>2
<1> HIDE DEF r
<1>6. ASSUME NEW c \in 0..n - 1
      PROVE  r.cells[c].pos = c /\ r.cells[c].seqs = {0} /\ r.cells[c].past = <<>>
  <2> DEFINE b == c + 1
  <2>1. b \in 1..n /\ 0 + b - 1 = c /\ b - 1 = c
    OBVIOUS
  <2> HIDE DEF b
  <2>2. r.cells[c] = [pos |-> batch[b].pos, seqs |-> {batch[b].seq}, past |-> batch[b].past]
    BY <1>5, <2>1
  <2>3. batch[b].pos = c /\ batch[b].seq = 0 /\ batch[b].past = <<>>
    BY <1>2, <2>1
  <2>4. r.cells[c] = [pos |-> c, seqs |-> {0}, past |-> <<>>]
    BY <2>2, <2>3
  <2> QED
    BY <2>4, CellFacts
<1>7. Used(r) = 0..n - 1
  BY <1>5
<1> QED
  BY <1>3, <1>5, <1>6, <1>7 DEF e, r, batch

LEMMA RoomFacts ==
  ASSUME NEW k, IsCache(k), NEW n \in Nat, CellsOf(k, n), k.size > 0,
         n = 1 \/ k.size - 1 \notin Used(k)
  PROVE  HasRoom(k)
<1>1. k.size - 1 \in 0..k.size - 1
  BY DEF IsCache
<1>2. ASSUME n = 1, k.size - 1 \in Used(k)
      PROVE  k.cells[k.size - 1].seqs = {0}
  <2> DEFINE s == k.cells[k.size - 1].seqs
  <2>1. s \subseteq 0..n - 1 /\ s # {}
    BY <1>2 DEF CellsOf
  <2> HIDE DEF s
  <2>2. \A x \in s : x = 0
    BY <1>2, <2>1
  <2>3. s = {0}
    BY <2>1, <2>2
  <2> QED
    BY <2>3 DEF s
<1> QED
  BY <1>1, <1>2 DEF HasRoom

CacheParts == SizeInv /\ CellInv /\ FillInv /\ StepInv

(* The next tokens are given cells before or at the end of those in use.    *)
LEMMA NextSlot ==
  ASSUME FullInv, CacheParts, pc = "next", Active # {}
  PROVE  LET n == Cardinality(Active)
         IN /\ HasSlot(kv, n) /\ Slot(kv, n) <= Fill
            /\ n \in 1..NDecoders(T) /\ Fill + NDecoders(T) <= kv.size
<1> DEFINE n == Cardinality(Active)
<1>1. /\ Fill \in Nat /\ Fill + NDecoders(T) <= kv.size
      /\ NDecoders(T) \in Nat /\ n \in 1..NDecoders(T)
  BY StepRoom, DecodersType, ActiveFinite DEF CacheParts, Busy
<1>2. IsCache(kv) /\ kv.size \in Nat /\ kv.head <= Fill /\ \A c \in Used(kv) : c < Fill
  BY DEF CacheParts, CellInv, FillInv, Busy, IsCache
<1>3. \A c \in Used(kv) : c \in Int
  <2>1. kv.size \in Nat /\ \A c \in Used(kv) : c \in 0..kv.size - 1
    BY DEF CacheParts, CellInv, IsCache
  <2> QED
    BY <2>1
<1> HIDE DEF n
<1>4. Fill \in Slots(kv, n)
  <2>1. Fill \in 0..kv.size - n
    BY <1>1, <1>2
  <2>2. \A c \in Fill..Fill + n - 1 : c \notin Used(kv)
    BY <1>1, <1>2, <1>3
  <2> QED
    BY <2>1, <2>2 DEF Slots
<1>5. HasSlot(kv, n)
  BY <1>1, <1>2, <1>4 DEF HasSlot
<1>6. Slot(kv, n) <= Fill
  BY <1>1, <1>2, <1>4, <1>5, SlotFacts
<1> QED
  BY <1>1, <1>5, <1>6 DEF n

(* Each decoder at work has a new cell, for its last token.                 *)
LEMMA BatchCells ==
  ASSUME FullInv, CacheParts, pc = "next", Active # {}
  PROVE  LET n == Cardinality(Active)
             s == Slot(kv, n)
             r == Place(kv, Batch)
         IN /\ IsCache(r) /\ r.size = kv.size /\ r.head = s /\ s \in Nat /\ HasSlot(kv, n)
            /\ Used(r) = Used(kv) \union s..s + n - 1
            /\ \A c \in Used(kv) : c \notin s..s + n - 1 /\ r.cells[c] = kv.cells[c]
            /\ \A c \in s..s + n - 1 :
                 /\ c - s + 1 \in 1..n
                 /\ r.cells[c].pos = NPrompt + i
                 /\ r.cells[c].seqs = {ActiveSeq[c - s + 1]}
                 /\ r.cells[c].past = decoders[ActiveSeq[c - s + 1]].tokens
<1> DEFINE n == Cardinality(Active)
           s == Slot(kv, n)
           r == Place(kv, Batch)
           len == Len(Batch)
<1>1. IsCache(kv) /\ HasSlot(kv, n) /\ n \in Nat
  BY NextSlot, ActiveFinite DEF CacheParts, CellInv
<1>2. /\ len = n
      /\ \A b \in 1..n : /\ Batch[b].pos = NPrompt + i /\ Batch[b].seq = ActiveSeq[b]
                         /\ Batch[b].past = decoders[ActiveSeq[b]].tokens
  BY BatchFacts
<1>3. s \in Nat
  BY <1>1, SlotFacts
<1>4. HasSlot(kv, len) /\ len \in Nat /\ Slot(kv, len) = s
  <2> HIDE DEF n, len
  <2> QED
    BY <1>1, <1>2
<1>5. /\ IsCache(r) /\ r.size = kv.size /\ r.head = Slot(kv, len)
      /\ Used(r) = Used(kv) \union Slot(kv, len)..Slot(kv, len) + len - 1
      /\ \A c \in Used(kv) :
           c \notin Slot(kv, len)..Slot(kv, len) + len - 1 /\ r.cells[c] = kv.cells[c]
      /\ \A b \in 1..len :
           r.cells[Slot(kv, len) + b - 1] =
             [pos |-> Batch[b].pos, seqs |-> {Batch[b].seq}, past |-> Batch[b].past]
  BY <1>1, <1>4, PlaceFacts
<1> HIDE DEF len, n, s, r
<1>6. ASSUME NEW c \in s..s + n - 1
      PROVE  /\ c - s + 1 \in 1..n
             /\ r.cells[c].pos = NPrompt + i
             /\ r.cells[c].seqs = {ActiveSeq[c - s + 1]}
             /\ r.cells[c].past = decoders[ActiveSeq[c - s + 1]].tokens
  <2> DEFINE b == c - s + 1
             e == r.cells[c]
  <2>1. b \in 1..n /\ s + b - 1 = c
    BY <1>1, <1>3
  <2> HIDE DEF b
  <2>2. e = [pos |-> Batch[b].pos, seqs |-> {Batch[b].seq}, past |-> Batch[b].past]
    BY <1>2, <1>4, <1>5, <2>1
  <2> HIDE DEF e
  <2>3. e.pos = Batch[b].pos /\ e.seqs = {Batch[b].seq} /\ e.past = Batch[b].past
    BY <2>2, CellFacts
  <2>4. /\ e.pos = NPrompt + i /\ e.seqs = {ActiveSeq[b]}
        /\ e.past = decoders[ActiveSeq[b]].tokens
    BY <1>2, <2>1, <2>3
  <2> QED
    BY <2>1, <2>4 DEF b, e
<1>7. /\ IsCache(r) /\ r.size = kv.size /\ r.head = s
      /\ Used(r) = Used(kv) \union s..s + n - 1
      /\ \A c \in Used(kv) : c \notin s..s + n - 1 /\ r.cells[c] = kv.cells[c]
  BY <1>2, <1>4, <1>5
<1> QED
  BY <1>1, <1>3, <1>6, <1>7 DEF n, s, r

LEMMA BatchPlaced ==
  ASSUME FullInv, CacheParts, pc = "next", Active # {}
  PROVE  LET r == Place(kv, Batch)
         IN /\ IsCache(r) /\ r.size = kv.size /\ r.head <= Fill
            /\ CellsOf(r, kvDecoders) /\ HasRoom(r)
            /\ \A c \in Used(r) : c < Fill + NDecoders(T)
<1> DEFINE n == Cardinality(Active)
           s == Slot(kv, n)
           r == Place(kv, Batch)
<1>1. /\ IsCache(r) /\ r.size = kv.size /\ r.head = s /\ s \in Nat
      /\ Used(r) = Used(kv) \union s..s + n - 1
      /\ \A c \in Used(kv) : r.cells[c] = kv.cells[c]
      /\ \A c \in s..s + n - 1 :
           /\ c - s + 1 \in 1..n
           /\ r.cells[c].pos = NPrompt + i
           /\ r.cells[c].seqs = {ActiveSeq[c - s + 1]}
  BY BatchCells
<1>2. /\ s <= Fill /\ n \in 1..NDecoders(T) /\ NDecoders(T) \in Nat
      /\ Fill \in Nat /\ Fill + NDecoders(T) <= kv.size
      /\ NPrompt + i \in 0..TextCtx - 1
      /\ kvDecoders > 1 => Fill + NDecoders(T) < kv.size
  <2>1. TextCtx \in Nat
    BY WhisperConstants
  <2> QED
    BY <2>1, NextSlot, StepRoom, DecodersType DEF CacheParts, Busy
<1>3. /\ kv.size \in Nat /\ \A c \in Used(kv) : c \in 0..kv.size - 1
      /\ \A c \in Used(kv) : c < Fill
      /\ CellsOf(kv, kvDecoders)
      /\ kvDecoders \in Nat \ {0} /\ NDecoders(T) <= kvDecoders
  <2>1. kv.size \in Nat /\ \A c \in Used(kv) : c \in 0..kv.size - 1
    BY DEF CacheParts, CellInv, IsCache
  <2>2. CellsOf(kv, kvDecoders) /\ \A c \in Used(kv) : c < Fill
    BY DEF CacheParts, CellInv, FillInv, Busy
  <2>3. kvDecoders \in Nat \ {0} /\ NDecoders(T) <= kvDecoders
    BY DecodersType DEF CacheParts, SizeInv, Busy
  <2> QED
    BY <2>1, <2>2, <2>3
<1>4. \A b \in 1..n : ActiveSeq[b] \in 0..kvDecoders - 1
  <2>1. \A b \in 1..n : ActiveSeq[b] \in Active
    BY ActiveSeqFacts
  <2>2. \A j \in Active : j \in 0..kvDecoders - 1
    BY <1>3, DecodersType
  <2> QED
    BY <2>1, <2>2
<1> HIDE DEF n, s, r
<1>5. \A c \in Used(r) : c < Fill + NDecoders(T) /\ c \in Int
  <2>1. \A c \in Used(kv) : c < Fill + NDecoders(T) /\ c \in Int
    BY <1>2, <1>3
  <2>2. \A c \in s..s + n - 1 : c < Fill + NDecoders(T) /\ c \in Int
    BY <1>1, <1>2
  <2> QED
    BY <1>1, <2>1, <2>2
<1>6. CellsOf(r, kvDecoders)
  <2>1. ASSUME NEW c \in s..s + n - 1
        PROVE  /\ r.cells[c].pos \in 0..TextCtx - 1
               /\ r.cells[c].seqs \subseteq 0..kvDecoders - 1 /\ r.cells[c].seqs # {}
    BY <1>1, <1>2, <1>4
  <2>2. \A c \in Used(kv) :
          /\ r.cells[c].pos \in 0..TextCtx - 1
          /\ r.cells[c].seqs \subseteq 0..kvDecoders - 1 /\ r.cells[c].seqs # {}
    BY <1>1, <1>3 DEF CellsOf
  <2> QED
    BY <1>1, <2>1, <2>2 DEF CellsOf
<1>7. HasRoom(r)
  <2>1. r.size > 0
    BY <1>1, <1>2, <1>3
  <2>2. kvDecoders > 1 => r.size - 1 \notin Used(r)
    BY <1>1, <1>2, <1>3, <1>5
  <2>3. kvDecoders = 1 \/ r.size - 1 \notin Used(r)
    BY <1>3, <2>2
  <2> QED
    BY <1>1, <1>3, <1>6, <2>1, <2>3, RoomFacts
<1> QED
  BY <1>1, <1>2, <1>5, <1>6, <1>7 DEF r

-----------------------------------------------------------------------------
(* The steps of a chunk.                                                    *)
LEMMA StepDraws ==
  ASSUME FullInv, StepInv, pc = "sample", params.noTimestamps,
         NEW from \in [Active -> Active], decoders' \in Draws(from),
         UNCHANGED <<params, it>>, NEW j \in Active'
  PROVE  ~decoders'[j].hasTs /\ decoders'[j].resultLen = 0 /\ i < NMax - 1
<1>1. ~decoders'[j].completed /\ ~decoders'[j].failed
  BY DEF Active
<1>2. j \in Active
  <2>1. Current' = Current
    BY DEF Current, NDecoders, T
  <2>2. j \in Current
    BY <2>1 DEF Active
  <2>3. j \in DecoderIds
    BY <2>2, CurrentType
  <2>4. j \notin Active => decoders'[j] = decoders[j]
    BY <2>3, DrawsFacts
  <2> QED
    BY <1>1, <2>2, <2>4 DEF Active
<1> DEFINE d == decoders[from[j]]
<1>3. /\ from[j] \in Active /\ from[j] \in DecoderIds
      /\ Len(d.tokens) = i /\ d.resultLen <= i
      /\ \E new \in Samples(d) : decoders'[j] = Updated(new)
  <2>1. \A k \in Active : k \in DecoderIds
    BY CurrentType
  <2> QED
    BY <1>2, <2>1, DrawsFacts
<1>4. d \in Decoders /\ ~d.hasTs /\ d.resultLen = 0 /\ i < NMax
  BY <1>3 DEF FullInv, StepInv, Busy
<1> HIDE DEF d
<1>5. PICK new \in Samples(d) : decoders'[j] = Updated(new)
  BY <1>3
<1>6. PICK t : Sampled(d, new, t)
  BY <1>4, <1>5, SampledFacts
<1>7. /\ new \in Decoders /\ t \in Int /\ t <= ChunkLen /\ ~Moves(t)
      /\ new.tokens = Append(d.tokens, t) /\ ~new.hasTs /\ new.resultLen = 0
  BY <1>4, <1>6 DEF Sampled
<1>8. i \in Nat /\ d.tokens \in Seq(Int)
  BY <1>4 DEF FullInv, Decoders
<1>9. Len(new.tokens) = i + 1 /\ new.tokens[i + 1] = t
  BY <1>3, <1>7, <1>8
<1>10. /\ Updated(new).hasTs = (new.hasTs \/ Moves(t))
       /\ \/ Updated(new).completed \/ Updated(new).failed
          \/ new.resultLen # 0
          \/ Updated(new).resultLen = 0 /\ i # NMax - 1
  BY <1>7, <1>8, <1>9, UpdatedFields
<1>11. Updated(new).resultLen = 0 /\ i # NMax - 1
  BY <1>1, <1>5, <1>7, <1>10
<1>12. i < NMax - 1
  BY <1>4, <1>8, <1>11, NMaxFacts
<1>13. ~Updated(new).hasTs
  BY <1>7, <1>10
<1> QED
  BY <1>5, <1>11, <1>12, <1>13

LEMMA TakenType ==
  ASSUME FullInv, StepInv
  PROVE  PastTaken \in 0..TextCtx \div 2
<1> DEFINE half == TextCtx \div 2
<1>1. half \in Nat /\ promptPast \in Nat
  BY NMaxFacts DEF StepInv
<1>2. PastTaken \in {0, Min({promptPast, half})}
  BY DEF PastTaken
<1> HIDE DEF half
<1>3. Min({promptPast, half}) \in {promptPast, half} /\ Min({promptPast, half}) <= half
  BY <1>1, MinOfTwo
<1> QED
  BY <1>1, <1>2, <1>3 DEF half

LEMMA StepForgotten ==
  ASSUME ForgetChunk, promptPast' \in Nat, pc' \notin {"sample", "next"}
  PROVE  StepInv'
<1>1. taken' = 0 /\ i' = 0
  BY DEF ForgetChunk
<1>2. TextCtx \div 2 \in Nat /\ NMax \in Nat
  BY NMaxFacts
<1>3. (TextCtx \div 2)' = TextCtx \div 2 /\ NMax' = NMax
  BY DEF NMax
<1> QED
  BY <1>1, <1>2, <1>3 DEF StepInv, Busy

LEMMA StepInit == Init => StepInv
<1> SUFFICES ASSUME Init PROVE StepInv
  OBVIOUS
<1>1. taken = 0 /\ i = 0 /\ promptPast = 0 /\ pc = "idle"
  BY DEF Init
<1> QED
  BY <1>1, NMaxFacts DEF StepInv, Busy

LEMMA StepKept == FullInv /\ StepInv /\ [Next]_vars => StepInv'
<1> SUFFICES ASSUME FullInv, StepInv, [Next]_vars PROVE StepInv'
  OBVIOUS
<1>1. ASSUME UNCHANGED <<taken, i>>, promptPast' \in Nat, pc' \notin {"sample", "next"}
      PROVE  StepInv'
  BY <1>1 DEF StepInv, Busy, NMax
<1>2. promptPast \in Nat /\ params \in Params
  BY DEF StepInv, FullInv
<1>3. CASE Call
  BY <1>1, <1>2, <1>3 DEF Call, chunk
<1>4. CASE DetectLanguage
  <2>1. CASE \E code \in {0, -3} : Return(code)
    BY <1>4, <2>1, StepForgotten DEF Return
  <2>2. CASE pc' = "chunk" /\ promptPast' = params.prompt /\ UNCHANGED <<taken, i>>
    BY <1>1, <1>2, <2>2, WhisperConstants
  <2> QED
    BY <1>4, <2>1, <2>2 DEF DetectLanguage
<1>5. CASE BeginChunk
  <2>1. CASE \E code \in {0, -6} : Return(code)
    BY <1>5, <2>1, StepForgotten DEF Return
  <2>2. CASE pc' = "temperature" /\ promptPast' \in {0, promptPast} /\ UNCHANGED <<taken, i>>
    BY <1>1, <1>2, <2>2
  <2> QED
    BY <1>5, <2>1, <2>2 DEF BeginChunk
<1>6. CASE BeginTemperature
  <2>1. /\ taken' = PastTaken /\ i' = 0 /\ UNCHANGED <<params, it, promptPast>>
        /\ decoders' = [j \in DecoderIds |-> IF j \in Current THEN Fresh ELSE decoders[j]]
        /\ pc' = "sample"
    BY <1>6 DEF BeginTemperature, audio, chunk, choice
  <2>2. Current' = Current
    BY <2>1 DEF Current, NDecoders, T
  <2>3. \A j \in Active' : decoders'[j] = Fresh
    BY <2>1, <2>2, CurrentType DEF Active
  <2>4. ~Fresh.hasTs /\ Fresh.resultLen = 0
    BY DEF Fresh
  <2>5. taken' \in 0..TextCtx \div 2 /\ i' \in 0..NMax /\ i' < NMax
    BY <2>1, TakenType, NMaxFacts
  <2> QED
    BY <1>2, <2>1, <2>3, <2>4, <2>5 DEF StepInv, Busy, NMax
<1>7. CASE TemperatureFails
  <2>1. ForgetChunk /\ promptPast' \in {0, promptPast} /\ pc' \in {"idle", "freed"}
    BY <1>7 DEF TemperatureFails, Return, chunk
  <2> QED
    BY <1>2, <2>1, StepForgotten
<1>8. CASE SampleGreedy \/ SampleBeam
  <2>1. PICK from \in [Active -> Active] : decoders' \in Draws(from)
    <3>1. [j \in Active |-> j] \in [Active -> Active]
      OBVIOUS
    <3> QED
      BY <1>8, <3>1 DEF SampleGreedy, SampleBeam
  <2>2. /\ pc = "sample" /\ pc' = "next"
        /\ UNCHANGED <<params, it, taken, i, promptPast>>
    BY <1>8 DEF SampleGreedy, SampleBeam, audio, chunk, choice
  <2>3. params.noTimestamps => \A j \in Active' :
          ~decoders'[j].hasTs /\ decoders'[j].resultLen = 0 /\ i < NMax - 1
    BY <2>1, <2>2, StepDraws
  <2>4. i < NMax
    BY <2>2 DEF StepInv, Busy
  <2>5. NMax' = NMax
    BY DEF NMax
  <2> QED
    BY <2>2, <2>3, <2>4, <2>5 DEF StepInv, Busy
<1>9. CASE NextToken
  <2>1. /\ pc = "next" /\ i' = i + 1
        /\ UNCHANGED <<params, it, taken, promptPast, decoders>>
        /\ pc' = IF i + 1 < NMax THEN "sample" ELSE "rank"
    BY <1>9 DEF NextToken, audio, chunk, choice
  <2>2. Active' = Active
    BY <2>1 DEF Active, Current, NDecoders, T
  <2>3. NMax' = NMax
    BY DEF NMax
  <2>4. i \in Nat /\ i < NMax /\ NMax \in Nat
    BY <2>1, NMaxFacts DEF FullInv, StepInv, Busy
  <2>5. params.noTimestamps => \A j \in Active :
          ~decoders[j].hasTs /\ decoders[j].resultLen = 0
    BY <2>1 DEF StepInv, Busy
  <2>6. i' \in 0..NMax' /\ (pc' \in {"sample", "next"} => i' < NMax')
    BY <2>1, <2>3, <2>4
  <2>7. pc' # "next"
    BY <2>1
  <2> QED
    BY <2>1, <2>2, <2>5, <2>6, <2>7 DEF StepInv, Busy
<1>10. CASE NextTokenFails
  BY <1>10, StepForgotten DEF NextTokenFails, Return
<1>11. CASE AllDone
  BY <1>1, <1>2, <1>11 DEF AllDone, chunk
<1>12. CASE Rank
  BY <1>1, <1>2, <1>12, RankType DEF Rank, chunk
<1>13. CASE Output
  <2>1. /\ ForgetChunk /\ pc' = "chunk"
        /\ promptPast' = taken + IF silent THEN 0 ELSE decoders[best].resultLen
    BY <1>13 DEF Output
  <2>2. taken \in Nat /\ decoders[best].resultLen \in Nat
    BY NMaxFacts DEF StepInv, FullInv, Decoders
  <2>3. promptPast' \in Nat
    BY <2>1, <2>2
  <2> QED
    BY <2>1, <2>3, StepForgotten
<1>14. CASE UNCHANGED vars
  <2>1. UNCHANGED <<params, pc, promptPast, it, taken, i, decoders>>
    BY <1>14 DEF vars, audio, chunk, choice
  <2>2. Active' = Active /\ NMax' = NMax
    BY <2>1 DEF Active, Current, NDecoders, T, NMax
  <2> QED
    BY <2>1, <2>2 DEF StepInv, Busy
<1> QED
  BY <1>3, <1>4, <1>5, <1>6, <1>7, <1>8, <1>9, <1>10, <1>11, <1>12, <1>13, <1>14
  DEF Next

-----------------------------------------------------------------------------
(* The cache through a call.                                                *)
(* The prompt is in the first cells, and every decoder has joined it.       *)
LEMMA BeginCells ==
  ASSUME FullInv, CacheParts, BeginTemperature
  PROVE  LET n == NDecoders(T)
             m == Max({kvDecoders, n})
             len == PromptLen(PastTaken)
         IN /\ n \in Nat \ {0} /\ m \in 1..WHISPER_MAX_DECODERS /\ m \in Nat \ {0} /\ n <= m
            /\ len \in 3..TextCtx
            /\ NDecoders(T)' = n /\ NPrompt' = len /\ i' = 0 /\ kvDecoders' = m
            /\ IsCache(kv') /\ kv'.size = SizeFor(m) /\ kv'.head = 0
            /\ SizeFor(m) \in Nat /\ TextCtx <= SizeFor(m)
            /\ m > 1 => SizeFor(m) > TextCtx
            /\ Used(kv') = 0..len - 1
            /\ \A c \in 0..len - 1 :
                 /\ kv'.cells[c].pos = c /\ kv'.cells[c].past = <<>>
                 /\ kv'.cells[c].seqs = {0} \union 0..n - 1
<1> DEFINE n == NDecoders(T)
           m == Max({kvDecoders, n})
           len == PromptLen(PastTaken)
           k == Place(EmptyCache(SizeFor(m)), Prompt(len))
           ids == [c \in Used(k) |-> k.cells[c].seqs \union 0..n - 1]
<1>1. /\ m \in 1..WHISPER_MAX_DECODERS /\ n <= m
      /\ n \in Nat \ {0} /\ m \in Nat \ {0} /\ CacheFor(n) = EmptyCache(SizeFor(m))
  <2>1. /\ m \in 1..WHISPER_MAX_DECODERS /\ n <= m
        /\ CacheFor(n) = EmptyCache(SizeFor(m))
    BY CacheForFacts DEF CacheParts
  <2>2. n \in 1..WHISPER_MAX_DECODERS /\ WHISPER_MAX_DECODERS \in Nat
    BY DecodersType
  <2> HIDE DEF n, m
  <2> QED
    BY <2>1, <2>2
<1>2. len \in 3..TextCtx /\ TextCtx \in Nat /\ TextCtx >= 10
  BY TakenType, PromptBound, WhisperConstants DEF CacheParts
<1>3. /\ kv' = SeqMap(k, ids) /\ kvDecoders' = m /\ pc' = "sample" /\ i' = 0
      /\ taken' = PastTaken /\ UNCHANGED <<params, it>>
  <2>1. /\ kv' = Join(Place(CacheFor(n), Prompt(len)), n)
        /\ kvDecoders' = m /\ pc' = "sample" /\ i' = 0
        /\ taken' = PastTaken /\ UNCHANGED <<params, it>>
    BY DEF BeginTemperature, audio, choice
  <2> QED
    BY <1>1, <2>1 DEF Join
<1>4. NDecoders(T)' = n /\ NPrompt' = len
  BY <1>3 DEF NDecoders, T, NPrompt, PromptLen, PromptInit
<1> HIDE DEF n, m, len
<1>5. /\ SizeFor(m) \in Nat /\ TextCtx <= SizeFor(m)
      /\ m > 1 => SizeFor(m) > TextCtx
  <2>1. /\ SizeFor(m) \in Nat /\ TextCtx <= SizeFor(m)
        /\ m > 1 => SizeFor(m) = m * TextCtx + 2 * TextCtx
    BY <1>1, SizeFacts
  <2>2. m * TextCtx \in Nat
    BY <1>1, <1>2
  <2> QED
    BY <1>2, <2>1, <2>2
<1> DEFINE size == SizeFor(m)
<1>6. /\ IsCache(k) /\ k.size = size
      /\ Used(k) = 0..len - 1
      /\ \A c \in 0..len - 1 :
           k.cells[c].pos = c /\ k.cells[c].seqs = {0} /\ k.cells[c].past = <<>>
  <2> HIDE DEF size
  <2>1. size \in Nat /\ len \in Nat /\ len > 0 /\ len <= size
    BY <1>2, <1>5 DEF size
  <2>2. k = Place(EmptyCache(size), Prompt(len))
    BY DEF size
  <2> HIDE DEF k
  <2> QED
    BY <2>1, <2>2, PromptFacts
<1> HIDE DEF k
<1>7. \A c \in 0..len - 1 : ids[c] = {0} \union 0..n - 1
  BY <1>6
<1> HIDE DEF ids
<1>8. /\ IsCache(kv') /\ kv'.size = size /\ kv'.head = 0
      /\ Used(kv') = 0..len - 1
      /\ \A c \in 0..len - 1 :
           /\ kv'.cells[c].pos = c /\ kv'.cells[c].past = <<>>
           /\ kv'.cells[c].seqs = {0} \union 0..n - 1
  <2>1. /\ IsCache(kv') /\ kv'.size = k.size /\ kv'.head = 0
        /\ Used(kv') = {c \in Used(k) : ids[c] # {}}
        /\ \A c \in Used(kv') :
             /\ kv'.cells[c].pos = k.cells[c].pos /\ kv'.cells[c].seqs = ids[c]
             /\ kv'.cells[c].past = k.cells[c].past
    <3> DEFINE r == SeqMap(k, ids)
    <3>1. IsCache(k)
      BY <1>6
    <3>2. /\ IsCache(r) /\ r.size = k.size /\ r.head = 0
          /\ Used(r) = {c \in Used(k) : ids[c] # {}}
          /\ \A c \in Used(r) :
               /\ r.cells[c].pos = k.cells[c].pos /\ r.cells[c].seqs = ids[c]
               /\ r.cells[c].past = k.cells[c].past
      BY <3>1, SeqMapFacts
    <3>3. kv' = r
      BY <1>3
    <3> HIDE DEF r
    <3> QED
      BY <3>2, <3>3
  <2>2. Used(kv') = 0..len - 1
    BY <1>6, <1>7, <2>1
  <2> QED
    BY <1>6, <1>7, <2>1, <2>2
<1> QED
  BY <1>1, <1>2, <1>3, <1>4, <1>5, <1>8 DEF n, m, len

LEMMA BeginFill ==
  ASSUME FullInv, CacheParts, BeginTemperature
  PROVE  SizeInv' /\ CellInv' /\ FillInv'
<1> DEFINE n == NDecoders(T)
           m == Max({kvDecoders, n})
           len == PromptLen(PastTaken)
           size == SizeFor(m)
<1>1. /\ m \in 1..WHISPER_MAX_DECODERS /\ n <= m /\ n \in Nat \ {0} /\ m \in Nat \ {0}
  BY BeginCells
<1>2. len \in 3..TextCtx /\ TextCtx \in Nat /\ TextCtx >= 10
  BY BeginCells, WhisperConstants
<1>3. kvDecoders' = m /\ i' = 0
  BY BeginCells
<1>4. NDecoders(T)' = n /\ NPrompt' = len
  BY BeginCells
<1>5. /\ SizeFor(m) \in Nat /\ TextCtx <= SizeFor(m)
      /\ m > 1 => SizeFor(m) > TextCtx
  BY BeginCells
<1>6. /\ IsCache(kv') /\ kv'.size = size /\ kv'.head = 0
      /\ Used(kv') = 0..len - 1
      /\ \A c \in 0..len - 1 : kv'.cells[c].pos = c /\ kv'.cells[c].seqs = {0} \union 0..n - 1
  BY BeginCells
<1> HIDE DEF n, m, len
<1>7. CellsOf(kv', m)
  <2>1. \A c \in 0..len - 1 : c \in 0..TextCtx - 1
    BY <1>2
  <2>2. {0} \union 0..n - 1 \subseteq 0..m - 1 /\ {0} \union 0..n - 1 # {}
    BY <1>1
  <2> QED
    BY <1>6, <2>1, <2>2 DEF CellsOf
<1>8. HasRoom(kv')
  <2>1. kv'.size > 0 /\ (m = 1 \/ kv'.size - 1 \notin Used(kv'))
    BY <1>1, <1>2, <1>5, <1>6
  <2> QED
    BY <1>1, <1>6, <1>7, <2>1, RoomFacts
<1>9. FillInv'
  <2>1. Fill' = len
    BY <1>1, <1>2, <1>3, <1>4 DEF Fill
  <2>2. \A c \in Used(kv') : c < len
    BY <1>2, <1>6
  <2>3. kv'.head <= len
    BY <1>2, <1>6
  <2> QED
    BY <2>1, <2>2, <2>3 DEF FillInv
<1>10. SizeInv'
  <2>1. NDecoders(T)' <= kvDecoders' /\ kvDecoders' \in 1..WHISPER_MAX_DECODERS
    BY <1>1, <1>3, <1>4
  <2>2. kv'.size = SizeFor(kvDecoders')
    BY <1>3, <1>6
  <2>3. SizeFor(kvDecoders)' = SizeFor(kvDecoders')
    BY DEF SizeFor
  <2> QED
    BY <2>1, <2>2, <2>3 DEF SizeInv
<1> QED
  BY <1>3, <1>6, <1>7, <1>8, <1>9, <1>10 DEF CellInv, CellsOf, HasRoom, IsCache, Used

(* Between the chunks, and when decoding ends or fails.                     *)
LEMMA CacheIdle ==
  ASSUME NEW k, NEW n \in 1..WHISPER_MAX_DECODERS, kv' = k, kvDecoders' = n,
         IsCache(k), k.size = SizeFor(n), CellsOf(k, n), HasRoom(k),
         pc' \notin {"sample", "next"}
  PROVE  SizeInv' /\ CellInv' /\ FillInv'
<1>1. SizeInv'
  <2>1. SizeFor(kvDecoders)' = SizeFor(n)
    BY DEF SizeFor
  <2> QED
    BY <2>1 DEF SizeInv, Busy
<1>2. CellInv'
  BY DEF CellInv, CellsOf, HasRoom, IsCache, Used
<1> QED
  BY <1>1, <1>2 DEF FillInv, Busy

(* The token of the language is given a cell, whatever a call before has    *)
(* left.                                                                    *)
LEMMA DetectSlot ==
  ASSUME CellInv
  PROVE  IsCache(SeqRm(kv, 0)) /\ HasSlot(SeqRm(kv, 0), 1)
<1> DEFINE k == SeqRm(kv, 0)
<1>1. IsCache(kv) /\ HasRoom(kv)
  BY DEF CellInv
<1>2. /\ IsCache(k) /\ k.size = kv.size
      /\ Used(k) = {c \in Used(kv) : kv.cells[c].seqs # {0}}
  <2> HIDE DEF k
  <2>1. \A id : /\ IsCache(SeqRm(kv, id)) /\ SeqRm(kv, id).size = kv.size
                /\ Used(SeqRm(kv, id)) = {c \in Used(kv) : kv.cells[c].seqs # {id}}
    BY <1>1, SeqRmFacts
  <2> QED
    BY <2>1 DEF k
<1> HIDE DEF k
<1>3. kv.size \in Nat
  BY <1>1 DEF IsCache
<1>4. PICK c \in 0..kv.size - 1 : c \notin Used(k)
  BY <1>1, <1>2 DEF HasRoom
<1>5. c \in 0..k.size - 1 /\ \A d \in c..c + 1 - 1 : d = c
  BY <1>2, <1>3, <1>4
<1>6. c \in Slots(k, 1)
  BY <1>2, <1>3, <1>4, <1>5 DEF Slots
<1>7. 1 <= k.size
  BY <1>2, <1>3, <1>4
<1> QED
  BY <1>2, <1>6, <1>7 DEF HasSlot, k

(* Removing a sequence frees cells and makes none.                          *)
LEMMA RemovedCells ==
  ASSUME CellInv
  PROVE  LET k == SeqRm(kv, 0)
         IN /\ IsCache(k) /\ k.size = kv.size
            /\ CellsOf(k, kvDecoders) /\ HasRoom(k)
<1> DEFINE k == SeqRm(kv, 0)
<1>1. IsCache(kv) /\ CellsOf(kv, kvDecoders) /\ HasRoom(kv)
  BY DEF CellInv
<1>2. /\ IsCache(k) /\ k.size = kv.size
      /\ Used(k) = {c \in Used(kv) : kv.cells[c].seqs # {0}}
      /\ \A c \in Used(k) : /\ k.cells[c].pos = kv.cells[c].pos
                            /\ k.cells[c].seqs = kv.cells[c].seqs \ {0}
  <2> HIDE DEF k
  <2>1. \A id : /\ IsCache(SeqRm(kv, id)) /\ SeqRm(kv, id).size = kv.size
                /\ Used(SeqRm(kv, id)) = {c \in Used(kv) : kv.cells[c].seqs # {id}}
                /\ \A c \in Used(SeqRm(kv, id)) :
                     /\ SeqRm(kv, id).cells[c].pos = kv.cells[c].pos
                     /\ SeqRm(kv, id).cells[c].seqs = kv.cells[c].seqs \ {id}
    BY <1>1, SeqRmFacts
  <2> QED
    BY <2>1 DEF k
<1> HIDE DEF k
<1>3. HasRoom(k)
  BY <1>1, <1>2 DEF HasRoom
<1>4. CellsOf(k, kvDecoders)
  <2> SUFFICES ASSUME NEW c \in Used(k)
               PROVE  /\ k.cells[c].pos \in 0..TextCtx - 1
                      /\ k.cells[c].seqs \subseteq 0..kvDecoders - 1
                      /\ k.cells[c].seqs # {}
    BY DEF CellsOf
  <2>1. c \in Used(kv) /\ kv.cells[c].seqs # {0}
    BY <1>2
  <2>2. /\ kv.cells[c].pos \in 0..TextCtx - 1
        /\ kv.cells[c].seqs \subseteq 0..kvDecoders - 1 /\ kv.cells[c].seqs # {}
    BY <1>1, <2>1 DEF CellsOf
  <2>3. k.cells[c].pos = kv.cells[c].pos /\ k.cells[c].seqs = kv.cells[c].seqs \ {0}
    BY <1>2
  <2> DEFINE q == kv.cells[c].seqs
  <2> HIDE DEF q
  <2>4. q # {0} /\ q # {} => q \ {0} # {}
    OBVIOUS
  <2> QED
    BY <2>1, <2>2, <2>3, <2>4 DEF q
<1> QED
  BY <1>2, <1>3, <1>4 DEF k

LEMMA DetectCells ==
  ASSUME FullInv, SizeInv, CellInv
  PROVE  LET r == Place(SeqRm(kv, 0), <<[pos |-> 0, seq |-> 0, past |-> <<>>]>>)
         IN /\ IsCache(r) /\ r.size = kv.size
            /\ CellsOf(r, kvDecoders) /\ HasRoom(r)
<1> DEFINE k == SeqRm(kv, 0)
           batch == <<[pos |-> 0, seq |-> 0, past |-> <<>>]>>
           r == Place(k, batch)
           s == Slot(k, 1)
<1>1. IsCache(k) /\ HasSlot(k, 1)
  BY DetectSlot
<1>2. IsCache(kv) /\ CellsOf(kv, kvDecoders)
  BY DEF CellInv
<1>3. /\ k.size = kv.size
      /\ Used(k) = {c \in Used(kv) : kv.cells[c].seqs # {0}}
      /\ \A c \in Used(k) : /\ k.cells[c].pos = kv.cells[c].pos
                            /\ k.cells[c].seqs = kv.cells[c].seqs \ {0}
  <2> HIDE DEF k
  <2>1. \A id : /\ SeqRm(kv, id).size = kv.size
                /\ Used(SeqRm(kv, id)) = {c \in Used(kv) : kv.cells[c].seqs # {id}}
                /\ \A c \in Used(SeqRm(kv, id)) :
                     /\ SeqRm(kv, id).cells[c].pos = kv.cells[c].pos
                     /\ SeqRm(kv, id).cells[c].seqs = kv.cells[c].seqs \ {id}
    BY <1>2, SeqRmFacts
  <2> QED
    BY <2>1 DEF k
<1> HIDE DEF k
<1>4. Len(batch) = 1 /\ batch[1] = [pos |-> 0, seq |-> 0, past |-> <<>>]
  OBVIOUS
<1>5. s \in Nat /\ s + 1 <= k.size
  <2>1. 1 \in Nat
    OBVIOUS
  <2> QED
    BY <1>1, <2>1, SlotFacts
<1> HIDE DEF batch
<1>6. /\ IsCache(r) /\ r.size = k.size
      /\ Used(r) = Used(k) \union s..s + 1 - 1
      /\ \A c \in Used(k) : r.cells[c] = k.cells[c]
      /\ \A b \in 1..1 :
           r.cells[s + b - 1] =
             [pos |-> batch[b].pos, seqs |-> {batch[b].seq}, past |-> batch[b].past]
  <2> DEFINE n == Len(batch)
  <2>1. IsCache(k) /\ Len(batch) \in Nat /\ HasSlot(k, Len(batch))
    BY <1>1, <1>4
  <2>2. /\ IsCache(r) /\ r.size = k.size
        /\ Used(r) = Used(k) \union Slot(k, n)..Slot(k, n) + n - 1
        /\ \A c \in Used(k) : r.cells[c] = k.cells[c]
        /\ \A b \in 1..n :
             r.cells[Slot(k, n) + b - 1] =
               [pos |-> batch[b].pos, seqs |-> {batch[b].seq}, past |-> batch[b].past]
    BY <2>1, PlaceFacts
  <2> HIDE DEF n, r
  <2>3. n = 1
    BY <1>4 DEF n
  <2> QED
    BY <2>2, <2>3
<1> HIDE DEF r, s
<1>7. Used(r) = Used(k) \union {s} /\ r.cells[s].pos = 0 /\ r.cells[s].seqs = {0}
  <2>1. s..s + 1 - 1 = {s} /\ 1 \in 1..1 /\ s + 1 - 1 = s
    BY <1>5
  <2>2. r.cells[s] = [pos |-> batch[1].pos, seqs |-> {batch[1].seq}, past |-> batch[1].past]
    BY <1>6, <2>1
  <2>3. batch[1].pos = 0 /\ batch[1].seq = 0
    BY <1>4
  <2>4. r.cells[s].pos = batch[1].pos /\ r.cells[s].seqs = {batch[1].seq}
    BY <2>2, CellFacts
  <2> QED
    BY <1>6, <2>1, <2>3, <2>4
<1>8. HasRoom(r)
  <2>1. k.size \in Nat
    BY <1>1 DEF IsCache
  <2>2. s \in 0..r.size - 1
    BY <1>5, <1>6, <2>1
  <2> QED
    BY <1>7, <2>2 DEF HasRoom
<1>9. CellsOf(r, kvDecoders)
  <2>1. TextCtx \in Nat /\ TextCtx >= 10 /\ kvDecoders \in Nat \ {0}
    BY WhisperConstants, DecodersType DEF SizeInv
  <2>2. ASSUME NEW c \in Used(k)
        PROVE  /\ r.cells[c].pos \in 0..TextCtx - 1
               /\ r.cells[c].seqs \subseteq 0..kvDecoders - 1 /\ r.cells[c].seqs # {}
    <3>1. c \in Used(kv) /\ kv.cells[c].seqs # {0}
      BY <1>3
    <3>2. /\ kv.cells[c].pos \in 0..TextCtx - 1
          /\ kv.cells[c].seqs \subseteq 0..kvDecoders - 1 /\ kv.cells[c].seqs # {}
      BY <1>2, <3>1 DEF CellsOf
    <3>3. r.cells[c].pos = kv.cells[c].pos /\ r.cells[c].seqs = kv.cells[c].seqs \ {0}
      BY <1>3, <1>6
    <3> DEFINE q == kv.cells[c].seqs
    <3> HIDE DEF q
    <3>4. q # {0} /\ q # {} => q \ {0} # {}
      OBVIOUS
    <3> QED
      BY <3>1, <3>2, <3>3, <3>4 DEF q
  <2>3. 0 \in 0..TextCtx - 1 /\ {0} \subseteq 0..kvDecoders - 1
    BY <2>1
  <2> QED
    BY <1>7, <2>2, <2>3 DEF CellsOf
<1> QED
  BY <1>3, <1>6, <1>8, <1>9 DEF k, r, batch

(* The decoders take over one another's cells.                              *)
LEMMA ReorganiseFacts ==
  ASSUME IsCache(kv), NEW from \in [Active -> Active]
  PROVE  LET r == Reorganise(from)
         IN /\ IsCache(r) /\ r.size = kv.size /\ r.head = 0
            /\ Used(r) \subseteq Used(kv)
            /\ \A c \in Used(r) :
                 /\ r.cells[c].pos = kv.cells[c].pos /\ r.cells[c].past = kv.cells[c].past
                 /\ r.cells[c].seqs \subseteq kv.cells[c].seqs \union Active
                 /\ r.cells[c].seqs # {}
            /\ \A c \in Used(kv), j \in Active :
                 c \in Used(r) /\ j \in r.cells[c].seqs <=> from[j] \in kv.cells[c].seqs
<1> DEFINE given(c) == (kv.cells[c].seqs \ Active) \union
                       {j \in Active : from[j] \in kv.cells[c].seqs}
           ids == [c \in Used(kv) |-> given(c)]
           r == Reorganise(from)
<1>1. r = SeqMap(kv, ids)
  <2>1. DOMAIN from = Active
    OBVIOUS
  <2> QED
    BY <2>1 DEF Reorganise
<1>2. \A c \in Used(kv) : ids[c] = given(c)
  OBVIOUS
<1> HIDE DEF ids, r
<1>3. /\ IsCache(r) /\ r.size = kv.size /\ r.head = 0
      /\ Used(r) = {c \in Used(kv) : ids[c] # {}}
      /\ \A c \in Used(r) :
           /\ r.cells[c].pos = kv.cells[c].pos /\ r.cells[c].past = kv.cells[c].past
           /\ r.cells[c].seqs = ids[c]
  <2> DEFINE m == SeqMap(kv, ids)
  <2>1. /\ IsCache(m) /\ m.size = kv.size /\ m.head = 0
        /\ Used(m) = {c \in Used(kv) : ids[c] # {}}
        /\ \A c \in Used(m) :
             /\ m.cells[c].pos = kv.cells[c].pos /\ m.cells[c].past = kv.cells[c].past
             /\ m.cells[c].seqs = ids[c]
    BY SeqMapFacts
  <2>2. r = m
    BY <1>1
  <2> HIDE DEF m
  <2> QED
    BY <2>1, <2>2
<1>4. \A c \in Used(r) : r.cells[c].seqs \subseteq kv.cells[c].seqs \union Active
                         /\ r.cells[c].seqs # {}
  BY <1>2, <1>3
<1>5. ASSUME NEW c \in Used(kv), NEW j \in Active
      PROVE  c \in Used(r) /\ j \in r.cells[c].seqs <=> from[j] \in kv.cells[c].seqs
  <2>1. j \in given(c) <=> from[j] \in kv.cells[c].seqs
    OBVIOUS
  <2>2. j \in given(c) => c \in Used(r)
    BY <1>2, <1>3
  <2>3. c \in Used(r) => r.cells[c].seqs = given(c)
    BY <1>2, <1>3
  <2> HIDE DEF given
  <2> QED
    BY <2>1, <2>2, <2>3
<1> QED
  BY <1>3, <1>4, <1>5 DEF r

LEMMA BeamFill ==
  ASSUME FullInv, CacheParts, SampleBeam
  PROVE  SizeInv' /\ CellInv' /\ FillInv'
<1>1. PICK from \in [Active -> Active] : kv' = Reorganise(from)
  BY DEF SampleBeam
<1>2. pc = "sample" /\ pc' = "next" /\ UNCHANGED <<params, it, taken, i, kvDecoders>>
  BY DEF SampleBeam, audio, choice
<1>3. /\ IsCache(kv) /\ CellsOf(kv, kvDecoders) /\ kv.size = SizeFor(kvDecoders)
      /\ kvDecoders \in 1..WHISPER_MAX_DECODERS /\ NDecoders(T) <= kvDecoders
      /\ \A c \in Used(kv) : c < Fill
  BY <1>2 DEF CacheParts, SizeInv, CellInv, FillInv, Busy
<1>4. /\ IsCache(kv') /\ kv'.size = kv.size /\ kv'.head = 0
      /\ Used(kv') \subseteq Used(kv)
      /\ \A c \in Used(kv') :
           /\ kv'.cells[c].pos = kv.cells[c].pos
           /\ kv'.cells[c].seqs \subseteq kv.cells[c].seqs \union Active
           /\ kv'.cells[c].seqs # {}
  <2> DEFINE r == Reorganise(from)
  <2>1. /\ IsCache(r) /\ r.size = kv.size /\ r.head = 0
        /\ Used(r) \subseteq Used(kv)
        /\ \A c \in Used(r) :
             /\ r.cells[c].pos = kv.cells[c].pos
             /\ r.cells[c].seqs \subseteq kv.cells[c].seqs \union Active
             /\ r.cells[c].seqs # {}
    BY <1>3, ReorganiseFacts
  <2>2. kv' = r
    BY <1>1
  <2> HIDE DEF r
  <2> QED
    BY <2>1, <2>2
<1>5. /\ Fill \in Nat /\ NDecoders(T) \in Nat \ {0} /\ kvDecoders \in Nat \ {0}
      /\ kvDecoders > 1 => Fill + NDecoders(T) < kv.size
      /\ \A j \in Active : j \in 0..kvDecoders - 1
  BY <1>2, <1>3, StepRoom, DecodersType DEF CacheParts, Busy
<1>6. CellsOf(kv', kvDecoders)
  BY <1>3, <1>4, <1>5 DEF CellsOf
<1>7. HasRoom(kv')
  <2>1. kv.size > 0 /\ kv.size \in Nat
    <3>1. TextCtx <= SizeFor(kvDecoders) /\ TextCtx \in Nat /\ TextCtx >= 10
      BY <1>5, SizeFacts, WhisperConstants
    <3> QED
      BY <1>3, <3>1 DEF IsCache
  <2>2. kvDecoders > 1 => kv'.size - 1 \notin Used(kv')
    BY <1>3, <1>4, <1>5, <2>1
  <2>3. kvDecoders = 1 \/ kv'.size - 1 \notin Used(kv')
    BY <1>5, <2>2
  <2> QED
    BY <1>4, <1>5, <1>6, <2>1, <2>3, RoomFacts
<1>8. Fill' = Fill /\ NDecoders(T)' = NDecoders(T)
  BY <1>2 DEF Fill, NPrompt, NDecoders, T, PromptLen, PromptInit
<1>9. FillInv'
  <2>1. \A c \in Used(kv') : c < Fill
    BY <1>3, <1>4
  <2>2. kv'.head <= Fill
    BY <1>4, <1>5
  <2> QED
    BY <1>8, <2>1, <2>2 DEF FillInv
<1>10. SizeInv'
  <2>1. SizeFor(kvDecoders)' = SizeFor(kvDecoders)
    BY <1>2 DEF SizeFor
  <2> QED
    BY <1>2, <1>3, <1>4, <1>8, <2>1 DEF SizeInv
<1>11. CellInv'
  BY <1>2, <1>4, <1>6, <1>7 DEF CellInv, CellsOf, HasRoom, IsCache, Used
<1> QED
  BY <1>9, <1>10, <1>11

LEMMA NextFill ==
  ASSUME FullInv, CacheParts, NextToken
  PROVE  SizeInv' /\ CellInv' /\ FillInv'
<1> DEFINE r == Place(kv, Batch)
<1>1. /\ pc = "next" /\ Active # {} /\ kv' = r
      /\ i' = i + 1 /\ UNCHANGED <<params, it, taken, kvDecoders>>
  BY DEF NextToken, audio, choice
<1>2. /\ IsCache(r) /\ r.size = kv.size /\ r.head <= Fill
      /\ CellsOf(r, kvDecoders) /\ HasRoom(r)
      /\ \A c \in Used(r) : c < Fill + NDecoders(T)
  BY <1>1, BatchPlaced
<1> HIDE DEF r
<1>3. /\ NDecoders(T) \in Nat \ {0} /\ i \in Nat /\ NPrompt \in Nat /\ Fill \in Nat
      /\ kvDecoders \in 1..WHISPER_MAX_DECODERS /\ NDecoders(T) <= kvDecoders
      /\ kv.size = SizeFor(kvDecoders)
  BY <1>1, StepRoom, DecodersType DEF CacheParts, SizeInv, Busy, FullInv
<1>4. Fill' = Fill + NDecoders(T) /\ NDecoders(T)' = NDecoders(T)
  <2> DEFINE n == NDecoders(T)
             p == NPrompt
  <2>1. n' = n /\ p' = p
    BY <1>1 DEF NDecoders, T, NPrompt, PromptLen, PromptInit
  <2>2. Fill = p + n * i /\ Fill' = p + n * (i + 1)
    BY <1>1, <2>1 DEF Fill
  <2>3. n \in Nat /\ p \in Nat
    BY <1>3
  <2> HIDE DEF n, p
  <2>4. Fill' = Fill + n
    BY <1>3, <2>2, <2>3
  <2> QED
    BY <2>1, <2>4 DEF n
<1>5. FillInv'
  <2>1. r \in {kv'} /\ r.head <= Fill' /\ \A c \in Used(r) : c < Fill'
    <3>1. r.head \in Nat
      BY <1>2 DEF IsCache
    <3> QED
      BY <1>1, <1>2, <1>3, <1>4, <3>1
  <2>2. kv'.head <= Fill' /\ \A c \in Used(kv') : c < Fill'
    BY <2>1
  <2> QED
    BY <2>2 DEF FillInv
<1>6. SizeInv'
  <2>1. SizeFor(kvDecoders)' = SizeFor(kvDecoders)
    BY <1>1 DEF SizeFor
  <2> QED
    BY <1>1, <1>2, <1>3, <1>4, <2>1 DEF SizeInv
<1>7. CellInv'
  BY <1>1, <1>2 DEF CellInv, CellsOf, HasRoom, IsCache, Used
<1> QED
  BY <1>5, <1>6, <1>7

LEMMA CacheSame ==
  ASSUME SizeInv, CellInv, UNCHANGED cache, pc' \notin {"sample", "next"}
  PROVE  SizeInv' /\ CellInv' /\ FillInv'
<1>1. /\ kvDecoders \in 1..WHISPER_MAX_DECODERS /\ kv' = kv /\ kvDecoders' = kvDecoders
      /\ IsCache(kv) /\ kv.size = SizeFor(kvDecoders)
      /\ CellsOf(kv, kvDecoders) /\ HasRoom(kv)
  BY DEF SizeInv, CellInv, cache
<1> QED
  BY <1>1, CacheIdle

(* The cache when the prompt cannot be decoded.                             *)
LEMMA FailedFill ==
  ASSUME FullInv, CacheParts, TemperatureFails
  PROVE  SizeInv' /\ CellInv' /\ FillInv'
<1> DEFINE n == NDecoders(T)
           m == Max({kvDecoders, n})
           size == SizeFor(m)
           len == PromptLen(PastTaken)
           k == Place(EmptyCache(size), Prompt(len))
<1>1. /\ m \in 1..WHISPER_MAX_DECODERS /\ m \in Nat \ {0}
      /\ CacheFor(n) = EmptyCache(size)
  <2>1. m \in 1..WHISPER_MAX_DECODERS /\ CacheFor(n) = EmptyCache(SizeFor(m))
    BY CacheForFacts DEF CacheParts
  <2>2. WHISPER_MAX_DECODERS \in Nat
    BY DecodersType
  <2> HIDE DEF n, m
  <2> QED
    BY <2>1, <2>2
<1>2. len \in 3..TextCtx /\ TextCtx \in Nat /\ TextCtx >= 10
  BY TakenType, PromptBound, WhisperConstants DEF CacheParts
<1>3. \/ /\ kv' \in {EmptyCache(size), k} /\ kvDecoders' = m /\ pc' = "idle"
      \/ UNCHANGED cache /\ pc' = "freed"
  <2>1. \/ /\ kv' \in {CacheFor(n), Place(CacheFor(n), Prompt(len))}
           /\ kvDecoders' = m /\ pc' = "idle"
        \/ UNCHANGED cache /\ pc' = "freed"
    BY DEF TemperatureFails, Return
  <2> QED
    BY <1>1, <2>1
<1> HIDE DEF n, m, len
<1>4. SizeFor(m) \in Nat /\ TextCtx <= SizeFor(m)
  BY <1>1, SizeFacts
<1>5. size \in Nat /\ size > 0 /\ len \in Nat /\ len > 0 /\ len <= size
  BY <1>2, <1>4
<1>6. size = SizeFor(m)
  OBVIOUS
<1> HIDE DEF size
<1>7. CASE kv' = EmptyCache(size) /\ kvDecoders' = m /\ pc' = "idle"
  <2> DEFINE e == EmptyCache(size)
  <2>1. IsCache(e) /\ Used(e) = {} /\ e.size = size
    BY <1>5, EmptyFacts
  <2> HIDE DEF e
  <2>2. CellsOf(e, m)
    BY <2>1 DEF CellsOf
  <2>3. HasRoom(e)
    <3>1. 0 \in 0..size - 1
      BY <1>5
    <3> QED
      BY <2>1, <3>1 DEF HasRoom
  <2>4. kv' = e
    BY <1>7 DEF e
  <2> QED
    BY <1>1, <1>6, <1>7, <2>1, <2>2, <2>3, <2>4, CacheIdle
<1>8. CASE kv' = k /\ kvDecoders' = m /\ pc' = "idle"
  <2>1. /\ IsCache(k) /\ k.size = size /\ Used(k) = 0..len - 1
        /\ \A c \in 0..len - 1 : k.cells[c].pos = c /\ k.cells[c].seqs = {0}
    BY <1>5, PromptFacts
  <2> HIDE DEF k
  <2>2. CellsOf(k, m)
    <3>1. {0} \subseteq 0..m - 1 /\ \A c \in 0..len - 1 : c \in 0..TextCtx - 1
      BY <1>1, <1>2
    <3> QED
      BY <2>1, <3>1 DEF CellsOf
  <2>3. HasRoom(k)
    <3>1. 0 \in 0..k.size - 1 /\ 0 \in 0..len - 1
      BY <1>5, <2>1
    <3> QED
      BY <2>1, <3>1 DEF HasRoom
  <2> QED
    BY <1>1, <1>6, <1>8, <2>1, <2>2, <2>3, CacheIdle
<1>9. CASE UNCHANGED cache /\ pc' = "freed"
  BY <1>9, CacheSame DEF CacheParts
<1> QED
  BY <1>3, <1>7, <1>8, <1>9

LEMMA CacheInit == Init => SizeInv /\ CellInv /\ FillInv
<1> SUFFICES ASSUME Init PROVE SizeInv /\ CellInv /\ FillInv
  OBVIOUS
<1>1. /\ pc = "idle" /\ kv = EmptyCache(TextCtx) /\ kvDecoders = 1
      /\ TextCtx \in Nat /\ TextCtx >= 10 /\ 1 \in 1..WHISPER_MAX_DECODERS
  BY WhisperConstants DEF Init
<1>2. IsCache(kv) /\ Used(kv) = {} /\ kv.size = TextCtx
  BY <1>1, EmptyFacts
<1>3. SizeInv
  BY <1>1, <1>2, SizeFacts DEF SizeInv, Busy
<1>4. HasRoom(kv)
  <2>1. 0 \in 0..kv.size - 1
    BY <1>1, <1>2
  <2> QED
    BY <1>2, <2>1 DEF HasRoom
<1> QED
  BY <1>1, <1>2, <1>3, <1>4 DEF CellInv, CellsOf, FillInv, Busy

LEMMA CacheKept == FullInv /\ CacheParts /\ [Next]_vars => SizeInv' /\ CellInv' /\ FillInv'
<1> SUFFICES ASSUME FullInv, CacheParts, [Next]_vars PROVE SizeInv' /\ CellInv' /\ FillInv'
  OBVIOUS
<1>1. SizeInv /\ CellInv /\ FillInv
  BY DEF CacheParts
<1>2. ASSUME UNCHANGED <<params, it, taken, i, kv, kvDecoders>>,
             pc' \in {"sample", "next"} => pc \in {"sample", "next"}
      PROVE  SizeInv' /\ CellInv' /\ FillInv'
  <2>1. Fill' = Fill /\ NDecoders(T)' = NDecoders(T)
    BY <1>2 DEF Fill, NPrompt, NDecoders, T, PromptLen, PromptInit
  <2>2. SizeFor(kvDecoders)' = SizeFor(kvDecoders)
    BY <1>2 DEF SizeFor
  <2>3. Busy' => Busy
    BY <1>2 DEF Busy
  <2>4. SizeInv'
    BY <1>1, <1>2, <2>1, <2>2, <2>3 DEF SizeInv
  <2>5. CellInv'
    BY <1>1, <1>2 DEF CellInv, CellsOf, HasRoom, IsCache, Used
  <2>6. FillInv'
    BY <1>1, <1>2, <2>1, <2>3 DEF FillInv, Used
  <2> QED
    BY <2>4, <2>5, <2>6
<1>3. CASE Call
  BY <1>1, <1>3, CacheSame DEF Call
<1>4. CASE DetectLanguage
  <2> DEFINE r == Place(SeqRm(kv, 0), <<[pos |-> 0, seq |-> 0, past |-> <<>>]>>)
  <2> DEFINE k == SeqRm(kv, 0)
  <2>1. kv' \in {kv, k, r} /\ kvDecoders' = kvDecoders /\ pc' \in {"idle", "chunk"}
    BY <1>4 DEF DetectLanguage, Return
  <2>2. IsCache(r) /\ r.size = kv.size /\ CellsOf(r, kvDecoders) /\ HasRoom(r)
    BY <1>1, DetectCells
  <2>6. IsCache(k) /\ k.size = kv.size /\ CellsOf(k, kvDecoders) /\ HasRoom(k)
    BY <1>1, RemovedCells
  <2> HIDE DEF r, k
  <2>3. /\ kvDecoders \in 1..WHISPER_MAX_DECODERS /\ kv.size = SizeFor(kvDecoders)
        /\ IsCache(kv) /\ CellsOf(kv, kvDecoders) /\ HasRoom(kv)
    BY <1>1 DEF SizeInv, CellInv
  <2>4. CASE kv' = kv
    BY <2>1, <2>3, <2>4, CacheIdle
  <2>5. CASE kv' = r
    BY <2>1, <2>2, <2>3, <2>5, CacheIdle
  <2>7. CASE kv' = k
    BY <2>1, <2>3, <2>6, <2>7, CacheIdle
  <2> QED
    BY <2>1, <2>4, <2>5, <2>7
<1>5. CASE BeginChunk
  BY <1>1, <1>5, CacheSame DEF BeginChunk, Return
<1>6. CASE BeginTemperature
  BY <1>6, BeginFill
<1>7. CASE TemperatureFails
  BY <1>7, FailedFill
<1>8. CASE SampleGreedy
  BY <1>2, <1>8 DEF SampleGreedy, audio, choice, cache
<1>9. CASE SampleBeam
  BY <1>9, BeamFill
<1>10. CASE NextToken
  BY <1>10, NextFill
<1>11. CASE NextTokenFails
  <2> DEFINE r == Place(kv, Batch)
  <2>1. /\ pc = "next" /\ Active # {}
        /\ kv' \in {kv, r} /\ kvDecoders' = kvDecoders /\ pc' = "idle"
    BY <1>11 DEF NextTokenFails, Return
  <2>2. IsCache(r) /\ r.size = kv.size /\ CellsOf(r, kvDecoders) /\ HasRoom(r)
    BY <2>1, BatchPlaced
  <2> HIDE DEF r
  <2>3. /\ kvDecoders \in 1..WHISPER_MAX_DECODERS /\ kv.size = SizeFor(kvDecoders)
        /\ IsCache(kv) /\ CellsOf(kv, kvDecoders) /\ HasRoom(kv)
    BY <1>1 DEF SizeInv, CellInv
  <2>4. CASE kv' = kv
    BY <2>1, <2>3, <2>4, CacheIdle
  <2>5. CASE kv' = r
    BY <2>1, <2>2, <2>3, <2>5, CacheIdle
  <2> QED
    BY <2>1, <2>4, <2>5
<1>12. CASE AllDone
  BY <1>1, <1>12, CacheSame DEF AllDone
<1>13. CASE Rank
  BY <1>1, <1>13, RankType, CacheSame DEF Rank
<1>14. CASE Output
  BY <1>1, <1>14, CacheSame DEF Output
<1>15. CASE UNCHANGED vars
  BY <1>2, <1>15 DEF vars, audio, choice, cache
<1> QED
  BY <1>3, <1>4, <1>5, <1>6, <1>7, <1>8, <1>9, <1>10, <1>11, <1>12, <1>13, <1>14, <1>15
  DEF Next

(* Where a call is, and what it returns.                                    *)
LabelInv ==
  /\ pc \in {"idle", "detect", "chunk", "temperature", "sample", "next",
              "rank", "output", "freed"}
  /\ ret \in {0, -2, -3, -6, -7, -8, -9}

LEMMA LabelKept == FullInv /\ LabelInv /\ [Next]_vars => LabelInv'
<1> SUFFICES ASSUME FullInv, LabelInv, [Next]_vars PROVE LabelInv'
  OBVIOUS
<1>1. CASE Call
  BY <1>1 DEF Call, LabelInv
<1>2. CASE DetectLanguage
  BY <1>2 DEF DetectLanguage, Return, LabelInv
<1>3. CASE BeginChunk
  BY <1>3 DEF BeginChunk, Return, LabelInv
<1>4. CASE BeginTemperature
  BY <1>4 DEF BeginTemperature, LabelInv
<1>5. CASE TemperatureFails
  BY <1>5 DEF TemperatureFails, Return, LabelInv
<1>6. CASE SampleGreedy \/ SampleBeam
  BY <1>6 DEF SampleGreedy, SampleBeam, LabelInv
<1>7. CASE NextToken
  BY <1>7 DEF NextToken, LabelInv
<1>8. CASE NextTokenFails
  BY <1>8 DEF NextTokenFails, Return, LabelInv
<1>9. CASE AllDone
  BY <1>9 DEF AllDone, LabelInv
<1>10. CASE Rank
  <2>1. ret' = ret
    BY <1>10 DEF Rank
  <2> QED
    BY <1>10, <2>1, RankType DEF LabelInv
<1>11. CASE Output
  BY <1>11 DEF Output, LabelInv
<1>12. CASE UNCHANGED vars
  BY <1>12 DEF vars, LabelInv
<1> QED
  BY <1>1, <1>2, <1>3, <1>4, <1>5, <1>6, <1>7, <1>8, <1>9, <1>10, <1>11, <1>12 DEF Next

CacheInv == FullInv /\ CacheParts

LEMMA CacheInvariant == Spec => []CacheInv
<1>1. Init => CacheInv
  BY FullInit, StepInit, CacheInit DEF CacheInv, CacheParts
<1>2. CacheInv /\ [Next]_vars => CacheInv'
  <2> SUFFICES ASSUME CacheInv, [Next]_vars PROVE CacheInv'
    OBVIOUS
  <2>1. FullInv' /\ StepInv'
    BY FullKept, StepKept DEF CacheInv, CacheParts
  <2>2. SizeInv' /\ CellInv' /\ FillInv'
    BY CacheKept DEF CacheInv
  <2> QED
    BY <2>1, <2>2 DEF CacheInv, CacheParts
<1> QED
  BY <1>1, <1>2, PTL DEF Spec

(* The cache holds positions the decoder has an embedding for, no free cell *)
(* keeps a sequence, and results name tokens that were sampled.             *)
THEOREM TypeCorrect == Spec => []TypeOK
<1>1. Init => LabelInv
  BY DEF Init, LabelInv
<1>2. CacheInv /\ LabelInv => TypeOK
  <2> SUFFICES ASSUME CacheInv, LabelInv PROVE TypeOK
    OBVIOUS
  <2>1. FullInv /\ SizeInv /\ CellInv /\ StepInv
    BY DEF CacheInv, CacheParts
  <2>2. best \in DecoderIds /\ i \in 0..NMax
        /\ \A j \in DecoderIds : decoders[j].resultLen <= Len(decoders[j].tokens)
    BY <2>1 DEF FullInv, LengthInv, StepInv
  <2>3. kvDecoders \in 1..WHISPER_MAX_DECODERS /\ WHISPER_MAX_DECODERS \in Nat
    BY <2>1, DecodersType DEF SizeInv
  <2>4. kv.size \in Nat /\ \A c \in Used(kv) : c \in 0..kv.size - 1
    BY <2>1 DEF CellInv, IsCache
  <2>5. \A x \in 0..kvDecoders - 1 : x \in 0..2 * WHISPER_MAX_DECODERS - 1
    BY <2>3
  <2>6. ASSUME NEW c \in Used(kv)
        PROVE  /\ c < kv.size /\ kv.cells[c].pos \in 0..TextCtx - 1
               /\ kv.cells[c].seqs \in (SUBSET (0..2 * WHISPER_MAX_DECODERS - 1)) \ {{}}
    <3> DEFINE q == kv.cells[c].seqs
    <3>1. /\ kv.cells[c].pos \in 0..TextCtx - 1
          /\ q \subseteq 0..kvDecoders - 1 /\ q # {}
      BY <2>1, <2>6 DEF CellInv, CellsOf
    <3>2. c < kv.size
      BY <2>4, <2>6
    <3> HIDE DEF q
    <3>3. \A x \in q : x \in 0..2 * WHISPER_MAX_DECODERS - 1
      BY <2>5, <3>1
    <3>4. q \in SUBSET (0..2 * WHISPER_MAX_DECODERS - 1)
      BY <3>3
    <3>5. q \in (SUBSET (0..2 * WHISPER_MAX_DECODERS - 1)) \ {{}}
      BY <3>1, <3>4
    <3> QED
      BY <3>1, <3>2, <3>5 DEF q
  <2> QED
    BY <2>2, <2>6 DEF TypeOK, LabelInv
<1>3. FullInv /\ LabelInv /\ [Next]_vars => LabelInv'
  BY LabelKept
<1>4. CacheInv => FullInv
  BY DEF CacheInv
<1> QED
  BY <1>1, <1>2, <1>3, <1>4, CacheInvariant, PTL DEF Spec

-----------------------------------------------------------------------------
(* What a decoder attends to: its cells hold the prompt and its tokens but  *)
(* for the last of them, each once.                                         *)
Cells(k, id) == {c \in Used(k) : id \in k.cells[c].seqs}
Holds(k, id, prompt, n, tokens) ==
  /\ \A c \in Cells(k, id) : k.cells[c].pos \in 0..n - 1
  /\ \A c, e \in Cells(k, id) : k.cells[c].pos = k.cells[e].pos => c = e
  /\ \A p \in 0..n - 1 : \E c \in Cells(k, id) :
       k.cells[c].pos = p /\ k.cells[c].past = SubSeq(tokens, 1, p + 1 - prompt)

AttendInv ==
  Busy => \A j \in Active : Holds(kv, j, NPrompt, NPrompt + i, decoders[j].tokens)

LEMMA HoldsSample ==
  ASSUME NEW k, NEW id, NEW prompt \in Nat, NEW n \in Nat, NEW tokens \in Seq(Int),
         n <= prompt + Len(tokens), NEW t \in Int, Holds(k, id, prompt, n, tokens)
  PROVE  Holds(k, id, prompt, n, Append(tokens, t))
<1>1. ASSUME NEW p \in 0..n - 1
      PROVE  SubSeq(Append(tokens, t), 1, p + 1 - prompt) = SubSeq(tokens, 1, p + 1 - prompt)
  <2> DEFINE q == p + 1 - prompt
  <2>1. q \in Int /\ q <= Len(tokens)
    OBVIOUS
  <2> HIDE DEF q
  <2>2. SubSeq(Append(tokens, t), 1, q) = SubSeq(tokens, 1, q)
    BY <2>1
  <2> QED
    BY <2>2 DEF q
<1> DEFINE s == Append(tokens, t)
<1> HIDE DEF s
<1> QED
  BY <1>1 DEF Holds, s

LEMMA HoldsBegin ==
  ASSUME FullInv, CacheParts, BeginTemperature, NEW j \in Active'
  PROVE  Holds(kv, j, NPrompt, NPrompt + i, decoders[j].tokens)'
<1> DEFINE n == NDecoders(T)
           len == PromptLen(PastTaken)
<1>1. /\ n \in Nat \ {0} /\ len \in 3..TextCtx /\ TextCtx \in Nat
      /\ NDecoders(T)' = n /\ NPrompt' = len /\ i' = 0
      /\ Used(kv') = 0..len - 1
      /\ \A c \in 0..len - 1 :
           /\ kv'.cells[c].pos = c /\ kv'.cells[c].past = <<>>
           /\ kv'.cells[c].seqs = {0} \union 0..n - 1
  BY BeginCells, WhisperConstants
<1>2. Current' = 0..n - 1 /\ Current = 0..n - 1
  BY <1>1 DEF Current
<1>3. j \in 0..n - 1
  BY <1>2 DEF Active
<1>4. decoders'[j].tokens = <<>>
  <2>1. decoders' = [e \in DecoderIds |-> IF e \in Current THEN Fresh ELSE decoders[e]]
    BY DEF BeginTemperature
  <2>2. j \in Current /\ j \in DecoderIds
    BY <1>2, <1>3, CurrentType
  <2>3. decoders'[j] = Fresh
    BY <2>1, <2>2
  <2> QED
    BY <2>3, FreshType
<1> DEFINE k == kv'
<1> HIDE DEF n, len, k
<1>5. Cells(k, j) = 0..len - 1 /\ \A c \in 0..len - 1 : k.cells[c].pos = c /\ k.cells[c].past = <<>>
  BY <1>1, <1>3 DEF Cells, k
<1>6. ASSUME NEW p \in 0..len - 1
      PROVE  SubSeq(<<>>, 1, p + 1 - len) = <<>>
  <2> DEFINE q == p + 1 - len
             s == <<>>
  <2>1. q \in Int /\ q <= 0 /\ s \in Seq(Int) /\ Len(s) = 0 /\ s = <<>>
    BY <1>1
  <2> HIDE DEF q, s
  <2>2. SubSeq(s, 1, q) = <<>>
    BY <2>1
  <2> QED
    BY <2>1, <2>2 DEF q
<1>7. Holds(k, j, len, len, <<>>)
  <2>1. \A c \in Cells(k, j) : k.cells[c].pos \in 0..len - 1
    BY <1>5
  <2>2. \A c, e \in Cells(k, j) : k.cells[c].pos = k.cells[e].pos => c = e
    BY <1>5
  <2>3. ASSUME NEW p \in 0..len - 1
        PROVE  /\ p \in Cells(k, j) /\ k.cells[p].pos = p
               /\ k.cells[p].past = SubSeq(<<>>, 1, p + 1 - len)
    BY <1>5, <1>6
  <2> QED
    BY <2>1, <2>2, <2>3 DEF Holds
<1>8. kv' = k /\ NPrompt' = len /\ NPrompt' + i' = len /\ decoders'[j].tokens = <<>>
  BY <1>1, <1>4 DEF k
<1>9. Holds(kv, j, NPrompt, NPrompt + i, decoders[j].tokens)' = Holds(k, j, len, len, <<>>)
  BY <1>8 DEF Holds, Cells, Used
<1> QED
  BY <1>7, <1>9

(* A decoder that takes over another's sequence takes over its cells.       *)
LEMMA HoldsMoved ==
  ASSUME NEW k, NEW r, NEW id, NEW other, NEW prompt, NEW n, NEW tokens,
         Holds(k, other, prompt, n, tokens),
         Used(r) \subseteq Used(k),
         \A c \in Used(r) :
           r.cells[c].pos = k.cells[c].pos /\ r.cells[c].past = k.cells[c].past,
         \A c \in Used(k) :
           c \in Used(r) /\ id \in r.cells[c].seqs <=> other \in k.cells[c].seqs
  PROVE  Holds(r, id, prompt, n, tokens)
<1>1. Cells(r, id) = Cells(k, other)
  BY DEF Cells
<1>2. \A c \in Cells(r, id) :
        r.cells[c].pos = k.cells[c].pos /\ r.cells[c].past = k.cells[c].past
  BY DEF Cells
<1> QED
  BY <1>1, <1>2 DEF Holds

(* The tokens after a draw: those of the decoder drawn from, and one more.  *)
LEMMA TokensDrawn ==
  ASSUME FullInv, pc = "sample", NEW from \in [Active -> Active],
         decoders' \in Draws(from), UNCHANGED <<params, it>>, NEW j \in Active'
  PROVE  /\ j \in Active /\ from[j] \in Active
         /\ decoders[from[j]].tokens \in Seq(Int) /\ Len(decoders[from[j]].tokens) = i
         /\ \E t \in Int : decoders'[j].tokens = Append(decoders[from[j]].tokens, t)
<1>1. j \in Active
  <2>1. Current' = Current
    BY DEF Current, NDecoders, T
  <2>2. j \in Current /\ j \in DecoderIds
    BY <2>1, CurrentType DEF Active
  <2>3. j \notin Active => decoders'[j] = decoders[j]
    BY <2>2, DrawsFacts
  <2>4. ~decoders'[j].completed /\ ~decoders'[j].failed
    BY DEF Active
  <2> QED
    BY <2>2, <2>3, <2>4 DEF Active
<1> DEFINE d == decoders[from[j]]
<1>2. /\ from[j] \in Active /\ from[j] \in DecoderIds
      /\ Len(d.tokens) = i /\ d.resultLen <= i
      /\ \E new \in Samples(d) : decoders'[j] = Updated(new)
  <2>1. \A k \in Active : k \in DecoderIds
    BY CurrentType
  <2> QED
    BY <1>1, <2>1, DrawsFacts
<1>3. d \in Decoders /\ d.tokens \in Seq(Int) /\ i \in Nat
  BY <1>2 DEF FullInv, Decoders
<1> HIDE DEF d
<1>4. PICK new \in Samples(d) : decoders'[j] = Updated(new)
  BY <1>2
<1>5. PICK t : Sampled(d, new, t)
  BY <1>3, <1>4, SampledFacts
<1>6. /\ new \in Decoders /\ t \in Int /\ t <= ChunkLen
      /\ new.tokens = Append(d.tokens, t) /\ new.resultLen <= i
  BY <1>2, <1>5 DEF Sampled
<1>7. Len(new.tokens) = i + 1 /\ new.tokens[i + 1] = t
  BY <1>2, <1>3, <1>6
<1>8. Updated(new).tokens = new.tokens
  BY <1>6, <1>7, UpdatedType
<1>9. decoders'[j].tokens = Append(d.tokens, t)
  BY <1>4, <1>6, <1>8
<1> QED
  BY <1>1, <1>2, <1>3, <1>6, <1>9 DEF d

LEMMA HoldsDraws ==
  ASSUME FullInv, CacheParts, AttendInv, pc = "sample", NEW from \in [Active -> Active],
         decoders' \in Draws(from), UNCHANGED <<params, it, taken, i>>,
         kv' = Reorganise(from) \/ (kv' = kv /\ \A j \in Active : from[j] = j),
         NEW j \in Active'
  PROVE  Holds(kv, j, NPrompt, NPrompt + i, decoders[j].tokens)'
<1> DEFINE f == from[j]
           old == decoders[f].tokens
<1>1. j \in Active /\ f \in Active /\ old \in Seq(Int) /\ Len(old) = i
  BY TokensDrawn
<1>2. PICK t \in Int : decoders'[j].tokens = Append(old, t)
  BY TokensDrawn
<1>3. NPrompt \in Nat /\ i \in Nat
  BY StepRoom DEF CacheParts, Busy, FullInv
<1>4. Holds(kv, f, NPrompt, NPrompt + i, old)
  BY <1>1 DEF AttendInv, Busy
<1>5. NPrompt' = NPrompt /\ i' = i
  BY DEF NPrompt, PromptLen, PromptInit
<1> DEFINE k == kv'
           prompt == NPrompt
           n == NPrompt + i
<1>6. Holds(k, j, prompt, n, old)
  <2>1. CASE kv' = kv /\ f = j
    BY <1>4, <2>1
  <2>2. CASE kv' = Reorganise(from)
    <3> DEFINE r == Reorganise(from)
    <3>1. IsCache(kv)
      BY DEF CacheParts, CellInv
    <3>2. /\ Used(r) \subseteq Used(kv)
          /\ \A c \in Used(r) :
               r.cells[c].pos = kv.cells[c].pos /\ r.cells[c].past = kv.cells[c].past
          /\ \A c \in Used(kv), id \in Active :
               c \in Used(r) /\ id \in r.cells[c].seqs <=> from[id] \in kv.cells[c].seqs
      BY <3>1, ReorganiseFacts
    <3>3. \A c \in Used(kv) : c \in Used(r) /\ j \in r.cells[c].seqs <=> f \in kv.cells[c].seqs
      BY <1>1, <3>2
    <3> HIDE DEF r, f, old, prompt, n
    <3>4. Holds(kv, f, prompt, n, old)
      BY <1>4 DEF prompt, n
    <3>5. Holds(r, j, prompt, n, old)
      BY <3>2, <3>3, <3>4, HoldsMoved
    <3>6. k = r
      BY <2>2 DEF r
    <3> QED
      BY <3>5, <3>6
  <2> QED
    BY <1>1, <2>1, <2>2
<1> HIDE DEF k, old, prompt, n
<1>7. prompt \in Nat /\ n \in Nat /\ n <= prompt + Len(old)
  BY <1>1, <1>3 DEF prompt, n
<1>8. Holds(k, j, prompt, n, Append(old, t))
  BY <1>1, <1>6, <1>7, HoldsSample
<1> DEFINE tokens == Append(old, t)
<1>9. /\ kv' = k /\ NPrompt' = prompt /\ NPrompt' + i' = n
      /\ decoders'[j].tokens = tokens /\ Holds(k, j, prompt, n, tokens)
  BY <1>2, <1>5, <1>8 DEF k, prompt, n
<1> HIDE DEF tokens
<1> QED
  BY <1>9 DEF Holds, Cells, Used

(* The new cell of a decoder holds its last token.                          *)
LEMMA HoldsNext ==
  ASSUME FullInv, CacheParts, AttendInv, pc = "next", NEW j \in Active,
         Len(decoders[j].tokens) = i + 1
  PROVE  Holds(Place(kv, Batch), j, NPrompt, NPrompt + i + 1, decoders[j].tokens)
<1> DEFINE size == Cardinality(Active)
           s == Slot(kv, size)
           r == Place(kv, Batch)
           tokens == decoders[j].tokens
           n == NPrompt + i
           prompt == NPrompt
<1>1. /\ s \in Nat
      /\ Used(r) = Used(kv) \union s..s + size - 1
      /\ \A c \in Used(kv) : c \notin s..s + size - 1 /\ r.cells[c] = kv.cells[c]
      /\ \A c \in s..s + size - 1 :
           /\ c - s + 1 \in 1..size
           /\ r.cells[c].pos = n
           /\ r.cells[c].seqs = {ActiveSeq[c - s + 1]}
           /\ r.cells[c].past = decoders[ActiveSeq[c - s + 1]].tokens
  <2>1. Active # {}
    OBVIOUS
  <2> QED
    BY <2>1, BatchCells
<1>2. /\ size \in Nat
      /\ \A b, c \in 1..size : ActiveSeq[b] = ActiveSeq[c] => b = c
      /\ \E b \in 1..size : ActiveSeq[b] = j
  BY ActiveFinite, ActiveSeqFacts
<1>3. prompt \in Nat /\ i \in Nat /\ n \in Nat /\ n = prompt + i
  BY StepRoom DEF CacheParts, Busy, FullInv
<1>4. Holds(kv, j, prompt, n, tokens)
  BY DEF AttendInv, Busy
<1>5. tokens \in Seq(Int) /\ Len(tokens) = i + 1
  <2>1. j \in DecoderIds
    BY CurrentType
  <2>2. decoders[j] \in Decoders
    BY <2>1 DEF FullInv
  <2> QED
    BY <2>2 DEF Decoders
<1> HIDE DEF size, s, r, tokens, n, prompt
<1>6. PICK b \in 1..size : ActiveSeq[b] = j
  BY <1>2
<1> DEFINE e == s + b - 1
<1>7. e \in s..s + size - 1 /\ e - s + 1 = b
  BY <1>1, <1>2, <1>6
<1> HIDE DEF e
<1>8. e \in Cells(r, j) /\ r.cells[e].pos = n /\ r.cells[e].past = tokens
  BY <1>1, <1>6, <1>7 DEF Cells, tokens
<1>9. \A c \in s..s + size - 1 : j \in r.cells[c].seqs => c = e
  <2> SUFFICES ASSUME NEW c \in s..s + size - 1, j \in r.cells[c].seqs PROVE c = e
    OBVIOUS
  <2>1. ActiveSeq[c - s + 1] = j /\ c - s + 1 \in 1..size
    BY <1>1
  <2>2. c - s + 1 = b
    BY <1>2, <1>6, <2>1
  <2> QED
    BY <1>1, <1>7, <2>2
<1>10. Cells(r, j) = Cells(kv, j) \union {e}
  <2>1. \A c \in Used(kv) : c \in Cells(r, j) <=> c \in Cells(kv, j)
    BY <1>1 DEF Cells
  <2>2. \A c \in Cells(r, j) : c \in Used(kv) \/ c = e
    BY <1>1, <1>9 DEF Cells
  <2>3. Cells(kv, j) \subseteq Used(kv)
    BY DEF Cells
  <2> QED
    BY <1>8, <2>1, <2>2, <2>3
<1>11. \A c \in Cells(kv, j) : r.cells[c] = kv.cells[c] /\ kv.cells[c].pos \in 0..n - 1
  BY <1>1, <1>4 DEF Cells, Holds
<1>12. SubSeq(tokens, 1, n + 1 - prompt) = tokens
  <2> DEFINE q == n + 1 - prompt
  <2>1. q = i + 1 /\ q = Len(tokens)
    BY <1>3, <1>5
  <2> HIDE DEF q
  <2>2. SubSeq(tokens, 1, q) = tokens
    BY <1>5, <2>1
  <2> QED
    BY <2>2 DEF q
<1>13. \A c \in Cells(r, j) : r.cells[c].pos \in 0..n
  BY <1>3, <1>8, <1>10, <1>11
<1>14. ASSUME NEW c \in Cells(r, j), NEW f \in Cells(r, j), r.cells[c].pos = r.cells[f].pos
       PROVE  c = f
  <2>1. \A x \in Cells(kv, j) : r.cells[x].pos # n
    BY <1>3, <1>11
  <2>2. CASE c \in Cells(kv, j) /\ f \in Cells(kv, j)
    BY <1>4, <1>11, <1>14, <2>2 DEF Holds
  <2>3. CASE c = e \/ f = e
    BY <1>8, <1>10, <1>14, <2>1, <2>3
  <2> QED
    BY <1>10, <2>2, <2>3
<1>15. ASSUME NEW p \in 0..n
       PROVE  \E c \in Cells(r, j) :
                r.cells[c].pos = p /\ r.cells[c].past = SubSeq(tokens, 1, p + 1 - prompt)
  <2>1. CASE p = n
    BY <1>8, <1>12, <2>1
  <2>2. CASE p \in 0..n - 1
    <3>1. PICK c \in Cells(kv, j) :
            kv.cells[c].pos = p /\ kv.cells[c].past = SubSeq(tokens, 1, p + 1 - prompt)
      BY <1>4, <2>2 DEF Holds
    <3> QED
      BY <1>10, <1>11, <3>1
  <2> QED
    BY <1>3, <2>1, <2>2
<1> DEFINE next == n + 1
<1>16. 0..next - 1 = 0..n
  BY <1>3
<1> HIDE DEF next
<1>17. Holds(r, j, prompt, next, tokens)
  BY <1>13, <1>14, <1>15, <1>16 DEF Holds
<1> QED
  BY <1>17 DEF r, prompt, n, tokens, next

LEMMA AttendKept ==
  ASSUME FullInv, CacheParts, AttendInv, [Next]_vars
  PROVE  AttendInv'
<1>1. ASSUME pc' \notin {"sample", "next"} PROVE AttendInv'
  BY <1>1 DEF AttendInv, Busy
<1>2. CASE Call \/ DetectLanguage \/ BeginChunk \/ TemperatureFails
           \/ NextTokenFails \/ AllDone \/ Output
  BY <1>1, <1>2 DEF Call, DetectLanguage, BeginChunk, TemperatureFails, NextTokenFails,
       AllDone, Output, Return
<1>3. CASE Rank
  BY <1>1, <1>3, RankType
<1>4. CASE BeginTemperature
  BY <1>4, HoldsBegin DEF AttendInv
<1>5. CASE SampleGreedy
  <2> DEFINE from == [j \in Active |-> j]
  <2>1. from \in [Active -> Active] /\ \A j \in Active : from[j] = j
    OBVIOUS
  <2>2. /\ pc = "sample" /\ decoders' \in Draws(from)
        /\ UNCHANGED <<params, it, taken, i>> /\ kv' = kv
    BY <1>5 DEF SampleGreedy, audio, choice, cache
  <2> HIDE DEF from
  <2>3. ASSUME NEW j \in Active'
        PROVE  Holds(kv, j, NPrompt, NPrompt + i, decoders[j].tokens)'
    BY <2>1, <2>2, <2>3, HoldsDraws
  <2> QED
    BY <2>3 DEF AttendInv
<1>6. CASE SampleBeam
  <2>1. PICK from \in [Active -> Active] : kv' = Reorganise(from) /\ decoders' \in Draws(from)
    BY <1>6 DEF SampleBeam
  <2>2. pc = "sample" /\ UNCHANGED <<params, it, taken, i>>
    BY <1>6 DEF SampleBeam, audio, choice
  <2>3. ASSUME NEW j \in Active'
        PROVE  Holds(kv, j, NPrompt, NPrompt + i, decoders[j].tokens)'
    BY <2>1, <2>2, <2>3, HoldsDraws
  <2> QED
    BY <2>3 DEF AttendInv
<1>7. CASE NextToken
  <2> DEFINE r == Place(kv, Batch)
  <2>1. /\ pc = "next" /\ kv' = r /\ i' = i + 1
        /\ UNCHANGED <<params, it, taken, decoders>>
    BY <1>7 DEF NextToken, audio, choice
  <2>2. Active' = Active /\ NPrompt' = NPrompt
    BY <2>1 DEF Active, Current, NDecoders, T, NPrompt, PromptLen, PromptInit
  <2>3. ASSUME NEW j \in Active
        PROVE  Holds(r, j, NPrompt, NPrompt + i + 1, decoders[j].tokens)
    <3>1. Len(decoders[j].tokens) = i + 1
      BY <2>1 DEF FullInv, LengthInv
    <3> QED
      BY <2>1, <3>1, HoldsNext
  <2> HIDE DEF r
  <2>4. NPrompt + (i + 1) = NPrompt + i + 1
    BY <2>1, StepRoom DEF CacheParts, Busy, FullInv
  <2> DEFINE prompt == NPrompt
             n == NPrompt + i + 1
  <2>5. NPrompt' = prompt /\ NPrompt' + i' = n
    BY <2>1, <2>2, <2>4
  <2>6. \A j \in Active : Holds(r, j, prompt, n, decoders[j].tokens)
    BY <2>3
  <2> HIDE DEF prompt, n
  <2>7. ASSUME NEW j \in Active'
        PROVE  Holds(kv, j, NPrompt, NPrompt + i, decoders[j].tokens)'
    <3> DEFINE tokens == decoders[j].tokens
    <3>1. decoders'[j].tokens = tokens /\ Holds(r, j, prompt, n, tokens)
      BY <2>1, <2>2, <2>6
    <3> HIDE DEF tokens
    <3> QED
      BY <2>1, <2>5, <3>1 DEF Holds, Cells, Used
  <2> QED
    BY <2>7 DEF AttendInv
<1>8. CASE UNCHANGED vars
  <2>1. UNCHANGED <<params, pc, it, taken, i, decoders, kv>>
    BY <1>8 DEF vars, audio, choice, cache
  <2>2. Active' = Active /\ NPrompt' = NPrompt /\ Busy' = Busy
    BY <2>1 DEF Active, Current, NDecoders, T, NPrompt, PromptLen, PromptInit, Busy
  <2> QED
    BY <2>1, <2>2 DEF AttendInv, Holds, Cells, Used
<1> QED
  BY <1>2, <1>3, <1>4, <1>5, <1>6, <1>7, <1>8 DEF Next

(* The cells of a decoder are all read, and as many as its positions.       *)
Sees(k, id, prompt, n, tokens) ==
  LET seen == Visible(k, id, n - 1) IN
  /\ Cardinality(seen) = n
  /\ \A p \in 0..n - 1 : \E c \in seen :
       k.cells[c].pos = p /\ k.cells[c].past = SubSeq(tokens, 1, p + 1 - prompt)

LEMMA HoldsSeen ==
  ASSUME NEW k, IsCache(k), NEW id, NEW prompt, NEW n \in Nat, NEW tokens,
         Holds(k, id, prompt, n, tokens)
  PROVE  Sees(k, id, prompt, n, tokens)
<1> DEFINE seen == Visible(k, id, n - 1)
<1>1. \A c \in Used(k) : c < CellMax(k)
  <2> DEFINE S == {0} \union Used(k)
  <2>1. k.size \in Nat /\ \A c \in Used(k) : c \in 0..k.size - 1
    BY DEF IsCache
  <2>2. S \in SUBSET (0..k.size) /\ S # {}
    <3>1. \A c \in S : c \in 0..k.size
      BY <2>1
    <3> HIDE DEF S
    <3>2. S \in SUBSET (0..k.size)
      BY <3>1
    <3> QED
      BY <3>2 DEF S
  <2>3. CellMax(k) = Max(S) + 1
    BY DEF CellMax
  <2> HIDE DEF S
  <2>4. Max(S) \in S /\ \A c \in S : c <= Max(S)
    BY <2>1, <2>2, LargestNat
  <2>5. \A c \in S : c \in Int
    BY <2>2
  <2>6. \A c \in S : c < Max(S) + 1
    BY <2>4, <2>5
  <2> QED
    BY <2>3, <2>6 DEF S
<1>2. seen = Cells(k, id)
  <2>1. \A c \in Cells(k, id) : k.cells[c].pos <= n - 1
    BY DEF Holds
  <2> QED
    BY <1>1, <2>1 DEF Visible, Cells
<1> HIDE DEF seen
<1> DEFINE f == [c \in seen |-> k.cells[c].pos]
           S == 0..n - 1
<1>3. f \in Injection(seen, S)
  <2>1. f \in [seen -> S]
    BY <1>2 DEF Holds
  <2>2. \A c, e \in seen : f[c] = f[e] => c = e
    BY <1>2 DEF Holds
  <2>3. DOMAIN f = seen
    OBVIOUS
  <2> HIDE DEF f, S
  <2> QED
    BY <2>1, <2>2, <2>3 DEF Injection, IsInjective
<1>4. f \in Surjection(seen, S)
  <2>1. f \in [seen -> S]
    BY <1>2 DEF Holds
  <2>2. \A p \in S : \E c \in seen : f[c] = p
    BY <1>2 DEF Holds
  <2> HIDE DEF f, S
  <2> QED
    BY <2>1, <2>2 DEF Surjection
<1> HIDE DEF f
<1>5. IsFiniteSet(S) /\ Cardinality(S) = n
  BY FS_Interval
<1> HIDE DEF S
<1>6. Cardinality(seen) = Cardinality(S)
  BY <1>3, <1>4, <1>5, FS_Injection
<1>7. \A p \in 0..n - 1 : \E c \in seen :
        k.cells[c].pos = p /\ k.cells[c].past = SubSeq(tokens, 1, p + 1 - prompt)
  BY <1>2 DEF Holds
<1> QED
  BY <1>5, <1>6, <1>7 DEF Sees, seen

LEMMA AttendSafe ==
  ASSUME CacheInv, AttendInv
  PROVE  AttendsToOwnPast
<1>1. FullInv /\ CacheParts /\ IsCache(kv)
  BY DEF CacheInv, CacheParts, CellInv
<1>2. ASSUME pc = "sample", NEW j \in Active
      PROVE  LET tokens == decoders[j].tokens
                 n == NPrompt + Len(tokens)
                 seen == Visible(kv, j, n - 1)
             IN /\ Cardinality(seen) = n
                /\ \A p \in 0..n - 1 : \E c \in seen :
                     /\ kv.cells[c].pos = p
                     /\ kv.cells[c].past = SubSeq(tokens, 1, p + 1 - NPrompt)
  <2> DEFINE tokens == decoders[j].tokens
             n == NPrompt + i
             prompt == NPrompt
  <2>1. Len(tokens) = i
    BY <1>1, <1>2 DEF FullInv, LengthInv
  <2>2. n \in Nat
    BY <1>1, <1>2, StepRoom DEF CacheParts, Busy
  <2>3. Holds(kv, j, prompt, n, tokens)
    BY <1>2 DEF AttendInv, Busy
  <2> HIDE DEF tokens, n, prompt
  <2>4. Sees(kv, j, prompt, n, tokens)
    BY <1>1, <2>2, <2>3, HoldsSeen
  <2>5. n = NPrompt + Len(tokens)
    BY <2>1 DEF n
  <2> QED
    BY <2>4, <2>5 DEF Sees, tokens, prompt
<1>3. ASSUME pc = "next" PROVE HasSlot(kv, Cardinality(Active))
  <2>1. CASE Active # {}
    BY <1>1, <1>3, <2>1, NextSlot
  <2>2. CASE Active = {}
    <3>1. Cardinality(Active) = 0
      BY <2>2, FS_EmptySet
    <3>2. kv.size \in Nat
      BY <1>1 DEF IsCache
    <3>3. 0 \in 0..kv.size - 0 /\ 0..0 + 0 - 1 = {}
      BY <3>2
    <3>4. HasSlot(kv, 0)
      BY <3>2, <3>3 DEF HasSlot, Slots
    <3> QED
      BY <3>1, <3>4
  <2> QED
    BY <2>1, <2>2
<1>4. HasSlot(SeqRm(kv, 0), 1)
  BY <1>1, DetectSlot DEF CacheParts
<1> QED
  BY <1>2, <1>3, <1>4 DEF AttendsToOwnPast

(* Whatever decoders were completed, failed or moved to the sequence of     *)
(* another by whisper_kv_cache_seq_rm and seq_cp, a decoder that samples    *)
(* attends to the prompt and to its own tokens, to each once, and           *)
(* whisper_kv_cache_find_slot finds room for the next tokens: with as many  *)
(* decoders as there may be, and a context of any length.                   *)
THEOREM OwnPast == Spec => []AttendsToOwnPast
<1>1. Init => AttendInv
  BY DEF Init, AttendInv, Busy
<1>2. CacheInv /\ AttendInv /\ [Next]_vars => AttendInv'
  BY AttendKept DEF CacheInv
<1>3. CacheInv /\ AttendInv => AttendsToOwnPast
  BY AttendSafe
<1> QED
  BY <1>1, <1>2, <1>3, CacheInvariant, PTL DEF Spec
=============================================================================
