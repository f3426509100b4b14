---------------------------- MODULE WhisperFull ----------------------------
(***************************************************************************)
(* whisper.cpp: whisper_full_with_state, with the KV cache of its decoders. *)
(* The audio is cut into chunks where the decoder's own timestamps end.  A  *)
(* chunk is decoded at one temperature after another until a decoder        *)
(* succeeds; at a temperature several decoders sample a sequence each, and  *)
(* beam search moves them to one another's sequences.                       *)
(*                                                                          *)
(* Times are in units of two frames of the spectrogram, so that a timestamp *)
(* token stands for its own number of units.  Token ids are relative to     *)
(* token_beg: timestamps are 0, 1, ..., the end of text -1, texts below.    *)
(* Probabilities, scores and entropies are left open.  The prompt is its    *)
(* length.                                                                  *)
(***************************************************************************)
EXTENDS Integers, KVCache, SequencesExt

CONSTANTS
  TextCtx,   \* n_text_ctx
  TokenBeg,  \* whisper_token_beg: the distance of id 0
  Text,      \* texts, ids below the end of text
  ChunkLen,  \* WHISPER_CHUNK_SIZE
  DeltaMin,  \* delta_min
  NearEnd,   \* where past text is dropped, 500 frames
  MaxInitialTs, \* max_initial_ts
  LongLen,   \* results longer than this are tested for entropy, 32
  Params,    \* params of a call: strategy, bestOf, beamSize, temperatures in
             \* tenths, noTimestamps, prompt (the length of an initial one)
  WHISPER_MAX_DECODERS, \* 8
  Lengths    \* seek_end, how long recordings are

Eot == -1

(* Half of the context has room for a token after the sot sequence; texts   *)
(* come before the end of the text; a call never asks for more decoders     *)
(* than there are.                                                          *)
ASSUME WhisperConstants ==
  /\ TextCtx \in Nat /\ TextCtx >= 10 /\ TextCtx = 2 * (TextCtx \div 2)
  /\ ChunkLen \in Nat \ {0} /\ DeltaMin \in Nat /\ TokenBeg \in Nat
  /\ \A t \in Text : t \in Int /\ t < Eot
  /\ WHISPER_MAX_DECODERS \in Nat \ {0}
  /\ \A p \in Params :
       /\ {p.bestOf, p.beamSize} \subseteq 1..WHISPER_MAX_DECODERS
       /\ p.prompt \in Nat /\ p.noTimestamps \in BOOLEAN
  /\ Lengths \subseteq Nat

VARIABLES
  params, seekEnd,
  pc, ret,
  seek,
  promptPast,   \* prompt_past.size()
  it, best,     \* the temperature, best_decoder_id
  taken,        \* how much of prompt_past is in the prompt
  i,            \* the token that is sampled
  decoders,     \* state->decoders
  kv, kvDecoders, \* kv_self, kv_self_n_dec
  silent,       \* is_no_speech
  result        \* result_all: its last segment as 0, and what a chunk has
                \* added by the tokens the segments end at

audio  == <<params, seekEnd>>
chunk  == <<seek, promptPast>>
cache  == <<kv, kvDecoders>>
choice == <<it, best, silent>>
vars == <<audio, pc, ret, chunk, choice, taken, i, decoders, cache, result>>

(* n_decoders_cur at temperature t                                          *)
NDecoders(t) ==
  IF params.strategy = "beam" /\ t = 0 THEN params.beamSize
  ELSE IF params.strategy = "beam" \/ t > 0 THEN params.bestOf
  ELSE 1
T  == params.temperatures[it]
Current == 0..NDecoders(T) - 1
DecoderIds == 0..WHISPER_MAX_DECODERS - 1

Fresh == [tokens |-> <<>>, tid |-> 0, resultLen |-> 0, seekDelta |-> ChunkLen,
          failed |-> FALSE, completed |-> FALSE, hasTs |-> FALSE]

(* prompt_init: sot, language, task, and no_timestamps                      *)
PromptInit == IF params.noTimestamps THEN 4 ELSE 3
(* n_max, how many tokens are sampled                                       *)
NMax == TextCtx \div 2 - 4
PromptLen(past) == PromptInit + (IF past > 0 THEN 1 + past ELSE 0)
NPrompt == PromptLen(taken)

Init ==
  /\ params \in Params /\ seekEnd = 0
  /\ pc = "idle" /\ ret = 0
  /\ seek = 0 /\ promptPast = 0
  /\ it = 1 /\ best = 0 /\ silent = FALSE
  /\ taken = 0 /\ i = 0
  /\ decoders = [j \in DecoderIds |-> Fresh]
  /\ kv = EmptyCache(TextCtx) /\ kvDecoders = 1
  /\ result = <<>>

(* What a chunk leaves in the decoders is not read again.                   *)
ForgetChunk ==
  /\ decoders' = [j \in DecoderIds |-> Fresh]
  /\ it' = 1 /\ best' = 0 /\ silent' = FALSE
  /\ taken' = 0 /\ i' = 0

Return(code) ==
  /\ pc' = "idle" /\ ret' = code
  /\ seek' = 0 /\ promptPast' = 0
  /\ ForgetChunk

-----------------------------------------------------------------------------
(* A call begins; the spectrogram may fail.                                 *)
Call ==
  /\ pc = "idle"
  /\ params' \in Params /\ seekEnd' \in Lengths
  /\ result' = <<>>
  /\ \/ pc' = "detect" /\ ret' = 0
     \/ pc' = "idle"   /\ ret' = -2
  /\ UNCHANGED <<chunk, choice, taken, i, decoders, cache>>

(* whisper_lang_auto_detect_with_state decodes one token as sequence 0, on  *)
(* what a call before has left in the cache.  It may fail before it touches *)
(* the cache, when it has removed the sequence, and when the token has its  *)
(* cell.  Very short input ends here; an initial prompt is taken for past   *)
(* text.                                                                    *)
DetectLanguage ==
  /\ pc = "detect"
  /\ \/ Return(-3) /\ kv' \in {kv, SeqRm(kv, 0)}
     \/ LET rest == SeqRm(kv, 0) IN
        /\ HasSlot(rest, 1)
        /\ kv' = Place(rest, <<[pos |-> 0, seq |-> 0, past |-> <<>>]>>)
        /\ \/ Return(-3)
           \/ seekEnd < DeltaMin /\ Return(0)
           \/ /\ seekEnd >= DeltaMin
              /\ pc' = "chunk" /\ promptPast' = params.prompt
              /\ UNCHANGED <<ret, seek, choice, taken, i, decoders>>
  /\ UNCHANGED <<audio, kvDecoders, result>>

(* The head of the main loop: stop, or encode the next chunk.               *)
BeginChunk ==
  /\ pc = "chunk"
  /\ result' = [n \in {0 : m \in DOMAIN result} |-> result[Max(DOMAIN result)]]
  /\ \/ seek + DeltaMin >= seekEnd /\ Return(0)
     \/ seek + DeltaMin < seekEnd /\ Return(-6)
     \/ /\ seek + DeltaMin < seekEnd
        /\ pc' = "temperature"
        /\ promptPast' = IF seek > 0 /\ seek + NearEnd >= seekEnd THEN 0
                         ELSE promptPast
        /\ UNCHANGED <<ret, seek, choice, taken, i, decoders>>
  /\ UNCHANGED <<audio, cache>>

-----------------------------------------------------------------------------
(* A temperature begins: the decoders and the cache are cleared, the prompt *)
(* is decoded as sequence 0, and the other decoders join it.                *)

Prompt(n) == [p \in 1..n |-> [pos |-> p - 1, seq |-> 0, past |-> <<>>]]

(* Fault: the past text may fill the context.                               *)
PastWhole == IF T < 5 THEN promptPast ELSE 0
(* How much of the past text the prompt takes: half the context at most.    *)
PastTaken ==
  IF T < 5 THEN Min({promptPast, TextCtx \div 2}) ELSE 0

CacheFor(n) ==
  EmptyCache(IF kvDecoders >= n THEN kv.size
             ELSE TextCtx * (IF n > 1 THEN n + 2 ELSE 1))
Join(cells, n) ==
  SeqMap(cells, [c \in Used(cells) |-> cells.cells[c].seqs \union 0..n - 1])

BeginTemperature ==
  /\ pc = "temperature"
  /\ decoders' = [j \in DecoderIds |-> IF j \in Current THEN Fresh ELSE decoders[j]]
  /\ taken' = PastTaken
  /\ kvDecoders' = Max({kvDecoders, NDecoders(T)})
  /\ LET empty == CacheFor(NDecoders(T))
         n == PromptLen(PastTaken)
     IN /\ HasSlot(empty, n)
        /\ kv' = Join(Place(empty, Prompt(n)), NDecoders(T))
  /\ i' = 0
  /\ pc' = "sample"
  /\ UNCHANGED <<audio, ret, chunk, choice, result>>

(* The prompt cannot be decoded, -8, before or after it is given cells.  No *)
(* memory for a larger cache: -7, and the state is freed, so that no call   *)
(* may follow.                                                              *)
TemperatureFails ==
  /\ pc = "temperature"
  /\ \/ /\ LET empty == CacheFor(NDecoders(T))
               n == PromptLen(PastTaken)
           IN \/ kv' = empty
              \/ HasSlot(empty, n) /\ kv' = Place(empty, Prompt(n))
        /\ kvDecoders' = Max({kvDecoders, NDecoders(T)})
        /\ Return(-8)
     \/ /\ kvDecoders < NDecoders(T)
        /\ pc' = "freed" /\ ret' = -7
        /\ UNCHANGED <<chunk, cache>>
        /\ ForgetChunk
  /\ UNCHANGED <<audio, result>>

-----------------------------------------------------------------------------
(* The decoders that are still at work.                                     *)
Active == {j \in Current : ~decoders[j].completed /\ ~decoders[j].failed}

Timestamps == 0..ChunkLen
IsTime(t) == t >= 0

(* whisper_process_logits: the tokens that are not suppressed.  Timestamps  *)
(* come in pairs, never go back, and begin early.                           *)
Pairs(d, t) ==
  LET n == Len(d.tokens)
      last == n > 0 /\ IsTime(d.tokens[n])
      penultimate == n < 2 \/ IsTime(d.tokens[n - 1])
  IN last => IF penultimate THEN ~IsTime(t) ELSE t >= Eot
Increasing(d, t) == d.hasTs /\ IsTime(t) => t >= d.seekDelta
Initial(d, t) == d.tokens = <<>> => t # Eot /\ t <= MaxInitialTs

(* Fault: timestamps are not conditioned to be increasing.                  *)
SuppressedLess(d) ==
  {t \in Text \union {Eot} \union Timestamps :
     ~(Pairs(d, t) /\ Initial(d, t) /\ (params.noTimestamps => ~IsTime(t)))}

Suppressed(d) ==
  {t \in Text \union {Eot} \union Timestamps :
     ~ /\ Pairs(d, t) /\ Increasing(d, t) /\ Initial(d, t)
       /\ params.noTimestamps => ~IsTime(t)}

Tokens(d) == (Text \union {Eot} \union Timestamps) \ Suppressed(d)

(* tid of a token: itself, or the likeliest timestamp, or what it is        *)
(* initialized with when all are suppressed.  Only the first is read.       *)
Tids(d, t) ==
  IF IsTime(t) THEN {t}
  ELSE IF ~params.noTimestamps THEN Timestamps \ Suppressed(d)
  ELSE IF params.strategy = "beam" THEN {0} ELSE {-TokenBeg}

(* The decoder with one more token: whisper_sample_token                    *)
Samples(d) ==
  UNION {{[d EXCEPT !.tokens = Append(@, t), !.tid = x] :
            x \in IF d.tokens = <<>> THEN Tids(d, t) ELSE {d.tid}} :
         t \in Tokens(d)}

(* The state of a decoder after its new token.                              *)

(* Fault: the very first timestamp moves the window too.                    *)
MovesFromStart(t) == t >= 0
Moves(t) == t > 0

Moved(d, t) ==
  IF Moves(t) THEN [d EXCEPT !.seekDelta = t, !.resultLen = i + 1, !.hasTs = TRUE]
  ELSE d
GoesBack(d, t) == Moves(t) /\ d.hasTs /\ d.seekDelta > t /\ d.resultLen < i
AtEnd(d) == seek + d.seekDelta + DeltaMin >= seekEnd
Ends(d, t) == t = Eot \/ (d.hasTs /\ AtEnd(d))

Completed(d) ==
  IF d.resultLen = 0 /\ ~params.noTimestamps /\ ~AtEnd(d)
  THEN [d EXCEPT !.failed = TRUE]
  ELSE [d EXCEPT !.completed = TRUE,
          !.resultLen = IF params.noTimestamps \/ @ = 0 THEN i + 1 ELSE @,
          !.seekDelta = IF params.noTimestamps THEN ChunkLen ELSE @]
Repeats(d) ==
  i = NMax - 1 /\ (d.resultLen = 0 \/ 2 * d.seekDelta < ChunkLen)

Updated(d) ==
  LET t == d.tokens[Len(d.tokens)]
      m == Moved(d, t)
  IN CASE GoesBack(d, t) -> [d EXCEPT !.failed = TRUE]
       [] OTHER -> CASE Ends(m, t) -> Completed(m)
                     [] OTHER -> [m EXCEPT !.failed = Repeats(m)]

(* The decoders with a token more each, drawn from the decoders "from".     *)
Draws(from) ==
  LET active == Active
      all == [j \in active |-> Samples(decoders[from[j]])]
  IN {[j \in DecoderIds |-> IF j \in active THEN Updated(new[j]) ELSE decoders[j]] :
        new \in {f \in [active -> UNION {all[j] : j \in active}] :
                  \A j \in active : f[j] \in all[j]}}

(* Threads share the decoders out among them; no two sample the same.       *)
SampleGreedy ==
  /\ pc = "sample" /\ params.strategy = "greedy"
  /\ decoders' \in Draws([j \in Active |-> j])
  /\ pc' = "next"
  /\ UNCHANGED <<audio, ret, chunk, choice, taken, i, cache, result>>

(* Beam search: every decoder offers beam_size samples, and the best of all *)
(* are given to the decoders, neighbours that are equal once, but for the   *)
(* first token; when they run out, again from the best.  So two decoders    *)
(* differ if any two did before, and others may repeat them.                *)
AllEqual == \A j, k \in Active : decoders[j].tokens = decoders[k].tokens

(* Fault: a decoder takes over the cells of one that has already changed.   *)
ReorganiseInPlace(from) ==
  SeqMap(kv, [c \in Used(kv) |->
    LET ids == kv.cells[c].seqs IN
    (ids \ Active) \union
    {j \in Active : IF from[j] < j THEN from[from[j]] \in ids ELSE from[j] \in ids}])

(* The cells follow the sequences: all decoders are copied to a second set  *)
(* of ids first, and back when all have been.                               *)
Reorganise(from) ==
  LET active == DOMAIN from IN
  SeqMap(kv, [c \in Used(kv) |->
    (kv.cells[c].seqs \ active) \union
    {j \in active : from[j] \in kv.cells[c].seqs}])

SampleBeam ==
  /\ pc = "sample" /\ params.strategy = "beam"
  /\ \E from \in [Active -> Active] :
       /\ kv' = Reorganise(from)
       /\ \E new \in Draws(from) :
            /\ i > 0 /\ ~AllEqual =>
                 \E j, k \in Active : new[j].tokens # new[k].tokens
            /\ decoders' = new
  /\ pc' = "next"
  /\ UNCHANGED <<audio, ret, chunk, choice, taken, i, kvDecoders, result>>

-----------------------------------------------------------------------------
(* One batch with the last tokens of the decoders at work, in some order.   *)
ActiveSeq == SetToSeq(Active)
Batch ==
  [n \in 1..Len(ActiveSeq) |->
     LET j == ActiveSeq[n] IN
     [pos |-> NPrompt + i, seq |-> j, past |-> decoders[j].tokens]]

NextToken ==
  /\ pc = "next" /\ Active # {}
  /\ HasSlot(kv, Len(Batch))
  /\ kv' = Place(kv, Batch)
  /\ i' = i + 1
  /\ pc' = IF i + 1 < NMax THEN "sample" ELSE "rank"
  /\ UNCHANGED <<audio, ret, chunk, choice, taken, decoders, kvDecoders, result>>

NextTokenFails ==
  /\ pc = "next" /\ Active # {}
  /\ \/ UNCHANGED kv
     \/ HasSlot(kv, Len(Batch)) /\ kv' = Place(kv, Batch)
  /\ Return(-9)
  /\ UNCHANGED <<audio, kvDecoders, result>>

AllDone ==
  /\ pc = "next" /\ Active = {}
  /\ pc' = "rank"
  /\ UNCHANGED <<audio, ret, chunk, choice, taken, i, decoders, cache, result>>

-----------------------------------------------------------------------------
(* The best of the decoders that have not failed, and whether to try the    *)
(* next temperature.  best_decoder_id stays when all have failed.           *)
Rank ==
  /\ pc = "rank"
  /\ LET ranked == {j \in Current : ~decoders[j].failed}
         long   == {j \in ranked : decoders[j].resultLen > LongLen}
     IN
     \E repetitive \in SUBSET long :
       /\ decoders' = [j \in DecoderIds |->
            IF j \notin ranked THEN decoders[j]
            ELSE [decoders[j] EXCEPT
                    !.tokens = SubSeq(@, 1, decoders[j].resultLen),
                    !.failed = j \in repetitive]]
       /\ best' \in IF ranked = repetitive THEN {best} ELSE ranked \ repetitive
       /\ \E noSpeech \in BOOLEAN, low \in IF best' \in ranked THEN BOOLEAN ELSE {TRUE} :
            /\ silent' = (noSpeech /\ low)
            /\ IF it < Len(params.temperatures)
                  /\ (decoders'[best'].failed \/ (low /\ ~noSpeech))
               THEN pc' = "temperature" /\ it' = it + 1
               ELSE pc' = "output" /\ UNCHANGED it
  /\ UNCHANGED <<audio, ret, chunk, taken, i, cache, result>>

-----------------------------------------------------------------------------
(* The segments of the best decoder's tokens: each ends at a timestamp, the *)
(* first of a run, or behind the last token; the next begins there.         *)
Segments(d) ==
  LET toks == d.tokens
      ends == {n \in DOMAIN toks : Moves(toks[n]) /\ (n = 1 \/ ~Moves(toks[n - 1]))}
      begin(n) == Max({0} \union {m \in ends : m < n})
      text(n)  == \E k \in begin(n) + 1..n - 1 : toks[k] < Eot
      segment(n) ==
        [t0 |-> seek + IF begin(n) = 0 THEN d.tid ELSE toks[begin(n)],
         t1 |-> seek + IF n \in ends THEN toks[n] ELSE d.seekDelta]
  IN [n \in {e \in ends \union {Len(toks) + 1} : text(e)} |-> segment(n)]

SingleTimestampEnding(d) ==
  LET n == Len(d.tokens) IN
  n > 1 /\ ~IsTime(d.tokens[n - 1]) /\ Moves(d.tokens[n])

Output ==
  /\ pc = "output"
  /\ LET d == decoders[best]
         new == IF silent THEN <<>> ELSE Segments(d)
     IN
     /\ result' = [n \in DOMAIN result \union DOMAIN new |->
                    IF n \in DOMAIN new THEN new[n] ELSE result[n]]
     /\ promptPast' = taken + IF silent THEN 0 ELSE d.resultLen
     /\ seek' = seek + IF SingleTimestampEnding(d)
                       THEN Min({seekEnd - seek, ChunkLen}) ELSE d.seekDelta
  /\ pc' = "chunk"
  /\ ForgetChunk
  /\ UNCHANGED <<audio, ret, cache>>

Next ==
  \/ Call \/ DetectLanguage \/ BeginChunk
  \/ BeginTemperature \/ TemperatureFails
  \/ SampleGreedy \/ SampleBeam
  \/ NextToken \/ NextTokenFails \/ AllDone
  \/ Rank \/ Output

Spec == Init /\ [][Next]_vars

-----------------------------------------------------------------------------
(* The cache holds positions the decoder has an embedding for, no free cell *)
(* keeps a sequence, and results name tokens that were sampled.             *)
TypeOK ==
  /\ pc \in {"idle", "detect", "chunk", "temperature", "sample", "next",
              "rank", "output", "freed"}
  /\ ret \in {0, -2, -3, -6, -7, -8, -9}
  /\ best \in DecoderIds /\ i \in 0..NMax
  /\ \A c \in Used(kv) :
       /\ c < kv.size
       /\ kv.cells[c].pos \in 0..TextCtx - 1
       /\ kv.cells[c].seqs \in (SUBSET (0..2 * WHISPER_MAX_DECODERS - 1)) \ {{}}
  /\ \A j \in DecoderIds : decoders[j].resultLen <= Len(decoders[j].tokens)

(* Whatever decoders were completed, failed or moved to the sequence of     *)
(* another, a decoder that samples attends to the prompt and to its own     *)
(* tokens, to each once, and there is room for the next tokens.             *)
AttendsToOwnPast ==
  /\ pc = "sample" => \A j \in Active :
       LET tokens == decoders[j].tokens
           n == NPrompt + Len(tokens)
           seen == Visible(kv, j, n - 1)
       IN /\ Cardinality(seen) = n
          /\ \A p \in 0..n - 1 : \E c \in seen :
               /\ kv.cells[c].pos = p
               /\ kv.cells[c].past = SubSeq(tokens, 1, p + 1 - NPrompt)
  /\ pc = "next" => HasSlot(kv, Cardinality(Active))
  /\ pc = "detect" => HasSlot(SeqRm(kv, 0), 1)

(* No segment begins before the end of the one before it, in whatever       *)
(* chunks and at whatever temperatures they were decoded; models without    *)
(* timestamps have none.                                                    *)
SegmentsInOrder ==
  ~params.noTimestamps =>
    \A m, n \in DOMAIN result : m < n => result[m].t1 <= result[n].t0

(* Every chunk moves on in the audio, by a whole chunk at most: no audio is *)
(* decoded for ever, and none is left out.                                  *)
ChunkAdvances ==
  [][pc = "output" => seek < seek' /\ seek' <= seek + ChunkLen]_vars
=============================================================================
