-------------------------- MODULE TranscribeEngine --------------------------
(***************************************************************************)
(* transcribe.swift: calls of TranscribeEngine.transcribe with each of the  *)
(* three services.  An Apple call suspends on a continuation that the       *)
(* recognition callback (main queue) and a 30 s timer (global queue) both   *)
(* may resume; an OpenAI call deletes the file it has uploaded; a local     *)
(* whisper call is resumed once from a background queue.  Calls run         *)
(* concurrently and may name the same file.                                 *)
(***************************************************************************)
EXTENDS Naturals

CONSTANTS Calls,  \* calls of transcribe, the bound on a behaviour
          Files   \* audio files

VARIABLES
  alive,       \* the program has not trapped
  audio,       \* files that exist
  file,        \* file[c]: the audioURL of call c
  service,     \* service[c]
  stage,       \* stage[c]: where call c is
  hasResumed,  \* Apple calls whose hasResumed is true
  timer,       \* timer[c]: "none", "armed" or "cancelled"
  timerStep,   \* where the event handler of the timer of c is
  answerStep,  \* where the recognition callback of c is
  answer,      \* answer[c]: what that callback makes of its arguments
  resumes,     \* resumes[c]: how often the continuation was resumed (history)
  outcome      \* outcome[c]: what the caller of c got

raceVars == <<hasResumed, timer, timerStep, answerStep, answer>>
requestVars == <<file, service>>
engineVars == <<alive, audio, requestVars, stage, raceVars, resumes, outcome>>

Services == {"apple", "openAI", "whisper"}
Stages == {"unused", "check", "size", "permission", "recognizer",
           "recognizing", "read", "upload", "cleanup", "model", "load",
           "whisper", "ended"}

EngineInit ==
  /\ alive = TRUE
  /\ audio = Files
  /\ file \in [Calls -> Files]
  /\ service \in [Calls -> Services]
  /\ stage = [c \in Calls |-> "unused"]
  /\ hasResumed = {}
  /\ timer = [c \in Calls |-> "none"]
  /\ timerStep = [c \in Calls |-> "idle"]
  /\ answerStep = [c \in Calls |-> "idle"]
  /\ answer = [c \in Calls |-> "text"]
  /\ resumes = [c \in Calls |-> 0]
  /\ outcome = [c \in Calls |-> "none"]

Exists(c) == file[c] \in audio
Goto(c, next) == stage' = [stage EXCEPT ![c] = next]
Stay == UNCHANGED <<alive, resumes, outcome>>

(* The caller of c gets its result or its error.  A checked continuation    *)
(* that is resumed for the second time stops the program.                   *)
ResumeCall(c, result) ==
  /\ resumes' = [resumes EXCEPT ![c] = @ + 1]
  /\ IF resumes[c] = 0
     THEN /\ outcome' = [outcome EXCEPT ![c] = result]
          /\ Goto(c, "ended") /\ UNCHANGED alive
     ELSE alive' = FALSE /\ UNCHANGED <<outcome, stage>>

(* A step of c that goes on to the next stage or ends the call.  *)
GoOn(c, from, next) ==
  /\ stage[c] = from /\ Goto(c, next) /\ Stay
  /\ UNCHANGED <<audio, requestVars, raceVars>>

(* Fault of Throws: a guard returns without resuming the continuation. *)
ReturnsSilently(c, from) == GoOn(c, from, "ended")

Throws(c, from) ==
  /\ stage[c] = from /\ ResumeCall(c, "error")
  /\ UNCHANGED <<audio, requestVars, raceVars>>

Returns(c, from) ==
  /\ stage[c] = from /\ ResumeCall(c, "text")
  /\ UNCHANGED <<audio, requestVars, raceVars>>

----------------------------------------------------------------------------
(* performTranscription; an OpenAI call without a key ends at once. *)
Submit(c) ==
  \/ GoOn(c, "unused", "check")
  \/ service[c] = "openAI" /\ Throws(c, "unused")

CheckFile(c) ==
  \/ ~Exists(c) /\ Throws(c, "check")
  \/ Exists(c) /\ \/ service[c] = "apple" /\ GoOn(c, "check", "size")
                  \/ service[c] = "openAI" /\ GoOn(c, "check", "read")
                  \/ service[c] = "whisper" /\ GoOn(c, "check", "model")

----------------------------------------------------------------------------
(* The Apple framework.  The size of the file is read with try!, after its  *)
(* existence was checked.                                                   *)
ReadSize(c) ==
  \/ Exists(c) /\ GoOn(c, "size", "permission")
  \/ /\ ~Exists(c) /\ stage[c] = "size"
     /\ alive' = FALSE
     /\ UNCHANGED <<audio, requestVars, stage, raceVars, resumes, outcome>>

AskPermission(c) ==
  GoOn(c, "permission", "recognizer") \/ Throws(c, "permission")

(* Fault: the timer is never resumed, and dispatch sources begin suspended. *)
RecognizeWithoutTimer(c) ==
  /\ stage[c] = "recognizer"
  /\ Goto(c, "recognizing")
  /\ Stay /\ UNCHANGED <<audio, requestVars, raceVars>>

Recognize(c) ==
  /\ stage[c] = "recognizer"
  /\ Goto(c, "recognizing")
  /\ timer' = [timer EXCEPT ![c] = "armed"]
  /\ Stay
  /\ UNCHANGED <<audio, requestVars, hasResumed, timerStep, answerStep, answer>>

StartRecognition(c) == Recognize(c) \/ Throws(c, "recognizer")

(* The event handler of the timer, on a global queue.  It tests hasResumed  *)
(* in one step and sets it in a later one: nothing keeps the callback out   *)
(* in between.  A read of hasResumed that is stale is a test made earlier.  *)
TimerFires(c) ==
  /\ timer[c] = "armed" /\ timerStep[c] = "idle"
  /\ timerStep' = [timerStep EXCEPT
                     ![c] = IF c \in hasResumed THEN "cancel" ELSE "set"]
  /\ Stay /\ UNCHANGED <<audio, requestVars, stage, hasResumed, timer,
                         answerStep, answer>>

TimerSets(c) ==
  /\ timerStep[c] = "set"
  /\ timerStep' = [timerStep EXCEPT ![c] = "resume"]
  /\ hasResumed' = hasResumed \union {c}
  /\ Stay /\ UNCHANGED <<audio, requestVars, stage, timer, answerStep, answer>>

TimerResumes(c) ==
  /\ timerStep[c] = "resume"
  /\ timerStep' = [timerStep EXCEPT ![c] = "cancel"]
  /\ ResumeCall(c, "timeout")
  /\ UNCHANGED <<audio, requestVars, hasResumed, timer, answerStep, answer>>

TimerCancels(c) ==
  /\ timerStep[c] = "cancel"
  /\ timerStep' = [timerStep EXCEPT ![c] = "over"]
  /\ timer' = [timer EXCEPT ![c] = "cancelled"]
  /\ Stay /\ UNCHANGED <<audio, requestVars, stage, hasResumed, answerStep, answer>>

(* The recognition callback, called any number of times, one at a time, on  *)
(* the main queue: a result that is not final is ignored; an error, no      *)
(* result and a final result resume the call.  A call that finds hasResumed *)
(* set returns.                                                             *)
AnswerArrives(c) ==
  /\ timer[c] # "none" /\ answerStep[c] = "idle" /\ c \notin hasResumed
  /\ answerStep' = [answerStep EXCEPT ![c] = "set"]
  /\ \E result \in {"error", "text"} : answer' = [answer EXCEPT ![c] = result]
  /\ Stay
  /\ UNCHANGED <<audio, requestVars, stage, hasResumed, timer, timerStep>>

(* Fault: hasResumed is not set. *)
AnswerForgetsFlag(c) ==
  /\ answerStep[c] = "set"
  /\ answerStep' = [answerStep EXCEPT ![c] = "cancel"]
  /\ Stay /\ UNCHANGED <<audio, requestVars, stage, hasResumed, timer,
                         timerStep, answer>>

AnswerSets(c) ==
  /\ answerStep[c] = "set"
  /\ answerStep' = [answerStep EXCEPT ![c] = "cancel"]
  /\ hasResumed' = hasResumed \union {c}
  /\ Stay /\ UNCHANGED <<audio, requestVars, stage, timer, timerStep, answer>>

(* Fault: the timer is left running. *)
AnswerForgetsTimer(c) ==
  /\ answerStep[c] = "cancel"
  /\ answerStep' = [answerStep EXCEPT ![c] = "resume"]
  /\ Stay /\ UNCHANGED <<audio, requestVars, stage, hasResumed, timer,
                         timerStep, answer>>

AnswerCancels(c) ==
  /\ answerStep[c] = "cancel"
  /\ answerStep' = [answerStep EXCEPT ![c] = "resume"]
  /\ timer' = [timer EXCEPT ![c] = "cancelled"]
  /\ Stay /\ UNCHANGED <<audio, requestVars, stage, hasResumed, timerStep, answer>>

AnswerResumes(c) ==
  /\ answerStep[c] = "resume"
  /\ answerStep' = [answerStep EXCEPT ![c] = "idle"]
  /\ ResumeCall(c, answer[c])
  /\ UNCHANGED <<audio, requestVars, hasResumed, timer, timerStep, answer>>

----------------------------------------------------------------------------
(* The OpenAI service.  convertAudioForAPI returns the file it was given.   *)
ReadFile(c) ==
  \/ Exists(c) /\ GoOn(c, "read", "upload")
  \/ ~Exists(c) /\ Throws(c, "read")

Upload(c) == GoOn(c, "upload", "cleanup") \/ Throws(c, "upload")

(* try? removeItem: an error is ignored. *)
RemoveConverted(c) == audio' \in {audio, audio \ {file[c]}}

(* Status 200: the "converted" file is removed, then the answer is parsed. *)
FinishUpload(c) ==
  /\ stage[c] = "cleanup"
  /\ RemoveConverted(c)
  /\ \E result \in {"text", "error"} : ResumeCall(c, result)
  /\ UNCHANGED <<requestVars, raceVars>>

----------------------------------------------------------------------------
(* Local whisper: the model file, the context, the transcription. *)
FindModel(c) == GoOn(c, "model", "load") \/ Throws(c, "model")

LoadModel(c) == GoOn(c, "load", "whisper") \/ Throws(c, "load")

RunWhisper(c) ==
  \/ Exists(c) /\ Returns(c, "whisper")
  \/ Throws(c, "whisper")

----------------------------------------------------------------------------
Step(c) ==
  \/ CheckFile(c) \/ ReadSize(c) \/ StartRecognition(c)
  \/ ReadFile(c) \/ FinishUpload(c)
  \/ FindModel(c) \/ LoadModel(c) \/ RunWhisper(c)

TimerHandler(c) ==
  TimerFires(c) \/ TimerSets(c) \/ TimerResumes(c) \/ TimerCancels(c)

AnswerHandler(c) == AnswerSets(c) \/ AnswerCancels(c) \/ AnswerResumes(c)

EngineNext ==
  /\ alive
  /\ \E c \in Calls :
       \/ Submit(c) \/ Step(c) \/ AskPermission(c) \/ Upload(c)
       \/ TimerHandler(c) \/ AnswerArrives(c) \/ AnswerHandler(c)

(* Threads run and the timer fires; the user need not answer, the network   *)
(* need not, and the recognizer may never call back.                        *)
EngineFairness ==
  \A c \in Calls :
    /\ WF_engineVars(alive /\ Step(c))
    /\ WF_engineVars(alive /\ TimerHandler(c))
    /\ WF_engineVars(alive /\ AnswerHandler(c))

EngineSpec == EngineInit /\ [][EngineNext]_engineVars
EngineFairSpec == EngineSpec /\ EngineFairness

----------------------------------------------------------------------------
(* The types; and a call ends exactly when its caller gets its outcome.     *)
EngineTypeOK ==
  /\ alive \in BOOLEAN
  /\ audio \in SUBSET Files
  /\ file \in [Calls -> Files]
  /\ service \in [Calls -> Services]
  /\ stage \in [Calls -> Stages]
  /\ hasResumed \in SUBSET Calls
  /\ timer \in [Calls -> {"none", "armed", "cancelled"}]
  /\ timerStep \in [Calls -> {"idle", "set", "resume", "cancel", "over"}]
  /\ answerStep \in [Calls -> {"idle", "set", "cancel", "resume"}]
  /\ answer \in [Calls -> {"error", "text"}]
  /\ resumes \in [Calls -> 0..2]
  /\ outcome \in [Calls -> {"none", "error", "text", "timeout"}]
  /\ \A c \in Calls : stage[c] = "ended" <=> outcome[c] # "none"

(* However often the recognizer calls back, and whatever it reports, its    *)
(* callbacks alone never resume a call twice: only a timeout whose handler  *)
(* had passed its test when an answer passed its own does.                  *)
AnswersAloneResumeOnce ==
  \A c \in Calls : timerStep[c] = "idle" => resumes[c] <= 1

(* A dispatch source whose handler refers to itself lives until it is       *)
(* cancelled: whoever ends the call, the timer is cancelled in the end, and *)
(* an early answer does not leave it to fire.                               *)
TimerReleased ==
  \A c \in Calls :
    timer[c] = "armed" /\ timerStep[c] = "idle" => resumes[c] = 0

(* A recognizer that never answers does not hang its caller: a call that    *)
(* reached the recognizer ends with an answer or a timeout.                 *)
RecognitionEnds ==
  \A c \in Calls : stage[c] = "recognizing" ~> (stage[c] = "ended" \/ ~alive)
=============================================================================
