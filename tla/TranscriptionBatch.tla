------------------------- MODULE TranscriptionBatch -------------------------
(***************************************************************************)
(* What follows a stop in ContentView: the task that starts the countdown,  *)
(* the countdown timer, the batch that scans the recordings directory and   *)
(* transcribes each wav that lacks its txt or its json, and the update of   *)
(* the AudioRecording row.  It composes with RecordingSession: the same     *)
(* windows, files and rows, and a Start button that isTranscribing hides.   *)
(*                                                                          *)
(* ContentView is a View, so its methods run on the main actor and give it  *)
(* up only where they await: here, while whisper works on a file.  "turn"   *)
(* is the batch that is in the middle of a turn; only a crash can come      *)
(* between the steps of a turn.  A timer, and the batch it starts, bear the *)
(* name of the recording whose stop created it.                             *)
(***************************************************************************)
EXTENDS RecordingSession, Integers

CONSTANTS Delay,   \* ticks from a stop to the batch: 5 in the code
          Clocks   \* windows whose duration is followed

ASSUME DelayPositive == Delay \in Nat \ {0}
ASSUME ClocksOfWindows == Clocks \subseteq Windows

VARIABLES
  stopTasks,       \* stops whose task waits for its turn, in their order
  owner,           \* owner[f]: window of the stop of f, None once it closed
                   \* and when the batch has ended
  isTranscribing,  \* windows whose isTranscribing is true
  countdown,       \* countdown[w]: transcriptionCountdown
  liveTimers,      \* timers the run loop holds
  storedTimer,     \* storedTimer[w]: transcriptionTimer
  batch,           \* batch[f]: the batch of timer f
  turn,            \* the batch that holds the main actor, or None
  txt, json,       \* what the artifacts of a wav hold
  text,            \* text[f]: transcriptText of the row of f
  saved,           \* rows that modelContext.save() has written
  scanned,         \* scanned[f]: wavs in the directory when batch f began
  excused          \* excused[f]: of those, the ones without full success
                   \* (history, kept while the batch is in progress)

timerVars == <<stopTasks, owner, isTranscribing, countdown, liveTimers,
               storedTimer>>
artifactVars == <<txt, json, text, saved>>
ghostVars == <<scanned, excused>>
batchVars == <<timerVars, batch, turn, artifactVars, ghostVars>>
vars == <<sessionVars, batchVars>>

(* "partial": made from a wav that was still being recorded; "torn": cut    *)
(* off by a crash, or an error, in the middle of the write.                 *)
Contents == {"none", "partial", "full", "torn"}

NoBatch == [pc |-> "none", todo |-> {}, heard |-> "none", segments |-> FALSE]
InProgress(f) == batch[f].pc \notin {"none", "done"}
MainFree == turn = None
Waiting == {stopTasks[i] : i \in DOMAIN stopTasks}

Init ==
  /\ SessionInit
  /\ stopTasks = <<>> /\ isTranscribing = {} /\ liveTimers = {}
  /\ owner = [f \in Recordings |-> None]
  /\ countdown = [w \in Windows |-> 0]
  /\ storedTimer = [w \in Windows |-> None]
  /\ batch = [f \in Recordings |-> NoBatch]
  /\ turn = None
  /\ txt = [x \in Wavs |-> "none"] /\ json = [x \in Wavs |-> "none"]
  /\ text = [f \in Recordings |-> "none"] /\ saved = {}
  /\ scanned = [f \in Recordings |-> {}]
  /\ excused = [f \in Recordings |-> {}]

----------------------------------------------------------------------------
(* The buttons.  Start is shown while the window neither records nor        *)
(* transcribes; Stop enqueues a task and returns.                           *)
ClickStart(w, f) ==
  /\ MainFree /\ w \notin isTranscribing
  /\ StartRecording(w, f)
  /\ UNCHANGED batchVars

ClickStop(w) ==
  /\ MainFree
  /\ StopRecording(w)
  /\ stopTasks' = Append(stopTasks, recording[w])
  /\ owner' = [owner EXCEPT ![recording[w]] = w]
  /\ UNCHANGED <<isTranscribing, countdown, liveTimers, storedTimer, batch,
                 turn, artifactVars, ghostVars>>

(* The task of a stop; the main queue runs them in the order of the stops.  *)
(* The timer of an earlier stop that is still alive stays with the run      *)
(* loop; only the reference to it is overwritten.                           *)
RunStopTask(f) ==
  /\ MainFree /\ stopTasks # <<>> /\ f = Head(stopTasks)
  /\ stopTasks' = Tail(stopTasks)
  /\ liveTimers' = liveTimers \union {f}
  /\ IF owner[f] = None
     THEN UNCHANGED <<isTranscribing, countdown, storedTimer>>
     ELSE /\ isTranscribing' = isTranscribing \union {owner[f]}
          /\ countdown' = [countdown EXCEPT ![owner[f]] = Delay]
          /\ storedTimer' = [storedTimer EXCEPT ![owner[f]] = f]
  /\ UNCHANGED <<sessionVars, owner, batch, turn, artifactVars, ghostVars>>

(* Newest first, and at one start the microphone file after the process    *)
(* file.                                                                    *)
Age(x) == 2 * (CHOOSE i \in DOMAIN born : born[i] = x[1])
            + (IF x[2] = "mic" THEN 1 ELSE 0)
Newest(S) == CHOOSE x \in S : \A y \in S : Age(y) <= Age(x)

Here == {x \in wavs : place[x[1]] = directory}
(* Fault: only a file without any artifact is looked at. *)
NeedsBoth(x) == txt[x] = "none" /\ json[x] = "none"
NeedsTranscription(x) == txt[x] = "none" \/ json[x] = "none"

(* performTranscription up to its first file; the directory may be          *)
(* unreadable.                                                              *)
StartBatch(f) ==
  /\ turn' = f
  /\ \/ /\ scanned' = [scanned EXCEPT ![f] = Here]
        /\ batch' = [batch EXCEPT ![f] = [NoBatch EXCEPT
             !.pc = "next",
             !.todo = {x \in Here : NeedsTranscription(x)}]]
     \/ /\ batch' = [batch EXCEPT ![f] = [NoBatch EXCEPT !.pc = "next"]]
        /\ UNCHANGED scanned

(* One second passes for timer f.  Once its window is gone its countdown is *)
(* no longer followed: it may reach its end at any tick.                    *)
(* Fault: a window that records again gives up its batch. *)
TickUnlessRecording(f) ==
  /\ MainFree /\ f \in liveTimers
  /\ LET w == owner[f]
         left == IF w = None THEN 0 ELSE countdown[w] - 1
     IN  /\ countdown' = IF w = None THEN countdown
                                     ELSE [countdown EXCEPT ![w] = left]
         /\ liveTimers' = IF left <= 0 THEN liveTimers \ {f} ELSE liveTimers
         /\ IF left <= 0 /\ (w = None \/ recording[w] = None)
            THEN StartBatch(f) ELSE UNCHANGED <<batch, turn, scanned>>
  /\ UNCHANGED <<sessionVars, stopTasks, owner, isTranscribing, storedTimer,
                 artifactVars, excused>>

Tick(f) ==
  /\ MainFree /\ f \in liveTimers
  /\ LET w == owner[f]
         left == IF w = None THEN 0 ELSE countdown[w] - 1
     IN  /\ countdown' = IF w = None THEN countdown
                                     ELSE [countdown EXCEPT ![w] = left]
         /\ IF left <= 0
            THEN liveTimers' = liveTimers \ {f} /\ StartBatch(f)
            ELSE UNCHANGED <<liveTimers, batch, turn, scanned>>
  /\ UNCHANGED <<sessionVars, stopTasks, owner, isTranscribing, storedTimer,
                 artifactVars, excused>>

----------------------------------------------------------------------------
(* The batch, file by file. *)
File(f) == Newest(batch[f].todo)
Move(f, pc) == batch' = [batch EXCEPT ![f].pc = pc]
NextInTurn(f) ==
  batch' = [batch EXCEPT ![f] = [NoBatch EXCEPT
                                   !.pc = "next", !.todo = batch[f].todo \ {File(f)}]]
Excuse(f) == excused' = [excused EXCEPT ![f] = @ \union {File(f)}]

(* The last lines of performTranscription: the state of the window is reset *)
(* and whatever timer it has stored is invalidated.  The fault: the flag    *)
(* stays.                                                                   *)
ResetForgetsTranscribing(w) ==
  /\ UNCHANGED isTranscribing
  /\ countdown' = [countdown EXCEPT ![w] = 0]
  /\ liveTimers' = liveTimers \ {storedTimer[w]}
  /\ storedTimer' = [storedTimer EXCEPT ![w] = None]

ResetTranscription(w) ==
  /\ isTranscribing' = isTranscribing \ {w}
  /\ countdown' = [countdown EXCEPT ![w] = 0]
  /\ liveTimers' = liveTimers \ {storedTimer[w]}
  /\ storedTimer' = [storedTimer EXCEPT ![w] = None]

(* The head of the loop in performTranscription, and transcribeFile up to   *)
(* its await; or the end of the batch.                                      *)
SkipFile(f) ==
  /\ turn = f /\ batch[f].pc = "next" /\ batch[f].todo # {}
  /\ ~NeedsTranscription(File(f))
  /\ NextInTurn(f)
  /\ UNCHANGED <<sessionVars, timerVars, turn, artifactVars, ghostVars>>

SubmitFile(f) ==
  /\ turn = f /\ batch[f].pc = "next" /\ batch[f].todo # {}
  /\ NeedsTranscription(File(f))
  /\ Move(f, "await") /\ turn' = None
  /\ UNCHANGED <<sessionVars, timerVars, artifactVars, ghostVars>>

EndBatch(f) ==
  /\ turn = f /\ batch[f].pc = "next" /\ batch[f].todo = {}
  /\ Move(f, "done") /\ turn' = None
  /\ IF owner[f] = None
     THEN UNCHANGED <<isTranscribing, countdown, liveTimers, storedTimer>>
     ELSE ResetTranscription(owner[f])
  /\ owner' = [owner EXCEPT ![f] = None]
  /\ scanned' = [scanned EXCEPT ![f] = {}]
  /\ excused' = [excused EXCEPT ![f] = {}]
  /\ UNCHANGED <<sessionVars, stopTasks, artifactVars>>

(* TranscribeEngine.transcribe, on a thread of its own: it reads the wav as *)
(* it is now, and returns a text with or without segments, or throws.       *)
Whisper(f) ==
  /\ batch[f].pc = "await"
  /\ \/ \E segments \in BOOLEAN :
          batch' = [batch EXCEPT
            ![f].pc = "heard", ![f].segments = segments,
            ![f].heard = IF File(f)[1] \in finished THEN "full" ELSE "partial"]
     \/ Move(f, "threw")
  /\ UNCHANGED <<sessionVars, timerVars, turn, artifactVars, ghostVars>>

Resume(f) ==
  /\ MainFree /\ turn' = f
  /\ \/ batch[f].pc = "heard" /\ Move(f, "saveTxt") /\ UNCHANGED excused
     \/ batch[f].pc = "threw" /\ NextInTurn(f) /\ Excuse(f)
  /\ UNCHANGED <<sessionVars, timerVars, artifactVars, scanned>>

(* Each artifact is written only if it does not exist; a write that fails   *)
(* leaves the file to a later batch, but for a json that it cuts off.  The  *)
(* faults: an error is ignored; the txt is written in any case.             *)
WriteErrorIgnored(f) == Move(f, "updateRow") /\ Excuse(f) /\ UNCHANGED txt
WriteFails(f) == NextInTurn(f) /\ Excuse(f) /\ UNCHANGED txt
CutOff(f) == json' \in {json, [json EXCEPT ![File(f)] = "torn"]}

SaveTxtAlways(f) ==
  /\ turn = f /\ batch[f].pc = "saveTxt"
  /\ \/ /\ Move(f, "saveJson")
        /\ txt' = [txt EXCEPT ![File(f)] = batch[f].heard]
        /\ UNCHANGED excused
     \/ WriteFails(f)
  /\ UNCHANGED <<sessionVars, timerVars, turn, json, text, saved, scanned>>

SaveTxt(f) ==
  /\ turn = f /\ batch[f].pc = "saveTxt"
  /\ \/ /\ Move(f, "saveJson")
        /\ txt' = [txt EXCEPT ![File(f)] = IF @ = "none" THEN batch[f].heard ELSE @]
        /\ UNCHANGED excused
     \/ txt[File(f)] = "none" /\ WriteFails(f)
  /\ UNCHANGED <<sessionVars, timerVars, turn, json, text, saved, scanned>>

WritesJson(f) == /\ batch[f].pc = "saveJson" /\ batch[f].segments
                 /\ json[File(f)] = "none"

SaveJson(f) ==
  /\ turn = f /\ batch[f].pc = "saveJson"
  /\ \/ /\ Move(f, "updateRow")
        /\ json' = [json EXCEPT ![File(f)] = IF WritesJson(f) THEN batch[f].heard ELSE @]
        /\ IF batch[f].segments THEN UNCHANGED excused ELSE Excuse(f)
        /\ UNCHANGED txt
     \/ WritesJson(f) /\ WriteFails(f) /\ CutOff(f)
  /\ UNCHANGED <<sessionVars, timerVars, turn, text, saved, scanned>>

(* The newest row that names the wav, if there is one, gets the text, and   *)
(* the store is saved.                                                      *)
Names(f, x) == \/ x[2] = "process" /\ rowProcess[f] = x[1]
               \/ x[2] = "mic" /\ rowMic[f] = x[1]

UpdateRow(f) ==
  /\ turn = f /\ batch[f].pc = "updateRow"
  /\ LET rows == {i \in DOMAIN rowOrder : Names(rowOrder[i], File(f))} IN
     IF rows = {}
     THEN UNCHANGED <<text, saved>>
     ELSE /\ text' = [text EXCEPT ![rowOrder[Latest(rows)]] = batch[f].heard]
          /\ saved' = {g \in Recordings : HasRow(g)}
  /\ NextInTurn(f)
  /\ UNCHANGED <<sessionVars, timerVars, turn, txt, json, ghostVars>>

BatchStep(f) ==
  \/ SkipFile(f) \/ SubmitFile(f) \/ EndBatch(f) \/ Whisper(f) \/ Resume(f)
  \/ SaveTxt(f) \/ SaveJson(f) \/ UpdateRow(f)

----------------------------------------------------------------------------
OpenContentView(w) == MainFree /\ OpenWindow(w) /\ UNCHANGED batchVars

(* onDisappear: the stored timer is invalidated.  A task, an older timer or *)
(* a batch that still refers to the view goes on without its window.        *)
CloseContentView(w) ==
  /\ MainFree /\ CloseWindow(w)
  /\ liveTimers' = liveTimers \ {storedTimer[w]}
  /\ storedTimer' = [storedTimer EXCEPT ![w] = None]
  /\ owner' = [f \in Recordings |-> IF owner[f] = w THEN None ELSE owner[f]]
  /\ isTranscribing' = isTranscribing \ {w}
  /\ countdown' = [countdown EXCEPT ![w] = 0]
  /\ UNCHANGED <<stopTasks, batch, turn, artifactVars, ghostVars>>

(* The duration timer fires, or the task it has left runs.                  *)
ShowDuration(w) ==
  /\ MainFree
  /\ DurationTick(w) \/ UpdateDuration(w)
  /\ UNCHANGED batchVars

ChangeRecordingsDirectory(d) ==
  MainFree /\ ChangeDirectory(d) /\ UNCHANGED batchVars

(* The txt is written to one side and moved into place; the json is         *)
(* written in place and may be cut off.  Unsaved rows may be lost.          *)
Crash ==
  /\ \E lost \in SUBSET ({f \in Recordings : HasRow(f)} \ saved) :
       /\ Die(lost)
       /\ text' = [f \in Recordings |-> IF f \in lost THEN "none" ELSE text[f]]
  /\ IF turn # None /\ WritesJson(turn)
     THEN CutOff(turn)
     ELSE UNCHANGED json
  /\ stopTasks' = <<>> /\ isTranscribing' = {} /\ liveTimers' = {}
  /\ owner' = [f \in Recordings |-> None]
  /\ countdown' = [w \in Windows |-> 0]
  /\ storedTimer' = [w \in Windows |-> None]
  /\ batch' = [f \in Recordings |-> NoBatch]
  /\ turn' = None
  /\ scanned' = [f \in Recordings |-> {}]
  /\ excused' = [f \in Recordings |-> {}]
  /\ UNCHANGED <<txt, saved>>

Next ==
  \/ \E w \in Windows :
       \/ OpenContentView(w) \/ CloseContentView(w) \/ ClickStop(w)
       \/ \E f \in Recordings : ClickStart(w, f)
  \/ \E w \in Clocks : ShowDuration(w)
  \/ \E d \in Dirs : ChangeRecordingsDirectory(d)
  \/ \E f \in Recordings : RunStopTask(f) \/ Tick(f) \/ BatchStep(f)
  \/ Crash

(* The main actor runs what is queued on it, timers fire, and whisper       *)
(* returns: it works through a file of finite length.                       *)
Fairness ==
  \A f \in Recordings :
    WF_vars(RunStopTask(f)) /\ WF_vars(Tick(f)) /\ WF_vars(BatchStep(f))

Spec == Init /\ [][Next]_vars
FairSpec == Spec /\ Fairness

----------------------------------------------------------------------------
(* The types of the batch and of the session below it.                     *)
BatchTypeOK ==
  /\ SessionTypeOK
  /\ stopTasks \in Seq(Recordings)
  /\ owner \in [Recordings -> Windows \union {None}]
  /\ isTranscribing \in SUBSET Windows
  /\ countdown \in [Windows -> Int]
  /\ liveTimers \in SUBSET Recordings
  /\ storedTimer \in [Windows -> Recordings \union {None}]
  /\ turn \in Recordings \union {None}
  /\ \A f \in Recordings :
       /\ batch[f].pc \in {"none", "next", "await", "heard", "threw",
                           "saveTxt", "saveJson", "updateRow", "done"}
       /\ batch[f].todo \in SUBSET Wavs
       /\ batch[f].heard \in Contents /\ batch[f].segments \in BOOLEAN
  /\ txt \in [Wavs -> Contents \ {"torn"}] /\ json \in [Wavs -> Contents]
  /\ text \in [Recordings -> Contents] /\ saved \in SUBSET Recordings
  /\ scanned \in [Recordings -> SUBSET Wavs]
  /\ excused \in [Recordings -> SUBSET Wavs]

(* "Save transcript files only if they don't already exist"                 *)
(* (ContentView.swift line 585): two batches may work on one wav at a time, *)
(* and neither ever replaces an artifact that is there.                     *)
ArtifactsWrittenOnce ==
  [][ \A x \in Wavs : /\ txt[x] # "none" => txt'[x] = txt[x]
                      /\ json[x] # "none" => json'[x] = json[x] ]_vars

(* When a batch ends, each wav that was in the directory when it began   *)
(* has both artifacts, except where whisper, a write or a segment was       *)
(* missing: whatever other batches, stops and windows did meanwhile, and    *)
(* whichever artifact a crash or a failure had left missing.                *)
BatchLeavesNothingUndone ==
  [][ \A f \in Recordings : InProgress(f) /\ batch'[f].pc = "done" =>
        \A x \in scanned[f] \ excused[f] :
          txt'[x] # "none" /\ json'[x] # "none" ]_vars

(* A row that has a transcript points to a transcript file that exists, a   *)
(* crash between the two included.                                          *)
TranscriptPathExists ==
  \A f \in Recordings : text[f] # "none" =>
    HasRow(f) /\ \E x \in Wavs : Names(f, x) /\ txt[x] # "none"

(* The window does not stay in its transcribing state: the countdown and    *)
(* the batch end, or the window closes.                                     *)
TranscribingEnds ==
  \A w \in Windows : (w \in isTranscribing) ~> (w \notin isTranscribing)

(* "Start transcription process after 5 second delay" (ContentView.swift    *)
(* line 473): after a stop a batch begins, be it that of the stop or of     *)
(* another, unless the window closes or the program dies.  S are the        *)
(* batches that had begun before.  The code does not keep it: the end of a  *)
(* batch invalidates the timer that a later stop has stored.                *)
StopIsFollowedByBatch ==
  \A f \in Recordings, S \in SUBSET Recordings :
    (f \in Waiting /\ S = {g \in Recordings : batch[g].pc # "none"}) ~>
      (owner[f] = None \/ \E g \in Recordings \ S : batch[g].pc # "none")

(* What the code keeps of it.  While neither another countdown nor a batch  *)
(* of its window is under way, a countdown cannot be lost: whatever starts  *)
(* and stops follow, whoever counts it down and whichever batch resets the  *)
(* window, the stop gets a batch of its own, unless the window closes or    *)
(* the program dies.                                                        *)
Alone(f) == \A g \in Recordings \ {f} :
  owner[g] = owner[f] => g \notin liveTimers /\ ~InProgress(g)

LoneCountdownEndsInBatch ==
  \A f \in Recordings :
    (f \in liveTimers /\ Alone(f)) ~> (batch[f].pc # "none" \/ owner[f] = None)

=============================================================================
