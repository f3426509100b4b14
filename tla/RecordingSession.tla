-------------------------- MODULE RecordingSession --------------------------
(***************************************************************************)
(* The app's side of a recording: AudioRecordingManager (one per window),   *)
(* the Start and Stop buttons of ContentView, the directory chosen in the   *)
(* settings, the wav files on disk and the AudioRecording rows in the       *)
(* store.  A recording is one click on Start; it names its two wav files.   *)
(* Every action is one turn of the main actor.  AudioRecorder is used       *)
(* through what AudioCapture shows of it: a start either captures both      *)
(* files or fails, perhaps leaving files behind, and a stop ends both.      *)
(***************************************************************************)
EXTENDS Naturals, Sequences

CONSTANTS Windows,     \* windows of the WindowGroup
          Recordings,  \* clicks on Start, the bound on a behaviour
          Dirs,        \* directories the user may choose
          Kinds,       \* the wavs of a recording: "process", and "mic" where
                       \* the caller includes the microphone, as ContentView does
          Unlisted,    \* recordings at whose stop the directory may be
                       \* unreadable, the bound on such failures
          None         \* nil

ASSUME RecordingNone == None \notin Recordings \union Dirs
ASSUME UnlistedRecordings == Unlisted \subseteq Recordings
ASSUME NoRow == "norow" \notin Recordings \union {None}
ASSUME ProcessKind == "process" \in Kinds /\ Kinds \subseteq {"process", "mic"}

Wavs == Recordings \X Kinds

VARIABLES
  open,        \* windows on screen, each with its AudioRecordingManager
  recording,   \* recording[w]: what w records while isRecording, else None
  completion,  \* completion[w]: the start that stored recordingCompletion
  startTime,   \* windows whose recordingStartTime is set
  duration,    \* duration[w]: currentDuration, 0 or 1 for any positive time
  ticks,       \* windows with an updateDuration task waiting for its turn
  directory,   \* SettingsManager.recordingsDirectory
  place,       \* place[f]: the directory the files of f went to
  wavs,        \* wav files on disk
  born,        \* recordings with a process wav, oldest first
  finished,    \* recordings whose capture is over
  rowProcess,  \* rowProcess[f]: processFileURL of the row of f, or "norow"
  rowMic,      \* rowMic[f]: microphoneFileURL of the row of f
  rowOrder,    \* recordings that were given a row, by recordingDate, oldest
               \* first; a crash may have lost the row again
  disturbed,   \* recordings during which the directory changed or another
               \* process wav was created (history)
  unlisted     \* rows made when the directory could not be read (history)

managerVars == <<recording, completion, startTime, duration, ticks>>
diskVars == <<directory, place, wavs, born, finished>>
rowVars == <<rowProcess, rowMic, rowOrder, unlisted>>
sessionVars == <<open, managerVars, diskVars, rowVars, disturbed>>

Active == {recording[w] : w \in Windows} \ {None}
HasRow(f) == rowProcess[f] # "norow"

(* The last of a set of positions in a sequence.                            *)
Latest(I) == CHOOSE i \in I : \A j \in I : j <= i

SessionInit ==
  /\ open = {}
  /\ recording = [w \in Windows |-> None]
  /\ completion = [w \in Windows |-> None]
  /\ startTime = {} /\ ticks = {}
  /\ duration = [w \in Windows |-> 0]
  /\ directory \in Dirs
  /\ place = [f \in Recordings |-> None]
  /\ wavs = {} /\ born = <<>> /\ finished = {}
  /\ disturbed = {} /\ unlisted = {}
  /\ rowProcess = [f \in Recordings |-> "norow"]
  /\ rowMic = [f \in Recordings |-> None]
  /\ rowOrder = <<>>

OpenWindow(w) ==
  /\ w \notin open
  /\ open' = open \union {w}
  /\ UNCHANGED <<managerVars, diskVars, rowVars, disturbed>>

(* A start stores its completion, whatever comes of it; a completion that a *)
(* failed start has left is replaced.  Fault: it is not.                    *)
KeepsOldCompletion(w, f) ==
  completion' = [completion EXCEPT ![w] = IF @ = None THEN f ELSE @]

StoreCompletion(w, f) == completion' = [completion EXCEPT ![w] = f]

(* A click on Start, shown while the manager is not recording.  The file    *)
(* names are new: they carry the time.  The recorder throws with no file,   *)
(* with the process file or with both created, or it records both.          *)
StartRecording(w, f) ==
  /\ w \in open /\ recording[w] = None /\ place[f] = None
  /\ StoreCompletion(w, f)
  /\ place' = [place EXCEPT ![f] = directory]
  /\ \E made \in {{}, {"process"}, Kinds}, ok \in BOOLEAN :
       /\ ok => made = Kinds
       /\ wavs' = wavs \union ({f} \X made)
       /\ IF "process" \in made
          THEN born' = Append(born, f) /\ disturbed' = disturbed \union Active
          ELSE UNCHANGED <<born, disturbed>>
       /\ IF ok
          THEN /\ recording' = [recording EXCEPT ![w] = f]
               /\ startTime' = startTime \union {w}
               /\ duration' = [duration EXCEPT ![w] = 0]
               /\ UNCHANGED finished
          ELSE /\ finished' = finished \union {f}
               /\ UNCHANGED <<recording, startTime, duration>>
  /\ UNCHANGED <<open, ticks, directory, rowVars>>

(* The 0.1 s timer only enqueues a task; the task runs on a later turn. *)
DurationTick(w) ==
  /\ recording[w] # None
  /\ ticks' = ticks \union {w}
  /\ UNCHANGED <<open, recording, completion, startTime, duration, diskVars,
                 rowVars, disturbed>>

(* Fault: the task does not look whether the recording goes on.             *)
UpdateDurationAlways(w) ==
  /\ w \in ticks
  /\ ticks' = ticks \ {w}
  /\ duration' = [duration EXCEPT ![w] = 1]
  /\ UNCHANGED <<open, recording, completion, startTime, diskVars, rowVars,
                 disturbed>>

UpdateDuration(w) ==
  /\ w \in ticks
  /\ ticks' = ticks \ {w}
  /\ duration' = IF w \in startTime THEN [duration EXCEPT ![w] = 1]
                                    ELSE duration
  /\ UNCHANGED <<open, recording, completion, startTime, diskVars, rowVars,
                 disturbed>>

(* The positions in "born" of the process_*.wav of the current directory.   *)
ProcessFiles == {i \in DOMAIN born : place[born[i]] = directory}

(* Fault: the sort is ascending. *)
OldestProcessFile ==
  IF ProcessFiles = {} THEN None
  ELSE born[CHOOSE i \in ProcessFiles : \A j \in ProcessFiles : i <= j]

(* The newest process_*.wav in the directory that is chosen now. *)
LastProcessFile ==
  IF ProcessFiles = {} THEN None ELSE born[Latest(ProcessFiles)]

(* The manager's state after a stop; a manager that is gone has it, too. *)
ResetManager(w) ==
  /\ recording' = [recording EXCEPT ![w] = None]
  /\ completion' = [completion EXCEPT ![w] = None]
  /\ startTime' = startTime \ {w}
  /\ duration' = [duration EXCEPT ![w] = 0]

(* The completion of the start f inserts its row.  A directory that cannot  *)
(* be listed gives no URL.  The microphone URL is asked of the recorder     *)
(* after the stop, when its microphoneTap is nil.                           *)
InsertRow(f) ==
  /\ \/ /\ rowProcess' = [rowProcess EXCEPT ![f] = LastProcessFile]
        /\ UNCHANGED unlisted
     \/ /\ f \in Unlisted
        /\ rowProcess' = [rowProcess EXCEPT ![f] = None]
        /\ unlisted' = unlisted \union {f}
  /\ rowMic' = [rowMic EXCEPT ![f] = None]
  /\ rowOrder' = Append(rowOrder, f)

(* A click on Stop: the recorder stops, the completion that is stored is    *)
(* called, the state is reset.  Nothing else has a turn in between.         *)
StopRecording(w) ==
  /\ w \in open /\ recording[w] # None
  /\ finished' = finished \union {recording[w]}
  /\ IF completion[w] # None THEN InsertRow(completion[w]) ELSE UNCHANGED rowVars
  /\ ResetManager(w)
  /\ UNCHANGED <<open, ticks, directory, place, wavs, born, disturbed>>

(* The settings sheet, in any window, at any time. *)
ChangeDirectory(d) ==
  /\ open # {} /\ d # directory
  /\ directory' = d
  /\ disturbed' = disturbed \union Active
  /\ UNCHANGED <<open, managerVars, place, wavs, born, finished, rowVars>>

(* A window closes, no completion runs.  The manager and its recorder go,   *)
(* or, if the stored completion, which refers to the view, keeps them,      *)
(* capture on until the program ends.                                       *)
CloseWindow(w) ==
  /\ w \in open
  /\ open' = open \ {w}
  /\ finished' \in {finished, finished \union ({recording[w]} \ {None})}
  /\ ResetManager(w)
  /\ ticks' = ticks \ {w}
  /\ UNCHANGED <<directory, place, wavs, born, rowVars, disturbed>>

(* The program dies; SwiftData has yet to write some of the rows in "lost". *)
Die(lost) ==
  /\ open # {}
  /\ open' = {} /\ startTime' = {} /\ ticks' = {}
  /\ recording' = [w \in Windows |-> None]
  /\ completion' = [w \in Windows |-> None]
  /\ duration' = [w \in Windows |-> 0]
  /\ finished' = {f \in Recordings : place[f] # None}
  /\ rowProcess' = [f \in Recordings |-> IF f \in lost THEN "norow"
                                                       ELSE rowProcess[f]]
  /\ rowMic' = [f \in Recordings |-> IF f \in lost THEN None ELSE rowMic[f]]
  /\ UNCHANGED <<directory, place, wavs, born, rowOrder, unlisted, disturbed>>

SessionNext ==
  \/ \E w \in Windows :
       \/ OpenWindow(w) \/ CloseWindow(w)
       \/ StopRecording(w) \/ DurationTick(w) \/ UpdateDuration(w)
       \/ \E f \in Recordings : StartRecording(w, f)
  \/ \E d \in Dirs : ChangeDirectory(d)
  \/ \E lost \in SUBSET {f \in Recordings : HasRow(f)} : Die(lost)

SessionSpec == SessionInit /\ [][SessionNext]_sessionVars

SessionTypeOK ==
  /\ open \in SUBSET Windows
  /\ recording \in [Windows -> Recordings \union {None}]
  /\ completion \in [Windows -> Recordings \union {None}]
  /\ startTime \in SUBSET Windows /\ ticks \in SUBSET Windows
  /\ duration \in [Windows -> {0, 1}]
  /\ directory \in Dirs
  /\ place \in [Recordings -> Dirs \union {None}]
  /\ wavs \in SUBSET Wavs
  /\ born \in Seq(Recordings)
  /\ finished \in SUBSET Recordings /\ disturbed \in SUBSET Recordings
  /\ rowProcess \in [Recordings -> Recordings \union {None, "norow"}]
  /\ rowMic \in [Recordings -> Recordings \union {None}]
  /\ rowOrder \in Seq(Recordings) /\ unlisted \in SUBSET Recordings

(* A duration task that was enqueued before a stop and runs after it must   *)
(* not revive the clock: the manager that does not record shows 0.          *)
DurationZeroWhenIdle ==
  \A w \in Windows : recording[w] = None => duration[w] = 0

(* Where the lookup of getLastProcessFileURL can be trusted: unless the     *)
(* directory was changed, or another window created a process wav, while a  *)
(* recording ran, its row names its own wav, or no wav if the directory     *)
(* could not be listed at the stop; never that of another recording.        *)
UndisturbedRowNamesItsFile ==
  \A f \in Recordings \ disturbed :
    HasRow(f) => rowProcess[f] = IF f \in unlisted THEN None ELSE f

(* The row of a stop is that of the recording which was stopped, although   *)
(* it is inserted by a closure that was stored when some start was tried:   *)
(* no stop is without its row, and no row comes of a start that failed, of  *)
(* a window that closed, or of a completion that was called before.         *)
Stopped(w) == recording[w] # None /\ recording'[w] = None /\ w \in open'

RowsAreOfStoppedRecordings ==
  [][ {f \in Recordings : ~HasRow(f) /\ HasRow(f)'} =
        {recording[w] : w \in {v \in Windows : Stopped(v)}} ]_sessionVars
=============================================================================
