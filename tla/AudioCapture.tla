---------------------------- MODULE AudioCapture ----------------------------
(***************************************************************************)
(* audiosdk: AudioRecorder with its ProcessTap and MicrophoneTap, the       *)
(* OrphanedResourceCleaner that every AudioRecorder.init runs, and, as      *)
(* external code, the Core Audio objects they create and destroy.           *)
(*                                                                          *)
(* A session is one call of startRecording: it names the ProcessTap object, *)
(* the MicrophoneTap object and every hardware object that call makes.      *)
(* All callers in the repository call on the main thread, so one call runs  *)
(* at a time ("call"), one Core Audio request per step; the IO callback     *)
(* runs on the tap's own queue, and the program may die between any two     *)
(* steps.                                                                   *)
(***************************************************************************)
EXTENDS Naturals

CONSTANTS Recorders,  \* AudioRecorder instances the program may hold
          Sessions,   \* calls of startRecording, the bound on a behaviour
          None        \* nil

ASSUME SessionNone == None \notin Sessions

VARIABLES
  created,       \* recorders that exist
  tap,           \* AudioRecorder.tap: the session of its ProcessTap, or None
  microphoneTap, \* AudioRecorder.microphoneTap, or None
  call,          \* the call the main thread is executing
  isRecording,   \* sessions whose ProcessTap.isRecording is true
  currentFile,   \* sessions whose ProcessTap.currentFile is not nil
  processTaps,   \* process taps that exist in Core Audio
  aggregates,    \* aggregate devices that exist, all named "SDK-Tap-<pid>"
  ioProcs,       \* aggregates with an IO proc
  running,       \* aggregates that are started, so that callbacks come
  micEngines,    \* audio engines that run with a tap on their input node
  inFlight,      \* IO callbacks that hold their file and have yet to write
  micWanted,     \* sessions started with a microphone file
  fate,          \* fate[s]: what became of session s (history)
  handled,       \* handled[s]: runs of postProcessingHandler (history)
  micHandled,    \* micHandled[s]: runs of microphonePostProcessingHandler
  lateWrites     \* lateWrites[s]: buffers written after the tap stopped

hardware == <<processTaps, aggregates, ioProcs, running, micEngines>>
history  == <<fate, handled, micHandled>>
vars == <<created, tap, microphoneTap, call, isRecording, currentFile,
          hardware, inFlight, micWanted, history, lateWrites>>

Fates == {"unused", "starting", "capturing", "stopped", "failed",
          "discarded", "crashed"}

(* The program counter of the main thread: where in startRecording or      *)
(* stopRecording it is.  "stop..." is stopBothRecordings, "mic..." the      *)
(* microphone half of a start, "undo..." the catch block.                   *)
StopSteps  == {"stopFlag", "stopHardware", "stopMic", "handler", "micHandler"}
StartSteps == {"resolve", "createTap", "readFormat", "createAggregate",
               "openFile", "createIOProc", "startDevice", "micPermission",
               "micEngine", "commit", "undoFlag", "undoHardware"}
Steps == {"idle"} \union StopSteps \union StartSteps

NoCall == [pc |-> "idle", recorder |-> None, new |-> None, old |-> None,
           oldMic |-> None]

Init ==
  /\ created = {}
  /\ tap = [r \in Recorders |-> None]
  /\ microphoneTap = [r \in Recorders |-> None]
  /\ call = NoCall
  /\ isRecording = {} /\ currentFile = {}
  /\ processTaps = {} /\ aggregates = {} /\ ioProcs = {} /\ running = {}
  /\ micEngines = {} /\ inFlight = {} /\ micWanted = {}
  /\ fate = [s \in Sessions |-> "unused"]
  /\ handled = [s \in Sessions |-> 0]
  /\ micHandled = [s \in Sessions |-> 0]
  /\ lateWrites = [s \in Sessions |-> 0]

----------------------------------------------------------------------------
(* Core Audio and object lifetimes. *)

(* Destroying an aggregate takes its IO proc with it and ends its IO. *)
DestroyAggregates(S) ==
  /\ aggregates' = aggregates \ S
  /\ ioProcs' = ioProcs \ S
  /\ running' = running \ S

(* Fault: the process tap is forgotten. *)
ReleaseForgetsTap(S) == DestroyAggregates(S) /\ UNCHANGED processTaps

(* The second half of ProcessTap.stopRecording: each request is made only  *)
(* for what the tap created, its status is ignored, and a request for an   *)
(* object that is gone already changes nothing.                            *)
ReleaseTapHardware(S) ==
  /\ DestroyAggregates(S)
  /\ processTaps' = processTaps \ S

Referenced(s) ==
  \/ \E r \in Recorders : tap[r] = s
  \/ call.pc # "idle" /\ s \in {call.new, call.old}

At(step) == call.pc = step
Goto(step) == call' = [call EXCEPT !.pc = step]

----------------------------------------------------------------------------
(* AudioRecorder() : the cleaner walks the device list, unless Core Audio   *)
(* refuses to give it, and destroys every aggregate whose name or UID       *)
(* starts with "SDK-Tap-".  Process taps are not devices and have no such   *)
(* name: it never sees one.                                                 *)
CleanupOrphanedAudioObjects(listed) ==
  IF listed THEN DestroyAggregates(aggregates)
            ELSE UNCHANGED <<aggregates, ioProcs, running>>

CreateRecorder(r, listed) ==
  /\ At("idle") /\ r \notin created
  /\ created' = created \union {r}
  /\ CleanupOrphanedAudioObjects(listed)
  /\ UNCHANGED <<tap, microphoneTap, call, isRecording, currentFile,
                 processTaps, micEngines, inFlight, micWanted, history,
                 lateWrites>>

(* stopBothRecordings reads the URLs of the taps before it stops them. *)
EnterStop(r, s) ==
  call' = [pc |-> "stopFlag", recorder |-> r, new |-> s, old |-> tap[r],
           oldMic |-> microphoneTap[r]]

StartRecording(r, s, mic) ==
  /\ At("idle") /\ r \in created /\ fate[s] = "unused"
  /\ fate' = [fate EXCEPT ![s] = "starting"]
  /\ micWanted' = IF mic THEN micWanted \union {s} ELSE micWanted
  /\ EnterStop(r, s)
  /\ UNCHANGED <<created, tap, microphoneTap, isRecording, currentFile,
                 hardware, inFlight, handled, micHandled, lateWrites>>

StopRecording(r) ==
  /\ At("idle") /\ r \in created /\ tap[r] # None
  /\ EnterStop(r, None)
  /\ UNCHANGED <<created, tap, microphoneTap, isRecording, currentFile,
                 hardware, inFlight, micWanted, history, lateWrites>>

----------------------------------------------------------------------------
(* Fault: the file stays open. *)
FileLeftOpen(s) == isRecording' = isRecording \ {s} /\ UNCHANGED currentFile

(* ProcessTap.stopRecording, first half: the flag and the file go first, so *)
(* that a callback that begins from here on finds no file.                  *)
TapStopFlag(s) ==
  /\ isRecording' = isRecording \ {s}
  /\ currentFile' = currentFile \ {s}

StopFlag ==
  /\ At("stopFlag") /\ Goto("stopHardware")
  /\ TapStopFlag(call.old)
  /\ UNCHANGED <<created, tap, microphoneTap, hardware, inFlight, micWanted,
                 history, lateWrites>>

StopHardware ==
  /\ At("stopHardware") /\ Goto("stopMic")
  /\ ReleaseTapHardware({call.old})
  /\ UNCHANGED <<created, tap, microphoneTap, isRecording, currentFile,
                 micEngines, inFlight, micWanted, history, lateWrites>>

(* MicrophoneTap.stopRecording; then both taps are set to nil. *)
StopMic ==
  /\ At("stopMic") /\ Goto("handler")
  /\ micEngines' = micEngines \ {call.oldMic}
  /\ tap' = [tap EXCEPT ![call.recorder] = None]
  /\ microphoneTap' = [microphoneTap EXCEPT ![call.recorder] = None]
  /\ fate' = [s \in Sessions |-> IF s = call.old THEN "stopped" ELSE fate[s]]
  /\ UNCHANGED <<created, isRecording, currentFile, processTaps, aggregates,
                 ioProcs, running, inFlight, micWanted, handled, micHandled,
                 lateWrites>>

(* Fault: a session that a new start replaces is not reported. *)
HandlerOnlyOnStop ==
  /\ At("handler") /\ Goto("micHandler")
  /\ handled' = [s \in Sessions |-> IF s = call.old /\ call.new = None
                                    THEN handled[s] + 1 ELSE handled[s]]
  /\ UNCHANGED <<created, tap, microphoneTap, isRecording, currentFile,
                 hardware, inFlight, micWanted, fate, micHandled, lateWrites>>

RunHandler ==
  /\ At("handler") /\ Goto("micHandler")
  /\ handled' = [s \in Sessions |-> IF s = call.old THEN handled[s] + 1
                                                    ELSE handled[s]]
  /\ UNCHANGED <<created, tap, microphoneTap, isRecording, currentFile,
                 hardware, inFlight, micWanted, fate, micHandled, lateWrites>>

(* Fault: the microphone handler is given the process file. *)
MicHandlerGetsProcessFile ==
  /\ At("micHandler")
  /\ micHandled' = [s \in Sessions |-> IF s = call.old THEN micHandled[s] + 1
                                                      ELSE micHandled[s]]
  /\ call' = IF call.new = None THEN NoCall
             ELSE [call EXCEPT !.pc = "resolve", !.old = None, !.oldMic = None]
  /\ UNCHANGED <<created, tap, microphoneTap, isRecording, currentFile,
                 hardware, inFlight, micWanted, fate, handled, lateWrites>>

(* After the handlers, stopRecording returns and startRecording goes on. *)
RunMicHandler ==
  /\ At("micHandler")
  /\ micHandled' = [s \in Sessions |-> IF s = call.oldMic
                                       THEN micHandled[s] + 1
                                       ELSE micHandled[s]]
  /\ call' = IF call.new = None THEN NoCall
             ELSE [call EXCEPT !.pc = "resolve", !.old = None, !.oldMic = None]
  /\ UNCHANGED <<created, tap, microphoneTap, isRecording, currentFile,
                 hardware, inFlight, micWanted, fate, handled, lateWrites>>

----------------------------------------------------------------------------
(* startRecording.  Each request to Core Audio may fail.  Until             *)
(* ProcessTap.startRecording has returned, a failure throws past the local  *)
(* newTap: its deinit runs with isRecording still false and releases no     *)
(* Core Audio object.                                                       *)
Throw ==
  /\ currentFile' = currentFile \ {call.new}
  /\ fate' = [fate EXCEPT ![call.new] = "failed"]
  /\ call' = NoCall
  /\ UNCHANGED <<isRecording, hardware>>

Frame == UNCHANGED <<created, tap, microphoneTap, inFlight, micWanted,
                     handled, micHandled, lateWrites>>

(* A step that creates no hardware: the pid and device lookups, then the   *)
(* tap's device UID and stream format.                                     *)
Lookup(step, next) ==
  /\ At(step) /\ Frame
  /\ \/ Goto(next) /\ UNCHANGED <<isRecording, currentFile, hardware, fate>>
     \/ Throw

CreateTap ==
  /\ At("createTap") /\ Frame
  /\ \/ /\ processTaps' = processTaps \union {call.new}
        /\ Goto("readFormat")
        /\ UNCHANGED <<isRecording, currentFile, aggregates, ioProcs, running,
                       micEngines, fate>>
     \/ Throw

CreateAggregate ==
  /\ At("createAggregate") /\ Frame
  /\ \/ /\ aggregates' = aggregates \union {call.new}
        /\ Goto("openFile")
        /\ UNCHANGED <<isRecording, currentFile, processTaps, ioProcs, running,
                       micEngines, fate>>
     \/ Throw

OpenFile ==
  /\ At("openFile") /\ Frame
  /\ \/ /\ currentFile' = currentFile \union {call.new}
        /\ Goto("createIOProc")
        /\ UNCHANGED <<isRecording, hardware, fate>>
     \/ Throw

CreateIOProc ==
  /\ At("createIOProc") /\ Frame
  /\ \/ /\ ioProcs' = ioProcs \union {call.new}
        /\ Goto("startDevice")
        /\ UNCHANGED <<isRecording, currentFile, processTaps, aggregates,
                       running, micEngines, fate>>
     \/ Throw

StartDevice ==
  /\ At("startDevice") /\ Frame
  /\ \/ /\ running' = running \union {call.new}
        /\ isRecording' = isRecording \union {call.new}
        /\ Goto(IF call.new \in micWanted THEN "micPermission" ELSE "commit")
        /\ UNCHANGED <<currentFile, processTaps, aggregates, ioProcs,
                       micEngines, fate>>
     \/ Throw

(* Faults: a denied permission is ignored; it throws past the catch block. *)
DeniedIsIgnored ==
  /\ At("micPermission") /\ Frame
  /\ \E granted \in BOOLEAN : Goto(IF granted THEN "micEngine" ELSE "commit")
  /\ UNCHANGED <<isRecording, currentFile, hardware, fate>>

DeniedThrowsPastCatch == Lookup("micPermission", "micEngine")

(* The main thread waits for the user's answer while the tap records. *)
MicPermission ==
  /\ At("micPermission") /\ Frame
  /\ \E granted \in BOOLEAN : Goto(IF granted THEN "micEngine" ELSE "undoFlag")
  /\ UNCHANGED <<isRecording, currentFile, hardware, fate>>

(* Input format, file, installTap and engine start; on an error the inner  *)
(* catch removes the tap again, so no engine is left behind.               *)
StartMicEngine ==
  /\ At("micEngine") /\ Frame
  /\ \/ Goto("commit") /\ micEngines' = micEngines \union {call.new}
     \/ Goto("undoFlag") /\ UNCHANGED micEngines
  /\ UNCHANGED <<isRecording, currentFile, processTaps, aggregates, ioProcs,
                 running, fate>>

Commit ==
  /\ At("commit")
  /\ tap' = [tap EXCEPT ![call.recorder] = call.new]
  /\ microphoneTap' = [microphoneTap EXCEPT
         ![call.recorder] = IF call.new \in micWanted THEN call.new ELSE None]
  /\ fate' = [fate EXCEPT ![call.new] = "capturing"]
  /\ call' = NoCall
  /\ UNCHANGED <<created, isRecording, currentFile, hardware, inFlight,
                 micWanted, handled, micHandled, lateWrites>>

(* The catch block: processTap?.stopRecording(), then the error is thrown. *)
UndoFlag ==
  /\ At("undoFlag") /\ Goto("undoHardware")
  /\ TapStopFlag(call.new)
  /\ UNCHANGED <<created, tap, microphoneTap, hardware, inFlight, micWanted,
                 history, lateWrites>>

UndoHardware ==
  /\ At("undoHardware")
  /\ ReleaseTapHardware({call.new})
  /\ fate' = [fate EXCEPT ![call.new] = "failed"]
  /\ call' = NoCall
  /\ UNCHANGED <<created, tap, microphoneTap, isRecording, currentFile,
                 micEngines, inFlight, micWanted, handled, micHandled,
                 lateWrites>>

----------------------------------------------------------------------------
(* The IO callback on the tap's queue: it reads currentFile once, and       *)
(* writes to what it read.  While it runs it keeps the ProcessTap alive.    *)
CallbackBegin(s) ==
  /\ s \in running \ inFlight
  /\ s \in currentFile /\ Referenced(s)
  /\ inFlight' = inFlight \union {s}
  /\ UNCHANGED <<created, tap, microphoneTap, call, isRecording, currentFile,
                 hardware, micWanted, history, lateWrites>>

(* Fault: deinit does not stop the recording. *)
DeinitKeepsRecording(S) ==
  /\ currentFile' = currentFile \ S
  /\ UNCHANGED <<isRecording, processTaps, aggregates, ioProcs, running>>

(* ProcessTap.deinit for the taps of S: stopRecording where still recording. *)
Deinit(S) ==
  LET live == S \intersect isRecording IN
  /\ isRecording' = isRecording \ live
  /\ currentFile' = currentFile \ S
  /\ ReleaseTapHardware(live)

CallbackEnd(s) ==
  /\ s \in inFlight
  /\ inFlight' = inFlight \ {s}
  /\ lateWrites' = [lateWrites EXCEPT
                      ![s] = IF s \in isRecording THEN @ ELSE @ + 1]
  /\ Deinit(IF Referenced(s) THEN {} ELSE {s})
  /\ UNCHANGED <<created, tap, microphoneTap, call, micEngines, micWanted,
                 history>>

(* The program drops the recorder (its window closes).  A ProcessTap dies   *)
(* with it at once, unless a callback holds it for the moment.              *)
ReleaseRecorder(r) ==
  /\ At("idle") /\ r \in created
  /\ created' = created \ {r}
  /\ tap' = [tap EXCEPT ![r] = None]
  /\ microphoneTap' = [microphoneTap EXCEPT ![r] = None]
  /\ micEngines' = micEngines \ {microphoneTap[r]}
  /\ Deinit({tap[r]} \ inFlight)
  /\ fate' = [s \in Sessions |-> IF s = tap[r] THEN "discarded" ELSE fate[s]]
  /\ UNCHANGED <<call, inFlight, micWanted, handled, micHandled, lateWrites>>

(* The program dies: its threads, objects, IO procs and engines are gone.  *)
(* Which taps and aggregates Core Audio then still lists is up to it; that  *)
(* some do is what the cleaner is for.                                     *)
Crash ==
  /\ created # {}
  /\ created' = {} /\ call' = NoCall
  /\ tap' = [r \in Recorders |-> None]
  /\ microphoneTap' = [r \in Recorders |-> None]
  /\ isRecording' = {} /\ currentFile' = {} /\ inFlight' = {}
  /\ ioProcs' = {} /\ running' = {} /\ micEngines' = {}
  /\ processTaps' \in SUBSET processTaps
  /\ aggregates' \in SUBSET aggregates
  /\ fate' = [s \in Sessions |-> IF Referenced(s) \/ s \in isRecording
                                 THEN "crashed" ELSE fate[s]]
  /\ UNCHANGED <<micWanted, handled, micHandled, lateWrites>>

----------------------------------------------------------------------------
StopCall == StopFlag \/ StopHardware \/ StopMic \/ RunHandler \/ RunMicHandler

StartCall ==
  \/ Lookup("resolve", "createTap") \/ CreateTap
  \/ Lookup("readFormat", "createAggregate") \/ CreateAggregate
  \/ OpenFile \/ CreateIOProc \/ StartDevice \/ StartMicEngine
  \/ Commit \/ UndoFlag \/ UndoHardware

Next ==
  \/ \E r \in Recorders :
        \/ \E listed \in BOOLEAN : CreateRecorder(r, listed)
        \/ \E s \in Sessions, mic \in BOOLEAN : StartRecording(r, s, mic)
        \/ StopRecording(r)
        \/ ReleaseRecorder(r)
  \/ StopCall
  \/ StartCall
  \/ MicPermission
  \/ \E s \in Sessions : CallbackBegin(s) \/ CallbackEnd(s)
  \/ Crash

(* The main thread returns from a call it is in, and a callback returns;   *)
(* nothing makes the user answer the permission prompt.                    *)
Fairness ==
  /\ WF_vars(StopCall \/ StartCall)
  /\ \A s \in Sessions : WF_vars(CallbackEnd(s))

Spec == Init /\ [][Next]_vars
FairSpec == Spec /\ Fairness

----------------------------------------------------------------------------
TypeOK ==
  /\ created \in SUBSET Recorders
  /\ tap \in [Recorders -> Sessions \union {None}]
  /\ microphoneTap \in [Recorders -> Sessions \union {None}]
  /\ call \in [pc : Steps, recorder : Recorders \union {None},
               new : Sessions \union {None}, old : Sessions \union {None},
               oldMic : Sessions \union {None}]
  /\ isRecording \in SUBSET Sessions
  /\ currentFile \in SUBSET Sessions
  /\ processTaps \in SUBSET Sessions
  /\ aggregates \in SUBSET Sessions
  /\ ioProcs \in SUBSET aggregates
  /\ running \in SUBSET ioProcs
  /\ micEngines \in SUBSET Sessions
  /\ inFlight \in SUBSET Sessions
  /\ micWanted \in SUBSET Sessions
  /\ fate \in [Sessions -> Fates]
  /\ handled \in [Sessions -> Nat]
  /\ micHandled \in [Sessions -> Nat]
  /\ lateWrites \in [Sessions -> Nat]

(* "Both recordings are started and stopped together" (audiosdk/README.md   *)
(* line 32): between calls, a microphone engine runs only for a recorder's  *)
(* current session, together with its process tap, and for every such       *)
(* session that asked for one; no device runs for a session that no         *)
(* recorder holds, but for one whose last callback is finishing.            *)
StartedAndStoppedTogether ==
  At("idle") =>
    /\ \A r \in Recorders : microphoneTap[r] # None => microphoneTap[r] = tap[r]
    /\ micEngines = {microphoneTap[r] : r \in Recorders} \ {None}
    /\ micEngines = {tap[r] : r \in Recorders} \intersect micWanted
    /\ running \subseteq {tap[r] : r \in Recorders} \union inFlight

(* "Automatic Resource Cleanup" (README.md line 14) where the code keeps    *)
(* it: a session that ended by a stop, a replacement or the release of its  *)
(* recorder has no Core Audio object and no engine left, whatever else was  *)
(* destroyed, failed or was in flight meanwhile.                            *)
EndedSessionReleasesHardware ==
  \A s \in Sessions :
    fate[s] = "stopped" \/ (fate[s] = "discarded" /\ s \notin inFlight) =>
      s \notin processTaps \union aggregates \union ioProcs \union running
                 \union micEngines

(* A start that throws leaves nothing that captures, at any failing step.   *)
FailedStartCapturesNothing ==
  \A s \in Sessions : fate[s] = "failed" =>
     s \notin running \union micEngines \union isRecording \union currentFile

(* When a call has returned, each session that was stopped or replaced has  *)
(* had its process handler run once, and its microphone handler once if it  *)
(* had a microphone; no other session has had a handler run, except one     *)
(* that a crash cut off between the two.                                    *)
HandledExactlyOnce ==
  \A s \in Sessions :
    /\ At("idle") /\ fate[s] = "stopped" =>
         handled[s] = 1 /\ micHandled[s] = (IF s \in micWanted THEN 1 ELSE 0)
    /\ fate[s] \notin {"stopped", "crashed"} => handled[s] = 0 /\ micHandled[s] = 0

(* The callback queue is serial and every callback reads currentFile again, *)
(* so after ProcessTap.stopRecording at most one more buffer reaches the    *)
(* file: the one whose callback had read the file before.                   *)
AtMostOneLateWrite == \A s \in Sessions : lateWrites[s] <= 1

(* The inductive invariant behind the five properties above, in parts.      *)

BeforeIO == {"resolve", "createTap", "readFormat", "createAggregate",
             "openFile", "createIOProc", "startDevice"}

(* What the call in progress knows is still true of the recorder it works   *)
(* on, and "starting" is the fate of the session it starts and no other.    *)
CallInv ==
  /\ At("idle") => call = NoCall
  /\ ~At("idle") => call.recorder \in Recorders
  /\ call.pc \in {"stopFlag", "stopHardware", "stopMic"} =>
       /\ call.old = tap[call.recorder]
       /\ call.oldMic = microphoneTap[call.recorder]
  /\ call.pc \in {"handler", "micHandler"} \union StartSteps =>
       tap[call.recorder] = None /\ microphoneTap[call.recorder] = None
  /\ call.pc \in {"handler", "micHandler"} =>
       /\ call.old # None => fate[call.old] = "stopped"
       /\ call.oldMic = IF call.old \in micWanted THEN call.old ELSE None
  /\ call.pc \in StartSteps => call.old = None /\ call.oldMic = None
  /\ \A s \in Sessions : fate[s] = "starting" <=> ~At("idle") /\ s = call.new

(* Sessions that capture and recorders that hold one match one to one.      *)
OwnerInv ==
  /\ \A r \in Recorders :
       /\ tap[r] # None => fate[tap[r]] = "capturing"
       /\ microphoneTap[r] = IF tap[r] \in micWanted THEN tap[r] ELSE None
  /\ \A q, r \in Recorders : tap[q] = tap[r] /\ tap[q] # None => q = r
  /\ \A s \in Sessions : fate[s] = "capturing" => \E r \in Recorders : tap[r] = s

(* The engines that run are those of the sessions that capture and asked    *)
(* for a microphone; an engine has started before the start commits.        *)
MicInv ==
  /\ call.pc \in {"micPermission", "micEngine"} => call.new \in micWanted
  /\ \A s \in Sessions :
       s \in micEngines <=>
         /\ s \in micWanted
         /\ fate[s] = "capturing" \/ (At("commit") /\ s = call.new)

(* The ProcessTap objects: which of them record, and which hold a file.     *)
TapInv ==
  \A s \in Sessions :
    /\ s \in isRecording <=>
         \/ fate[s] = "capturing"
            /\ ~(call.pc \in {"stopHardware", "stopMic"} /\ s = call.old)
         \/ call.pc \in {"micPermission", "micEngine", "commit", "undoFlag"}
            /\ s = call.new
         \/ fate[s] = "discarded" /\ s \in inFlight
    /\ s \in currentFile =>
         s \in isRecording
         \/ (call.pc \in {"createIOProc", "startDevice"} /\ s = call.new)

(* Who accounts for each object that Core Audio still has.                  *)
Stopping(s) == \/ At("stopHardware") /\ s = call.old
               \/ At("undoHardware") /\ s = call.new

HardwareInv ==
  \A s \in Sessions :
    /\ s \in running => s \in isRecording \/ Stopping(s)
    /\ s \in processTaps \union aggregates =>
         \/ s \in isRecording \/ Stopping(s)
         \/ call.pc \in StartSteps /\ s = call.new
         \/ fate[s] \in {"failed", "crashed"}

(* The one late write of a session comes after its tap has stopped, from    *)
(* the callback that was then in flight.                                    *)
LateInv ==
  \A s \in Sessions :
    /\ lateWrites[s] <= 1
    /\ s \in inFlight \union isRecording => lateWrites[s] = 0
    /\ fate[s] = "unused"
       \/ (fate[s] = "starting" /\ call.pc \in StopSteps \union BeforeIO) =>
         lateWrites[s] = 0 /\ s \notin inFlight

(* How far the handlers of a stopped session have come.                     *)
HandlerInv ==
  \A s \in Sessions :
    /\ fate[s] \notin {"stopped", "crashed"} =>
         handled[s] = 0 /\ micHandled[s] = 0
    /\ fate[s] = "stopped" =>
         /\ handled[s] = IF At("handler") /\ s = call.old THEN 0 ELSE 1
         /\ micHandled[s] =
              IF s \notin micWanted
                 \/ (call.pc \in {"handler", "micHandler"} /\ s = call.old)
              THEN 0 ELSE 1

IInv == /\ CallInv /\ OwnerInv /\ MicInv /\ TapInv
        /\ HardwareInv /\ LateInv /\ HandlerInv

(* A tap that nobody holds any more is released: deinit runs as soon as the *)
(* callback that kept it alive has returned, unless the program dies first. *)
DroppedTapReleased ==
  \A s \in Sessions :
    (fate[s] = "discarded" /\ s \in processTaps)
      ~> (s \notin processTaps \/ fate[s] = "crashed")

(* AudioRecorder implements the abstract service. *)
Service == INSTANCE CaptureService WITH
  holding <- tap,
  holdingMic <- microphoneTap,
  owed <- IF At("handler") THEN {call.old} \ {None} ELSE {},
  owedMic <- IF At("handler") \/ At("micHandler") THEN {call.oldMic} \ {None}
                                                  ELSE {},
  told <- handled,
  toldMic <- micHandled

(* Every behaviour of the recorder is one of the service: who holds what,   *)
(* when a session ends, and which handler runs when, and that a handler     *)
(* that is owed does run unless the program dies.                           *)
ImplementsService == Service!ServiceSpec

(* AudioRecorder.swift line 30: the cleaner removes what is "orphaned" and  *)
(* "left over from previous runs"; a recorder that is capturing keeps the   *)
(* aggregate it captures from.                                              *)
CleanerSparesLiveSessions ==
  \A r \in Recorders : At("idle") /\ tap[r] # None => tap[r] \in running

=============================================================================
