------------------------- MODULE AudioCaptureProofs -------------------------
(***************************************************************************)
(* Proofs about AudioCapture for any set of recorders and of sessions.      *)
(***************************************************************************)
EXTENDS AudioCapture, TLAPS

(* Only a start reaches the start steps, so there is a session to start,    *)
(* and the objects that a step builds on are there: what makes the types    *)
(* inductive.                                                               *)
Typed ==
  /\ TypeOK
  /\ call.pc \in StartSteps => call.new \in Sessions
  /\ call.pc \in {"openFile", "createIOProc", "startDevice"} =>
       call.new \in aggregates
  /\ call.pc = "startDevice" => call.new \in ioProcs

(* A start that throws leaves every variable in its type.                   *)
LEMMA ThrowTyped ==
  ASSUME Typed, Throw, Frame
  PROVE  Typed'
<1>1. call' \in [pc : Steps, recorder : Recorders \union {None},
                 new : Sessions \union {None}, old : Sessions \union {None},
                 oldMic : Sessions \union {None}]
  BY DEF Throw, NoCall, Steps
<1>2. fate' \in [Sessions -> Fates]
  BY DEF Throw, Typed, TypeOK, Fates
<1> QED
  BY <1>1, <1>2 DEF Throw, Frame, Typed, TypeOK, hardware, NoCall, StartSteps

(* Typed is an invariant: each action keeps it.                             *)
LEMMA TypedInvariant == Spec => []Typed
<1>1. Init => Typed
  BY SessionNone DEF Init, Typed, TypeOK, NoCall, Steps, StopSteps, StartSteps, Fates
<1>2. Typed /\ [Next]_vars => Typed'
  <2> SUFFICES ASSUME Typed, [Next]_vars PROVE Typed'
    OBVIOUS
  <2> USE SessionNone DEF Typed, TypeOK, Steps, StopSteps, StartSteps, Fates,
                          hardware, history, At, Goto
  <2>1. ASSUME NEW r \in Recorders, NEW listed \in BOOLEAN, CreateRecorder(r, listed)
        PROVE  Typed'
    BY <2>1 DEF CreateRecorder, CleanupOrphanedAudioObjects, DestroyAggregates
  <2>2. ASSUME NEW r \in Recorders, NEW s \in Sessions, NEW mic \in BOOLEAN,
               StartRecording(r, s, mic)
        PROVE  Typed'
    BY <2>2 DEF StartRecording, EnterStop
  <2>3. ASSUME NEW r \in Recorders, StopRecording(r)
        PROVE  Typed'
    BY <2>3 DEF StopRecording, EnterStop
  <2>4. ASSUME NEW r \in Recorders, ReleaseRecorder(r)
        PROVE  Typed'
    BY <2>4 DEF ReleaseRecorder, Deinit, ReleaseTapHardware, DestroyAggregates
  <2>5. CASE StopFlag
    BY <2>5 DEF StopFlag, TapStopFlag
  <2>6. CASE StopHardware
    BY <2>6 DEF StopHardware, ReleaseTapHardware, DestroyAggregates
  <2>7. CASE StopMic
    BY <2>7 DEF StopMic
  <2>8. CASE RunHandler
    BY <2>8 DEF RunHandler
  <2>9. CASE RunMicHandler
    <3>1. micHandled' \in [Sessions -> Nat]
      BY <2>9 DEF RunMicHandler
    <3>2. CASE call.new = None
      BY <2>9, <3>1, <3>2 DEF RunMicHandler, NoCall
    <3>3. CASE call.new # None
      BY <2>9, <3>1, <3>3 DEF RunMicHandler
    <3> QED BY <3>2, <3>3
  <2>10. CASE Lookup("resolve", "createTap")
    <3>1. CASE Throw
      BY <2>10, <3>1, ThrowTyped DEF Lookup
    <3>2. CASE ~Throw
      BY <2>10, <3>2 DEF Lookup, Frame
    <3> QED BY <3>1, <3>2
  <2>11. CASE Lookup("readFormat", "createAggregate")
    <3>1. CASE Throw
      BY <2>11, <3>1, ThrowTyped DEF Lookup
    <3>2. CASE ~Throw
      BY <2>11, <3>2 DEF Lookup, Frame
    <3> QED BY <3>1, <3>2
  <2>12. CASE CreateTap
    <3>1. CASE Throw
      BY <2>12, <3>1, ThrowTyped DEF CreateTap
    <3>2. CASE ~Throw
      BY <2>12, <3>2 DEF CreateTap, Frame
    <3> QED BY <3>1, <3>2
  <2>13. CASE CreateAggregate
    <3>1. CASE Throw
      BY <2>13, <3>1, ThrowTyped DEF CreateAggregate
    <3>2. CASE ~Throw
      BY <2>13, <3>2 DEF CreateAggregate, Frame
    <3> QED BY <3>1, <3>2
  <2>14. CASE OpenFile
    <3>1. CASE Throw
      BY <2>14, <3>1, ThrowTyped DEF OpenFile
    <3>2. CASE ~Throw
      BY <2>14, <3>2 DEF OpenFile, Frame
    <3> QED BY <3>1, <3>2
  <2>15. CASE CreateIOProc
    <3>1. CASE Throw
      BY <2>15, <3>1, ThrowTyped DEF CreateIOProc
    <3>2. CASE ~Throw
      BY <2>15, <3>2 DEF CreateIOProc, Frame
    <3> QED BY <3>1, <3>2
  <2>16. CASE StartDevice
    <3>1. CASE Throw
      BY <2>16, <3>1, ThrowTyped DEF StartDevice
    <3>2. CASE ~Throw
      BY <2>16, <3>2 DEF StartDevice, Frame
    <3> QED BY <3>1, <3>2
  <2>17. CASE MicPermission
    BY <2>17 DEF MicPermission, Frame
  <2>18. CASE StartMicEngine
    BY <2>18 DEF StartMicEngine, Frame
  <2>19. CASE Commit
    BY <2>19 DEF Commit, NoCall
  <2>20. CASE UndoFlag
    BY <2>20 DEF UndoFlag, TapStopFlag
  <2>21. CASE UndoHardware
    BY <2>21 DEF UndoHardware, ReleaseTapHardware, DestroyAggregates, NoCall
  <2>22. ASSUME NEW s \in Sessions, CallbackBegin(s)
        PROVE  Typed'
    BY <2>22 DEF CallbackBegin
  <2>23. ASSUME NEW s \in Sessions, CallbackEnd(s)
        PROVE  Typed'
    BY <2>23 DEF CallbackEnd, Referenced, Deinit, ReleaseTapHardware, DestroyAggregates
  <2>24. CASE Crash
    BY <2>24 DEF Crash, NoCall, Referenced
  <2>25. CASE UNCHANGED vars
    BY <2>25 DEF vars
  <2> QED
    BY <2>1, <2>2, <2>3, <2>4, <2>5, <2>6, <2>7, <2>8, <2>9, <2>10, <2>11, <2>12, <2>13, <2>14, <2>15, <2>16, <2>17, <2>18, <2>19, <2>20, <2>21, <2>22, <2>23, <2>24, <2>25, SMTT(60)
    DEF Next, StopCall, StartCall
<1> QED
  BY <1>1, <1>2, PTL DEF Spec

(* Every variable keeps the type that TypeOK gives it.                      *)
THEOREM TypeCorrect == Spec => []TypeOK
<1>1. Typed => TypeOK
  BY DEF Typed
<1> QED
  BY <1>1, TypedInvariant, PTL

----------------------------------------------------------------------------
(* The inductive invariant: each action keeps every part of it.  Where an   *)
(* action disturbs several parts at once they are proved one by one.        *)
LEMMA IInvKept ==
  ASSUME Typed, IInv, [Next]_vars
  PROVE  IInv'
<1> USE SessionNone
    DEF Typed, TypeOK, Steps, StopSteps, StartSteps, BeforeIO, Fates,
        hardware, history, At, Goto, Stopping, IInv, CallInv, OwnerInv,
        MicInv, TapInv, HardwareInv, LateInv, HandlerInv
<1>1. ASSUME NEW r \in Recorders, NEW listed \in BOOLEAN,
               CreateRecorder(r, listed)
      PROVE  IInv'
  BY <1>1 DEF CreateRecorder, CleanupOrphanedAudioObjects, DestroyAggregates
<1>2. ASSUME NEW r \in Recorders, NEW s \in Sessions, NEW mic \in BOOLEAN,
               StartRecording(r, s, mic)
      PROVE  IInv'
  BY <1>2 DEF StartRecording, EnterStop
<1>3. ASSUME NEW r \in Recorders, StopRecording(r)
      PROVE  IInv'
  BY <1>3 DEF StopRecording, EnterStop
<1>4. ASSUME NEW r \in Recorders, ReleaseRecorder(r)
      PROVE  IInv'
  <2>1. CallInv'
    BY <1>4 DEF ReleaseRecorder, Deinit, ReleaseTapHardware,
      DestroyAggregates
  <2>2. OwnerInv'
    BY <1>4 DEF ReleaseRecorder, Deinit, ReleaseTapHardware,
      DestroyAggregates
  <2>3. MicInv'
    BY <1>4 DEF ReleaseRecorder, Deinit, ReleaseTapHardware,
      DestroyAggregates
  <2>4. TapInv'
    BY <1>4 DEF ReleaseRecorder, Deinit, ReleaseTapHardware,
      DestroyAggregates
  <2>5. HardwareInv'
    BY <1>4 DEF ReleaseRecorder, Deinit, ReleaseTapHardware,
      DestroyAggregates
  <2>6. LateInv'
    BY <1>4 DEF ReleaseRecorder, Deinit, ReleaseTapHardware,
      DestroyAggregates
  <2>7. HandlerInv'
    BY <1>4 DEF ReleaseRecorder, Deinit, ReleaseTapHardware,
      DestroyAggregates
  <2> QED BY <2>1, <2>2, <2>3, <2>4, <2>5, <2>6, <2>7
<1>5. CASE StopFlag
  BY <1>5 DEF StopFlag, TapStopFlag
<1>6. CASE StopHardware
  BY <1>6 DEF StopHardware, ReleaseTapHardware, DestroyAggregates
<1>7. CASE StopMic
  <2>1. CallInv'
    BY <1>7 DEF StopMic
  <2>2. OwnerInv'
    BY <1>7 DEF StopMic
  <2>3. MicInv'
    BY <1>7 DEF StopMic
  <2>4. TapInv'
    BY <1>7 DEF StopMic
  <2>5. HardwareInv'
    BY <1>7 DEF StopMic
  <2>6. LateInv'
    BY <1>7 DEF StopMic
  <2>7. HandlerInv'
    BY <1>7 DEF StopMic
  <2> QED BY <2>1, <2>2, <2>3, <2>4, <2>5, <2>6, <2>7
<1>8. CASE RunHandler
  BY <1>8 DEF RunHandler
<1>9. CASE RunMicHandler
  BY <1>9 DEF RunMicHandler, NoCall
<1>10. CASE Lookup("resolve", "createTap")
  BY <1>10 DEF Lookup, Frame, Throw, NoCall
<1>11. CASE Lookup("readFormat", "createAggregate")
  BY <1>11 DEF Lookup, Frame, Throw, NoCall
<1>12. CASE CreateTap
  BY <1>12 DEF CreateTap, Frame, Throw, NoCall
<1>13. CASE CreateAggregate
  BY <1>13 DEF CreateAggregate, Frame, Throw, NoCall
<1>14. CASE OpenFile
  BY <1>14 DEF OpenFile, Frame, Throw, NoCall
<1>15. CASE CreateIOProc
  BY <1>15 DEF CreateIOProc, Frame, Throw, NoCall
<1>16. CASE StartDevice
  <2>1. CallInv'
    BY <1>16 DEF StartDevice, Frame, Throw, NoCall
  <2>2. OwnerInv'
    BY <1>16 DEF StartDevice, Frame, Throw, NoCall
  <2>3. MicInv'
    BY <1>16 DEF StartDevice, Frame, Throw, NoCall
  <2>4. TapInv'
    BY <1>16 DEF StartDevice, Frame, Throw, NoCall
  <2>5. HardwareInv'
    BY <1>16 DEF StartDevice, Frame, Throw, NoCall
  <2>6. LateInv'
    BY <1>16 DEF StartDevice, Frame, Throw, NoCall
  <2>7. HandlerInv'
    BY <1>16 DEF StartDevice, Frame, Throw, NoCall
  <2> QED BY <2>1, <2>2, <2>3, <2>4, <2>5, <2>6, <2>7
<1>17. CASE MicPermission
  BY <1>17 DEF MicPermission, Frame
<1>18. CASE StartMicEngine
  BY <1>18 DEF StartMicEngine, Frame
<1>19. CASE Commit
  <2>1. CallInv'
    BY <1>19 DEF Commit, NoCall
  <2>2. OwnerInv'
    BY <1>19 DEF Commit, NoCall
  <2>3. MicInv'
    BY <1>19 DEF Commit, NoCall
  <2>4. TapInv'
    BY <1>19 DEF Commit, NoCall
  <2>5. HardwareInv'
    BY <1>19 DEF Commit, NoCall
  <2>6. LateInv'
    BY <1>19 DEF Commit, NoCall
  <2>7. HandlerInv'
    BY <1>19 DEF Commit, NoCall
  <2> QED BY <2>1, <2>2, <2>3, <2>4, <2>5, <2>6, <2>7
<1>20. CASE UndoFlag
  BY <1>20 DEF UndoFlag, TapStopFlag
<1>21. CASE UndoHardware
  <2>1. CallInv'
    BY <1>21 DEF UndoHardware, ReleaseTapHardware, DestroyAggregates, NoCall
  <2>2. OwnerInv'
    BY <1>21 DEF UndoHardware, ReleaseTapHardware, DestroyAggregates, NoCall
  <2>3. MicInv'
    BY <1>21 DEF UndoHardware, ReleaseTapHardware, DestroyAggregates, NoCall
  <2>4. TapInv'
    BY <1>21 DEF UndoHardware, ReleaseTapHardware, DestroyAggregates, NoCall
  <2>5. HardwareInv'
    BY <1>21 DEF UndoHardware, ReleaseTapHardware, DestroyAggregates, NoCall
  <2>6. LateInv'
    BY <1>21 DEF UndoHardware, ReleaseTapHardware, DestroyAggregates, NoCall
  <2>7. HandlerInv'
    BY <1>21 DEF UndoHardware, ReleaseTapHardware, DestroyAggregates, NoCall
  <2> QED BY <2>1, <2>2, <2>3, <2>4, <2>5, <2>6, <2>7
<1>22. ASSUME NEW s \in Sessions, CallbackBegin(s)
      PROVE  IInv'
  BY <1>22 DEF CallbackBegin, Referenced
<1>23. ASSUME NEW s \in Sessions, CallbackEnd(s)
      PROVE  IInv'
  <2>1. CallInv'
    BY <1>23 DEF CallbackEnd, Referenced, Deinit, ReleaseTapHardware,
      DestroyAggregates
  <2>2. OwnerInv'
    BY <1>23 DEF CallbackEnd, Referenced, Deinit, ReleaseTapHardware,
      DestroyAggregates
  <2>3. MicInv'
    BY <1>23 DEF CallbackEnd, Referenced, Deinit, ReleaseTapHardware,
      DestroyAggregates
  <2>4. TapInv'
    BY <1>23 DEF CallbackEnd, Referenced, Deinit, ReleaseTapHardware,
      DestroyAggregates
  <2>5. HardwareInv'
    BY <1>23 DEF CallbackEnd, Referenced, Deinit, ReleaseTapHardware,
      DestroyAggregates
  <2>6. LateInv'
    BY <1>23 DEF CallbackEnd, Referenced, Deinit, ReleaseTapHardware,
      DestroyAggregates
  <2>7. HandlerInv'
    BY <1>23 DEF CallbackEnd, Referenced, Deinit, ReleaseTapHardware,
      DestroyAggregates
  <2> QED BY <2>1, <2>2, <2>3, <2>4, <2>5, <2>6, <2>7
<1>24. CASE Crash
  <2>1. CallInv'
    BY <1>24 DEF Crash, NoCall, Referenced
  <2>2. OwnerInv'
    BY <1>24 DEF Crash, NoCall, Referenced
  <2>3. MicInv'
    BY <1>24 DEF Crash, NoCall, Referenced
  <2>4. TapInv'
    BY <1>24 DEF Crash, NoCall, Referenced
  <2>5. HardwareInv'
    BY <1>24 DEF Crash, NoCall, Referenced
  <2>6. LateInv'
    BY <1>24 DEF Crash, NoCall, Referenced
  <2>7. HandlerInv'
    BY <1>24 DEF Crash, NoCall, Referenced
  <2> QED BY <2>1, <2>2, <2>3, <2>4, <2>5, <2>6, <2>7
<1>25. CASE UNCHANGED vars
  BY <1>25 DEF vars
<1> HIDE DEF Typed, TypeOK, IInv, CallInv, OwnerInv, MicInv, TapInv,
             HardwareInv, LateInv, HandlerInv
<1> QED
  BY <1>1, <1>2, <1>3, <1>4, <1>5, <1>6, <1>7, <1>8, <1>9, <1>10, <1>11,
    <1>12, <1>13, <1>14, <1>15, <1>16, <1>17, <1>18, <1>19, <1>20, <1>21,
    <1>22, <1>23, <1>24, <1>25 DEF Next, StopCall, StartCall

(* The types and every part of the invariant hold in every reachable state: *)
(* what each call, callback and Core Audio object knows of the others.      *)
THEOREM Inductive == Spec => [](Typed /\ IInv)
<1>1. Init => IInv
  BY SessionNone DEF Init, IInv, CallInv, OwnerInv, MicInv, TapInv,
     HardwareInv, LateInv, HandlerInv, At, NoCall, StartSteps, StopSteps,
     BeforeIO, Stopping
<1>2. Typed /\ IInv /\ [Next]_vars => IInv'
  BY IInvKept
<1> QED
  BY <1>1, <1>2, TypedInvariant, PTL DEF Spec

(* A session that was stopped, replaced or dropped keeps no Core Audio      *)
(* object and no engine.                                                    *)
THEOREM EndedReleases == Spec => []EndedSessionReleasesHardware
<1>1. Typed /\ IInv => EndedSessionReleasesHardware
  <2> SUFFICES ASSUME Typed, IInv, NEW s \in Sessions,
                      fate[s] = "stopped"
                        \/ (fate[s] = "discarded" /\ s \notin inFlight)
               PROVE  s \notin processTaps \union aggregates \union ioProcs
                                \union running \union micEngines
    BY DEF EndedSessionReleasesHardware
  <2>1. s \notin isRecording
    BY DEF IInv, TapInv, CallInv, At
  <2>2. ~Stopping(s) /\ ~(call.pc \in StartSteps /\ s = call.new)
    BY SessionNone DEF IInv, CallInv, OwnerInv, Stopping, At, StartSteps, Typed, TypeOK
  <2>3. s \notin processTaps \union aggregates
    BY <2>1, <2>2 DEF IInv, HardwareInv
  <2>4. s \notin micEngines
    BY <2>2 DEF IInv, MicInv, At, StartSteps
  <2> QED
    BY <2>3, <2>4 DEF Typed, TypeOK
<1> QED
  BY <1>1, Inductive, PTL

(* A start that throws leaves nothing that captures.                        *)
THEOREM FailedStartsAreSilent == Spec => []FailedStartCapturesNothing
<1>1. Typed /\ IInv => FailedStartCapturesNothing
  BY SessionNone
  DEF FailedStartCapturesNothing, Typed, TypeOK, IInv, CallInv, OwnerInv,
      MicInv, TapInv, HardwareInv, Stopping, At, StartSteps
<1> QED
  BY <1>1, Inductive, PTL

(* After a tap has stopped at most one more buffer reaches its file.        *)
THEOREM OneLateWrite == Spec => []AtMostOneLateWrite
<1>1. IInv => AtMostOneLateWrite
  BY DEF IInv, LateInv, AtMostOneLateWrite
<1> QED
  BY <1>1, Inductive, PTL

(* Each handler runs once for a session that was stopped and never for one  *)
(* that failed, was dropped or still runs.                                  *)
THEOREM HandlersExact == Spec => []HandledExactlyOnce
<1>1. IInv => HandledExactlyOnce
  BY DEF IInv, HandlerInv, HandledExactlyOnce, At
<1> QED
  BY <1>1, Inductive, PTL

(* Process and microphone capture start and stop together.                  *)
THEOREM TogetherAlways == Spec => []StartedAndStoppedTogether
<1>1. Typed /\ IInv => StartedAndStoppedTogether
  <2> SUFFICES ASSUME Typed, IInv, At("idle")
               PROVE  /\ \A r \in Recorders : microphoneTap[r] # None =>
                                              microphoneTap[r] = tap[r]
                      /\ micEngines = {microphoneTap[r] : r \in Recorders} \ {None}
                      /\ micEngines = {tap[r] : r \in Recorders} \intersect micWanted
                      /\ running \subseteq {tap[r] : r \in Recorders} \union inFlight
    BY DEF StartedAndStoppedTogether
  <2> USE SessionNone DEF Typed, TypeOK, At
  <2>1. \A r \in Recorders :
           microphoneTap[r] = IF tap[r] \in micWanted THEN tap[r] ELSE None
    BY DEF IInv, OwnerInv
  <2>2. \A s \in Sessions :
           s \in micEngines <=> s \in micWanted /\ \E r \in Recorders : tap[r] = s
    BY DEF IInv, OwnerInv, MicInv
  <2>3. micEngines = {tap[r] : r \in Recorders} \intersect micWanted
    BY <2>2
  <2>4. micEngines = {microphoneTap[r] : r \in Recorders} \ {None}
    BY <2>1, <2>2
  <2>5. running \subseteq {tap[r] : r \in Recorders} \union inFlight
    BY DEF IInv, OwnerInv, TapInv, HardwareInv, Stopping
  <2> QED
    BY <2>1, <2>3, <2>4, <2>5
<1> QED
  BY <1>1, Inductive, PTL

----------------------------------------------------------------------------
(* A step of the recorder is a step of the service, or none of its business. *)
LEMMA StepImplements ==
  ASSUME Typed, IInv, [Next]_vars
  PROVE  [Service!ServiceNext]_(Service!serviceVars)
<1> DEFINE Stutter == UNCHANGED Service!serviceVars
<1> USE SessionNone DEF Service!serviceVars, Typed, TypeOK, hardware, history,
                        At, Goto
<1>1. ASSUME NEW r \in Recorders, NEW listed \in BOOLEAN, CreateRecorder(r, listed)
      PROVE  Stutter
  BY <1>1 DEF CreateRecorder
<1>2. ASSUME NEW r \in Recorders, NEW s \in Sessions, NEW mic \in BOOLEAN,
             StartRecording(r, s, mic)
      PROVE  Stutter
  BY <1>2 DEF StartRecording, EnterStop
<1>3. ASSUME NEW r \in Recorders, StopRecording(r)
      PROVE  Stutter
  BY <1>3 DEF StopRecording, EnterStop
<1>4. ASSUME NEW r \in Recorders, ReleaseRecorder(r)
      PROVE  Stutter \/ Service!Discard(r)
  BY <1>4 DEF ReleaseRecorder, Service!Discard, IInv, OwnerInv
<1>5. CASE StopFlag
  <2>1. Stutter BY <1>5 DEF StopFlag
  <2> QED BY <2>1
<1>6. CASE StopHardware
  <2>1. Stutter BY <1>6 DEF StopHardware
  <2> QED BY <2>1
<1>7. ASSUME StopMic
      PROVE  Stutter \/ \E r \in Recorders : Service!End(r)
  <2>1. /\ call.recorder \in Recorders
        /\ call.old = tap[call.recorder]
        /\ call.oldMic = microphoneTap[call.recorder]
    BY <1>7 DEF StopMic, IInv, CallInv
  <2>2. CASE tap[call.recorder] = None
    BY <1>7, <2>1, <2>2 DEF StopMic, IInv, OwnerInv
  <2>3. CASE tap[call.recorder] # None
    BY <1>7, <2>1, <2>3, ZenonT(60) DEF StopMic, Service!End
  <2> QED BY <2>2, <2>3
<1>8. ASSUME RunHandler
      PROVE  Stutter \/ \E s \in Sessions : Service!Tell(s)
  <2>1. CASE call.old = None
    <3>1. handled' = handled
      BY <1>8, <2>1 DEF RunHandler
    <3> QED
      BY <1>8, <2>1, <3>1 DEF RunHandler
  <2>2. CASE call.old # None
    <3>1. call.old \in Sessions
      BY <2>2
    <3>2. handled' = [handled EXCEPT ![call.old] = @ + 1]
      BY <1>8 DEF RunHandler
    <3>3. Service!Tell(call.old)
      BY <1>8, <2>2, <3>2 DEF RunHandler, Service!Tell
    <3> QED BY <3>1, <3>3
  <2> QED BY <2>1, <2>2
<1>9. ASSUME RunMicHandler
      PROVE  Stutter \/ \E s \in Sessions : Service!TellMic(s)
  <2> DEFINE m == call.oldMic
  <2>1. call'.pc \in {"idle", "resolve"}
    BY <1>9 DEF RunMicHandler, NoCall
  <2>2. CASE m = None
    <3>1. micHandled' = micHandled
      BY <1>9, <2>2 DEF RunMicHandler
    <3> QED
      BY <1>9, <2>1, <2>2, <3>1 DEF RunMicHandler
  <2>3. CASE m # None
    <3>1. m \in Sessions
      BY <2>3
    <3>2. micHandled' = [micHandled EXCEPT ![m] = @ + 1]
      BY <1>9 DEF RunMicHandler
    <3>3. Service!TellMic(m)
      BY <1>9, <2>1, <2>3, <3>2 DEF RunMicHandler, Service!TellMic
    <3> QED BY <3>1, <3>3
  <2> QED BY <2>2, <2>3
<1>10. ASSUME Lookup("resolve", "createTap") \/ Lookup("readFormat", "createAggregate")
              \/ CreateTap \/ CreateAggregate \/ OpenFile \/ CreateIOProc
              \/ StartDevice
       PROVE  Stutter
  BY <1>10 DEF Lookup, CreateTap, CreateAggregate, OpenFile, CreateIOProc,
               StartDevice, Frame, Throw, NoCall
<1>11. ASSUME MicPermission \/ StartMicEngine \/ UndoFlag \/ UndoHardware
       PROVE  Stutter
  BY <1>11 DEF MicPermission, StartMicEngine, UndoFlag, UndoHardware, Frame, NoCall
<1>12. ASSUME Commit
       PROVE  \E r \in Recorders, s \in Sessions, mic \in BOOLEAN :
                Service!Begin(r, s, mic)
  <2> DEFINE r == call.recorder
             s == call.new
  <2>1. r \in Recorders /\ tap[r] = None /\ s \in Sessions /\ fate[s] = "starting"
    BY <1>12 DEF Commit, IInv, CallInv, StartSteps
  <2>2. s \notin Service!Held /\ handled[s] = 0 /\ micHandled[s] = 0
    BY <2>1 DEF IInv, OwnerInv, HandlerInv, Service!Held
  <2>3. /\ tap' = [tap EXCEPT ![r] = s]
        /\ microphoneTap' = [microphoneTap EXCEPT
                               ![r] = IF s \in micWanted THEN s ELSE None]
        /\ At("commit") /\ call'.pc = "idle"
        /\ UNCHANGED <<handled, micHandled>>
    BY <1>12 DEF Commit, NoCall
  <2>4. CASE s \in micWanted
    <3>1. Service!Begin(r, s, TRUE)
      BY <2>1, <2>2, <2>3, <2>4 DEF Service!Begin
    <3> QED BY <2>1, <3>1
  <2>5. CASE s \notin micWanted
    <3>1. Service!Begin(r, s, FALSE)
      BY <2>1, <2>2, <2>3, <2>5 DEF Service!Begin
    <3> QED BY <2>1, <3>1
  <2> QED BY <2>4, <2>5
<1>13. ASSUME NEW s \in Sessions, CallbackBegin(s) \/ CallbackEnd(s)
       PROVE  Stutter
  BY <1>13 DEF CallbackBegin, CallbackEnd
<1>14. CASE Crash
  <2>1. Service!Lose
    BY <1>14 DEF Crash, NoCall, Service!Lose
  <2> QED BY <2>1 DEF Service!ServiceNext
<1>15. CASE UNCHANGED vars
  <2>1. Stutter BY <1>15 DEF vars
  <2> QED BY <2>1
<1> HIDE DEF Typed, TypeOK, Stutter
<1> QED
  BY <1>1, <1>2, <1>3, <1>4, <1>5, <1>6, <1>7, <1>8, <1>9, <1>10, <1>11,
     <1>12, <1>13, <1>14, <1>15
  DEF Next, StopCall, StartCall, Service!ServiceNext, Stutter

(* Without its fairness, the service is implemented by the recorder for any *)
(* recorders and sessions: sessions begin, end and are lost, and handlers   *)
(* run, only as CaptureService lets them.                                   *)
THEOREM ImplementsServiceSafety == Spec => Service!ServiceSafety
<1>1. Init => Service!ServiceInit
  BY DEF Init, Service!ServiceInit, At, NoCall
<1>2. Typed /\ IInv /\ [Next]_vars => [Service!ServiceNext]_(Service!serviceVars)
  BY StepImplements
<1> QED
  BY <1>1, <1>2, Inductive, PTL DEF Spec, Service!ServiceSafety
=============================================================================
