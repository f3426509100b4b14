--------------------------- MODULE CaptureService ---------------------------
(***************************************************************************)
(* What audiosdk's AudioRecorder promises to the program that uses it, with *)
(* Core Audio, the microphone engine and every intermediate step left out:  *)
(* a recorder holds at most one capture session; a session ends when it is  *)
(* stopped, replaced, discarded with its recorder or lost in a crash; and   *)
(* the two post-processing handlers run once for a session that was stopped *)
(* or replaced, the process handler before the microphone handler, and      *)
(* never for any other session.  AudioCapture implements this module.       *)
(***************************************************************************)
EXTENDS Naturals

CONSTANTS Recorders,  \* AudioRecorder instances
          Sessions,   \* one per call of startRecording, with its two files
          None        \* nil

VARIABLES
  holding,      \* holding[r]: the session whose process audio r records
  holdingMic,   \* holdingMic[r]: the session whose microphone audio r records
  owed,         \* sessions whose process handler must still run
  owedMic,      \* sessions whose microphone handler must still run
  told,         \* told[s]: how often the process handler ran for s
  toldMic       \* toldMic[s]: how often the microphone handler ran for s

serviceVars == <<holding, holdingMic, owed, owedMic, told, toldMic>>

Held == {holding[r] : r \in Recorders} \ {None}

ServiceInit ==
  /\ holding = [r \in Recorders |-> None]
  /\ holdingMic = [r \in Recorders |-> None]
  /\ owed = {}
  /\ owedMic = {}
  /\ told = [s \in Sessions |-> 0]
  /\ toldMic = [s \in Sessions |-> 0]

(* startRecording returns normally: both files are being written. *)
Begin(r, s, mic) ==
  /\ holding[r] = None
  /\ s \notin Held \union owed \union owedMic
  /\ told[s] = 0 /\ toldMic[s] = 0
  /\ holding' = [holding EXCEPT ![r] = s]
  /\ holdingMic' = [holdingMic EXCEPT ![r] = IF mic THEN s ELSE None]
  /\ UNCHANGED <<owed, owedMic, told, toldMic>>

(* The session of r is over; its handlers have not run yet. *)
End(r) ==
  /\ holding[r] # None
  /\ owed' = owed \union {holding[r]}
  /\ owedMic' = owedMic \union ({holdingMic[r]} \ {None})
  /\ holding' = [holding EXCEPT ![r] = None]
  /\ holdingMic' = [holdingMic EXCEPT ![r] = None]
  /\ UNCHANGED <<told, toldMic>>

Tell(s) ==
  /\ s \in owed
  /\ owed' = owed \ {s}
  /\ told' = [told EXCEPT ![s] = @ + 1]
  /\ UNCHANGED <<holding, holdingMic, owedMic, toldMic>>

TellMic(s) ==
  /\ s \in owedMic \ owed
  /\ owedMic' = owedMic \ {s}
  /\ toldMic' = [toldMic EXCEPT ![s] = @ + 1]
  /\ UNCHANGED <<holding, holdingMic, owed, told>>

(* The program drops the recorder: the capture ends, no handler runs. *)
Discard(r) ==
  /\ holding[r] # None
  /\ holding' = [holding EXCEPT ![r] = None]
  /\ holdingMic' = [holdingMic EXCEPT ![r] = None]
  /\ UNCHANGED <<owed, owedMic, told, toldMic>>

(* The program dies. *)
Lose ==
  /\ holding' = [r \in Recorders |-> None]
  /\ holdingMic' = [r \in Recorders |-> None]
  /\ owed' = {}
  /\ owedMic' = {}
  /\ UNCHANGED <<told, toldMic>>

ServiceNext ==
  \/ \E r \in Recorders, s \in Sessions, mic \in BOOLEAN : Begin(r, s, mic)
  \/ \E r \in Recorders : End(r) \/ Discard(r)
  \/ \E s \in Sessions : Tell(s) \/ TellMic(s)
  \/ Lose

ServiceSafety == ServiceInit /\ [][ServiceNext]_serviceVars

ServiceSpec ==
  /\ ServiceSafety
  /\ \A s \in Sessions : WF_serviceVars(Tell(s)) /\ WF_serviceVars(TellMic(s))
=============================================================================
