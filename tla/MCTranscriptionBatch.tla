------------------------ MODULE MCTranscriptionBatch ------------------------
(* Instances of TranscriptionBatch for TLC.  Windows, recordings and        *)
(* directories are each interchangeable: a behaviour may start in any of    *)
(* the directories.                                                         *)
EXTENDS TranscriptionBatch, TLC

Symmetry == Permutations(Windows) \union Permutations(Recordings)
              \union Permutations(Dirs)

(* What the batches and their properties depend on where no clock is        *)
(* followed and only the process wav is recorded: states that differ in the *)
(* histories of RecordingSession, which no guard reads, or in what follows  *)
(* from "recording", are one.                                               *)
BatchView == <<open, recording, completion, diskVars, rowProcess, rowOrder,
               batchVars>>
=============================================================================
