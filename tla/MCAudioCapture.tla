--------------------------- MODULE MCAudioCapture ---------------------------
(* Instances of AudioCapture for TLC.  Recorders and sessions are            *)
(* interchangeable: the code compares them only for identity.                *)
EXTENDS AudioCapture, TLC

Symmetry == Permutations(Recorders) \union Permutations(Sessions)
=============================================================================
