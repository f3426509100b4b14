--------------------------- MODULE MCWhisperFull ---------------------------
(* Greedy sampling as the application calls it, at temperature 0 and at one  *)
(* that drops the past text, and beam search, two decoders each; and one     *)
(* decoder with the longest prompt that is taken.                            *)
EXTENDS WhisperFull

MCText == {-2}
Ask(strategy, temperatures, noTimestamps, prompt) ==
  [strategy |-> strategy, bestOf |-> 2, beamSize |-> 2, prompt |-> prompt,
   temperatures |-> temperatures, noTimestamps |-> noTimestamps]
MCParams == {Ask("greedy", <<0, 6>>, FALSE, 0), Ask("greedy", <<0, 6>>, TRUE, 0),
             Ask("beam", <<0>>, FALSE, 0),
             Ask("greedy", <<0>>, FALSE, 7), Ask("greedy", <<0>>, TRUE, 7)}
MCLengths == {0, 4}
=============================================================================
