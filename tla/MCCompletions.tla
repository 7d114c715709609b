--------------------------- MODULE MCCompletions ----------------------------
(* Values for the constants of Completions, for TLC.                       *)
EXTENDS Completions

TimerAndDevice == {{"Timer", "Device"}, {"Device"}}

=============================================================================
