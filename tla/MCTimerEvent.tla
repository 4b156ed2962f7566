---------------------------- MODULE MCTimerEvent ----------------------------
(* TimerEvent for TLC.                                                     *)
EXTENDS TimerEvent, TLC

\* Events of one kind are interchangeable: safety runs only.
Symmetry == Permutations(Persistent) \cup Permutations(Events \ Persistent)
=============================================================================
