----------------------------- MODULE MCWatchDog -----------------------------
(* Processes for TLC.                                                      *)
EXTENDS WatchDog

CONSTANTS f, w
=============================================================================
