------------------------------ MODULE MCTQueue ------------------------------
(* TQueue for TLC.                                                         *)
EXTENDS TQueue
=============================================================================
