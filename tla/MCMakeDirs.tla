----------------------------- MODULE MCMakeDirs -----------------------------
(* Paths for TLC.                                                          *)
EXTENDS MakeDirs

TwoDeep == {<<"x">>, <<"x", "y">>}
=============================================================================
