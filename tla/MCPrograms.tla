----------------------------- MODULE MCPrograms -----------------------------
(* Clients, menu items, settings and timeouts for TLC.                     *)
EXTENDS Programs, MCMakeDirs

CONSTANTS a, i1, p1, p2, r1, r2

TwoSettings == {[baud |-> 9600, data |-> 8, parity |-> "n", stop |-> 1],
                [baud |-> 12345, data |-> 9, parity |-> "O", stop |-> 2]}
SomeTimouts == {-1, 1, 2}
=============================================================================
