-------------------------- MODULE MCLoginFlow --------------------------
(* A small instance of LoginFlow for TLC. *)
EXTENDS LoginFlow

CONSTANTS p1, p2, u1, u2
=============================================================================
