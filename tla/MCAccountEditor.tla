------------------------ MODULE MCAccountEditor ------------------------
(* A small instance of AccountEditor for TLC. *)
EXTENDS AccountEditor

CONSTANTS v1, t1

None == <<>>
=============================================================================
