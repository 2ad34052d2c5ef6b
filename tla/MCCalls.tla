----------------------------- MODULE MCCalls ----------------------------
(* Calls for TLC: two calls, of every two kinds but twice the same, except *)
(* that both may enroll.                                                   *)
EXTENDS Calls

CONSTANTS c1, c2, main, k1, p1

MCKindsOf == [c \in CallIds |-> {IF c = c1 THEN "create" ELSE "change", "enroll"}]
=============================================================================
