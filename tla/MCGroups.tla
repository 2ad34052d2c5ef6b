---------------------------- MODULE MCGroups ----------------------------
(* Small instances of Groups for TLC. *)
EXTENDS Groups, TLC

CONSTANTS g1, g2, g3, work, favorites

\* The groups' ids are interchangeable.
Symmetry == Permutations(GroupIds)
=============================================================================
