--------------------------- MODULE Subsequences ---------------------------
(***************************************************************************)
(* What the loops leave of a list that keep some of its elements, as       *)
(* filter_by_permissions, set_filters, delete_group and the imports do.    *)
(* SelectSeq does the same by a test on the elements; this one goes by     *)
(* their positions, which is what some of the code tests, and is a         *)
(* recursive function, about which ListProofs proves what the models need. *)
(***************************************************************************)
EXTENDS Naturals, Sequences

\* The elements of s at the positions in P, in their order.
AtPositions(s, P) ==
    LET nth[n \in 0..Len(s)] ==
            IF n = 0 THEN <<>>
            ELSE IF n \in P THEN Append(nth[n - 1], s[n]) ELSE nth[n - 1]
    IN  nth[Len(s)]
=============================================================================
