-------------------------- MODULE MCAccountList --------------------------
(* A small instance of AccountList for TLC: vaults of at most two accounts, *)
(* which is enough for one that only administrators may view to come before *)
(* one that everybody may.  A name is also a tag, so that a search finds    *)
(* accounts by either.  No action tells one identity from another, and the  *)
(* contents have them in both orders.                                       *)
EXTENDS AccountList, TLC

CONSTANTS n1, n2

Plain(id, name) == [id |-> id, name |-> name, tags |-> {}, adminOnly |-> FALSE, star |-> FALSE]
MCContents ==
    {<<>>} \cup
    {<<[Plain(p[1], n1) EXCEPT !.adminOnly = guarded], [Plain(p[2], n2) EXCEPT !.tags = Tags]>> :
        p \in {q \in Ids \X Ids : q[1] # q[2]}, guarded \in BOOLEAN}

MCSymmetry == Permutations(Ids)
=============================================================================
