------------------------- MODULE MCAccountSave -------------------------
(* A small instance of AccountSave for TLC. *)
EXTENDS AccountSave, TLC

CONSTANTS f1, f2, a1, p1, p2

\* No action compares or orders files, accounts or passwords.
Symmetry == Permutations(VaultFiles) \cup Permutations(Accounts)
                \cup Permutations(Passwords)
=============================================================================
