-------------------------- MODULE MCVaultStore --------------------------
(* Small instances of VaultStore for TLC. *)
EXTENDS VaultStore, TLC

CONSTANTS d1, d2

\* The accounts are interchangeable.
Symmetry == Permutations(Data)

AnyImage == [data : Data, old : BOOLEAN]
=============================================================================
