-------------------------- MODULE MCVaultUsers --------------------------
(* Small instances of VaultUsers for TLC. *)
EXTENDS VaultUsers, TLC

CONSTANTS u1, u2, p1, p2, p3, d1

\* Users and passwords are interchangeable: no action compares or orders them.
Symmetry == Permutations(Users) \cup Permutations(Passwords)

Lengths == [p \in Passwords |-> 8]

SetPolicy(algo, prev, iter, depth, minlen, yubikey) ==
    [algo |-> algo, prev |-> prev, migrating |-> prev # 0, iter |-> iter,
     depth |-> depth, minlen |-> minlen, yubikey |-> yubikey]

Plain == SetPolicy(1, 0, 100000, 0, 8, FALSE)

\* The history remembers two passwords.
HistoryPolicies == {SetPolicy(1, 0, 100000, 2, 8, FALSE)}
HistoryMoves    == HistoryPolicies \X HistoryPolicies

\* The requirement of a device imposed, and the documented upgrade
\* of the username hash: name the old algorithm, let users migrate at their next
\* login, and start the next upgrade, perhaps before everybody has migrated.  The
\* last policy wants longer passwords than there are: users are added and reset
\* under the others.
Device == SetPolicy(1, 0, 100000, 0, 8, TRUE)
To2    == SetPolicy(2, 1, 100000, 0, 8, FALSE)
To3    == SetPolicy(3, 2, 100000, 0, 9, FALSE)

FirstPolicies  == {Plain}
DevicePolicies == {Plain, Device, To2, To3}
DeviceMoves    == {<<Plain, Device>>, <<Plain, To2>>, <<To2, To3>>}
=============================================================================
