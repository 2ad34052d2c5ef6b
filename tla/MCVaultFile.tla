---------------------------- MODULE MCVaultFile ----------------------------
(* A small instance of VaultFile for TLC.  The numbers a field is off by are  *)
(* those that end a slot at each of its fields, one less and one more, those  *)
(* that move a block, and the highest bytes.                                  *)
EXTENDS VaultFile

Bits   == {-1, 1, -2, -9, -10, -98, -99, -100, -164, -165, -167, -214, -215, -216,
           -229, -230, -236, -237, -250, -255, -300, -430, 255, 223, 16777216, 1073741824}
Cuts   == {0, 7, 8, 15, 16, 60, 300, 577, 700, 832}
=============================================================================
