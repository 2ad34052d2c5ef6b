------------------------- MODULE VaultRegister -------------------------
(***************************************************************************)
(* What saving promises: the vault file is a register.  A save puts the    *)
(* working copy there as a whole, an operation that edits and saves does   *)
(* both or neither, and nothing else writes to the file while a vault is   *)
(* open, except that a power failure may lose what it holds.               *)
(***************************************************************************)
CONSTANTS Image,    \* the contents a vault file may have
          Torn,     \* a file that cannot be read
          NoVault,  \* no vault open
          Migrates, \* whether a login may migrate its user
          PowerFails

VARIABLES stored,   \* what the vault file holds
          working,  \* the open vault
          dirty     \* the open vault is marked modified

vars == <<stored, working, dirty>>

Init == stored \in Image /\ working = NoVault /\ dirty = FALSE

\* A login that migrates its user loads what the file held before.
Load == /\ stored \in Image
        /\ working' = stored \/ (Migrates /\ working' \in Image)
        /\ dirty' = TRUE
        /\ UNCHANGED stored

Edit == /\ working # NoVault
        /\ working' \in Image
        /\ dirty' = TRUE
        /\ UNCHANGED stored

Save == /\ working # NoVault
        /\ stored' = working
        /\ dirty' = FALSE
        /\ UNCHANGED working

EditAndSave == /\ working # NoVault
               /\ working' \in Image
               /\ stored' = working'
               /\ dirty' = FALSE

Forget == /\ working' = NoVault
          /\ dirty' = FALSE
          /\ UNCHANGED stored

\* A backup is restored, or a migrated header saved.
Replace == /\ working = NoVault
           /\ stored' \in Image \cup {Torn}
           /\ UNCHANGED <<working, dirty>>

PowerFailure == /\ PowerFails
                /\ stored' \in Image \cup {Torn}
                /\ working' = NoVault
                /\ dirty' = FALSE

Next == Load \/ Edit \/ Save \/ EditAndSave \/ Forget \/ Replace \/ PowerFailure

Spec == Init /\ [][Next]_vars
=============================================================================
