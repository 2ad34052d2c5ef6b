--------------------------- MODULE Clipboard ---------------------------
(***************************************************************************)
(* ClipboardManager: a copied secret is cleared when its timer fires, or   *)
(* when the vault is closed; a temporary password that an administrator    *)
(* copied survives one closing, so that it can be pasted at the next login.*)
(*                                                                         *)
(* The module has no next-state relation: LoginFlow calls its operations.  *)
(***************************************************************************)
VARIABLES
    clip,       \* what was copied last and not cleared
    clearing,   \* m_clear_timeout_connection is connected
    preserve,   \* m_preserve_on_close
    safety      \* m_preservation_timeout is connected

clipboard == <<clip, clearing, preserve, safety>>

Secrets == {"account", "temporary"}
Texts == Secrets \cup {"nothing"}

ClipboardTypeOK == clip \in Texts /\ {clearing, preserve, safety} \subseteq BOOLEAN

ClipboardInit == clip = "nothing" /\ clearing = FALSE /\ preserve = FALSE /\ safety = FALSE

CopyText(text) ==
    /\ clip' = text /\ clearing' = TRUE
    /\ UNCHANGED <<preserve, safety>>

\* The user management dialog copies a temporary password and enables the
\* preservation, whose safety timer only starts if it was not enabled.
CopyTemporary ==
    /\ clip' = "temporary" /\ clearing' = TRUE
    /\ preserve' = TRUE
    /\ safety' = (safety \/ ~preserve)

\* Mutant: the timer is stopped before the preservation is looked at.
ClearImmediately_StopsTimer ==
    /\ preserve' = FALSE /\ clearing' = FALSE
    /\ clip' = IF preserve THEN clip ELSE "nothing"
    /\ UNCHANGED safety

\* clear_immediately: preservation skips it once, and leaves both timers.
ClearImmediately ==
    IF preserve
    THEN preserve' = FALSE /\ UNCHANGED <<clip, clearing, safety>>
    ELSE clip' = "nothing" /\ clearing' = FALSE /\ UNCHANGED <<preserve, safety>>

\* The clipboard is cleared, also of what another program put there since.
ClearTimeout ==
    /\ clearing
    /\ clip' = "nothing" /\ clearing' = FALSE
    /\ UNCHANGED <<preserve, safety>>

SafetyTimeout ==
    /\ safety
    /\ preserve' = FALSE /\ safety' = FALSE
    /\ UNCHANGED <<clip, clearing>>

DisablePreservation ==
    /\ preserve' = FALSE
    /\ safety' = (safety /\ ~preserve)
    /\ UNCHANGED <<clip, clearing>>

-----------------------------------------------------------------------------
(* Properties *)

\* A secret in the clipboard always has a timer running that will clear it,
\* however copies, closings and the preservation alternate; and the preservation
\* cannot outlast its safety timer.
SecretsAreTimed == (clip \in Secrets => clearing) /\ (preserve => safety)
=============================================================================
