------------------------- MODULE MCPreferences --------------------------
(* A small instance of Preferences for TLC.  The history's limit is 0 to 3 *)
(* in the dialog and 1 to 2 for SettingsValidator, a timeout 1 to 2 for    *)
(* both; the history is the one that a new vault takes as it is.           *)
EXTENDS Preferences

CONSTANTS a, b

MCKeys == {"lock", "history"}
MCSchema == [lock |-> 1, history |-> 1]
MCBuiltin == [lock |-> 1, history |-> 1]
MCSpin == [lock |-> [from |-> 1, to |-> 2], history |-> [from |-> 0, to |-> 3]]
MCValid == [lock |-> [from |-> 1, to |-> 2], history |-> [from |-> 1, to |-> 2]]
MCRaw == {"history"}
=============================================================================
