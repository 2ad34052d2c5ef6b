-------------------------- MODULE Preferences ---------------------------
(***************************************************************************)
(* Where a preference lives.  The program's defaults are in GSettings; a   *)
(* vault has values of its own in its metadata; a vault manager has the    *)
(* values in force (VaultRuntimePreferences, the backup policy, the error  *)
(* correction), which outlive a vault unless somebody resets them; and the *)
(* dialog has a copy of what was in force when it was opened.  The lock    *)
(* timer can close the vault while the dialog is on the screen, a vault can *)
(* be opened over an open one, and a vault with a YubiKey is created by a  *)
(* thread, while the program goes on.                                      *)
(*                                                                         *)
(* A scoped preference is one number: its check box and its spin button    *)
(* go together.  The color scheme, the backup path and the cost parameters *)
(* of the user name hashes, which are only ever copied, are left out.      *)
(***************************************************************************)
EXTENDS Integers, FiniteSets

CONSTANTS
    Vaults,         \* vault files that may be created
    NoVault,
    Keys,           \* the scoped preferences: auto-lock, clipboard, history, undo
    Schema,         \* their defaults in the GSettings schema
    Builtin,        \* their values after reset_to_defaults
    Spin,           \* the interval that the dialog allows
    Valid,          \* the interval that SettingsValidator allows
    Raw,            \* those that a new vault takes without asking it
    Policies,       \* backup settings: enabled and count
    NoPolicy,       \* a vault that stores none
    FirstPolicy,    \* those of the schema and of a new policy
    Corrections,    \* error correction: off or a redundancy
    MaxEdits        \* bound on what a user changes in the dialog

ASSUME PreferenceAssumption ==
    /\ NoVault \notin Vaults
    /\ Raw \subseteq Keys
    /\ Spin \in [Keys -> [from : Nat, to : Nat]] /\ Valid \in [Keys -> [from : Nat, to : Nat]]
    /\ \A k \in Keys : Spin[k].from <= Valid[k].from /\ Valid[k].to <= Spin[k].to
    /\ \A k \in Keys : Valid[k].from <= Valid[k].to
    /\ Schema \in [Keys -> Nat] /\ Builtin \in [Keys -> Nat]
    /\ NoPolicy \notin Policies /\ FirstPolicy \in Policies
    /\ 0 \in Corrections /\ MaxEdits \in Nat

Hashes == {"approved", "other"}     \* is_fips_approved
NoDialog == [answered |-> TRUE]
NoCreation == [finished |-> TRUE]

Clamped(interval, n) ==
    IF n < interval.from THEN interval.from
    ELSE IF n > interval.to THEN interval.to ELSE n
Allowed(k) == Spin[k].from .. Spin[k].to

VARIABLES
    settings,   \* GSettings
    file,       \* what each vault's file holds
    vault,      \* the open vault, or NoVault
    data,       \* its data in memory
    admin,      \* the session is an administrator's
    runtime,    \* m_preferences
    policy,     \* m_backup_policy
    fec,        \* m_use_reed_solomon and its redundancy
    dialog,     \* the preferences dialog
    creating,   \* the vault that is being created and its hash algorithm
    edits

manager == <<vault, data, admin, runtime, policy, fec>>
vars == <<settings, file, manager, dialog, creating, edits>>

IsOpen == vault # NoVault
Asking == dialog # NoDialog

Init ==
    /\ settings = [scoped |-> Schema, backup |-> FirstPolicy, fec |-> 0,
                   fips |-> FALSE, hash |-> "approved"]
    /\ file = <<>> /\ vault = NoVault /\ data = <<>> /\ admin = FALSE
    /\ runtime = Builtin /\ policy = FirstPolicy /\ fec = 0
    /\ dialog = NoDialog /\ creating = NoCreation /\ edits = 0

\* SettingsValidator: a default as the program uses it.
Default(k) == Clamped(Valid[k], settings.scoped[k])

\* get_username_hash_algorithm and the dialog: FIPS overrides the choice.
HashInUse == IF settings.fips THEN "approved" ELSE settings.hash

\* PreferencesPresenter::load.
Loaded ==
    [scoped |-> [k \in Keys |->
        Clamped(Spin[k], IF IsOpen /\ runtime[k] # 0 THEN runtime[k] ELSE Default(k))],
     backup |-> IF IsOpen THEN policy ELSE settings.backup,
     fec |-> IF IsOpen THEN fec ELSE settings.fec,
     here |-> IsOpen,
     fips |-> settings.fips,
     hash |-> HashInUse]

ShowDialog ==
    /\ ~Asking
    /\ dialog' = [model |-> Loaded, open |-> IsOpen, admin |-> IsOpen /\ admin,
                  fips |-> settings.fips]
    /\ UNCHANGED <<settings, file, manager, creating, edits>>

\* PreferencesDialog::load_settings: who sees the privileged pages.
Privileged == Asking /\ (~dialog.open \/ dialog.admin)

Edit(change) ==
    /\ Privileged
    /\ edits < MaxEdits
    /\ dialog' = [dialog EXCEPT !.model = change]
    /\ edits' = edits + 1
    /\ UNCHANGED <<settings, file, manager, creating>>

EditScoped ==
    \E k \in Keys : \E n \in Allowed(k) :
        Edit([dialog.model EXCEPT !.scoped[k] = n])

EditBackup == \E p \in Policies : Edit([dialog.model EXCEPT !.backup = p])

EditCorrection == \E c \in Corrections : Edit([dialog.model EXCEPT !.fec = c])

\* on_apply_to_current_toggled reads the other source again; without an open
\* vault the box is there no more.
ToggleTarget ==
    /\ Privileged /\ dialog.open
    /\ LET here == ~dialog.model.here
       IN Edit([dialog.model EXCEPT
            !.here = here,
            !.fec = IF ~IsOpen THEN @ ELSE IF here THEN fec ELSE settings.fec])

EditFips == Edit([dialog.model EXCEPT !.fips = ~@])

\* on_username_hash_changed: it is the preference as loaded that forbids.
EditHash ==
    \E h \in Hashes :
        Edit([dialog.model EXCEPT !.hash = IF dialog.fips THEN "approved" ELSE h])

Cancel ==
    /\ Asking
    /\ dialog' = NoDialog
    /\ UNCHANGED <<settings, file, manager, creating, edits>>

Contents(d, c) == [d EXCEPT !.fec = c]

\* apply_backup_settings: the vault hears of it only when something changed.
StoredPolicy(d, p) == IF p # policy THEN [d EXCEPT !.backup = p] ELSE d

\* The setters of VaultManager: in force at once, and in the vault's metadata.
SetScoped(scoped, d) ==
    /\ runtime' = scoped
    /\ data' = [d EXCEPT !.scoped = scoped]

\* PreferencesPresenter::save with a vault open now.
ApplyToVault(model, saved) ==
    LET Correction == IF model.here THEN model.fec ELSE fec
    IN /\ SetScoped(model.scoped, StoredPolicy(data, model.backup))
       /\ policy' = model.backup
       /\ fec' = Correction
       /\ settings' = [settings EXCEPT
            !.fips = model.fips, !.hash = model.hash,
            !.fec = IF model.here THEN @ ELSE model.fec]
       /\ file' = IF saved THEN [file EXCEPT ![vault] = Contents(data', Correction)]
                  ELSE file

\* PreferencesPresenter::save without one.
ApplyToDefaults(model) ==
    /\ settings' = [scoped |-> model.scoped, backup |-> model.backup, fec |-> model.fec,
                    fips |-> model.fips, hash |-> model.hash]
    /\ UNCHANGED <<file, data, runtime, policy, fec>>

\* The presenter asks again whether a vault is open; a failed save is ignored.
Apply ==
    /\ Asking
    /\ IF IsOpen THEN \E saved \in BOOLEAN : ApplyToVault(dialog.model, saved)
                 ELSE ApplyToDefaults(dialog.model)
    /\ dialog' = NoDialog
    /\ UNCHANGED <<vault, admin, creating, edits>>

-----------------------------------------------------------------------------
\* close_vault: what is not in the file is lost.
Closed == vault' = NoVault /\ data' = <<>> /\ admin' = FALSE /\ runtime' = Builtin

\* handle_new_vault up to the thread of create_vault_v2_async: the defaults for
\* the error correction are in force, the algorithm is chosen, and an open vault
\* is closed.  Without a YubiKey the creation is finished before anything else.
StartNewVault(v) ==
    /\ ~Asking /\ creating = NoCreation
    /\ v \notin DOMAIN file
    /\ creating' = [vault |-> v, hash |-> HashInUse]
    /\ fec' = settings.fec
    /\ Closed
    /\ UNCHANGED <<settings, file, policy, dialog, edits>>

FirstContents(hash) == [scoped |-> Builtin, backup |-> NoPolicy, fec |-> 0, hash |-> hash]

\* handle_result: the new vault replaces what was opened meanwhile, gets the
\* defaults of now and is saved again, which may fail.
FinishNewVault ==
    LET Scoped == [k \in Keys |->
            IF k \in Raw THEN settings.scoped[k] ELSE Default(k)]
        First == FirstContents(creating.hash)
    IN /\ creating # NoCreation
       /\ creating' = NoCreation
       /\ vault' = creating.vault /\ admin' = TRUE
       /\ SetScoped(Scoped, StoredPolicy(First, settings.backup))
       /\ policy' = settings.backup /\ fec' = settings.fec
       /\ \E saved \in BOOLEAN :
            file' = [w \in DOMAIN file \cup {creating.vault} |->
                IF w # creating.vault THEN file[w]
                ELSE IF saved THEN Contents(data', settings.fec) ELSE First]
       /\ UNCHANGED <<settings, dialog, edits>>

NewVaultFails ==
    /\ creating # NoCreation
    /\ creating' = NoCreation
    /\ UNCHANGED <<settings, file, manager, dialog, edits>>

\* migrate_user_hash saves before the vault's own data are loaded: the file has
\* no preferences until the next save, and the error correction of before.  The
\* backup that this save makes follows the policy of before, too.
EmptyContents(v) == [scoped |-> [k \in Keys |-> 0], backup |-> NoPolicy,
                     fec |-> fec, hash |-> file[v].hash]

\* open_vault_v2, which closes an open vault first.  While the preferences are on
\* the screen only the dialog that unlocks a vault can come up.
OpenFrom(v, who) ==
    /\ Asking => ~IsOpen
    /\ v \in DOMAIN file
    /\ vault' = v /\ admin' = who /\ data' = file[v] /\ runtime' = Builtin
    /\ fec' = file[v].fec
    /\ \/ UNCHANGED file
       \/ file' = [file EXCEPT ![v] = EmptyContents(v)]
    /\ UNCHANGED <<settings, dialog, creating, edits>>

\* Mutant: the backup settings are not loaded.
Open_KeepsPolicy(v, who) == OpenFrom(v, who) /\ UNCHANGED policy

\* load_from_vault_data finds a policy or keeps the one in force.
Open(v, who) ==
    /\ OpenFrom(v, who)
    /\ policy' = IF file[v].backup # NoPolicy THEN file[v].backup ELSE policy

Save ==
    /\ IsOpen /\ ~Asking
    /\ file' = [file EXCEPT ![vault] = Contents(data, fec)]
    /\ UNCHANGED <<settings, manager, dialog, creating, edits>>

SaveIfItCan ==
    \E saved \in BOOLEAN :
        file' = IF saved THEN [file EXCEPT ![vault] = Contents(data, fec)] ELSE file

\* Mutant: reset_to_defaults is forgotten.
Close_KeepsRuntime ==
    /\ IsOpen
    /\ SaveIfItCan
    /\ vault' = NoVault /\ data' = <<>> /\ admin' = FALSE
    /\ UNCHANGED <<settings, runtime, policy, fec, dialog, creating, edits>>

\* close_vault: by the user; with the dialog on the screen by the timer, which
\* saves first if it can; or without saving by an opening that then fails.
Close ==
    /\ IsOpen
    /\ SaveIfItCan
    /\ Closed
    /\ UNCHANGED <<settings, policy, fec, dialog, creating, edits>>

Next ==
    \/ ShowDialog \/ EditScoped \/ EditBackup \/ EditCorrection
    \/ ToggleTarget \/ EditFips \/ EditHash \/ Cancel \/ Apply
    \/ \E v \in Vaults : StartNewVault(v)
    \/ FinishNewVault \/ NewVaultFails
    \/ \E v \in Vaults, who \in BOOLEAN : Open(v, who)
    \/ Save \/ Close

Spec == Init /\ [][Next]_vars
-----------------------------------------------------------------------------
Model == [scoped : [Keys -> Nat], backup : Policies, fec : Corrections,
          here : BOOLEAN, fips : BOOLEAN, hash : Hashes]
Stored == [scoped : [Keys -> Nat], backup : Policies \cup {NoPolicy},
           fec : Corrections, hash : Hashes]

\* The type invariant: every number that is stored, in force or on the screen
\* is one that the dialog could show, whatever sources it came through.
TypeOK ==
    /\ settings \in [scoped : [Keys -> Nat], backup : Policies, fec : Corrections,
                     fips : BOOLEAN, hash : Hashes]
    /\ DOMAIN file \subseteq Vaults
    /\ \A v \in DOMAIN file : file[v] \in Stored
    /\ vault \in DOMAIN file \cup {NoVault}
    /\ IF IsOpen THEN data \in Stored ELSE data = <<>>
    /\ admin \in BOOLEAN /\ runtime \in [Keys -> Nat]
    /\ policy \in Policies /\ fec \in Corrections
    /\ dialog \in [model : Model, open : BOOLEAN, admin : BOOLEAN, fips : BOOLEAN]
            \cup {NoDialog}
    /\ creating \in [vault : Vaults, hash : Hashes] \cup {NoCreation}
    /\ \A k \in Keys : Asking => dialog.model.scoped[k] \in Allowed(k)
    /\ edits \in 0..MaxEdits

\* What is in force is the open vault's own or the program's, and never what
\* another vault, or another session, left behind in the vault manager.
PreferencesBelongToVault ==
    \A k \in Keys :
        runtime[k] = Builtin[k] \/ (IsOpen /\ runtime[k] = data.scoped[k])

\* A vault that is open and stores backup settings is backed up by them,
\* whichever vault was open before and which defaults were applied meanwhile.
\* (Not so the save inside open_vault_v2 for a user whose name hash migrates: it
\* runs before the vault's own policy is loaded, with the one of before.)
BackupsFollowVault ==
    IsOpen /\ data.backup # NoPolicy => policy = data.backup
=============================================================================
