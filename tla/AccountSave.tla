-------------------------- MODULE AccountSave --------------------------
(***************************************************************************)
(* Saving the account in the detail pane: validation, the permission for   *)
(* accounts that only administrators may delete, the password history and  *)
(* its settings, the controls that the pane offers to each role, and the   *)
(* generator's dialog, which the timer that locks the vault fires under.   *)
(*                                                                         *)
(* Of an account only its password, the history of it and the protection   *)
(* are told apart; an edit of another field, or of a tag, only makes the   *)
(* pane modified.  An account is a place in the list.  Logging in while a  *)
(* vault is open leaves the pane on the screen, over the accounts of what  *)
(* is opened then.  AccountEditor has the question that closing asks, and  *)
(* the commands.                                                           *)
(***************************************************************************)
EXTENDS Naturals, Sequences, SequencesExt, Functions

CONSTANTS
    VaultFiles, NoFile,
    Accounts, NoAccount, \* places in a list of accounts
    Passwords,       \* passwords one may type or have generated
    NoPassword,      \* an empty field
    TooLong,         \* typed text that validation refuses
    Limits           \* settings of password-history-limit

Account == [password : Passwords \cup {NoPassword}, history : Seq(Passwords),
            guarded : BOOLEAN]

ASSUME AccountsAssumption == NoAccount \notin Accounts /\ NoFile \notin VaultFiles
ASSUME PasswordsAssumption == NoPassword \notin Passwords /\ TooLong \notin Passwords
ASSUME LimitsAssumption == Limits \subseteq 1..20

VARIABLES
    stored,          \* the accounts in each vault file
    current,         \* the file that VaultManager has open, or NoFile
    accounts,        \* m_vault_data's accounts
    role,            \* the role of the session's user, or "none"
    window,          \* m_state.vault_open
    pending,         \* whether a login's further dialogs are on the screen
    shown,           \* the account of m_selected_account_index
    pane,            \* the detail pane: fields, m_is_modified, what can be operated
    historySettings, \* password-history-enabled and password-history-limit
    generating,      \* whether the generator's dialog is open
    lapsed,          \* history variable: accounts that changed without a history
    stale            \* history variable: the pane is of before the last login

vaults == <<stored, current, accounts, role, lapsed>>
screen == <<window, pending, shown, historySettings, generating, stale>>
saveVars == <<vaults, screen, pane>>

HistorySettings == [enabled : BOOLEAN, limit : Limits]
Pane == [password : Passwords \cup {NoPassword, TooLong}, guarded : BOOLEAN,
         edited : BOOLEAN, editable : BOOLEAN, privacy : BOOLEAN]

\* clear() leaves the privacy controls as sensitive as they were.
Cleared == [password |-> NoPassword, guarded |-> FALSE, edited |-> FALSE,
            editable |-> FALSE, privacy |-> pane.privacy]

Fresh == [password : {NoPassword}, history : {<<>>}, guarded : BOOLEAN]

SaveInit ==
    /\ stored \in [VaultFiles -> UNION {[places -> Fresh] : places \in SUBSET Accounts}]
    /\ current = NoFile /\ accounts = <<>> /\ role = "none"
    /\ window = FALSE /\ pending = FALSE /\ shown = NoAccount
    /\ pane = [password |-> NoPassword, guarded |-> FALSE, edited |-> FALSE,
               editable |-> FALSE, privacy |-> TRUE]
    /\ historySettings \in HistorySettings
    /\ generating = FALSE
    /\ lapsed = {} /\ stale = FALSE

-----------------------------------------------------------------------------
(* save_current_account.  Old is the account as the vault has it, if it does. *)

Old == accounts[shown]
Changed == pane.password # Old.password
Saving == shown \in DOMAIN accounts /\ pane.edited /\ pane.password # TooLong

\* Mutant: who may type in the pane may save it.
Permitted_ByPane == pane.editable
Permitted == role = "admin" \/ ~Old.guarded

\* Mutant: only the latest password is refused.
Reused_Latest ==
    /\ historySettings.enabled /\ Changed
    /\ Old.history # <<>> /\ pane.password = Last(Old.history)
Reused == historySettings.enabled /\ Changed /\ pane.password \in ToSet(Old.history)

Saves == Saving /\ Permitted /\ ~Reused
Denied == Saving /\ ~Permitted

\* The password replaced joins the history, which is then cut to its limit.
Archived ==
    IF historySettings.enabled /\ Changed /\ Old.password # NoPassword
    THEN LET all == Append(Old.history, Old.password)
             excess == Len(all) - historySettings.limit
         IN  IF excess > 0 THEN SubSeq(all, excess + 1, Len(all)) ELSE all
    ELSE Old.history

\* What the vault and the pane hold after it.  A refused permission displays
\* the fields that were typed as those of the account, editable and unmodified.
SavedAccounts ==
    IF Saves
    THEN [accounts EXCEPT ![shown] = [password |-> pane.password, history |-> Archived,
                                      guarded |-> pane.guarded]]
    ELSE accounts
SavedPane ==
    IF Saves THEN [pane EXCEPT !.edited = FALSE]
    ELSE IF Denied
    THEN [pane EXCEPT !.guarded = Old.guarded, !.edited = FALSE, !.editable = TRUE]
    ELSE pane
Lapses ==
    lapsed' = IF Saves /\ Changed /\ ~historySettings.enabled
              THEN lapsed \cup {<<current, shown>>} ELSE lapsed
SavePane == accounts' = SavedAccounts /\ Lapses

\* The vault is saved, or not: that may fail, and is not always wanted.
Written == stored' \in {stored, [stored EXCEPT ![current] = accounts']}

-----------------------------------------------------------------------------
(* The window *)

Ready == window /\ ~generating /\ ~pending

Displayed(account) ==
    [password |-> account.password, guarded |-> account.guarded, edited |-> FALSE,
     editable |-> role = "admin" \/ ~account.guarded, privacy |-> role = "admin"]

\* Mutant: the account is read before the pane is saved.
Select_ReadsFirst(a) ==
    /\ Ready /\ a \in DOMAIN accounts
    /\ SavePane
    /\ shown' = a /\ pane' = Displayed(accounts[a]) /\ stale' = FALSE
    /\ UNCHANGED <<stored, current, role, window, pending, historySettings, generating>>

\* Selecting another account, or the same, saves the pane whether it can or not.
Select(a) ==
    /\ Ready /\ a \in DOMAIN accounts
    /\ SavePane
    /\ shown' = a /\ pane' = Displayed(accounts'[a]) /\ stale' = FALSE
    /\ UNCHANGED <<stored, current, role, window, pending, historySettings, generating>>

\* Without a vault, or an account at the selected place, the pane stays as it is.
OnSave ==
    /\ SavePane /\ Written
    /\ pane' = SavedPane
    /\ stale' = (stale /\ ~Saves)

OnSaveVault ==
    /\ Ready /\ current # NoFile
    /\ OnSave
    /\ UNCHANGED <<current, role, window, pending, shown, historySettings, generating>>

Operates == ~generating /\ ~pending /\ UNCHANGED <<vaults, screen>>

Type(p) ==
    /\ Operates /\ pane.editable
    /\ pane' = [pane EXCEPT !.password = p, !.edited = TRUE]

\* "Admin-only deletable" can be ticked even when the pane is empty.
TickGuarded ==
    /\ Operates /\ pane.privacy
    /\ pane' = [pane EXCEPT !.guarded = ~@, !.edited = TRUE]

\* The button on a tag works in a pane that is read-only.
RemoveTag ==
    /\ Operates /\ shown # NoAccount
    /\ pane' = [pane EXCEPT !.edited = TRUE]

GeneratorIs(open) ==
    /\ generating' = open
    /\ UNCHANGED <<vaults, window, pending, shown, historySettings, stale>>

AskGenerate ==
    /\ ~generating /\ ~pending /\ pane.editable /\ shown # NoAccount
    /\ GeneratorIs(TRUE)
    /\ UNCHANGED pane

\* The dialog sets the pane's password, whatever the pane shows by now.
Generate(p) ==
    /\ generating
    /\ GeneratorIs(FALSE)
    /\ pane' = [pane EXCEPT !.password = p, !.edited = TRUE]

CancelGenerate ==
    /\ generating
    /\ GeneratorIs(FALSE)
    /\ UNCHANGED pane

\* With a vault open the preferences are the vault's, which no save reads.
SetHistory(new) ==
    /\ current = NoFile /\ ~generating /\ new # historySettings
    /\ historySettings' = new
    /\ UNCHANGED <<vaults, window, pending, shown, generating, stale, pane>>

-----------------------------------------------------------------------------
(* Logging in, also while a vault is open, which VaultManager closes first *)

LoginDialog == generating => ~window

Login(file, as) ==
    /\ LoginDialog
    /\ current' = file /\ role' = as /\ accounts' = stored[file]
    /\ pending' = TRUE
    /\ stale' = (shown # NoAccount)
    /\ UNCHANGED <<stored, lapsed, window, shown, pane, historySettings, generating>>

LoginFails ==
    /\ LoginDialog /\ current # NoFile
    /\ current' = NoFile /\ role' = "none" /\ accounts' = <<>>
    /\ stale' = (shown # NoAccount)
    /\ UNCHANGED <<stored, lapsed, window, pending, shown, pane, historySettings, generating>>

\* The success callback, at once or after a change of password or an enrollment:
\* if the window had a vault already, the pane of it is saved into the new one.
CompleteOpening ==
    /\ pending /\ current # NoFile
    /\ IF window THEN OnSave ELSE UNCHANGED <<stored, accounts, lapsed, pane, stale>>
    /\ pending' = FALSE /\ window' = TRUE
    /\ UNCHANGED <<current, role, shown, historySettings, generating>>

\* A required change or enrollment is cancelled: the vault stays open.
GiveUp ==
    /\ pending /\ pending' = FALSE
    /\ UNCHANGED <<vaults, window, shown, historySettings, generating, stale, pane>>

\* The vault is closed or locked, also under a dialog.  What the pane could not
\* save is gone.
OnCloseVault ==
    /\ window /\ window' = FALSE
    /\ LET closed == SavedAccounts
       IN stored' \in {stored} \cup
            {[stored EXCEPT ![file] = closed] : file \in VaultFiles \cap {current}}
    /\ Lapses
    /\ current' = NoFile /\ accounts' = <<>> /\ role' = "none"
    /\ shown' = NoAccount /\ pane' = Cleared /\ stale' = FALSE
    /\ UNCHANGED <<pending, historySettings, generating>>

SaveNext ==
    \/ \E a \in Accounts : Select(a)
    \/ \E p \in Passwords \cup {NoPassword, TooLong} : Type(p)
    \/ \E p \in Passwords : Generate(p)
    \/ OnSaveVault \/ TickGuarded \/ RemoveTag \/ AskGenerate \/ CancelGenerate
    \/ \E new \in HistorySettings : SetHistory(new)
    \/ \E file \in VaultFiles, as \in {"admin", "standard"} : Login(file, as)
    \/ LoginFails \/ CompleteOpening \/ GiveUp \/ OnCloseVault

SaveSpec == SaveInit /\ [][SaveNext]_saveVars

-----------------------------------------------------------------------------
(* Properties *)

IsVault(v) == DOMAIN v \subseteq Accounts /\ v \in [DOMAIN v -> Account]

\* The types.  Without an account shown nothing can be typed, and a session that
\* was not opened over another shows no account that its vault lacks.
SaveTypeOK ==
    /\ stored = [file \in VaultFiles |-> stored[file]]
    /\ \A file \in VaultFiles : IsVault(stored[file])
    /\ current \in VaultFiles \cup {NoFile}
    /\ IsVault(accounts)
    /\ role \in {"none", "admin", "standard"}
    /\ (current = NoFile) <=> (role = "none")
    /\ current = NoFile => accounts = <<>>
    /\ window \in BOOLEAN /\ pending \in BOOLEAN
    /\ shown \in Accounts \cup {NoAccount} /\ pane \in Pane
    /\ historySettings \in HistorySettings
    /\ generating \in BOOLEAN /\ stale \in BOOLEAN
    /\ lapsed \subseteq VaultFiles \X Accounts
    /\ shown = NoAccount => ~pane.editable /\ ~stale
    /\ shown # NoAccount /\ ~stale => shown \in DOMAIN accounts

RepeatsNothing(account) ==
    IsInjective(account.history) /\ account.password \notin ToSet(account.history)

\* No password comes back while the history remembers it, for accounts that
\* never changed with the history disabled: whatever the limits in between, and
\* whichever vault's pane is saved, no account has a password that its history
\* holds, nor that twice.
NoPasswordReused ==
    /\ \A a \in DOMAIN accounts : <<current, a>> \notin lapsed => RepeatsNothing(accounts[a])
    /\ \A file \in VaultFiles : \A a \in DOMAIN stored[file] :
        <<file, a>> \notin lapsed => RepeatsNothing(stored[file][a])

KeepsGuarded ==
    \A v \in VaultFiles : \A a \in DOMAIN stored[v] :
        role = "standard" /\ stored[v][a].guarded =>
            a \in DOMAIN stored'[v] /\ stored'[v][a] = stored[v][a]

\* A protected account stays in its file as it is during sessions of standard
\* users, although their panes get modified, show the account of another vault
\* or of an administrator's session, and once refused are editable.
GuardedStays == [][KeepsGuarded]_saveVars

\* An account shown as unmodified is shown as the vault has it, except to a
\* standard user whose edits of a protected account were refused.  (And except
\* after a login over an open vault, until a save or a selection: the pane is
\* of before.)
UnmodifiedShowsSaved ==
    shown # NoAccount /\ ~stale /\ ~pane.edited /\ Permitted =>
        pane.password = Old.password /\ pane.guarded = Old.guarded
=============================================================================
