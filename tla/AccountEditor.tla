------------------------- MODULE AccountEditor -------------------------
(***************************************************************************)
(* The main window over the accounts of a vault: the list and the account  *)
(* selected in it, the fields of the detail pane with what was typed but   *)
(* not yet saved, the commands that can be undone and redone, the question *)
(* before a deletion, and opening, saving, closing and locking the vault.  *)
(* A vault may be opened or created over an open one: selection, pane and  *)
(* history stay, and the pane is saved into the new vault when its login   *)
(* is complete.  If the login's requirements are refused, the new vault    *)
(* stays open under a window that knows nothing of it.                     *)
(*                                                                         *)
(* All of it runs on the GTK main thread, so each callback is one action.  *)
(* Dialogs are modal, but the timer that locks the vault fires under them. *)
(* A save is atomic here, which is what VaultStore shows of it.            *)
(***************************************************************************)
EXTENDS Naturals, Sequences, SequencesExt

CONSTANTS
    Vaults,          \* vault files
    NoVault,
    FirstAccounts,   \* the accounts in every vault file at first
    Texts,           \* what the fields of an account may hold
    NewText,         \* "New Account", and empty fields
    Refused,         \* fields that validation or the password history refuses
    Limits,          \* the lengths of the history one can prefer
    MaxClock,        \* bound on the seconds that pass, hence on ids
    MaxAccounts      \* bound on the accounts of a vault

\* The id of an account is the second it was added in, none if imported.  Its star
\* is left out: setting it, undone or redone, changes nothing else of the list.
Account == [id : Nat, text : Texts \cup {NewText}]
Blank   == [id |-> 0, text |-> NewText]

ASSUME VaultsAssumption == NoVault \notin Vaults
ASSUME AccountsAssumption == FirstAccounts \in Seq(Account) /\ Refused \notin Texts
ASSUME BoundsAssumption ==
    Limits \subseteq Nat \ {0} /\ MaxClock \in Nat /\ MaxAccounts \in Nat

VARIABLES
    vault,      \* the vault that is open in VaultManager
    accounts,   \* m_vault_data's accounts
    modified,   \* m_modified
    stored,     \* the accounts in each vault file
    selected,   \* m_selected_account_index, from 1, or 0
    pane,       \* the detail pane: its fields and its m_is_modified
    undo, redo, \* m_undo_stack and m_redo_stack, top last
    offered,    \* whether the undo and redo actions are enabled, given a command
    prefs,      \* undo-redo-enabled and undo-history-limit
    asking,     \* the index whose deletion is to be confirmed, or 0
    closing,    \* whether "Save Changes?" is asked
    window,     \* whether the window shows a vault: the coordinator's vault_open
    pending,    \* a login's requirements are not met yet
    clock,      \* the time
    oldPane,    \* history: the selection was made in a vault that was open before
    oldHistory  \* history: some command was given in a vault that was open before

vaultVars == <<vault, accounts, modified>>
paneVars == <<selected, pane, oldPane>>
historyVars == <<undo, redo, offered, oldHistory>>
vars == <<vaultVars, stored, paneVars, historyVars, prefs, asking, closing, window,
          pending, clock>>

Command == [kind : {"add", "delete", "toggle"}, index : Nat, account : Account]
Pane == [text : Texts \cup {NewText, Refused}, edited : BOOLEAN]
EmptyPane == [text |-> NewText, edited |-> FALSE]

Init ==
    /\ vault = NoVault /\ accounts = <<>> /\ modified = FALSE
    /\ stored = [v \in Vaults |-> FirstAccounts]
    /\ selected = 0 /\ pane = EmptyPane
    /\ undo = <<>> /\ redo = <<>> /\ offered = FALSE
    /\ prefs \in [enabled : {TRUE}, limit : Limits]
    /\ asking = 0 /\ closing = FALSE /\ window = FALSE /\ pending = FALSE
    /\ clock = Len(FirstAccounts)
    /\ oldPane = FALSE /\ oldHistory = FALSE

IsOpen == vault # NoVault
\* No dialog covers the window.
Uncovered == asking = 0 /\ ~closing /\ ~pending
\* It takes commands: it shows a vault.
Ready == window /\ Uncovered

FirstWith(list, id) ==
    IF \E i \in 1..Len(list) : list[i].id = id
    THEN CHOOSE i \in 1..Len(list) :
            list[i].id = id /\ \A j \in 1..(i - 1) : list[j].id # id
    ELSE 0

-----------------------------------------------------------------------------
(* The detail pane *)

\* save_current_account writes the fields, if edited, into the selected account.
EditsTaken(list) ==
    selected \in 1..Len(list) /\ pane.edited /\ pane.text # Refused
Edited(list) ==
    IF EditsTaken(list) THEN [list EXCEPT ![selected].text = pane.text] ELSE list
SavedPane(list) == IF EditsTaken(list) THEN [pane EXCEPT !.edited = FALSE] ELSE pane

Display(i) ==
    /\ selected' = i /\ oldPane' = FALSE
    /\ pane' = [text |-> accounts'[i].text, edited |-> FALSE]

ClearDetails == selected' = 0 /\ oldPane' = FALSE /\ pane' = EmptyPane

\* mark_modified asks for no selection, nor for a vault: a control or the
\* generator may change the pane without.
Type(text) ==
    /\ Uncovered
    /\ pane' = [text |-> text, edited |-> TRUE]
    /\ UNCHANGED <<vaultVars, stored, selected, oldPane, historyVars, prefs, asking, closing,
                   window, pending, clock>>

\* Mutant: what is typed is not saved.
Select_Forgets(i) ==
    /\ Ready /\ i \in 1..Len(accounts)
    /\ accounts' = accounts
    /\ modified' = (modified \/ EditsTaken(accounts))
    /\ selected' = FirstWith(accounts, accounts[i].id)
    /\ UNCHANGED <<pane, oldPane, vault, stored, historyVars, prefs, asking, closing, window,
                   pending, clock>>

\* A click on row i: what was typed is saved, if it can be, and the first
\* account with the id of the row is displayed.  (A row of an earlier vault's
\* account does the first alone, as a Save does that cannot write.)
Select(i) ==
    /\ Ready /\ i \in 1..Len(accounts)
    /\ accounts' = Edited(accounts)
    /\ modified' = (modified \/ EditsTaken(accounts))
    /\ Display(FirstWith(accounts, accounts[i].id))
    /\ UNCHANGED <<vault, stored, historyVars, prefs, asking, closing, window, pending, clock>>

-----------------------------------------------------------------------------
(* Commands.  They refer to accounts by index. *)

\* The commands as they are made; a deletion takes a copy at once.
Addition(id) == [kind |-> "add", index |-> 0, account |-> [Blank EXCEPT !.id = id]]
Deletion(i)  == [kind |-> "delete", index |-> i, account |-> accounts[i]]
Toggling(i)  == [kind |-> "toggle", index |-> i, account |-> Blank]

Added(c)   == Append(accounts, c.account)
Removed(c) == RemoveAt(accounts, c.index)
Toggled(c) == accounts

Executes(c) == c.kind = "add" \/ c.index \in 1..Len(accounts)
Executed(c) ==
    CASE c.kind = "add"    -> Added(c)
      [] c.kind = "delete" -> Removed(c)
      [] c.kind = "toggle" -> Toggled(c)
AfterExecute(c) == IF c.kind = "add" THEN [c EXCEPT !.index = Len(accounts) + 1] ELSE c

\* Undoing a deletion appends.  Undoing an addition keeps what it deletes.
Reverts(c) == c.kind = "delete" \/ c.index \in 1..Len(accounts)
Reverted(c) ==
    CASE c.kind = "add"    -> Removed(c)
      [] c.kind = "delete" -> Added(c)
      [] c.kind = "toggle" -> Toggled(c)
\* Mutant: what is deleted is not kept.
AfterRevert_Stale(c) == c
AfterRevert(c) == IF c.kind = "add" THEN [c EXCEPT !.account = accounts[c.index]] ELSE c

\* The commands' callbacks into the window.  An addition, also when undone,
\* selects the first account with its id, unless a tag filter hides it.
Shown(c) ==
    IF c.kind = "toggle" THEN UNCHANGED paneVars
    ELSE \/ ClearDetails
         \/ /\ c.kind = "add"
            /\ FirstWith(accounts', c.account.id) # 0
            /\ Display(FirstWith(accounts', c.account.id))

\* The favorite flag changes through get_account_mutable, which marks nothing.
Marked(c) == modified' = (modified \/ c.kind # "toggle")

Pushed(stack, c) ==
    LET longer == Append(stack, c)
    IN  IF Len(longer) > prefs.limit THEN Tail(longer) ELSE longer

\* execute_command, or execute alone when the history is disabled; no command
\* does anything in a closed vault.
Recorded(c) ==
    /\ Marked(c) /\ Shown(c)
    /\ IF prefs.enabled
       THEN undo' = Pushed(undo, AfterExecute(c)) /\ redo' = <<>> /\ offered' = TRUE
       ELSE UNCHANGED <<undo, redo, offered>>
    /\ UNCHANGED oldHistory
Execute(c) ==
    /\ IsOpen /\ Executes(c)
    /\ accounts' = Executed(c)
    /\ Recorded(c)

\* What was typed is saved first.
Add ==
    /\ Ready /\ IsOpen /\ Len(accounts) < MaxAccounts
    /\ clock' \in (clock..MaxClock) \ {0}
    /\ accounts' = Append(Edited(accounts), Addition(clock').account)
    /\ Recorded(Addition(clock'))
    /\ UNCHANGED <<vault, stored, prefs, asking, closing, window, pending>>

\* The pane's button means the selected account, and so does the menu of a row
\* without an id, as after an import; other rows name theirs by its id.
AskDelete(i) ==
    /\ Ready /\ i \in 1..Len(accounts)
    /\ asking' \in {selected, FirstWith(accounts, accounts[i].id)}
    /\ accounts[i].id = 0 => asking' = selected
    /\ UNCHANGED <<vaultVars, stored, paneVars, historyVars, prefs, closing, window, pending,
                   clock>>

\* The dialog may outlive the vault, and meet another.
Delete ==
    /\ asking # 0 /\ ~closing
    /\ asking' = 0
    /\ IF IsOpen /\ asking <= Len(accounts)
       THEN Execute(Deletion(asking))
       ELSE UNCHANGED <<accounts, modified, paneVars, historyVars>>
    /\ UNCHANGED <<vault, stored, prefs, closing, window, pending, clock>>

DoNotDelete ==
    /\ asking # 0 /\ ~closing
    /\ asking' = 0
    /\ UNCHANGED <<vaultVars, stored, paneVars, historyVars, prefs, closing, window, pending,
                   clock>>

ToggleFavorite(i) ==
    /\ Ready /\ i \in 1..Len(accounts)
    /\ Execute(Toggling(FirstWith(accounts, accounts[i].id)))
    /\ UNCHANGED <<vault, stored, prefs, asking, closing, window, pending, clock>>

Undo ==
    /\ Ready /\ IsOpen /\ prefs.enabled /\ offered /\ undo # <<>>
    /\ Reverts(Last(undo))
    /\ accounts' = Reverted(Last(undo))
    /\ Len(accounts') <= MaxAccounts
    /\ Marked(Last(undo)) /\ Shown(Last(undo))
    /\ undo' = Front(undo) /\ redo' = Append(redo, AfterRevert(Last(undo)))
    /\ UNCHANGED <<vault, stored, offered, oldHistory, prefs, asking, closing, window, pending,
                   clock>>

Redo ==
    /\ Ready /\ IsOpen /\ prefs.enabled /\ offered /\ redo # <<>>
    /\ Executes(Last(redo))
    /\ accounts' = Executed(Last(redo))
    /\ Len(accounts') <= MaxAccounts
    /\ Marked(Last(redo)) /\ Shown(Last(redo))
    /\ undo' = Append(undo, AfterExecute(Last(redo))) /\ redo' = Front(redo)
    /\ UNCHANGED <<vault, stored, offered, oldHistory, prefs, asking, closing, window, pending,
                   clock>>

Newest(stack, n) == SubSeq(stack, Len(stack) - n + 1, Len(stack))
Trimmed(stack, n) == IF Len(stack) > n THEN Newest(stack, n) ELSE stack

NoHistory == undo' = <<>> /\ redo' = <<>> /\ oldHistory' = FALSE
ShorterHistory(limit) ==
    undo' = Trimmed(undo, limit) /\ redo' = Trimmed(redo, limit) /\ UNCHANGED oldHistory

\* The preferences dialog was closed, with or without a vault open.
SetPreferences(enabled, limit) ==
    /\ Uncovered
    /\ prefs' = [enabled |-> enabled, limit |-> limit]
    /\ IF enabled THEN ShorterHistory(limit) ELSE NoHistory
    /\ offered' = enabled
    /\ UNCHANGED <<vaultVars, stored, paneVars, asking, closing, window, pending, clock>>

Import(text) ==
    /\ Ready /\ IsOpen /\ Len(accounts) < MaxAccounts
    /\ accounts' = Append(accounts, [Blank EXCEPT !.text = text])
    /\ modified' = TRUE
    /\ UNCHANGED <<vault, stored, paneVars, historyVars, prefs, asking, closing, window,
                   pending, clock>>

-----------------------------------------------------------------------------
(* Opening, saving, closing and locking the vault *)

\* A dialog that was open when the vault was locked is under the login.
CanOpen == ~closing /\ ~pending /\ (window => asking = 0)

\* Another vault takes the place of the one that is open, if one is, whose
\* changes are lost; the window is not told.
Replaced ==
    /\ oldPane' = (selected # 0) /\ oldHistory' = (undo # <<>> \/ redo # <<>>)
    /\ UNCHANGED <<selected, pane, undo, redo, prefs, asking, closing, clock>>

\* open_vault_v2; every vault it opens is modified.
Login(v) ==
    /\ CanOpen
    /\ vault' = v /\ accounts' = stored[v] /\ modified' = TRUE
    /\ pending' = TRUE
    /\ Replaced /\ UNCHANGED <<stored, offered, window>>

\* So does a creation that fails, or is waiting for a YubiKey.
LoginFails ==
    /\ CanOpen /\ IsOpen
    /\ vault' = NoVault /\ accounts' = <<>> /\ modified' = FALSE
    /\ Replaced /\ UNCHANGED <<stored, offered, window, pending>>

\* The file is written anew.  The save of the preferences after it may fail.  What
\* complete_vault_opening does follows at once, without a save of the pane.
NewVault(v) ==
    /\ CanOpen
    /\ vault' = v /\ accounts' = <<>> /\ modified' \in BOOLEAN
    /\ stored' = [stored EXCEPT ![v] = <<>>]
    /\ window' = TRUE /\ offered' = FALSE
    /\ Replaced /\ UNCHANGED pending

\* save_current_account and save_vault, which may fail.
Saved ==
    /\ accounts' = Edited(accounts) /\ pane' = SavedPane(accounts)
    /\ \/ IsOpen /\ stored' = [stored EXCEPT ![vault] = accounts'] /\ modified' = FALSE
       \/ UNCHANGED stored /\ modified' = (modified \/ EditsTaken(accounts))

\* on_save_vault, which does nothing unless the window shows a vault, and
\* complete_vault_opening, which clears neither selection nor history.
CompleteOpening ==
    /\ pending /\ IsOpen /\ ~closing
    /\ IF window THEN Saved ELSE UNCHANGED <<accounts, modified, stored, pane>>
    /\ window' = TRUE /\ pending' = FALSE /\ offered' = FALSE
    /\ UNCHANGED <<vault, selected, oldPane, undo, redo, oldHistory, prefs, asking, closing, clock>>

\* The requirements are refused, or the vault was locked under them.
GiveUp ==
    /\ pending /\ ~closing
    /\ pending' = FALSE
    /\ UNCHANGED <<vaultVars, stored, paneVars, historyVars, prefs, asking, closing, window, clock>>

Save ==
    /\ Ready
    /\ Saved
    /\ UNCHANGED <<vault, selected, oldPane, historyVars, prefs, asking, closing, window, pending,
                   clock>>

\* Mutant: the history outlives the vault.
Closed_KeepsHistory ==
    /\ vault' = NoVault /\ accounts' = <<>> /\ modified' = FALSE
    /\ ClearDetails
    /\ UNCHANGED <<undo, redo, oldHistory>> /\ offered' = TRUE
    /\ closing' = FALSE /\ window' = FALSE

Closed ==
    /\ vault' = NoVault /\ accounts' = <<>> /\ modified' = FALSE
    /\ ClearDetails
    /\ NoHistory /\ offered' = TRUE
    /\ closing' = FALSE /\ window' = FALSE

\* on_close_vault, of a vault whose is_modified() is unsaved
CloseVault(unsaved) ==
    IF unsaved \/ EditsTaken(accounts)
    THEN /\ accounts' = Edited(accounts) /\ pane' = SavedPane(accounts)
         /\ modified' = TRUE
         /\ closing' = TRUE
         /\ UNCHANGED <<vault, selected, oldPane, historyVars, window>>
    ELSE Closed

Close ==
    /\ Ready
    /\ CloseVault(modified)
    /\ UNCHANGED <<stored, prefs, asking, pending, clock>>

\* handle_auto_lock_timeout and lock_vault: an open vault that is modified is
\* saved first.  The timer is stopped while "Save Changes?" is asked.
Lock ==
    /\ window /\ ~closing
    /\ \/ /\ modified
          /\ stored' = [stored EXCEPT ![vault] = Edited(accounts)]
          /\ Closed
       \/ /\ CloseVault(modified)
          /\ UNCHANGED stored
    /\ UNCHANGED <<prefs, asking, pending, clock>>

\* The answers to "Save Changes?".  A save that fails does not keep the vault open.
AnswerSave ==
    /\ closing
    /\ stored' \in {stored, [stored EXCEPT ![vault] = Edited(accounts)]}
    /\ Closed
    /\ UNCHANGED <<prefs, asking, pending, clock>>

AnswerDoNotSave ==
    /\ closing
    /\ Closed
    /\ UNCHANGED <<stored, prefs, asking, pending, clock>>

AnswerCancel ==
    /\ closing
    /\ closing' = FALSE
    /\ UNCHANGED <<vaultVars, stored, paneVars, historyVars, prefs, asking, window, pending,
                   clock>>

Next ==
    \/ \E text \in Texts \cup {Refused} : Type(text)
    \/ \E i \in 1..MaxAccounts : Select(i) \/ AskDelete(i) \/ ToggleFavorite(i)
    \/ Add \/ Delete \/ DoNotDelete \/ Undo \/ Redo
    \/ \E enabled \in BOOLEAN, limit \in Limits : SetPreferences(enabled, limit)
    \/ \E text \in Texts : Import(text)
    \/ \E v \in Vaults : Login(v) \/ NewVault(v)
    \/ LoginFails \/ CompleteOpening \/ GiveUp
    \/ Save \/ Close \/ Lock
    \/ AnswerSave \/ AnswerDoNotSave \/ AnswerCancel

Spec == Init /\ [][Next]_vars

-----------------------------------------------------------------------------
(* Properties *)

\* The types.  Questions about closing are asked of an open vault that the window
\* shows, and a closed vault has no accounts and nothing to save.
TypeOK ==
    /\ vault \in Vaults \cup {NoVault} /\ modified \in BOOLEAN
    /\ accounts \in Seq(Account) /\ stored \in [Vaults -> Seq(Account)]
    /\ selected \in Nat /\ pane \in Pane /\ oldPane \in BOOLEAN
    /\ undo \in Seq(Command) /\ redo \in Seq(Command)
    /\ offered \in BOOLEAN /\ oldHistory \in BOOLEAN
    /\ prefs \in [enabled : BOOLEAN, limit : Limits]
    /\ asking \in Nat /\ closing \in BOOLEAN /\ clock \in Nat
    /\ window \in BOOLEAN /\ pending \in BOOLEAN
    /\ closing => IsOpen /\ window
    /\ ~IsOpen => accounts = <<>> /\ ~modified

\* The pane shows the selected account, or what was typed over it: no command,
\* undone or redone, leaves the selected index pointing at another account or at
\* none.  (After a login or a creation over an open vault the selection is the
\* other vault's, until another account is selected: nothing is said of it.)
PaneShowsSelection ==
    selected # 0 /\ ~oldPane =>
        /\ selected <= Len(accounts)
        /\ pane.edited \/ pane.text = accounts[selected].text

\* What was typed over a selected account stays pending on it.  (Unless another
\* vault is opened over it, when it goes to whatever account has its place.)
PendingEditsStay ==
    [][ selected # 0 /\ pane.edited /\ pane'.edited /\ ~oldPane' =>
        /\ selected' = selected /\ vault' = vault
        /\ accounts'[selected].id = accounts[selected].id ]_vars

\* The latest command can always be undone, and what was undone last be redone:
\* no mixture of commands, imports, preferences, saves, locks and dialogs that
\* outlive them leaves an index out of range, at which UndoManager would be stuck.
\* (A vault opened over an open one meets the commands of the other, whose indices
\* may be any: as long as one of them is left, nothing is said.)
HistoryApplies ==
    ~oldHistory => /\ undo # <<>> => Reverts(Last(undo))
                   /\ redo # <<>> => Executes(Last(redo))

\* Whatever account undoing takes off the list, redoing has as it was, with
\* the edits made since it was added.
UndoKeepsRemoved ==
    [][ Undo /\ Len(accounts') < Len(accounts) =>
        accounts = InsertAt(accounts', Last(redo').index, Last(redo').account) ]_vars
=============================================================================
